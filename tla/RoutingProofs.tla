--------------------------- MODULE RoutingProofs ----------------------------
(***************************************************************************)
(* Proofs about the way of a message to an actor: who owns an actor        *)
(* (Ownership), which owner a sender sees (Routing), and where its         *)
(* messages end (Delivery).                                                *)
(***************************************************************************)
EXTENDS Ownership, Routing, Delivery, FiniteSetTheorems, WellFoundedInduction, TLAPS

-----------------------------------------------------------------------------
(***************************************************************************)
(* Ownership. The recursive pass over a list of nodes is unfolded by the   *)
(* existence of the function it defines (least counterexample over the     *)
(* length), and found to hold the first of the nodes seen so far.          *)
(***************************************************************************)

\* Every set of numbers that is not empty has a least one.
LEMMA LeastNat ==
  ASSUME NEW T \in SUBSET Nat, T # {}
  PROVE  \E x \in T : \A y \in T : x <= y
<1> DEFINE R == {ss \in Nat \X Nat : ss[1] < ss[2]}
<1>1. IsWellFoundedOn(R, Nat)
  BY NatLessThanWellFounded DEF OpToRel
<1>2. PICK x \in T : \A y \in T : ~(<<y, x>> \in R)
  <2> HIDE DEF R
  <2> QED
    BY <1>1, WFMin, Zenon
<1>3. ASSUME NEW y \in T PROVE x <= y
  <2>1. x \in Nat /\ y \in Nat /\ (<<y, x>> \in R <=> y < x)
    OBVIOUS
  <2> QED
    BY <1>2, <2>1
<1> QED
  BY <1>3

\* The nodes a snapshot may list, and what the pass has found before it starts.
Candidates == [addr : Nat, score : Nat, hosts : BOOLEAN]
Nothing == [score |-> 0, addr |-> NoAddr]
\* What the pass has found after one more node.
Takes(n, best) == IF n.hosts /\ n.addr # NoAddr /\ Better(n, best) THEN n ELSE best

\* g is what a pass over the first k nodes of list has found after each of them.
IsScan(g, list, k) == g = [i \in 0 .. k |-> IF i = 0 THEN Nothing ELSE Takes(list[i], g[i - 1])]

\* There is such a function, so that it is the one the recursive definition means.
LEMMA ScanExists ==
  ASSUME NEW list, NEW k \in Nat
  PROVE  \E g : IsScan(g, list, k)
<1> DEFINE T == {j \in Nat : ~\E g : IsScan(g, list, j)}
<1> SUFFICES ASSUME T # {} PROVE FALSE
  OBVIOUS
<1>1. PICK j \in T : \A i \in T : j <= i
  <2> HIDE DEF T
  <2>1. T \in SUBSET Nat
    BY DEF T
  <2> QED
    BY <2>1, LeastNat
<1>2. j \in Nat /\ ~\E g : IsScan(g, list, j)
  OBVIOUS
<1>3. CASE j = 0
  <2>1. IsScan([i \in 0 .. 0 |-> Nothing], list, 0)
    BY DEF IsScan
  <2> QED
    BY <1>2, <1>3, <2>1
<1>4. CASE j # 0
  <2>1. j - 1 \in Nat /\ j - 1 \notin T
    BY <1>1, <1>2, <1>4
  <2>2. PICK g : IsScan(g, list, j - 1)
    BY <2>1
  <2> DEFINE h == [i \in 0 .. j |-> IF i = j THEN Takes(list[j], g[j - 1]) ELSE g[i]]
  <2>3. ASSUME NEW i \in 0 .. j
        PROVE  h[i] = IF i = 0 THEN Nothing ELSE Takes(list[i], h[i - 1])
    <3>1. CASE i = j
      <4>1. i - 1 \in 0 .. j /\ i - 1 # j /\ i # 0
        BY <1>2, <1>4, <3>1
      <4> QED
        BY <3>1, <4>1
    <3>2. CASE i # j
      <4>1. i \in 0 .. j - 1 /\ (i # 0 => i - 1 \in 0 .. j /\ i - 1 # j)
        BY <1>2, <3>2
      <4>2. h[i] = g[i] /\ (i # 0 => h[i - 1] = g[i - 1])
        BY <3>2, <4>1
      <4>3. g[i] = IF i = 0 THEN Nothing ELSE Takes(list[i], g[i - 1])
        BY <2>2, <4>1 DEF IsScan
      <4> QED
        BY <4>2, <4>3
    <3> QED
      BY <3>1, <3>2
  <2>4. IsScan(h, list, j)
    <3>1. h = [i \in 0 .. j |-> h[i]]
      OBVIOUS
    <3> HIDE DEF h
    <3> QED
      BY <2>3, <3>1, Zenon DEF IsScan
  <2> QED
    BY <1>2, <2>4
<1> QED
  BY <1>3, <1>4

\* The recursive definition is the pass it describes.
LEMMA ScanSteps ==
  ASSUME NEW list, Len(list) \in Nat
  PROVE  IsScan(Scan(list), list, Len(list))
<1> DEFINE P(g) == IsScan(g, list, Len(list))
<1>1. \E g : P(g)
  BY ScanExists
<1>2. Scan(list) = CHOOSE g : P(g)
  BY DEF Scan, IsScan, Takes, Nothing
<1>3. P(CHOOSE g : P(g))
  <2> HIDE DEF P
  <2> QED
    BY <1>1
<1> QED
  BY <1>2, <1>3

\* n may own the actor.
Eligible(n) == n.hosts /\ n.addr # NoAddr

\* w comes first among the eligible nodes of S: the greatest score, and of these the least address.
First(w, S) ==
  /\ w \in S /\ Eligible(w)
  /\ \A n \in S : Eligible(n) => w.score > n.score \/ (w.score = n.score /\ w.addr <= n.addr)

\* The nodes of the list the pass has seen.
Prefix(list, i) == {list[j] : j \in 1 .. i}

\* What the pass has found after i nodes comes first among them.
FoundFirst(list, i) ==
  \/ First(Scan(list)[i], Prefix(list, i))
  \/ Scan(list)[i] = Nothing /\ \A n \in Prefix(list, i) : ~Eligible(n)

\* After every node the pass has found the first among those it has seen.
LEMMA ScanFirst ==
  ASSUME NEW list \in Seq(Candidates), NEW i \in 0 .. Len(list)
  PROVE  FoundFirst(list, i)
<1> DEFINE T == {j \in 0 .. Len(list) : ~FoundFirst(list, j)}
<1> SUFFICES ASSUME T # {} PROVE FALSE
  OBVIOUS
<1>1. PICK j \in T : \A k \in T : j <= k
  <2> HIDE DEF T
  <2>1. T \in SUBSET Nat
    BY DEF T
  <2> QED
    BY <2>1, LeastNat
<1>2. j \in 0 .. Len(list) /\ ~FoundFirst(list, j) /\ Len(list) \in Nat
  OBVIOUS
<1>3. Scan(list)[j] = IF j = 0 THEN Nothing ELSE Takes(list[j], Scan(list)[j - 1])
  BY <1>2, ScanSteps DEF IsScan
<1>4. CASE j = 0
  BY <1>2, <1>3, <1>4 DEF FoundFirst, Prefix
<1>5. CASE j # 0
  <2> DEFINE n == list[j]
             b == Scan(list)[j - 1]
             B == Prefix(list, j - 1)
  <2>1. j - 1 \in 0 .. Len(list) /\ j - 1 \notin T /\ j \in 1 .. Len(list)
    BY <1>1, <1>2, <1>5
  <2>2. FoundFirst(list, j - 1)
    BY <2>1
  <2>3. Prefix(list, j) = B \cup {n}
    BY <1>2, <1>5 DEF Prefix
  <2>4. n \in Candidates /\ B \subseteq Candidates
    BY <1>2, <2>1 DEF Prefix
  <2>5. Scan(list)[j] = IF Eligible(n) /\ Better(n, b) THEN n ELSE b
    BY <1>3, <1>5 DEF Takes, Eligible
  <2>6. CASE First(b, B)
    <3>1. b \in Candidates /\ b.addr # NoAddr
      BY <2>4, <2>6 DEF First, Eligible
    <3>2. FoundFirst(list, j)
      <4> HIDE DEF n, b, B
      <4>1. First(IF Eligible(n) /\ Better(n, b) THEN n ELSE b, B \cup {n})
        <5>1. /\ n.score \in Nat /\ n.addr \in Nat /\ b.score \in Nat /\ b.addr \in Nat
              /\ \A m \in B : m.score \in Nat /\ m.addr \in Nat
          BY <2>4, <3>1 DEF Candidates
        <5>2. Better(n, b) <=> n.score > b.score \/ (n.score = b.score /\ n.addr < b.addr)
          BY <3>1 DEF Better
        <5>3. CASE Eligible(n) /\ Better(n, b)
          BY <2>6, <5>1, <5>2, <5>3, SMTT(30) DEF First
        <5>4. CASE ~(Eligible(n) /\ Better(n, b))
          BY <2>6, <5>1, <5>2, <5>4 DEF First
        <5> QED
          BY <5>3, <5>4
      <4> QED
        BY <2>3, <2>5, <4>1 DEF FoundFirst
    <3> QED
      BY <1>2, <3>2
  <2>7. CASE b = Nothing /\ \A m \in B : ~Eligible(m)
    <3>1. Better(n, b)
      BY <2>4, <2>7 DEF Better, Nothing, Candidates
    <3>2. FoundFirst(list, j)
      <4> HIDE DEF n, b, B
      <4>1. CASE Eligible(n)
        <5>1. First(n, B \cup {n})
          BY <2>4, <2>7, <4>1 DEF First, Candidates
        <5> QED
          BY <2>3, <2>5, <3>1, <4>1, <5>1 DEF FoundFirst
      <4>2. CASE ~Eligible(n)
        BY <2>3, <2>5, <2>7, <4>2 DEF FoundFirst
      <4> QED
        BY <4>1, <4>2
    <3> QED
      BY <1>2, <3>2
  <2> QED
    BY <2>2, <2>6, <2>7 DEF FoundFirst
<1> QED
  BY <1>4, <1>5

\* A list of S has the nodes of S, once each.
LEMMA Listed ==
  ASSUME NEW S, IsFiniteSet(S), S \subseteq Candidates, NEW list \in SetToSeqs(S)
  PROVE  list \in Seq(Candidates) /\ Prefix(list, Len(list)) = S
<1> DEFINE k == Cardinality(S)
<1>1. k \in Nat
  BY FS_CardinalityType
<1>2. list \in [1 .. k -> S] /\ \A i, j \in 1 .. k : i # j => list[i] # list[j]
  BY DEF SetToSeqs
<1> HIDE DEF k
<1>3. list \in Seq(Candidates) /\ Len(list) = k
  BY <1>1, <1>2
<1>4. list \in Injection(1 .. k, S)
  BY <1>2 DEF Injection, IsInjective
<1>5. IsFiniteSet(1 .. k) /\ Cardinality(1 .. k) = k
  BY <1>1, FS_Interval
<1>6. list \in Surjection(1 .. k, S)
  BY <1>4, <1>5, FS_Injection DEF k
<1>7. \A x \in S : \E i \in 1 .. k : list[i] = x
  BY <1>6 DEF Surjection
<1> QED
  BY <1>2, <1>3, <1>7 DEF Prefix

\* a is the owner among the nodes of S.
Owner(a, S) ==
  \/ \E w \in S : First(w, S) /\ a = w.addr
  \/ a = NoAddr /\ \A n \in S : ~Eligible(n)

\* There is one owner among the nodes of a finite set.
LEMMA OwnerUnique ==
  ASSUME NEW S \in SUBSET Candidates, NEW a, NEW b, Owner(a, S), Owner(b, S)
  PROVE  a = b
<1>1. CASE \E n \in S : Eligible(n)
  <2>1. PICK v \in S : First(v, S) /\ a = v.addr
    BY <1>1 DEF Owner
  <2>2. PICK w \in S : First(w, S) /\ b = w.addr
    BY <1>1 DEF Owner
  <2>3. v.score \in Nat /\ v.addr \in Nat /\ w.score \in Nat /\ w.addr \in Nat
    BY DEF Candidates
  <2> QED
    BY <2>1, <2>2, <2>3 DEF First
<1>2. CASE \A n \in S : ~Eligible(n)
  BY <1>2 DEF Owner, First
<1> QED
  BY <1>1, <1>2

\* Whatever the order of the snapshot, the pass finds the owner.
LEMMA OwnersOwner ==
  ASSUME NEW S \in SUBSET Candidates, IsFiniteSet(S)
  PROVE  \E a : Owners(S) = {a} /\ Owner(a, S)
<1>1. ASSUME NEW list \in SetToSeqs(S) PROVE Owner(CalcAddr(list), S)
  <2>1. list \in Seq(Candidates) /\ Prefix(list, Len(list)) = S
    BY <1>1, Listed
  <2>2. FoundFirst(list, Len(list))
    BY <2>1, ScanFirst
  <2> QED
    BY <2>1, <2>2 DEF FoundFirst, Owner, First, CalcAddr, Nothing
<1>2. PICK list : list \in SetToSeqs(S)
  <2>1. Cardinality(S) \in Nat /\ ExistsBijection(1 .. Cardinality(S), S)
    BY FS_CardinalityType
  <2> QED
    BY <2>1 DEF ExistsBijection, Bijection, Injection, IsInjective, SetToSeqs
<1>3. CalcAddr(list) \in Owners(S)
  BY <1>2 DEF Owners
<1>4. \A a \in Owners(S) : Owner(a, S)
  BY <1>1 DEF Owners
<1>5. \A a \in Owners(S) : a = CalcAddr(list)
  BY <1>3, <1>4, OwnerUnique
<1> QED
  BY <1>3, <1>4, <1>5, SMTT(30)

\* The nodes of the cluster are nodes, finitely many.
OwnershipInv == cluster \subseteq Members /\ IsFiniteSet(cluster)

\* Joins and departures keep them so.
LEMMA OwnershipInvariance == OwnershipSpec => []OwnershipInv
<1>1. OwnershipInit => OwnershipInv
  BY FS_EmptySet DEF OwnershipInit, OwnershipInv
<1>2. OwnershipInv /\ [OwnershipNext]_cluster => OwnershipInv'
  BY FS_AddElement, FS_RemoveElement DEF OwnershipInv, OwnershipNext, Join, Leave
<1> QED
  BY <1>1, <1>2, PTL DEF OwnershipSpec

\* All orders of the snapshot give the same owner.
LEMMA InvOwner == OwnershipInv => \E a : Owners(cluster) = {a} /\ Owner(a, cluster)
BY MembersAssumption, OwnersOwner DEF OwnershipInv, Candidates

(***************************************************************************)
(* CalcAddrByKind8Name gives one owner for all orders of the snapshot, and *)
(* one whenever some node with an address hosts the kind, for any scores   *)
(* and any finite set of nodes.                                            *)
(***************************************************************************)
THEOREM OwnersAgree == OwnershipSpec => []OwnerAgreed
<1>1. OwnershipInv => OwnerAgreed
  <2> SUFFICES ASSUME OwnershipInv PROVE OwnerAgreed
    OBVIOUS
  <2>1. PICK a : Owners(cluster) = {a} /\ Owner(a, cluster)
    BY InvOwner
  <2>2. a = NoAddr <=> ~\E n \in cluster : n.hosts /\ n.addr # NoAddr
    BY <2>1 DEF Owner, First, Eligible
  <2> QED
    BY <2>1, <2>2 DEF OwnerAgreed
<1> QED
  BY <1>1, OwnershipInvariance, PTL

(***************************************************************************)
(* A node that joins or leaves moves the actor only to itself or away from *)
(* itself.                                                                 *)
(***************************************************************************)
THEOREM OwnersStay == OwnershipSpec => LeastDisruption
<1> DEFINE Moves ==
      \A a \in Owners(cluster), b \in Owners(cluster') :
        a # b => \/ \E n \in cluster \ cluster' : n.addr = a
                 \/ \E n \in cluster' \ cluster : n.addr = b
<1>1. OwnershipInv /\ OwnershipInv' /\ [OwnershipNext]_cluster => [Moves]_cluster
  <2> SUFFICES ASSUME OwnershipInv, OwnershipInv', OwnershipNext,
                      NEW a \in Owners(cluster), NEW b \in Owners(cluster'), a # b
               PROVE  \/ \E n \in cluster \ cluster' : n.addr = a
                      \/ \E n \in cluster' \ cluster : n.addr = b
    OBVIOUS
  <2>1. Owner(a, cluster) /\ cluster \in SUBSET Candidates
    BY InvOwner, MembersAssumption DEF OwnershipInv, Candidates
  <2>2. Owner(b, cluster') /\ cluster' \in SUBSET Candidates
    BY OwnersOwner, MembersAssumption DEF OwnershipInv, Candidates
  <2>3. ASSUME NEW n \in Members, Join(n) PROVE n \in cluster' \ cluster /\ n.addr = b
    <3>1. n \notin cluster /\ cluster' = cluster \cup {n}
      BY <2>3 DEF Join
    <3> SUFFICES ASSUME n.addr # b PROVE Owner(b, cluster)
      BY <2>1, <3>1, OwnerUnique
    <3> QED
      BY <2>2, <3>1 DEF Owner, First
  <2>4. ASSUME NEW n \in Members, Leave(n) PROVE n \in cluster \ cluster' /\ n.addr = a
    <3>1. n \in cluster /\ cluster' = cluster \ {n}
      BY <2>4 DEF Leave
    <3> SUFFICES ASSUME n.addr # a PROVE Owner(a, cluster')
      BY <2>2, <3>1, OwnerUnique
    <3> QED
      BY <2>1, <3>1 DEF Owner, First
  <2> QED
    BY <2>3, <2>4 DEF OwnershipNext
<1> QED
  BY <1>1, OwnershipInvariance, PTL DEF OwnershipSpec, LeastDisruption

-----------------------------------------------------------------------------
(***************************************************************************)
(* Routing. A sender works with a version it read before, and every        *)
(* version it can meet later is newer.                                     *)
(***************************************************************************)

\* s is the node set of a published version.
Published(s) == s.version \in DOMAIN history /\ s.nodes = history[s.version]

\* a is an owner in version v.
OwnedIn(v, a) == v \in DOMAIN history /\ a \in Owners(history[v])

\* The types of the resolver's state.
SenderTypes ==
  /\ at \in [Senders -> {"idle", "load", "lock", "nodes", "store", "cache", "miss"}]
  /\ hint \in [Senders -> Nat] /\ began \in [Senders -> Nat]
  /\ gen = [g \in Senders |-> gen[g]] /\ route = [g \in Senders |-> route[g]]

\* The snapshot is the latest version that was published, and a change not yet published is newer.
ProviderInv ==
  /\ version \in Nat /\ DOMAIN history \subseteq Nat
  /\ Published(snap) /\ \A v \in DOMAIN history : v <= snap.version
  /\ snap.version <= version /\ (dirty => snap.version < version)

\* What a resolution works with, from its first read to its last.
SenderInv(g) ==
  /\ at[g] # "idle" => began[g] <= hint[g] /\ began[g] <= snap.version
  /\ at[g] \in {"store", "cache", "miss"} => Published(gen[g]) /\ gen[g].version >= began[g]
  /\ route[g] # None => OwnedIn(route[g].version, route[g].addr) /\ route[g].version >= began[g]

\* The cached route and the generation name published versions.
CacheInv ==
  /\ generation # None => Published(generation)
  /\ entry # None /\ entry.mine => OwnedIn(entry.version, entry.addr)

\* The inductive invariant.
RoutingInv ==
  /\ SenderTypes /\ ProviderInv /\ CacheInv
  /\ \A g \in Senders : SenderInv(g)

\* Nothing is published and nothing cached.
LEMMA RoutingInvInit == RoutingInit => RoutingInv
BY DEF RoutingInit, RoutingInv, SenderTypes, ProviderInv, CacheInv, Published, SenderInv

\* A new version leaves the earlier ones as they were.
LEMMA ProviderStep ==
  ASSUME RoutingInv, PublishNodes \/ (\E n \in Routable : ApplyMember(n))
  PROVE  RoutingInv'
<1> USE DEF RoutingInv, SenderTypes, ProviderInv
<1>1. /\ UNCHANGED <<generation, entry, at, hint, gen, route, began>>
      /\ DOMAIN history \subseteq DOMAIN history'
      /\ \A v \in DOMAIN history : history'[v] = history[v]
      /\ snap'.version >= snap.version
  BY DEF PublishNodes, ApplyMember, senderVars, Published
<1>2. ProviderInv'
  BY DEF PublishNodes, ApplyMember, Published
<1>3. ASSUME NEW g \in Senders PROVE SenderInv(g)'
  BY <1>1, <1>2, SMTT(30) DEF SenderInv, Published, OwnedIn
<1>4. SenderTypes' /\ CacheInv'
  BY <1>1 DEF CacheInv, Published, OwnedIn
<1> QED
  BY <1>2, <1>3, <1>4

\* currentGeneration reads the published version and refreshes the generation.
LEMMA GenerationStep ==
  ASSUME RoutingInv, NEW g \in Senders,
         ReadVersion(g) \/ LoadGeneration(g) \/ LockRefresh(g) \/ GetNodes(g) \/ StoreGeneration(g)
  PROVE  RoutingInv'
<1> USE DEF RoutingInv, SenderTypes, provider
<1>1. UNCHANGED <<provider, entry>>
  BY DEF ReadVersion, LoadGeneration, LockRefresh, GetNodes, StoreGeneration
<1>2. ProviderInv'
  BY <1>1, SMTT(30) DEF ProviderInv, Published
<1>3. SenderTypes'
  BY <1>1 DEF ReadVersion, LoadGeneration, LockRefresh, GetNodes, StoreGeneration, Published, ProviderInv
<1>6. CacheInv'
  BY <1>1, SMTT(30) DEF ReadVersion, LoadGeneration, LockRefresh, GetNodes, StoreGeneration,
     Published, CacheInv, SenderInv, OwnedIn
<1>4. ASSUME NEW h \in Senders, h # g PROVE SenderInv(h)'
  BY <1>1, <1>4, SMTT(30) DEF ReadVersion, LoadGeneration, LockRefresh, GetNodes, StoreGeneration,
     SenderInv, Published, OwnedIn
<1>5. SenderInv(g)'
  <2> USE DEF SenderInv, Published, OwnedIn, ProviderInv
  <2>1. CASE ReadVersion(g)
    BY <1>1, <2>1 DEF ReadVersion
  <2>2. CASE LoadGeneration(g) \/ LockRefresh(g)
    BY <1>1, <2>2, SMTT(30) DEF LoadGeneration, LockRefresh, Current, CacheInv
  <2>3. CASE GetNodes(g)
    BY <1>1, <2>3 DEF GetNodes
  <2>4. CASE StoreGeneration(g)
    BY <1>1, <2>4, SMTT(30) DEF StoreGeneration, CacheInv
  <2> QED
    BY <2>1, <2>2, <2>3, <2>4
<1> QED
  BY <1>2, <1>3, <1>4, <1>5, <1>6

\* resolve reads the cache or scans the snapshot, and stores the route.
LEMMA ResolveStep ==
  ASSUME RoutingInv, NEW g \in Senders, Lookup(g) \/ ResolveMiss(g)
  PROVE  RoutingInv'
<1> USE DEF RoutingInv, SenderTypes, provider
<1>1. UNCHANGED <<provider, generation, began>>
  BY DEF Lookup, ResolveMiss, Done
<1>2. ProviderInv'
  BY <1>1 DEF ProviderInv, Published
<1>3. CacheInv'
  <2>1. CASE UNCHANGED entry
    BY <1>1, <2>1 DEF CacheInv, Published, OwnedIn
  <2>2. CASE ~UNCHANGED entry
    <3>1. PICK a \in Owners(gen[g].nodes) :
            at[g] = "miss" /\ entry' = [mine |-> TRUE, version |-> gen[g].version, addr |-> a]
      BY <2>2, Zenon DEF Lookup, ResolveMiss
    <3>2. OwnedIn(gen[g].version, a)
      BY <3>1 DEF SenderInv, Published, OwnedIn
    <3> QED
      BY <1>1, <3>1, <3>2 DEF CacheInv, Published, OwnedIn
  <2> QED
    BY <2>1, <2>2
<1>4. SenderTypes'
  BY <1>1, SMTT(30) DEF Lookup, ResolveMiss, Done
<1>5. ASSUME NEW h \in Senders, h # g PROVE SenderInv(h)'
  BY <1>1, <1>5 DEF Lookup, ResolveMiss, Done, SenderInv, Published, OwnedIn
<1>6. SenderInv(g)'
  <2>1. CASE Lookup(g)
    BY <1>1, <2>1, SMTT(30) DEF Lookup, Done, Hit, SenderInv, Published, OwnedIn, CacheInv
  <2>2. CASE ResolveMiss(g)
    <3>1. PICK r : Done(g, r) /\ OwnedIn(r.version, r.addr) /\ r.version = gen[g].version
      <4>1. CASE Hit(g)
        BY <2>2, <4>1 DEF ResolveMiss, Hit, CacheInv
      <4>2. CASE ~Hit(g)
        <5>1. PICK a \in Owners(gen[g].nodes) : Done(g, [version |-> gen[g].version, addr |-> a])
          BY <2>2, <4>2, Zenon DEF ResolveMiss
        <5>2. OwnedIn(gen[g].version, a)
          BY <2>2, <5>1 DEF ResolveMiss, SenderInv, Published, OwnedIn
        <5> QED
          BY <5>1, <5>2
      <4> QED
        BY <4>1, <4>2
    <3>2. at'[g] = "idle" /\ route'[g] = r /\ gen[g].version >= began[g]
      BY <2>2, <3>1 DEF ResolveMiss, Done, SenderInv
    <3> QED
      BY <1>1, <3>1, <3>2 DEF SenderInv, OwnedIn
  <2> QED
    BY <2>1, <2>2, SMTT(30)
<1> QED
  BY <1>2, <1>3, <1>4, <1>5, <1>6

\* Versions, snapshots, generation and cached route agree in every reachable state.
THEOREM RoutingInvariance == RoutingSpec => []RoutingInv
<1>1. ASSUME RoutingInv, [RoutingNext]_routingVars PROVE RoutingInv'
  <2>1. CASE OtherSystem
    BY <1>1, <2>1, SMTT(30) DEF OtherSystem, provider, senderVars, RoutingInv, SenderTypes, ProviderInv,
       CacheInv, SenderInv, Published, OwnedIn
  <2>2. CASE UNCHANGED routingVars
    BY <1>1, <2>2 DEF routingVars, provider, senderVars, RoutingInv, SenderTypes, ProviderInv,
       CacheInv, SenderInv, Published, OwnedIn
  <2> QED
    BY <1>1, <2>1, <2>2, ProviderStep, GenerationStep, ResolveStep DEF RoutingNext
<1> QED
  BY <1>1, RoutingInvInit, PTL DEF RoutingSpec

(***************************************************************************)
(* A resolved route is the owner in the very node set its version names,   *)
(* which is no older than what was published when the resolution began,    *)
(* for any number of senders resolving at once.                            *)
(***************************************************************************)
THEOREM RoutesFresh == RoutingSpec => []RouteIsFresh
<1>1. RoutingInv => RouteIsFresh
  BY DEF RoutingInv, SenderInv, OwnedIn, RouteIsFresh
<1> QED
  BY <1>1, RoutingInvariance, PTL

(***************************************************************************)
(* No resolution, however late it ends, replaces the cached route by an    *)
(* older one, and no refresh the generation.                               *)
(***************************************************************************)
THEOREM NeverRolledBack == RoutingSpec => NoRollback
<1> DEFINE Forward ==
      /\ entry # None /\ entry.mine /\ entry'.mine => entry'.version >= entry.version
      /\ generation # None => generation'.version >= generation.version
<1>1. ASSUME RoutingInv, RoutingNext PROVE Forward
  <2> USE <1>1 DEF RoutingInv, ProviderInv, CacheInv, Published, OwnedIn
  <2>0. /\ generation # None => generation.version \in Nat
        /\ entry # None /\ entry.mine => entry.version \in Nat
    OBVIOUS
  <2>1. CASE UNCHANGED <<entry, generation>>
    BY <2>0, <2>1, SMTT(30)
  <2>2. ASSUME NEW g \in Senders, StoreGeneration(g) PROVE Forward
    BY <2>0, <2>2, SMTT(30) DEF StoreGeneration, SenderInv
  <2>3. ASSUME NEW g \in Senders, ResolveMiss(g) PROVE Forward
    BY <2>0, <2>3, SMTT(30) DEF ResolveMiss, Done, MayStore, SenderInv
  <2>4. CASE OtherSystem
    BY <2>0, <2>4, SMTT(30) DEF OtherSystem
  <2>5. ASSUME NEW g \in Senders,
               ReadVersion(g) \/ LoadGeneration(g) \/ LockRefresh(g) \/ GetNodes(g) \/ Lookup(g)
        PROVE  Forward
    BY <2>1, <2>5 DEF ReadVersion, LoadGeneration, LockRefresh, GetNodes, Lookup, Done
  <2>6. CASE PublishNodes \/ \E n \in Routable : ApplyMember(n)
    BY <2>1, <2>6 DEF PublishNodes, ApplyMember
  <2> QED
    BY <1>1, <2>2, <2>3, <2>4, <2>5, <2>6 DEF RoutingNext
<1>2. RoutingInv /\ [RoutingNext]_routingVars => [Forward]_routingVars
  BY <1>1
<1> QED
  BY <1>2, RoutingInvariance, PTL DEF RoutingSpec, NoRollback

-----------------------------------------------------------------------------
(***************************************************************************)
(* Delivery. What a step does to fates and instances is proved once per    *)
(* step (DeliveryMoves); both properties follow from it.                   *)
(***************************************************************************)

\* What may have become of a message, and the states of an instance.
Fates == {"unsent", "flying", "dead", "over"}
Instances == {"none", "live", "stopping"}

\* What a step does to the messages' ends: none is unsent again, and an Ask's request that becomes a
\* dead letter has its answer on the way.
FatesMove ==
  /\ fate' \in [Messages -> Fates]
  /\ \A x \in Messages : fate[x] # "unsent" => fate'[x] # "unsent"
  /\ \A m \in Asks : fate'[Request(m)] = "dead" =>
       fate[Request(m)] = "dead" \/ fate'[Answer(m)] # "unsent"

\* An instance appears only once a message other than a Poison was sent.
GrainsMove ==
  /\ grain' \in [Nodes -> Instances]
  /\ \A n \in Nodes : grain'[n] # "none" =>
       \/ grain[n] # "none"
       \/ \E m \in Requests : Kind[m] # "poison" /\ fate[Request(m)] # "unsent"

\* The inductive invariant.
DeliveryInv ==
  /\ fate \in [Messages -> Fates]
  /\ grain \in [Nodes -> Instances]
  /\ DeadAskIsFailed /\ PoisonStartsNothing

\* Requests and answers are different messages.
LEMMA MessageParts ==
  /\ \A m \in Requests : Request(m) \in Messages
  /\ \A m \in Asks : m \in Requests /\ Answer(m) \in Messages
  /\ \A x \in Messages : ~IsAnswer(x) => x[1] \in Requests /\ x = Request(x[1])
BY DEF Asks, Messages, Request, Answer, IsAnswer

\* A message that ends, as a dead letter or otherwise, fails the Ask that waits for it.
LEMMA SettleMoves ==
  ASSUME fate \in [Messages -> Fates],
         NEW X \in SUBSET Messages, NEW f \in {"dead", "over"}, NEW Fail, NEW n,
         Fail = X \/ f = "over", Settle(X, f, Fail, n)
  PROVE  FatesMove
<1> USE DEF FatesMove, Fates
<1>1. fate' \in [Messages -> Fates]
  BY DEF Settle
<1>2. ASSUME NEW x \in Messages, fate[x] # "unsent" PROVE fate'[x] # "unsent"
  BY <1>2 DEF Settle
<1>3. ASSUME NEW m \in Asks, fate'[Request(m)] = "dead", fate[Request(m)] # "dead"
      PROVE  fate'[Answer(m)] # "unsent"
  <2>1. Request(m) \in Messages /\ Answer(m) \in Messages
    BY MessageParts
  <2>2. Request(m) \in X /\ f = "dead"
    BY <1>3, <2>1 DEF Settle
  <2>3. CASE fate[Answer(m)] # "unsent"
    BY <2>1, <2>3, <1>2
  <2>4. CASE fate[Answer(m)] = "unsent"
    <3>1. Waits(Request(m)) /\ Request(m)[1] = m
      BY <2>4 DEF Waits, IsAnswer, Request
    <3>2. Answer(m) \in {Answer(x[1]) : x \in {y \in Fail : Waits(y)}}
      BY <2>2, <3>1
    <3> QED
      BY <2>1, <2>2, <3>2 DEF Settle
  <2> QED
    BY <2>3, <2>4
<1> QED
  BY <1>1, <1>2, <1>3

\* A message that goes on, is sent or ends moves no fate the wrong way.
LEMMA FateMoves ==
  ASSUME fate \in [Messages -> Fates], NEW x \in Messages
  PROVE  /\ UNCHANGED fate => FatesMove
         /\ \A n : Dead({x}, n) => FatesMove
         /\ Ends(x, "over") => FatesMove
         /\ SetsOff(x) => FatesMove
<1>1. UNCHANGED fate => FatesMove
  BY MessageParts DEF FatesMove
<1>2. ASSUME NEW n, Dead({x}, n) PROVE FatesMove
  BY <1>2, SettleMoves DEF Dead
<1>3. Ends(x, "over") => FatesMove
  BY SettleMoves DEF Ends
<1>4. SetsOff(x) => FatesMove
  BY MessageParts DEF SetsOff, FatesMove, Fates
<1> QED
  BY <1>1, <1>2, <1>3, <1>4

\* A step of the goroutine that carries x.
LEMMA CarriedMoves ==
  ASSUME DeliveryInv, NEW x \in Messages, Carried(x)
  PROVE  FatesMove /\ GrainsMove
<1> USE DEF DeliveryInv
<1>1. UNCHANGED grain => GrainsMove
  BY DEF GrainsMove
<1>2. CASE TellWithSender(x) \/ Resolve(x) \/ Relook(x) \/ ProcSend(x) \/ Carry(x) \/ RecvEnvelope(x) \/ Lost(x)
  BY <1>1, <1>2, FateMoves, Zenon
     DEF TellWithSender, Resolve, Goes, ToRemote, Relook, ProcSend, Carry, RecvEnvelope, Lost
<1>3. CASE SendToRemote(x) \/ CarryFails(x)
  BY <1>1, <1>3, FateMoves DEF SendToRemote, CarryFails, Goes
<1>4. CASE SendToLocal(x)
  <2>1. FatesMove
    BY <1>4, FateMoves DEF SendToLocal, EnsureClusterKindActorExist, Goes
  <2>2. CASE UNCHANGED grain
    BY <1>1, <2>1, <2>2
  <2>3. CASE ~UNCHANGED grain
    <3>1. ~IsAnswer(x) /\ ~Poisons(x) /\ fate[x] = "flying"
      BY <1>4, <2>3 DEF SendToLocal, Pc
    <3>2. grain' = [grain EXCEPT ![Here(x)] = "live"]
      BY <1>4, <2>3 DEF SendToLocal, EnsureClusterKindActorExist
    <3>3. Kind[x[1]] # "poison" /\ x[1] \in Requests /\ fate[Request(x[1])] = "flying"
      BY <3>1, MessageParts DEF Poisons
    <3> QED
      BY <2>1, <3>2, <3>3, Zenon DEF GrainsMove, Instances
  <2> QED
    BY <2>2, <2>3
<1>5. CASE Handle(x)
  <2>1. PICK reply \in {{}, {x}} : Settle({x}, "over", reply, Here(x))
    BY <1>5 DEF Handle
  <2>2. FatesMove
    BY <2>1, SettleMoves
  <2>3. GrainsMove
    BY <1>5, Zenon DEF Handle, GrainsMove, Instances
  <2> QED
    BY <2>2, <2>3
<1> QED
  BY <1>2, <1>3, <1>4, <1>5 DEF Carried

\* Every step moves messages and instances only so.
LEMMA DeliveryMoves ==
  ASSUME DeliveryInv, [DeliveryNext]_deliveryVars
  PROVE  FatesMove /\ GrainsMove
<1> USE DEF DeliveryInv
<1>1. UNCHANGED grain => GrainsMove
  BY DEF GrainsMove
<1>2. UNCHANGED fate => FatesMove
  BY MessageParts DEF FatesMove
<1>3. ASSUME NEW x \in Messages, Carried(x) PROVE FatesMove /\ GrainsMove
  BY <1>3, CarriedMoves
<1>4. ASSUME NEW n \in Nodes, GrainStops(n) PROVE FatesMove /\ GrainsMove
  <2>1. In("mailbox", n) \in SUBSET Messages
    BY DEF In
  <2>2. FatesMove
    BY <1>4, <2>1, SettleMoves DEF GrainStops, Dead
  <2> QED
    BY <1>4, <2>2 DEF GrainStops, GrainsMove, Instances
<1>5. ASSUME NEW l \in Links, WriterStarted(l) \/ RecvReturns(l) PROVE FatesMove /\ GrainsMove
  BY <1>1, <1>2, <1>5, SMTT(30) DEF WriterStarted, RecvReturns
<1>6. ASSUME NEW l \in Links, WriterStops(l) PROVE FatesMove /\ GrainsMove
  <2>1. On("writer", l) \in SUBSET Messages
    BY DEF On, In
  <2> QED
    BY <1>1, <1>6, <2>1, SettleMoves DEF WriterStops, Dead
<1>7. ASSUME NEW n \in Nodes, Learn(n) \/ ClusterMemberChanged(n) \/ StopRequested(n)
      PROVE  FatesMove /\ GrainsMove
  BY <1>1, <1>2, <1>7 DEF Learn, ClusterMemberChanged, StopRequested, GrainsMove, Instances
<1>8. CASE OwnerMoves
  BY <1>1, <1>2, <1>8, SMTT(30) DEF OwnerMoves
<1>9. ASSUME NEW m \in Requests, Send(m) PROVE FatesMove /\ GrainsMove
  BY <1>1, <1>9, FateMoves, MessageParts, ZenonT(30) DEF Send
<1>10. ASSUME NEW m \in Requests, Poison(m) PROVE FatesMove /\ GrainsMove
  <2>1. FatesMove
    BY <1>10, FateMoves, MessageParts, Zenon DEF Poison
  <2> QED
    BY <1>10, <2>1 DEF Poison, GrainsMove, Instances
<1>11. CASE UNCHANGED deliveryVars
  BY <1>1, <1>2, <1>11 DEF deliveryVars
<1> QED
  BY <1>3, <1>4, <1>5, <1>6, <1>7, <1>8, <1>9, <1>10, <1>11
     DEF DeliveryNext, GoesOn, WatchDelivers

\* Dead letters have answers and instances have had messages in every reachable state.
THEOREM DeliveryInvariance == DeliverySpec => []DeliveryInv
<1>1. DeliveryInit => DeliveryInv
  BY MessageParts DEF DeliveryInit, DeliveryInv, DeadAskIsFailed, PoisonStartsNothing, Fates, Instances
<1>2. ASSUME DeliveryInv, [DeliveryNext]_deliveryVars PROVE DeliveryInv'
  <2>1. FatesMove /\ GrainsMove
    BY <1>2, DeliveryMoves
  <2>2. DeadAskIsFailed'
    BY <1>2, <2>1, MessageParts DEF DeliveryInv, DeadAskIsFailed, FatesMove
  <2>3. PoisonStartsNothing'
    BY <1>2, <2>1, MessageParts DEF DeliveryInv, PoisonStartsNothing, FatesMove, GrainsMove
  <2> QED
    BY <2>1, <2>2, <2>3 DEF DeliveryInv, FatesMove, GrainsMove
<1> QED
  BY <1>1, <1>2, PTL DEF DeliverySpec

(***************************************************************************)
(* deadLetter fails the waiting Ask at once, wherever the request ended,   *)
(* for any number of nodes and messages.                                   *)
(***************************************************************************)
THEOREM DeadAsksFail == DeliverySpec => []DeadAskIsFailed
BY DeliveryInvariance, PTL DEF DeliveryInv

(***************************************************************************)
(* As long as nothing but Poisons was sent no instance exists, on whatever *)
(* nodes they arrive.                                                      *)
(***************************************************************************)
THEOREM PoisonsStartNothing == DeliverySpec => []PoisonStartsNothing
BY DeliveryInvariance, PTL DEF DeliveryInv
=============================================================================
