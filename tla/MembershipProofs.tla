-------------------------- MODULE MembershipProofs --------------------------
(***************************************************************************)
(* Proofs about what a node knows of the others through its etcd watches:  *)
(* who the members are (Membership) and who subscribed to an event         *)
(* (EventStream). Both rest on the same argument: of a key without a       *)
(* change to come, the view says what etcd holds.                          *)
(***************************************************************************)
EXTENDS Membership, EventStream, FiniteSetTheorems, TLAPS

-----------------------------------------------------------------------------
(***************************************************************************)
(* Membership.                                                             *)
(***************************************************************************)

\* Who may hold a node id, the positions in start and stop, and the changes the watch reports.
Holders == Procs \cup {Nobody}
Phases == {"off", "load", "claim", "reload", "serving", "failed", "stopped"}
Changes == [id : Ids, val : Holders]

\* The types of etcd's members and leases and of each process's view of them.
MemberTypes ==
  /\ members \in [Ids -> Holders] /\ changes \in Seq(Changes) /\ leases \subseteq Procs
  /\ phase \in [Procs -> Phases] /\ nodeMap \in [Procs -> [Ids -> Holders]]
  /\ rev \in [Procs -> Nat] /\ nodeId \in [Procs -> Ids \cup {Nobody}]
  /\ \A p \in Procs : rev[p] <= Len(changes)

\* A process has an id only while it serves, and the key is its own as long as its lease lives.
HoldsKey ==
  \A p \in Procs : nodeId[p] # Nobody =>
    phase[p] = "serving" /\ (p \in leases => members[nodeId[p]] = p)

\* No change of id i is logged after the first r.
Quiet(s, i, r) == \A k \in r + 1 .. Len(s) : s[k].id # i

\* The last change of an id is what etcd holds.
LogInv ==
  \A i \in Ids, k \in 1 .. Len(changes) :
    changes[k].id = i /\ Quiet(changes, i, k) => changes[k].val = members[i]

\* Of an id without a change to come, a process that has loaded the members knows what etcd holds; one
\* that has not loaded them knows nothing.
ViewInv ==
  \A p \in Procs, i \in Ids :
    /\ phase[p] \in {"off", "load"} => nodeMap[p][i] = Nobody
    /\ phase[p] \in {"claim", "reload", "serving"} /\ Quiet(changes, i, rev[p]) =>
         nodeMap[p][i] = members[i]

\* The inductive invariant.
MemberInv == MemberTypes /\ HoldsKey /\ LogInv /\ ViewInv

\* A sequence of a finite set's elements has all of them.
LEMMA SetToSeqRange ==
  ASSUME NEW S, IsFiniteSet(S)
  PROVE  /\ SetToSeq(S) \in Seq(S)
         /\ \A x \in S : \E k \in 1 .. Len(SetToSeq(S)) : SetToSeq(S)[k] = x
<1> DEFINE n == Cardinality(S)  f == SetToSeq(S)
<1>1. n \in Nat /\ ExistsBijection(1 .. n, S)
  BY FS_CardinalityType
<1>2. \E g \in [1 .. n -> S] : IsInjective(g)
  BY <1>1 DEF ExistsBijection, Bijection, Injection
<1>3. f \in [1 .. n -> S] /\ IsInjective(f)
  BY <1>2 DEF SetToSeq
<1>4. Cardinality(1 .. n) = n
  BY <1>1, FS_Interval
<1>5. f \in Injection(1 .. n, S)
  BY <1>3 DEF Injection
<1>6. f \in Surjection(1 .. n, S)
  <2> HIDE DEF f, n
  <2>1. Cardinality(1 .. n) = Cardinality(S) <=> f \in Surjection(1 .. n, S)
    BY <1>5, FS_Injection
  <2> QED
    BY <1>4, <2>1 DEF n
<1> HIDE DEF f, n
<1>7. f \in Seq(S) /\ Len(f) = n
  BY <1>1, <1>3
<1>8. \A x \in S : \E k \in 1 .. n : f[k] = x
  BY <1>6 DEF Surjection
<1> QED
  BY <1>7, <1>8 DEF f

\* What is appended comes after what was there.
LEMMA ConcatParts ==
  ASSUME NEW S, NEW a \in Seq(S), NEW b \in Seq(S)
  PROVE  /\ a \o b \in Seq(S) /\ Len(a \o b) = Len(a) + Len(b)
         /\ \A k \in 1 .. Len(a) : (a \o b)[k] = a[k]
         /\ \A k \in 1 .. Len(b) : (a \o b)[Len(a) + k] = b[k]
OBVIOUS

\* What etcd's transaction does to the log and to the views.
LEMMA PutStep ==
  ASSUME MemberInv, NEW p \in Procs, NEW i \in Ids, Creates(p, i)
  PROVE  /\ members' \in [Ids -> Holders] /\ changes' \in Seq(Changes) /\ leases' = leases
         /\ Len(changes') >= Len(changes)
         /\ LogInv'
         /\ \A j \in Ids, r \in Nat : r <= Len(changes) /\ Quiet(changes', j, r) =>
              j # i /\ Quiet(changes, j, r) /\ members'[j] = members[j]
         /\ \A j \in Ids : members[j] # Nobody => members'[j] = members[j]
         /\ members'[i] = p
<1> USE MemberAssumption DEF MemberInv, MemberTypes, Holders, Changes
<1> DEFINE c == [id |-> i, val |-> p]
<1>1. /\ members[i] = Nobody /\ members' = [members EXCEPT ![i] = p] /\ leases' = leases
      /\ changes' = Append(changes, c)
  BY DEF Creates, Put
<1>2. /\ c \in Changes /\ changes' \in Seq(Changes) /\ Len(changes') = Len(changes) + 1
      /\ changes'[Len(changes) + 1] = c
      /\ \A k \in 1 .. Len(changes) : changes'[k] = changes[k]
  BY <1>1
<1>3. ASSUME NEW j \in Ids, NEW r \in Nat, r <= Len(changes), Quiet(changes', j, r)
      PROVE  j # i /\ Quiet(changes, j, r) /\ members'[j] = members[j]
  <2>1. changes'[Len(changes) + 1].id # j
    BY <1>2, <1>3 DEF Quiet
  <2>2. Quiet(changes, j, r)
    BY <1>2, <1>3 DEF Quiet
  <2> QED
    BY <1>1, <1>2, <2>1, <2>2
<1>4. LogInv'
  <2> SUFFICES ASSUME NEW j \in Ids, NEW k \in 1 .. Len(changes'),
                      changes'[k].id = j, Quiet(changes', j, k)
               PROVE  changes'[k].val = members'[j]
    BY Zenon DEF LogInv, Quiet
  <2>1. CASE k = Len(changes) + 1
    BY <1>1, <1>2, <2>1
  <2>2. CASE k \in 1 .. Len(changes)
    <3>1. Quiet(changes, j, k) /\ members'[j] = members[j]
      BY <1>3, <2>2
    <3>2. changes[k] = changes'[k]
      BY <1>2, <2>2
    <3> QED
      BY <2>2, <3>1, <3>2 DEF LogInv
  <2> QED
    BY <1>2, <2>1, <2>2
<1> QED
  BY <1>1, <1>2, <1>3, <1>4

\* The same for the end of a lease.
LEMMA DropStep ==
  ASSUME MemberInv, NEW p \in Procs, Drop(p)
  PROVE  /\ members' \in [Ids -> Holders] /\ changes' \in Seq(Changes) /\ leases' = leases \ {p}
         /\ Len(changes') >= Len(changes)
         /\ LogInv'
         /\ \A j \in Ids, r \in Nat : r <= Len(changes) /\ Quiet(changes', j, r) =>
              members[j] # p /\ Quiet(changes, j, r) /\ members'[j] = members[j]
         /\ \A j \in Ids : members[j] # p => members'[j] = members[j]
<1> USE MemberAssumption DEF MemberInv, MemberTypes, Holders, Changes
<1> DEFINE gone == {i \in Ids : members[i] = p}
<1>1. /\ members' = [i \in Ids |-> IF members[i] = p THEN Nobody ELSE members[i]]
      /\ leases' = leases \ {p}
  BY DEF Drop
<1>2. PICK ks \in Seq(gone) :
        /\ changes' = changes \o [k \in DOMAIN ks |-> [id |-> ks[k], val |-> Nobody]]
        /\ \A x \in gone : \E k \in 1 .. Len(ks) : ks[k] = x
  <2>1. IsFiniteSet(gone)
    BY FS_Subset
  <2> QED
    BY <2>1, SetToSeqRange, Zenon DEF Drop
<1>3. PICK new \in Seq(Changes) :
        /\ changes' = changes \o new /\ Len(new) = Len(ks)
        /\ \A k \in 1 .. Len(ks) : new[k].id = ks[k] /\ new[k].val = Nobody
  <2> DEFINE d == [k \in DOMAIN ks |-> [id |-> ks[k], val |-> Nobody]]
  <2>1. Len(ks) \in Nat /\ DOMAIN ks = 1 .. Len(ks) /\ \A k \in 1 .. Len(ks) : ks[k] \in Ids
    OBVIOUS
  <2>2. d \in [1 .. Len(ks) -> Changes]
    BY <2>1
  <2>3. d \in Seq(Changes) /\ Len(d) = Len(ks)
    <3> HIDE DEF d, Changes
    <3> QED
      BY <2>1, <2>2
  <2>4. \A k \in 1 .. Len(ks) : d[k].id = ks[k] /\ d[k].val = Nobody
    BY <2>1
  <2> QED
    BY <1>2, <2>3, <2>4, Zenon
<1>4. /\ changes' \in Seq(Changes) /\ Len(changes') = Len(changes) + Len(new)
      /\ \A k \in 1 .. Len(changes) : changes'[k] = changes[k]
      /\ \A k \in 1 .. Len(new) : changes'[Len(changes) + k] = new[k]
  <2>1. changes \in Seq(Changes) /\ new \in Seq(Changes)
    OBVIOUS
  <2>2. changes' = changes \o new
    BY <1>3
  <2> HIDE DEF Changes
  <2> QED
    BY ONLY <2>1, <2>2, ConcatParts
<1>5. ASSUME NEW j \in Ids, NEW r \in Nat, r <= Len(changes), Quiet(changes', j, r)
      PROVE  members[j] # p /\ Quiet(changes, j, r) /\ members'[j] = members[j]
  <2>1. ASSUME members[j] = p PROVE FALSE
    <3>1. PICK k \in 1 .. Len(ks) : ks[k] = j
      BY <1>2, <2>1
    <3>2. changes'[Len(changes) + k].id = j
      BY <1>3, <1>4, <3>1
    <3>3. Len(changes) + k \in r + 1 .. Len(changes')
      BY <1>2, <1>3, <1>4, <1>5, <3>1
    <3> QED
      BY <1>5, <3>2, <3>3 DEF Quiet
  <2>2. Quiet(changes, j, r)
    BY <1>3, <1>4, <1>5 DEF Quiet
  <2> QED
    BY <1>1, <2>1, <2>2
<1>6. LogInv'
  <2> SUFFICES ASSUME NEW j \in Ids, NEW k \in 1 .. Len(changes'),
                      changes'[k].id = j, Quiet(changes', j, k)
               PROVE  changes'[k].val = members'[j]
    BY DEF LogInv, Quiet
  <2>1. CASE k \in 1 .. Len(changes)
    <3>1. Quiet(changes, j, k) /\ members'[j] = members[j]
      BY <1>5, <2>1
    <3>2. changes[k] = changes'[k]
      BY <1>4, <2>1
    <3> QED
      BY <2>1, <3>1, <3>2 DEF LogInv
  <2>2. CASE k > Len(changes)
    <3>1. PICK h \in 1 .. Len(new) : k = Len(changes) + h
      <4>1. k - Len(changes) \in 1 .. Len(new)
        BY <1>3, <1>4, <2>2
      <4> QED
        BY <1>4, <4>1
    <3>2. changes'[k].val = Nobody /\ ks[h] = j
      BY <1>3, <1>4, <3>1
    <3>3. members[j] = p
      BY <1>2, <1>3, <3>1, <3>2
    <3> QED
      BY <1>1, <3>2, <3>3
  <2> QED
    BY <2>1, <2>2
<1> QED
  BY <1>1, <1>3, <1>4, <1>5, <1>6

\* Nothing has started.
LEMMA MemberInvInit == MemberInit => MemberInv
BY MemberAssumption
   DEF MemberInit, MemberInv, MemberTypes, Holders, Phases, Changes, HoldsKey, LogInv, ViewInv

\* A process ends, its lease with it or not.
LEMMA ExitsStep ==
  ASSUME MemberInv, NEW p \in Procs, NEW to \in {"failed", "stopped"}, Exits(p, to)
  PROVE  MemberInv'
<1> USE MemberAssumption DEF MemberInv, MemberTypes, Phases
<1>1. /\ phase' = [phase EXCEPT ![p] = to]
      /\ nodeMap' = [nodeMap EXCEPT ![p] = [i \in Ids |-> Nobody]]
      /\ rev' = [rev EXCEPT ![p] = 0] /\ nodeId' = [nodeId EXCEPT ![p] = Nobody]
  BY DEF Exits, Moves
<1>2. CASE Drop(p)
  <2>1. MemberTypes'
    BY <1>1, <1>2, DropStep DEF Holders
  <2>2. HoldsKey'
    BY <1>1, <1>2, DropStep DEF HoldsKey
  <2>3. ViewInv'
    BY <1>1, <1>2, DropStep DEF ViewInv
  <2> QED
    BY <1>2, <2>1, <2>2, <2>3, DropStep
<1>3. CASE UNCHANGED etcd
  <2>1. MemberTypes'
    BY <1>1, <1>3 DEF Holders, etcd
  <2>2. HoldsKey' /\ LogInv'
    BY <1>1, <1>3 DEF HoldsKey, LogInv, Quiet, etcd
  <2>3. ViewInv'
    BY <1>1, <1>3 DEF ViewInv, Quiet, etcd
  <2> QED
    BY <2>1, <2>2, <2>3
<1> QED
  BY <1>2, <1>3 DEF Exits

\* etcd ends the lease of a process, which may still run.
LEMMA ExpireStep ==
  ASSUME MemberInv, NEW p \in Procs, Expire(p)
  PROVE  MemberInv'
<1> USE MemberAssumption DEF MemberInv, MemberTypes
<1>1. UNCHANGED <<phase, nodeMap, rev, nodeId>> /\ Drop(p)
  BY DEF Expire
<1>2. MemberTypes'
  BY <1>1, DropStep
<1>3. HoldsKey'
  BY <1>1, DropStep, SMTT(30) DEF HoldsKey
<1>4. ViewInv'
  BY <1>1, DropStep DEF ViewInv
<1> QED
  BY <1>1, <1>2, <1>3, <1>4, DropStep

\* start, up to the claim: the lease, and one load or more.
LEMMA LoadStep ==
  ASSUME MemberInv, NEW p \in Procs, Start(p) \/ Load(p) \/ Reload(p)
  PROVE  MemberInv'
<1> USE MemberAssumption DEF MemberInv, MemberTypes, Phases, Moves
<1>1. /\ UNCHANGED <<members, changes, nodeId>> /\ leases \subseteq leases'
      /\ phase[p] \in {"off", "load", "reload"}
      /\ phase' = [phase EXCEPT ![p] = IF phase[p] = "off" THEN "load" ELSE "claim"]
      /\ leases' = IF phase[p] = "off" THEN leases \cup {p} ELSE leases
      /\ nodeMap' = IF phase[p] = "off" THEN nodeMap ELSE [nodeMap EXCEPT ![p] = Loaded(p)]
      /\ rev' = IF phase[p] = "load" THEN [rev EXCEPT ![p] = Len(changes)] ELSE rev
  BY DEF Start, Load, Reload, etcd
<1>2. MemberTypes'
  BY <1>1 DEF Loaded, Holders
<1>3. HoldsKey' /\ LogInv'
  BY <1>1 DEF HoldsKey, LogInv, Quiet
<1>4. ViewInv'
  <2> SUFFICES ASSUME NEW q \in Procs, NEW i \in Ids
               PROVE  /\ phase'[q] \in {"off", "load"} => nodeMap'[q][i] = Nobody
                      /\ phase'[q] \in {"claim", "reload", "serving"} /\ Quiet(changes', i, rev'[q]) =>
                           nodeMap'[q][i] = members'[i]
    BY DEF ViewInv, Quiet
  <2>1. CASE q = p
    BY <1>1, <2>1 DEF ViewInv, Loaded
  <2>2. CASE q # p
    BY <1>1, <2>2 DEF ViewInv
  <2> QED
    BY <2>1, <2>2
<1> QED
  BY <1>2, <1>3, <1>4

\* The transaction commits, whether its answer arrives or not.
LEMMA ClaimStep ==
  ASSUME MemberInv, NEW p \in Procs, NEW i \in Ids, Claim(p, i) \/ ClaimFails(p, i)
  PROVE  MemberInv'
<1> USE MemberAssumption DEF MemberInv, MemberTypes, Phases, Moves
<1>1. CASE Claim(p, i)
  <2>1. /\ phase[p] = "claim" /\ Creates(p, i) /\ UNCHANGED rev
        /\ nodeMap' = [nodeMap EXCEPT ![p][i] = p] /\ nodeId' = [nodeId EXCEPT ![p] = i]
        /\ phase' = [phase EXCEPT ![p] = "serving"]
    BY <1>1 DEF Claim
  <2>2. MemberTypes'
    BY <2>1, PutStep DEF Holders
  <2>3. HoldsKey'
    BY <2>1, PutStep DEF HoldsKey
  <2>4. ViewInv'
    BY <2>1, PutStep DEF ViewInv
  <2> QED
    BY <2>1, <2>2, <2>3, <2>4, PutStep
<1>2. CASE ClaimFails(p, i) /\ Creates(p, i)
  <2>1. /\ phase[p] = "claim" /\ UNCHANGED <<nodeMap, rev, nodeId>>
        /\ phase' = [phase EXCEPT ![p] = "reload"]
    BY <1>2 DEF ClaimFails
  <2>2. MemberTypes'
    BY <1>2, <2>1, PutStep
  <2>3. HoldsKey'
    BY <1>2, <2>1, PutStep DEF HoldsKey
  <2>4. ViewInv'
    BY <1>2, <2>1, PutStep, SMTT(30) DEF ViewInv
  <2> QED
    BY <1>2, <2>2, <2>3, <2>4, PutStep
<1>3. CASE ClaimFails(p, i) /\ UNCHANGED etcd
  BY <1>3 DEF ClaimFails, etcd, HoldsKey, LogInv, ViewInv, Quiet
<1> QED
  BY <1>1, <1>2, <1>3 DEF ClaimFails

\* A change is taken in: it is the last one of its id, or another is still to come.
LEMMA WatchStep ==
  ASSUME MemberInv, NEW p \in Procs, ParseWatch(p)
  PROVE  MemberInv'
<1> USE MemberAssumption DEF MemberInv, MemberTypes
<1> DEFINE r == rev[p] + 1  c == changes[r]
<1>1. /\ phase[p] = "serving" /\ rev[p] < Len(changes) /\ UNCHANGED <<etcd, phase, nodeId>>
      /\ nodeMap' = [nodeMap EXCEPT ![p][c.id] = c.val]
      /\ rev' = [rev EXCEPT ![p] = r]
  BY DEF ParseWatch
<1>2. r \in 1 .. Len(changes) /\ c \in Changes
  BY <1>1
<1>3. c.id \in Ids /\ c.val \in Holders
  BY <1>2 DEF Changes
<1>4. MemberTypes'
  BY <1>1, <1>2, <1>3 DEF etcd
<1>5. HoldsKey' /\ LogInv'
  BY <1>1 DEF etcd, HoldsKey, LogInv, Quiet
<1>6. ASSUME NEW i \in Ids, Quiet(changes, i, r) PROVE nodeMap'[p][i] = members[i]
  <2>1. CASE i = c.id
    BY <1>1, <1>2, <1>3, <1>6, <2>1 DEF LogInv
  <2>2. CASE i # c.id
    <3>1. Quiet(changes, i, rev[p])
      BY <1>1, <1>2, <1>6, <2>2, SMTT(30) DEF Quiet
    <3> QED
      BY <1>1, <1>3, <2>2, <3>1 DEF ViewInv
  <2> QED
    BY <2>1, <2>2
<1>7. ViewInv'
  <2> SUFFICES ASSUME NEW q \in Procs, NEW i \in Ids
               PROVE  /\ phase'[q] \in {"off", "load"} => nodeMap'[q][i] = Nobody
                      /\ phase'[q] \in {"claim", "reload", "serving"} /\ Quiet(changes', i, rev'[q]) =>
                           nodeMap'[q][i] = members'[i]
    BY DEF ViewInv, Quiet
  <2>1. CASE q = p
    BY <1>1, <1>6, <2>1, SMTT(30) DEF etcd
  <2>2. CASE q # p
    BY <1>1, <2>2 DEF etcd, ViewInv
  <2> QED
    BY <2>1, <2>2
<1> QED
  BY <1>4, <1>5, <1>7

\* A process that lost its lease is stopped.
LEMMA ForceStep ==
  ASSUME MemberInv, UNCHANGED <<etcd, phase, nodeMap, rev, nodeId>>
  PROVE  MemberInv'
<1> USE DEF MemberInv, etcd
<1>1. MemberTypes' /\ HoldsKey'
  BY DEF MemberTypes, HoldsKey
<1>2. LogInv'
  BY DEF LogInv, Quiet
<1>3. ViewInv'
  BY DEF ViewInv, Quiet
<1> QED
  BY <1>1, <1>2, <1>3

\* Leases, member keys, the log of changes and the views agree in every reachable state.
THEOREM MemberInvariance == MemberSpec => []MemberInv
<1>1. ASSUME MemberInv, [MemberNext]_memberVars PROVE MemberInv'
  <2>1. ASSUME NEW p \in Procs, Starting(p) PROVE MemberInv'
    <3>1. CASE StartFails(p)
      BY <1>1, <3>1, ExitsStep DEF StartFails
    <3> QED
      BY <1>1, <2>1, <3>1, LoadStep, ClaimStep DEF Starting
  <2>2. ASSUME NEW p \in Procs, Expire(p) \/ ParseWatch(p) PROVE MemberInv'
    BY <1>1, <2>2, ExpireStep, WatchStep
  <2>3. ASSUME NEW p \in Procs, KeepAliveEnds(p) \/ WatchLost(p) PROVE MemberInv'
    BY <1>1, <2>3, ForceStep DEF KeepAliveEnds, WatchLost, ForcesStop
  <2>4. ASSUME NEW p \in Procs, Stop(p) PROVE MemberInv'
    BY <1>1, <2>4, ExitsStep DEF Stop
  <2>5. CASE UNCHANGED memberVars
    BY <1>1, <2>5, ForceStep DEF memberVars
  <2> QED
    BY <1>1, <2>1, <2>2, <2>3, <2>4, <2>5 DEF MemberNext
<1> QED
  BY <1>1, MemberInvInit, PTL DEF MemberSpec

(***************************************************************************)
(* set claims a node id in one transaction, so two processes that hold     *)
(* leases never have the same id, for any number of processes and ids and  *)
(* whatever is lost on the way to etcd.                                    *)
(***************************************************************************)
THEOREM IdsUnique == MemberSpec => []UniqueNodeId
<1>1. MemberInv => UniqueNodeId
  BY DEF MemberInv, MemberTypes, HoldsKey, UniqueNodeId
<1> QED
  BY <1>1, MemberInvariance, PTL

(***************************************************************************)
(* A serving process that has taken in all changes sees exactly the        *)
(* members: the replay from the revision of its first load undoes whatever *)
(* its later loads and its own claim had added ahead of it.                *)
(***************************************************************************)
THEOREM ViewsConverge == MemberSpec => []ViewConverges
<1>1. ASSUME MemberInv, NEW p \in Procs, phase[p] = "serving", rev[p] = Len(changes)
      PROVE  nodeMap[p] = members
  <2>1. \A i \in Ids : Quiet(changes, i, rev[p])
    BY <1>1 DEF Quiet, MemberInv, MemberTypes
  <2>2. \A i \in Ids : nodeMap[p][i] = members[i]
    BY <1>1, <2>1 DEF MemberInv, ViewInv
  <2> QED
    BY <1>1, <2>2 DEF MemberInv, MemberTypes
<1>2. MemberInv => ViewConverges
  BY <1>1 DEF ViewConverges
<1> QED
  BY <1>2, MemberInvariance, PTL

-----------------------------------------------------------------------------
(***************************************************************************)
(* The event stream.                                                       *)
(***************************************************************************)

\* The positions of an event actor, and the changes the watch reports.
EsPlaces == {"new", "idle", "put", "delete", "set", "unset", "gone"}
EsChanges == [node : EsNodes, put : BOOLEAN]

\* The types of the keys, the log, the views and the actors.
EsTypes ==
  /\ keys \subseteq EsNodes /\ log \in Seq(EsChanges)
  /\ esActor \in [EsNodes -> EsPlaces] /\ sub = [n \in EsNodes |-> sub[n]]
  /\ eventMap \in [EsNodes -> SUBSET EsNodes]
  /\ pos \in [EsNodes -> Nat] /\ \A n \in EsNodes : pos[n] <= Len(log)
  /\ watching \in [EsNodes -> BOOLEAN] /\ failed \in [EsNodes -> BOOLEAN]

\* No change of node m's key is logged after the first r.
Settled(s, m, r) == \A k \in r + 1 .. Len(s) : s[k].node # m

\* The last change of a node's key says whether the key exists.
EsLogInv ==
  \A m \in EsNodes, k \in 1 .. Len(log) :
    log[k].node = m /\ Settled(log, m, k) => (log[k].put <=> m \in keys)

\* Of a node without a change to come, a node's map says whether its key exists.
EsViewInv ==
  \A n, m \in EsNodes :
    esActor[n] \notin {"new", "gone"} /\ Settled(log, m, pos[n]) => (m \in eventMap[n] <=> m \in keys)

\* What an actor is doing goes with its subscribers and its key; only it and its node's crash change
\* them.
EsActorInv ==
  \A n \in EsNodes :
    /\ esActor[n] \in {"new", "gone"} => n \notin keys /\ sub[n] = {}
    /\ esActor[n] = "put" => sub[n] # {}
    /\ esActor[n] = "delete" => sub[n] = {}
    /\ esActor[n] = "set" => sub[n] # {} /\ n \in keys
    /\ esActor[n] = "unset" => sub[n] = {} /\ n \notin keys
    /\ esActor[n] = "idle" /\ ~failed[n] => (sub[n] # {} <=> n \in keys)

\* The inductive invariant.
EsInv == EsTypes /\ EsLogInv /\ EsViewInv /\ EsActorInv

\* No node has subscribers.
LEMMA EsInvInit == EsInit => EsInv
BY DEF EsInit, EsInv, EsTypes, EsPlaces, EsLogInv, EsViewInv, EsActorInv

\* What a change of n's key does to the log and to the views.
LEMMA KeyStep ==
  ASSUME EsInv, NEW n \in EsNodes, PutKey(n) \/ DeleteKey(n)
  PROVE  /\ keys' \subseteq EsNodes /\ log' \in Seq(EsChanges) /\ Len(log') >= Len(log)
         /\ EsLogInv'
         /\ \A m \in EsNodes, r \in Nat : r <= Len(log) /\ Settled(log', m, r) =>
              Settled(log, m, r) /\ (m \in keys' <=> m \in keys)
         /\ \A m \in EsNodes : m # n => (m \in keys' <=> m \in keys)
         /\ n \in keys' <=> PutKey(n)
<1> USE DEF EsInv, EsTypes
<1>1. PICK b \in BOOLEAN : 
        /\ keys' = (IF b THEN keys \cup {n} ELSE keys \ {n})
        /\ b <=> PutKey(n)
        /\ log' = IF b \/ n \in keys THEN Append(log, [node |-> n, put |-> b]) ELSE log
  <2>1. CASE PutKey(n)
    BY <2>1, Zenon DEF PutKey
  <2>2. CASE ~PutKey(n)
    BY <2>2, Zenon DEF DeleteKey
  <2> QED
    BY <2>1, <2>2, Zenon
<1>2. CASE log' = log
  <2>1. keys' = keys
    BY <1>1, <1>2
  <2> QED
    BY <1>1, <1>2, <2>1 DEF EsLogInv, Settled
<1>3. CASE log' # log
  <2> DEFINE c == [node |-> n, put |-> b]
  <2>1. /\ log' \in Seq(EsChanges) /\ Len(log') = Len(log) + 1
        /\ log'[Len(log) + 1] = c
        /\ \A k \in 1 .. Len(log) : log'[k] = log[k]
    <3>1. c \in EsChanges
      BY <1>1 DEF EsChanges
    <3>2. log' = Append(log, c)
      BY <1>1, <1>3
    <3> HIDE DEF c, EsChanges
    <3> QED
      BY <3>1, <3>2
  <2>2. ASSUME NEW m \in EsNodes, NEW r \in Nat, r <= Len(log), Settled(log', m, r)
        PROVE  m # n /\ Settled(log, m, r) /\ (m \in keys' <=> m \in keys)
    <3>1. log'[Len(log) + 1].node # m
      <4>1. Len(log) \in Nat /\ Len(log) + 1 \in r + 1 .. Len(log')
        BY <2>1, <2>2
      <4> QED
        BY <2>2, <4>1 DEF Settled
    <3>2. Settled(log, m, r)
      <4> SUFFICES ASSUME NEW k \in r + 1 .. Len(log) PROVE log[k].node # m
        BY DEF Settled
      <4>1. k \in r + 1 .. Len(log') /\ k \in 1 .. Len(log)
        BY <2>1, <2>2
      <4> QED
        BY <2>1, <2>2, <4>1 DEF Settled
    <3> QED
      BY <1>1, <2>1, <3>1, <3>2
  <2>3. EsLogInv'
    <3> SUFFICES ASSUME NEW m \in EsNodes, NEW k \in 1 .. Len(log'),
                        log'[k].node = m, Settled(log', m, k)
                 PROVE  log'[k].put <=> m \in keys'
      BY DEF EsLogInv, Settled
    <3>1. CASE k = Len(log) + 1
      BY <1>1, <2>1, <3>1
    <3>2. CASE k \in 1 .. Len(log)
      <4>1. Settled(log, m, k) /\ (m \in keys' <=> m \in keys)
        BY <2>2, <3>2
      <4>2. log[k] = log'[k]
        BY <2>1, <3>2, SMTT(30)
      <4> QED
        BY <3>2, <4>1, <4>2 DEF EsLogInv
    <3> QED
      BY <2>1, <3>1, <3>2
  <2> QED
    BY <1>1, <2>1, <2>2, <2>3
<1> QED
  BY <1>2, <1>3, SMTT(30)

\* The actor's own steps that do not call etcd.
LEMMA ActorStep ==
  ASSUME EsInv, NEW n \in EsNodes,
         Started(n) \/ UpdatesMap(n) \/ WatchEnds(n) \/ \E a : Subscribe(n, a) \/ Unsubscribe(n, a)
  PROVE  EsInv'
<1> USE DEF EsInv, EsTypes, EsPlaces, Does
<1>1. UNCHANGED <<keys, log>> /\ EsLogInv'
  BY Zenon DEF Started, UpdatesMap, WatchEnds, Subscribe, Unsubscribe, EsLogInv, Settled
<1>2. CASE Started(n)
  <2>1. EsActorInv'
    <3>1. UNCHANGED <<sub, failed>> /\ esActor[n] = "new" /\ esActor'[n] \in {"idle", "gone"}
      BY <1>2 DEF Started
    <3>2. \A m \in EsNodes : m # n => esActor'[m] = esActor[m]
      BY <1>2 DEF Started
    <3> QED
      BY <1>1, <3>1, <3>2 DEF EsActorInv
  <2>2. CASE Does(n, "gone")
    <3>1. UNCHANGED <<eventMap, pos, watching, sub, failed>>
      BY <1>2, <2>2 DEF Started
    <3> QED
      BY <1>1, <2>1, <2>2, <3>1, SMTT(30) DEF EsViewInv, Settled
  <2>3. CASE Does(n, "idle")
    <3>1. /\ eventMap' = [eventMap EXCEPT ![n] = keys]
          /\ pos' = [pos EXCEPT ![n] = Len(log)]
          /\ watching' = [watching EXCEPT ![n] = TRUE]
          /\ UNCHANGED <<sub, failed>>
      BY <1>2, <2>3 DEF Started
    <3>2. EsTypes'
      BY <1>1, <2>3, <3>1
    <3>3. EsViewInv'
      BY <1>1, <2>3, <3>1 DEF EsViewInv, Settled
    <3> QED
      BY <1>1, <2>1, <3>2, <3>3
  <2> QED
    BY <1>2, <2>2, <2>3 DEF Started
<1>3. CASE UpdatesMap(n)
  <2>1. EsTypes' /\ EsActorInv'
    BY <1>1, <1>3 DEF UpdatesMap, Added, Deleted, EsActorInv
  <2>2. EsViewInv'
    BY <1>1, <1>3 DEF UpdatesMap, Added, Deleted, EsViewInv, EsActorInv, Settled
  <2> QED
    BY <1>1, <2>1, <2>2, SMTT(30)
<1>4. CASE WatchEnds(n)
  BY <1>1, <1>4 DEF WatchEnds, EsViewInv, EsActorInv, Settled
<1>5. ASSUME NEW a, Subscribe(n, a) \/ Unsubscribe(n, a) PROVE EsInv'
  <2>1. EsTypes'
    <3>1. sub' = [m \in EsNodes |-> sub'[m]]
      BY <1>5 DEF Subscribe, Unsubscribe
    <3> QED
      BY <1>1, <1>5, <3>1, ZenonT(30) DEF Subscribe, Unsubscribe
  <2>3. EsActorInv'
    <3>1. \A m \in EsNodes : m # n => esActor'[m] = esActor[m] /\ sub'[m] = sub[m]
      BY <1>5 DEF Subscribe, Unsubscribe
    <3>2. failed' = failed /\ esActor[n] = "idle"
      BY <1>5 DEF Subscribe, Unsubscribe, Handles
    <3>3. CASE Subscribe(n, a)
      <4>1. sub'[n] # {} /\ esActor'[n] = IF sub[n] = {} THEN "put" ELSE "idle"
        BY <3>3 DEF Subscribe
      <4> QED
        BY <1>1, <3>1, <3>2, <4>1, Zenon DEF EsActorInv
    <3>4. CASE Unsubscribe(n, a)
      <4>1. /\ sub[n] # {} /\ sub'[n] = sub[n] \ {a}
            /\ esActor'[n] = IF sub'[n] = {} THEN "delete" ELSE "idle"
        BY <3>4 DEF Unsubscribe
      <4> QED
        BY <1>1, <3>1, <3>2, <4>1 DEF EsActorInv
    <3> QED
      BY <1>5, <3>3, <3>4
  <2>2. EsViewInv'
    BY <1>1, <1>5, ZenonT(30) DEF Subscribe, Unsubscribe, Handles, EsViewInv, Settled
  <2> QED
    BY <1>1, <2>1, <2>2, <2>3, SMTT(30)
<1> QED
  BY <1>2, <1>3, <1>4, <1>5, SMTT(30)

\* etcd returns, with or without an error and in that case with or without the change.
LEMMA EtcdStep ==
  ASSUME EsInv, NEW n \in EsNodes, EtcdReturns(n)
  PROVE  EsInv'
<1> USE DEF EsInv, EsTypes, EsPlaces, Does
<1>1. /\ UNCHANGED <<sub, eventMap, pos, watching>>
      /\ esActor[n] \in {"put", "delete"} /\ esActor'[n] \notin {"new", "gone"}
      /\ esActor' \in [EsNodes -> EsPlaces] /\ failed' \in [EsNodes -> BOOLEAN]
      /\ \A m \in EsNodes : m # n => esActor'[m] = esActor[m] /\ failed'[m] = failed[m]
  BY ZenonT(30) DEF EtcdReturns
<1>2. CASE UNCHANGED <<keys, log>>
  <2>1. EsTypes' /\ EsLogInv'
    BY <1>1, <1>2 DEF EsLogInv, Settled
  <2>2. EsViewInv'
    BY <1>1, <1>2, Zenon DEF EsViewInv, Settled
  <2>3. EsActorInv'
    <3>1. /\ esActor'[n] = "set" => esActor[n] = "put" /\ n \in keys'
          /\ esActor'[n] = "unset" => esActor[n] = "delete" /\ n \notin keys'
          /\ esActor'[n] \notin {"set", "unset"} => esActor'[n] = "idle" /\ failed'[n]
      BY <1>1 DEF EtcdReturns, PutKey, DeleteKey
    <3> QED
      BY <1>1, <1>2, <3>1, ZenonT(30) DEF EsActorInv
  <2> QED
    BY <2>1, <2>2, <2>3
<1>3. CASE PutKey(n) \/ DeleteKey(n)
  <2>1. /\ keys' \subseteq EsNodes /\ log' \in Seq(EsChanges) /\ Len(log') >= Len(log)
        /\ EsLogInv'
        /\ \A m \in EsNodes, r \in Nat : r <= Len(log) /\ Settled(log', m, r) =>
             Settled(log, m, r) /\ (m \in keys' <=> m \in keys)
        /\ \A m \in EsNodes : m # n => (m \in keys' <=> m \in keys)
        /\ n \in keys' <=> PutKey(n)
    BY <1>3, KeyStep
  <2>2. EsTypes'
    BY <1>1, <2>1
  <2>3. EsViewInv'
    BY <1>1, <2>1, Zenon DEF EsViewInv
  <2>4. EsActorInv'
    <3>1. /\ esActor'[n] = "set" => esActor[n] = "put" /\ n \in keys'
          /\ esActor'[n] = "unset" => esActor[n] = "delete" /\ n \notin keys'
          /\ esActor'[n] \notin {"set", "unset"} => esActor'[n] = "idle" /\ failed'[n]
      BY <1>1, <2>1 DEF EtcdReturns, PutKey, DeleteKey
    <3> QED
      BY <1>1, <2>1, <3>1, ZenonT(30) DEF EsActorInv
  <2> QED
    BY <2>1, <2>2, <2>3, <2>4
<1> QED
  BY <1>2, <1>3 DEF EtcdReturns

\* A node that dies leaves no key behind.
LEMMA CrashStep ==
  ASSUME EsInv, NEW n \in EsNodes, Crash(n)
  PROVE  EsInv'
<1> USE DEF EsInv, EsTypes, EsPlaces, Does
<1>1. /\ keys' \subseteq EsNodes /\ log' \in Seq(EsChanges) /\ Len(log') >= Len(log)
      /\ EsLogInv'
      /\ \A m \in EsNodes, r \in Nat : r <= Len(log) /\ Settled(log', m, r) =>
           Settled(log, m, r) /\ (m \in keys' <=> m \in keys)
      /\ \A m \in EsNodes : m # n => (m \in keys' <=> m \in keys)
      /\ n \in keys' <=> PutKey(n)
  BY KeyStep DEF Crash
<1>2. EsTypes'
  <2>1. sub' = [m \in EsNodes |-> sub'[m]]
    BY Zenon DEF Crash
  <2> QED
    BY <1>1, <2>1 DEF Crash
<1>3. EsViewInv'
  BY <1>1 DEF Crash, EsViewInv
<1>4. EsActorInv'
  <2>1. n \notin keys'
    BY DEF Crash, DeleteKey
  <2> QED
    BY <1>1, <2>1, Zenon DEF Crash, EsActorInv
<1> QED
  BY <1>1, <1>2, <1>3, <1>4

\* The watch goroutine applies the next change.
LEMMA ParseStep ==
  ASSUME EsInv, NEW n \in EsNodes, ParseWatchEventStream(n)
  PROVE  EsInv'
<1> USE DEF EsInv, EsTypes
<1> DEFINE k == pos[n] + 1
<1>1. k \in 1 .. Len(log) /\ log[k] \in EsChanges
  BY DEF ParseWatchEventStream
<1>2. /\ UNCHANGED <<keys, log, esActor, sub, watching, failed>>
      /\ pos' = [pos EXCEPT ![n] = k]
      /\ eventMap' = [eventMap EXCEPT ![n] = IF log[k].put THEN @ \cup {log[k].node} ELSE @ \ {log[k].node}]
  BY <1>1, ZenonT(30) DEF ParseWatchEventStream, Added, Deleted
<1>3. log[k].node \in EsNodes /\ log[k].put \in BOOLEAN
  BY <1>1 DEF EsChanges
<1> HIDE DEF k
<1>4. EsTypes' /\ EsLogInv' /\ EsActorInv'
  BY <1>1, <1>2, <1>3 DEF EsLogInv, EsActorInv, Settled
<1>5. EsViewInv'
  <2> SUFFICES ASSUME NEW i \in EsNodes, NEW m \in EsNodes,
                      esActor[i] \notin {"new", "gone"}, Settled(log, m, pos'[i])
               PROVE  m \in eventMap'[i] <=> m \in keys
    BY <1>2 DEF EsViewInv, Settled
  <2>1. CASE i # n
    BY <1>2, <2>1 DEF EsViewInv
  <2>2. CASE i = n /\ log[k].node = m
    BY <1>1, <1>2, <1>3, <2>2 DEF EsLogInv
  <2>3. CASE i = n /\ log[k].node # m
    <3>1. Settled(log, m, k)
      BY <1>2, <2>3, SMTT(30)
    <3>2. Settled(log, m, pos[n])
      BY <1>1, <2>3, <3>1 DEF Settled, k
    <3> QED
      BY <1>2, <2>3, <3>2 DEF EsViewInv
  <2> QED
    BY <2>1, <2>2, <2>3, SMTT(30)
<1> QED
  BY <1>4, <1>5

\* Keys, the log of their changes, the views and the subscribers agree in every reachable state.
THEOREM EsInvariance == EsSpec => []EsInv
<1>1. EsInv /\ [EsNext]_esVars => EsInv'
  <2> SUFFICES ASSUME EsInv, [EsNext]_esVars PROVE EsInv'
    OBVIOUS
  <2>1. CASE UNCHANGED esVars
    BY <2>1 DEF esVars, EsInv, EsTypes, EsLogInv, EsViewInv, EsActorInv, Settled
  <2>2. CASE EsNext
    BY <2>2, ActorStep, EtcdStep, CrashStep, ParseStep DEF EsNext
  <2> QED
    BY <2>1, <2>2
<1> QED
  BY <1>1, EsInvInit, PTL DEF EsSpec

(***************************************************************************)
(* A caught-up node publishes an event to exactly the nodes with a key for *)
(* it, and every subscriber of a node whose last registration did not fail *)
(* gets it, for any number of nodes and subscribers and although two       *)
(* goroutines of a node write its map.                                     *)
(***************************************************************************)
THEOREM PublishesReach == EsSpec => []PublishReaches
<1>1. EsInv => PublishReaches
  <2> SUFFICES ASSUME EsInv, NEW n \in EsNodes, CaughtUp(n)
               PROVE  /\ eventMap[n] = keys
                      /\ \A m \in EsNodes : esActor[m] = "idle" /\ ~failed[m] =>
                           /\ OnPublish(m) \subseteq BroadcastPublish(n)
                           /\ m \in eventMap[n] => OnPublish(m) # {}
    BY DEF PublishReaches, GetActorsByEvent
  <2>1. \A m \in EsNodes : Settled(log, m, pos[n])
    BY DEF CaughtUp, EsInv, EsTypes, Settled
  <2>2. eventMap[n] = keys
    BY <2>1, Zenon DEF CaughtUp, EsInv, EsTypes, EsViewInv
  <2>3. ASSUME NEW m \in EsNodes, esActor[m] = "idle", ~failed[m]
        PROVE  /\ OnPublish(m) \subseteq BroadcastPublish(n)
               /\ m \in eventMap[n] => OnPublish(m) # {}
    <3>1. sub[m] # {} <=> m \in eventMap[n]
      BY <2>2, <2>3, SMTT(30) DEF EsInv, EsActorInv
    <3>2. CASE m \in eventMap[n]
      <4>1. OnPublish(m) \subseteq BroadcastPublish(n)
        BY <3>2 DEF BroadcastPublish, GetActorsByEvent
      <4>2. PICK a \in sub[m] : TRUE
        BY <3>1, <3>2
      <4>3. <<m, a>> \in OnPublish(m)
        BY <4>2 DEF OnPublish
      <4> QED
        BY <4>1, <4>3
    <3>3. CASE m \notin eventMap[n]
      BY <3>1, <3>3 DEF OnPublish
    <3> QED
      BY <3>2, <3>3
  <2> QED
    BY <2>2, <2>3
<1> QED
  BY <1>1, EsInvariance, PTL
=============================================================================
