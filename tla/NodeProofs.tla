----------------------------- MODULE NodeProofs -----------------------------
(***************************************************************************)
(* Proofs about what a node does by itself: the sharded map behind its     *)
(* registry and its table of waiting Asks (ShardedMap), its id generator   *)
(* (Uuid), and the order of its start (SystemLife).                        *)
(***************************************************************************)
EXTENDS ShardedMap, Uuid, SystemLife, TLAPS

-----------------------------------------------------------------------------
(***************************************************************************)
(* The map. An entry that was there all along is in every shard already    *)
(* visited, because a writer that moves it marks it as not steady; an      *)
(* entry that was collected was there when its shard was copied.           *)
(***************************************************************************)

\* While something iterates, what was always there is there still, what is there was there at some
\* time, what was collected was there at some time, and of the shards that are done nothing that was
\* always there is missing.
SnapshotInv ==
  /\ entries = [k \in Keys |-> entries[k]]
  /\ visit \in [Shards -> {"todo", "waiting", "reading", "done"}]
  /\ iter # "none" =>
       /\ steady \subseteq Pairs(entries) /\ Pairs(entries) \subseteq sometime
       /\ taken \subseteq sometime
       /\ \A p \in steady : visit[GetShard[p[1]]] = "done" => p \in taken

\* A step that changes entries as Remembers records, and finishes no shard.
LEMMA RemembersStep ==
  ASSUME SnapshotInv, Remembers, UNCHANGED <<iter, taken>>, entries' = [k \in Keys |-> entries'[k]],
         visit' \in [Shards -> {"todo", "waiting", "reading", "done"}],
         \A s \in Shards : visit'[s] = "done" => visit[s] = "done"
  PROVE  SnapshotInv'
<1>1. \A p \in steady' : p \in Pairs(entries') /\ p \in steady
  BY DEF Remembers
<1>2. \A p \in Pairs(entries') : GetShard[p[1]] \in Shards
  BY ShardAssumption DEF Pairs
<1>3. (Pairs(entries))' = Pairs(entries')
  BY DEF Pairs
<1> QED
  BY <1>1, <1>2, <1>3 DEF Remembers, SnapshotInv

\* Every step of a writer, an iteration or a callback keeps the invariant.
LEMMA SnapshotInvStep == SnapshotInv /\ [MapNext]_mapVars => SnapshotInv'
<1> SUFFICES ASSUME SnapshotInv, [MapNext]_mapVars PROVE SnapshotInv'
  OBVIOUS
<1> USE ShardAssumption
<1>1. ASSUME NEW k \in Keys, Lock(k) PROVE SnapshotInv'
  BY <1>1 DEF Lock, SnapshotInv, Pairs
<1>2. ASSUME NEW k \in Keys, Write(k) PROVE SnapshotInv'
  <2>1. entries' = [j \in Keys |-> entries'[j]]
    BY <1>2 DEF Write, SnapshotInv
  <2>2. /\ visit' \in [Shards -> {"todo", "waiting", "reading", "done"}]
        /\ \A s \in Shards : visit'[s] = "done" => visit[s] = "done"
    BY <1>2 DEF Write, SnapshotInv
  <2> QED
    BY <1>2, <2>1, <2>2, RemembersStep DEF Write
<1>3. ASSUME NEW kind, Begin(kind) PROVE SnapshotInv'
  BY <1>3 DEF Begin, SnapshotInv, Pairs
<1>4. CASE Ends
  BY <1>4 DEF Ends, SnapshotInv
<1>5. ASSUME NEW s \in Shards, RLock(s) PROVE SnapshotInv'
  <2>1. \A p \in Pairs(entries) : GetShard[p[1]] \in Shards
    BY DEF Pairs
  <2>2. /\ visit' \in [Shards -> {"todo", "waiting", "reading", "done"}]
        /\ \A r \in Shards : visit'[r] = "done" => visit[r] = "done"
    BY <1>5 DEF RLock, SnapshotInv
  <2>3. UNCHANGED <<entries, iter, taken, steady, sometime, Pairs(entries)>>
    BY <1>5 DEF RLock, Pairs
  <2> QED
    BY <2>1, <2>2, <2>3 DEF SnapshotInv
<1>6. ASSUME NEW s \in Shards, Collect(s) PROVE SnapshotInv'
  <2>1. \A p \in Pairs(entries) : GetShard[p[1]] \in Shards
    BY DEF Pairs
  <2>2. /\ UNCHANGED <<entries, iter, steady, sometime, Pairs(entries)>>
        /\ taken' = taken \cup Shard(s) /\ visit' = [visit EXCEPT ![s] = "done"]
    BY <1>6 DEF Collect, Copies, Pairs
  <2>3. \A p \in Pairs(entries) : GetShard[p[1]] = s => p \in Shard(s)
    BY DEF Shard
  <2>4. Shard(s) \subseteq Pairs(entries)
    BY DEF Shard
  <2> QED
    BY <2>1, <2>2, <2>3, <2>4 DEF SnapshotInv
<1>7. ASSUME NEW p \in Keys \X Values, Process(p) PROVE SnapshotInv'
  <2>1. entries' = [j \in Keys |-> entries'[j]]
    BY <1>7 DEF Process, SnapshotInv
  <2> QED
    BY <1>7, <2>1, RemembersStep DEF Process, SnapshotInv
<1>8. CASE UNCHANGED mapVars
  BY <1>8 DEF mapVars, SnapshotInv, Pairs
<1> QED
  BY <1>1, <1>2, <1>3, <1>4, <1>5, <1>6, <1>7, <1>8 DEF MapNext, Iterates

\* What an iteration of the map has collected fits what was in the map while it ran.
THEOREM SnapshotInvariance == MapSpec => []SnapshotInv
<1>1. MapInit => SnapshotInv
  BY DEF MapInit, SnapshotInv
<1> QED
  BY <1>1, SnapshotInvStep, PTL DEF MapSpec

(***************************************************************************)
(* IterCb and the snapshots of registry.go, for any keys, values, shards   *)
(* and writers: an iteration that ends has handed over all that was there  *)
(* all along and nothing that was never there, although it locks one shard *)
(* after the other.                                                        *)
(***************************************************************************)
THEOREM SnapshotsExact == MapSpec => SnapshotExact
<1>1. SnapshotInv /\ [MapNext]_mapVars =>
        [iter # "none" /\ iter' = "none" => steady \subseteq taken /\ taken \subseteq sometime]_mapVars
  <2> SUFFICES ASSUME SnapshotInv, MapNext, iter # "none", iter' = "none"
               PROVE  steady \subseteq taken /\ taken \subseteq sometime
    OBVIOUS
  <2>1. Ends
    BY DEF MapNext, Iterates, Lock, Write, Begin, RLock, Collect, Copies, Process
  <2>2. \A p \in Pairs(entries) : GetShard[p[1]] \in Shards
    BY ShardAssumption DEF Pairs
  <2> QED
    BY <2>1, <2>2 DEF Ends, Collected, SnapshotInv
<1> QED
  BY <1>1, SnapshotInvariance, PTL DEF MapSpec, SnapshotExact

-----------------------------------------------------------------------------
(***************************************************************************)
(* The id generator. Within their ranges the three fields do not overlap,  *)
(* so packing is injective; a generator is always past every id it issued, *)
(* and its clock is past both.                                             *)
(***************************************************************************)

\* A product of numbers is a number, and grows with its factors.
LEMMA Product ==
  ASSUME NEW a \in Nat, NEW b \in Nat
  PROVE  a * b \in Nat /\ (a >= 1 => a * b >= b)
<1>1. a * b \in Nat
  OBVIOUS
<1>2. ASSUME a >= 1 PROVE a * b >= b
  <2>1. a - 1 \in Nat
    BY <1>2
  <2>2. (a - 1) * b >= 0
    BY <2>1
  <2>3. (a - 1) * b = a * b - b
    OBVIOUS
  <2> QED
    BY <2>2, <2>3
<1> QED
  BY <1>1, <1>2

\* A quotient below n and a remainder below m make a number below their product.
LEMMA LessProduct ==
  ASSUME NEW a \in Nat, NEW c \in Nat, NEW b \in Nat, a < c
  PROVE  a * b + b <= c * b
<1>1. c - a \in Nat /\ c - a >= 1
  OBVIOUS
<1>2. (c - a) * b >= b
  BY <1>1, Product
<1>3. (c - a) * b = c * b - a * b
  OBVIOUS
<1> QED
  BY <1>2, <1>3

\* A number below the modulus is its own remainder.
LEMMA SmallMod ==
  ASSUME NEW m \in Nat \ {0}, NEW x \in 0 .. m - 1
  PROVE  x % m = x
OBVIOUS

\* A quotient and a remainder are determined by the number they make.
LEMMA Digits ==
  ASSUME NEW b \in Nat \ {0}, NEW q \in Nat, NEW p \in Nat, NEW r \in 0 .. b - 1, NEW s \in 0 .. b - 1,
         q * b + r = p * b + s
  PROVE  q = p /\ r = s
<1>1. CASE q < p
  BY <1>1, LessProduct
<1>2. CASE p < q
  BY <1>2, LessProduct
<1>3. CASE q = p
  BY <1>3
<1> QED
  BY <1>1, <1>2, <1>3

\* What the time field and the step field can hold.
Times == Epoch .. Epoch + 2^TimeBits - 1
Steps == 0 .. 2^StepBits - 1

\* Inside their ranges the fields do not overlap and the word does not wrap.
LEMMA PackValue ==
  ASSUME NEW n \in 0 .. NodeMax, NEW t \in Times, NEW s \in Steps
  PROVE  Pack(n, t, s) = ((t - Epoch) * 2^NodeBits + n) * 2^StepBits + s
<1> DEFINE T == 2^TimeBits
           A == 2^NodeBits
           B == 2^StepBits
           x == t - Epoch
<1>1. T \in Nat \ {0} /\ A \in Nat \ {0} /\ B \in Nat \ {0} /\ Epoch \in Nat
  BY UuidAssumption
<1>2. 2^TimeShift = A * B /\ 2^TotalBits = T * (A * B)
  BY UuidAssumption
<1>3. x \in 0 .. T - 1 /\ n \in 0 .. A - 1
  BY <1>1 DEF Times, NodeMax
<1>4. Pack(n, t, s) = (((x % (T * (A * B))) * (A * B)) % (T * (A * B))) + ((n * B) % (T * (A * B))) + s
  BY <1>2 DEF Pack, Shl
<1>s. s \in Nat
  BY <1>1 DEF Steps
<1> HIDE DEF T, A, B, x
<1>5. A * B \in Nat /\ A * B >= 1 /\ A * B >= B
  BY <1>1, Product
<1>6. T * (A * B) \in Nat \ {0} /\ T * (A * B) >= A * B /\ T * (A * B) >= T
  <2>1. T * (A * B) \in Nat /\ T * (A * B) >= A * B
    BY <1>1, <1>5, Product
  <2>2. (A * B) * T >= T /\ (A * B) * T = T * (A * B)
    BY <1>1, <1>5, Product
  <2> QED
    BY <1>1, <1>5, <2>1, <2>2
<1>7. x % (T * (A * B)) = x
  <2>1. x \in 0 .. T * (A * B) - 1
    BY <1>1, <1>3, <1>6
  <2> QED
    BY <1>6, <2>1, SmallMod
<1>8. (x * (A * B)) % (T * (A * B)) = x * (A * B)
  <2>1. x \in Nat /\ x < T
    BY <1>1, <1>3
  <2>2. x * (A * B) + A * B <= T * (A * B) /\ x * (A * B) \in Nat
    BY <1>1, <1>5, <2>1, LessProduct, Product
  <2>3. x * (A * B) \in 0 .. T * (A * B) - 1
    BY <1>5, <1>6, <2>2
  <2> QED
    BY <1>6, <2>3, SmallMod
<1>9. (n * B) % (T * (A * B)) = n * B
  <2>1. n \in Nat /\ n < A
    BY <1>1, <1>3
  <2>2. n * B + B <= A * B /\ n * B \in Nat
    BY <1>1, <2>1, LessProduct, Product
  <2>3. n * B \in 0 .. T * (A * B) - 1
    BY <1>1, <1>5, <1>6, <2>2
  <2> QED
    BY <1>6, <2>3, SmallMod
<1>10. x * (A * B) + n * B = (x * A + n) * B
  <2>1. x \in Nat /\ n \in Nat
    BY <1>1, <1>3
  <2>2. x * (A * B) = (x * A) * B /\ x * A \in Nat
    BY <1>1, <2>1
  <2>3. (x * A + n) * B = (x * A) * B + n * B
    BY <1>1, <2>1, <2>2
  <2> QED
    BY <2>2, <2>3
<1>11. Pack(n, t, s) = (x * A + n) * B + s
  BY <1>4, <1>7, <1>8, <1>9, <1>10
<1> QED
  BY <1>11 DEF x, A, B

\* Ids of different fields are different.
LEMMA PackInjective ==
  ASSUME NEW n \in 0 .. NodeMax, NEW t \in Times, NEW s \in Steps,
         NEW m \in 0 .. NodeMax, NEW u \in Times, NEW r \in Steps,
         Pack(n, t, s) = Pack(m, u, r)
  PROVE  n = m /\ t = u /\ s = r
<1> DEFINE A == 2^NodeBits
           B == 2^StepBits
           x == t - Epoch
           y == u - Epoch
<1>1. A \in Nat \ {0} /\ B \in Nat \ {0} /\ Epoch \in Nat /\ 2^TimeBits \in Nat
  BY UuidAssumption
<1>2. (x * A + n) * B + s = (y * A + m) * B + r
  BY PackValue
<1>3. x \in Nat /\ y \in Nat /\ n \in 0 .. A - 1 /\ m \in 0 .. A - 1
  BY <1>1 DEF Times, NodeMax
<1>4. s \in 0 .. B - 1 /\ r \in 0 .. B - 1
  BY DEF Steps
<1> HIDE DEF A, B
<1>5. x * A \in Nat /\ y * A \in Nat
  BY <1>1, <1>3
<1>6. x * A + n = y * A + m /\ s = r
  <2>1. x * A + n \in Nat /\ y * A + m \in Nat
    BY <1>1, <1>3, <1>5
  <2> HIDE DEF x, y
  <2> QED
    BY <1>1, <1>2, <1>4, <2>1, Digits
<1>7. x = y /\ n = m
  <2> HIDE DEF x, y
  <2> QED
    BY <1>1, <1>3, <1>6, Digits
<1>8. t \in Int /\ u \in Int
  BY <1>1 DEF Times
<1> QED
  BY <1>1, <1>6, <1>7, <1>8

\* The generator of n has gone past millisecond t's step s.
Past(n, t, s) ==
  \/ t < gen[n].baseWall \/ t < gen[n].timestamp
  \/ t = gen[n].timestamp /\ (gen[n].waiting \/ s <= gen[n].step)

\* The types of the clock, the generators and the history.
UuidTypes ==
  /\ ms \in 0 .. MaxMs /\ until \in [NodeIds -> Int]
  /\ reused \subseteq [at : Int, base : Int, until : Int]
  /\ gen \in [NodeIds -> Generators \cup {NoGen}]

\* A generator's clock stays in the time field and does not fall behind what it has issued.
ClockInv ==
  \A n \in NodeIds : gen[n] # NoGen =>
    /\ n <= NodeMax
    /\ gen[n].baseMono <= ms /\ gen[n].baseWall >= Epoch
    /\ gen[n].baseWall - gen[n].baseMono + MaxMs < Epoch + 2^TimeBits
    /\ gen[n].timestamp <= NowMs(n)

\* Every id was made by the generator of its node, which has gone past it, or by an earlier process
\* of the node, no later than that process's clock showed when it was replaced.
IssuedInv ==
  \A x \in ids : \E n \in 0 .. NodeMax, t \in Times, s \in Steps :
    gen[n] # NoGen /\ (t <= until[n] \/ Past(n, t, s)) /\ x = Pack(n, t, s)

\* The inductive invariant: types, clocks, where ids come from, and the property.
UuidInv == UuidTypes /\ ClockInv /\ IssuedInv /\ ReuseOnlyInReenteredTime

\* NodeMax is a node id.
LEMMA NodeRange == 0 .. NodeMax \subseteq NodeIds /\ NodeMax \in Nat
BY UuidAssumption DEF NodeMax, NodeIds

\* A step that issues an id its generator has not gone past.
LEMMA IssueStep ==
  ASSUME UuidInv, NEW n \in NodeIds, gen[n] # NoGen, NEW now \in Int, NEW s \in Steps,
         now = NowMs(n), Issue(n, now, s),
         now > gen[n].timestamp \/ (now = gen[n].timestamp /\ ~gen[n].waiting /\ s > gen[n].step)
  PROVE  UuidInv'
<1> DEFINE g == gen[n]
<1>1. /\ g \in Generators /\ ms \in 0 .. MaxMs /\ MaxMs \in Nat /\ Epoch \in Nat /\ n \in Nat
      /\ 2^TimeBits \in Nat /\ 2^StepBits \in Nat \ {0}
  BY UuidAssumption, NodeRange DEF UuidInv, UuidTypes, NodeIds
<1>2. /\ g.baseWall \in Nat /\ g.baseMono \in Nat /\ g.timestamp \in Nat /\ g.step \in Steps
      /\ g.waiting \in BOOLEAN
  BY <1>1 DEF Generators, Steps
<1>3. /\ n <= NodeMax /\ g.baseMono <= ms /\ g.baseWall >= Epoch
      /\ g.baseWall - g.baseMono + MaxMs < Epoch + 2^TimeBits
      /\ g.timestamp <= now
  BY DEF UuidInv, ClockInv
<1>4. now = g.baseWall + (ms - g.baseMono)
  BY DEF NowMs
<1>5. now \in Times /\ now >= g.baseWall /\ n \in 0 .. NodeMax /\ now \in Nat
  BY <1>1, <1>2, <1>3, <1>4, NodeRange DEF Times
<1>6. /\ gen' = [gen EXCEPT ![n] = [g EXCEPT !.timestamp = now, !.step = s, !.waiting = FALSE]]
      /\ ids' = ids \cup {Pack(n, now, s)} /\ ms' = ms /\ until' = until
      /\ reused' = IF Pack(n, now, s) \notin ids THEN reused
                   ELSE reused \cup {[at |-> now, base |-> g.baseWall, until |-> until[n]]}
  BY Zenon DEF Issue
<1>7. /\ gen'[n] \in Generators /\ gen'[n].baseWall = g.baseWall /\ gen'[n].baseMono = g.baseMono
      /\ gen'[n].timestamp = now /\ gen'[n].step = s /\ gen'[n].waiting = FALSE
      /\ \A m \in NodeIds : m # n => gen'[m] = gen[m]
  BY <1>1, <1>5, <1>6, Zenon DEF UuidInv, UuidTypes, Generators, Steps
<1>8. UuidTypes'
  BY <1>2, <1>5, <1>6, <1>7 DEF UuidInv, UuidTypes
<1>9. ClockInv'
  BY <1>3, <1>4, <1>6, <1>7 DEF UuidInv, ClockInv, NowMs
<1>10. IssuedInv'
  <2> SUFFICES ASSUME NEW x \in ids'
               PROVE  \E m \in 0 .. NodeMax, t \in Times, r \in Steps :
                        gen'[m] # NoGen /\ (t <= until[m] \/ Past(m, t, r)') /\ x = Pack(m, t, r)
    BY <1>6 DEF IssuedInv, Past, Pack, Shl
  <2>1. gen'[n] # NoGen
    BY <1>7, UuidAssumption
  <2>2. CASE x = Pack(n, now, s)
    <3>1. Past(n, now, s)'
      BY <1>7, <1>1 DEF Past, Steps
    <3> QED
      BY <1>5, <2>1, <2>2, <3>1
  <2>3. CASE x \in ids
    <3>1. PICK m \in 0 .. NodeMax, t \in Times, r \in Steps :
            gen[m] # NoGen /\ (t <= until[m] \/ Past(m, t, r)) /\ x = Pack(m, t, r)
      BY <2>3 DEF UuidInv, IssuedInv
    <3>2. t \in Int /\ r \in Int /\ s \in Int /\ g.step \in Int
      BY <1>1, <1>2 DEF Times, Steps
    <3>3. CASE m # n
      BY <1>7, <3>1, <3>3, NodeRange DEF Past
    <3>4. CASE m = n
      <4>1. t <= until[n] \/ Past(n, t, r)'
        BY <1>2, <1>3, <1>5, <1>7, <3>1, <3>2, <3>4 DEF Past
      <4> QED
        BY <2>1, <3>1, <3>4, <4>1
    <3> QED
      BY <3>3, <3>4
  <2> QED
    BY <1>6, <2>2, <2>3
<1>11. ASSUME Pack(n, now, s) \in ids PROVE now <= until[n]
  <2>1. PICK m \in 0 .. NodeMax, t \in Times, r \in Steps :
          gen[m] # NoGen /\ (t <= until[m] \/ Past(m, t, r)) /\ Pack(n, now, s) = Pack(m, t, r)
    BY <1>11 DEF UuidInv, IssuedInv
  <2>2. m = n /\ t = now /\ r = s
    BY <1>5, <2>1, PackInjective
  <2>3. s \in Int /\ g.step \in Int
    BY <1>1, <1>2 DEF Steps
  <2>4. ~Past(n, now, s)
    BY <1>2, <1>3, <1>5, <2>3 DEF Past
  <2> QED
    BY <2>1, <2>2, <2>4
<1>12. ReuseOnlyInReenteredTime'
  BY <1>5, <1>6, <1>11 DEF UuidInv, ReuseOnlyInReenteredTime
<1> QED
  BY <1>8, <1>9, <1>10, <1>12 DEF UuidInv

\* Generate: within the millisecond, after a carry of the step, and after waiting for the clock.
LEMMA GenerateStep ==
  ASSUME UuidInv, NEW n \in NodeIds, Generate(n) \/ WaitOver(n)
  PROVE  UuidInv'
<1> DEFINE g == gen[n]
<1>1. g # NoGen /\ g \in Generators /\ 2^StepBits \in Nat \ {0}
  BY UuidAssumption DEF Generate, WaitOver, UuidInv, UuidTypes
<1>2. /\ g.baseWall \in Nat /\ g.baseMono \in Nat /\ g.timestamp \in Nat /\ g.step \in Steps
      /\ g.waiting \in BOOLEAN /\ ms \in Nat
  BY <1>1, UuidAssumption DEF Generators, Steps, UuidInv, UuidTypes
<1>3. NowMs(n) \in Int /\ g.timestamp <= NowMs(n) /\ 0 \in Steps
  BY <1>1, <1>2 DEF UuidInv, ClockInv, NowMs, Steps
<1>4. CASE WaitOver(n)
  BY <1>1, <1>3, <1>4, IssueStep DEF WaitOver
<1>5. CASE Generate(n) /\ NowMs(n) # g.timestamp
  <2>1. Issue(n, NowMs(n), 0) /\ NowMs(n) > g.timestamp
    BY <1>2, <1>3, <1>5 DEF Generate
  <2> QED
    BY <1>1, <1>3, <2>1, IssueStep
<1>6. CASE Generate(n) /\ NowMs(n) = g.timestamp /\ (g.step + 1) % 2^StepBits # 0
  <2> DEFINE s == (g.step + 1) % 2^StepBits
  <2>1. Issue(n, NowMs(n), s) /\ ~g.waiting
    BY <1>2, <1>3, <1>6 DEF Generate
  <2>2. s \in Steps /\ s > g.step
    <3> DEFINE B == 2^StepBits
    <3>1. B \in Nat \ {0} /\ g.step \in 0 .. B - 1 /\ s = (g.step + 1) % B /\ s # 0
      BY <1>1, <1>2, <1>6 DEF Steps
    <3>2. s \in 0 .. B - 1 => s \in Steps
      BY DEF Steps
    <3> HIDE DEF B, s
    <3>3. CASE g.step + 1 = B
      <4>1. B % B = 0
        BY <3>1
      <4> QED
        BY <3>1, <3>3, <4>1
    <3>4. CASE g.step + 1 # B
      <4>1. g.step + 1 \in 0 .. B - 1
        BY <3>1, <3>4
      <4>2. s = g.step + 1
        BY <3>1, <4>1, SmallMod
      <4> QED
        BY <3>1, <3>2, <4>1, <4>2
    <3> QED
      BY <3>3, <3>4
  <2> HIDE DEF s
  <2> QED
    BY <1>1, <1>3, <1>6, <2>1, <2>2, IssueStep
<1>7. CASE Generate(n) /\ NowMs(n) = g.timestamp /\ (g.step + 1) % 2^StepBits = 0
  <2>1. /\ gen' = [gen EXCEPT ![n] = [g EXCEPT !.step = 0, !.waiting = TRUE]]
        /\ UNCHANGED <<ms, ids, until, reused>>
    BY <1>2, <1>3, <1>7, Zenon DEF Generate
  <2>2. /\ gen'[n] \in Generators /\ gen'[n].baseWall = g.baseWall /\ gen'[n].baseMono = g.baseMono
        /\ gen'[n].timestamp = g.timestamp /\ gen'[n].step = 0 /\ gen'[n].waiting = TRUE
        /\ \A m \in NodeIds : m # n => gen'[m] = gen[m]
    BY <1>1, <1>2, <1>3, <2>1, Zenon DEF UuidInv, UuidTypes, Generators, Steps
  <2>3. UuidTypes'
    BY <2>1, <2>2 DEF UuidInv, UuidTypes
  <2>4. ClockInv'
    BY <1>1, <2>1, <2>2 DEF UuidInv, ClockInv, NowMs
  <2>5. \A m \in NodeIds, t \in Times, r \in Steps :
          gen[m] # NoGen /\ (t <= until[m] \/ Past(m, t, r))
            => gen'[m] # NoGen /\ (t <= until'[m] \/ Past(m, t, r)')
    BY <1>1, <2>1, <2>2, UuidAssumption DEF Past
  <2>6. IssuedInv'
    BY <2>1, <2>5, NodeRange DEF UuidInv, IssuedInv, Pack, Shl
  <2> QED
    BY <2>1, <2>3, <2>4, <2>6 DEF UuidInv, ReuseOnlyInReenteredTime
<1> QED
  BY <1>4, <1>5, <1>6, <1>7

\* A process takes a node id over: what the one before it issued is no later than its clock showed.
LEMMA NewStep ==
  ASSUME UuidInv, NEW n \in NodeIds, NEW skew \in Skews, NewUUID(n, skew)
  PROVE  UuidInv'
<1> DEFINE base == BaseWall(ms + skew)
<1>1. /\ ms \in 0 .. MaxMs /\ MaxMs \in Nat /\ Epoch \in Nat /\ 2^TimeBits \in Nat \ {0}
      /\ 2^StepBits \in Nat \ {0} /\ skew \in Int /\ MaxMs + skew - Epoch < 2^TimeBits /\ MaxMs < 2^TimeBits
  BY UuidAssumption DEF UuidInv, UuidTypes
<1>2. base \in Nat /\ base >= Epoch /\ base - ms + MaxMs < Epoch + 2^TimeBits
  BY <1>1 DEF BaseWall
<1>3. /\ n <= NodeMax /\ UNCHANGED <<ms, ids, reused>>
      /\ until' = [until EXCEPT ![n] = IF gen[n] # NoGen /\ NowMs(n) > @ THEN NowMs(n) ELSE @]
      /\ gen' = [gen EXCEPT ![n] = [baseWall |-> base, baseMono |-> ms,
                                    timestamp |-> 0, step |-> 0, waiting |-> FALSE]]
  BY DEF NewUUID
<1> HIDE DEF base
<1>4. /\ gen'[n] \in Generators /\ gen'[n].baseWall = base /\ gen'[n].baseMono = ms
      /\ gen'[n].timestamp = 0 /\ gen'[n].step = 0 /\ gen'[n].waiting = FALSE
      /\ \A m \in NodeIds : m # n => gen'[m] = gen[m]
  BY <1>1, <1>2, <1>3 DEF UuidInv, UuidTypes, Generators
<1>u. gen[n] # NoGen =>
        gen[n] \in Generators /\ gen[n].baseWall <= NowMs(n) /\ gen[n].timestamp <= NowMs(n) /\ NowMs(n) \in Int
  <2> SUFFICES ASSUME gen[n] # NoGen
               PROVE  /\ gen[n] \in Generators /\ gen[n].baseWall <= NowMs(n)
                      /\ gen[n].timestamp <= NowMs(n) /\ NowMs(n) \in Int
    OBVIOUS
  <2>1. gen[n] \in Generators
    BY DEF UuidInv, UuidTypes
  <2>2. gen[n].baseWall \in Nat /\ gen[n].baseMono \in Nat /\ gen[n].timestamp \in Nat
    BY <2>1, SMTT(30) DEF Generators
  <2> QED
    BY <1>1, <2>1, <2>2 DEF UuidInv, ClockInv, NowMs
<1>5. UuidTypes'
  BY <1>3, <1>4, <1>u DEF UuidInv, UuidTypes
<1>6. ClockInv'
  BY <1>1, <1>2, <1>3, <1>4 DEF UuidInv, ClockInv, NowMs
<1>7. ASSUME NEW m \in NodeIds, NEW t \in Times, NEW r \in Steps, gen[m] # NoGen,
             t <= until[m] \/ Past(m, t, r)
      PROVE  gen'[m] # NoGen /\ (t <= until'[m] \/ Past(m, t, r)')
  <2>1. CASE m # n
    BY <1>3, <1>4, <1>7, <2>1 DEF UuidInv, UuidTypes, Past
  <2>2. CASE m = n
    <3>1. /\ until[n] \in Int /\ until'[n] = IF NowMs(n) > until[n] THEN NowMs(n) ELSE until[n]
          /\ t \in Int /\ NowMs(n) \in Int
      BY <1>1, <1>3, <1>7, <1>u, <2>2 DEF UuidInv, UuidTypes, Times
    <3>2. CASE t <= until[n]
      BY <1>4, <2>2, <3>1, <3>2, UuidAssumption
    <3>3. CASE Past(n, t, r)
      <4>1. gen[n].baseWall \in Nat /\ gen[n].timestamp \in Nat
        BY <1>7, <1>u, <2>2, SMTT(30) DEF Generators
      <4>2. t <= NowMs(n)
        BY <1>7, <1>u, <2>2, <3>1, <3>3, <4>1 DEF Past
      <4> QED
        BY <1>4, <2>2, <3>1, <4>2, UuidAssumption
    <3> QED
      BY <1>7, <2>2, <3>2, <3>3
  <2> QED
    BY <2>1, <2>2
<1>8. IssuedInv'
  BY <1>3, <1>7, NodeRange DEF UuidInv, IssuedInv, Pack, Shl
<1> QED
  BY <1>3, <1>5, <1>6, <1>8 DEF UuidInv, ReuseOnlyInReenteredTime

\* Time passes.
LEMMA ClockStep ==
  ASSUME UuidInv, ClockTick
  PROVE  UuidInv'
<1>1. /\ ms \in 0 .. MaxMs /\ MaxMs \in Nat /\ ms' = ms + 1 /\ ms' \in 0 .. MaxMs
      /\ UNCHANGED <<gen, ids, until, reused>>
  BY UuidAssumption DEF UuidInv, UuidTypes, ClockTick
<1>2. ClockInv'
  <2> SUFFICES ASSUME NEW n \in NodeIds, gen[n] # NoGen
               PROVE  gen[n].baseMono <= ms' /\ gen[n].timestamp <= NowMs(n)'
    BY <1>1 DEF UuidInv, ClockInv, NowMs
  <2>1. gen[n] \in Generators
    BY DEF UuidInv, UuidTypes
  <2>2. gen[n].baseWall \in Nat /\ gen[n].baseMono \in Nat /\ gen[n].timestamp \in Nat
    BY <2>1 DEF Generators
  <2> QED
    BY <1>1, <2>2 DEF UuidInv, ClockInv, NowMs
<1>3. IssuedInv'
  BY <1>1 DEF UuidInv, IssuedInv, Past, Pack, Shl
<1> QED
  BY <1>1, <1>2, <1>3 DEF UuidInv, UuidTypes, ReuseOnlyInReenteredTime

\* Every generator stays past the ids it issued, over carries and waits, and its clock past both; what
\* earlier processes of its node issued is no later than their clocks showed.
THEOREM UuidInvariance == UuidSpec => []UuidInv
<1>1. UuidInit => UuidInv
  BY UuidAssumption DEF UuidInit, UuidInv, UuidTypes, ClockInv, IssuedInv, ReuseOnlyInReenteredTime
<1>2. UuidInv /\ [UuidNext]_uuidVars => UuidInv'
  <2> SUFFICES ASSUME UuidInv, [UuidNext]_uuidVars PROVE UuidInv'
    OBVIOUS
  <2>1. CASE UNCHANGED uuidVars
    BY <2>1 DEF uuidVars, UuidInv, UuidTypes, ClockInv, IssuedInv, NowMs, Past, Pack, Shl, ReuseOnlyInReenteredTime
  <2>2. CASE UuidNext
    BY <2>2, GenerateStep, NewStep, ClockStep DEF UuidNext
  <2> QED
    BY <2>1, <2>2
<1> QED
  BY <1>1, <1>2, PTL DEF UuidSpec

(***************************************************************************)
(* Generate issues an id a second time only in milliseconds that a clock   *)
(* shows twice to processes of one node, from where the later process      *)
(* started to where the earlier one was replaced; for any widths of the    *)
(* three fields and any number of nodes, restarts and clock skews, as long *)
(* as no clock passes the end of the time field.                           *)
(***************************************************************************)
THEOREM ReuseIsBounded == UuidSpec => []ReuseOnlyInReenteredTime
<1>1. UuidInv => ReuseOnlyInReenteredTime
  BY DEF UuidInv
<1> QED
  BY <1>1, UuidInvariance, PTL

\* On one wall clock past the epoch, every generator shows that clock, and no earlier process showed
\* more than where the generator started.
SameClockInv(skew) ==
  /\ \A n \in NodeIds :
       /\ until[n] <= ms + skew
       /\ gen[n] # NoGen => gen[n].baseWall = gen[n].baseMono + skew /\ until[n] <= gen[n].baseWall
  /\ \A r \in reused : r.until <= r.base

\* A generator that goes on shows the same clock.
LEMMA SameClockIssue ==
  ASSUME UuidInv, NEW skew \in Int, SameClockInv(skew), NEW n \in NodeIds, gen[n] # NoGen,
         NEW now, NEW s, NEW w,
         gen' = [gen EXCEPT ![n] = [gen[n] EXCEPT !.timestamp = now, !.step = s, !.waiting = w]],
         reused' \subseteq reused \cup {[at |-> now, base |-> gen[n].baseWall, until |-> until[n]]},
         UNCHANGED <<ms, until>>
  PROVE  SameClockInv(skew)'
<1>1. gen \in [NodeIds -> Generators \cup {NoGen}] /\ gen[n] \in Generators
  BY DEF UuidInv, UuidTypes
<1>2. gen[n].baseWall = gen[n].baseMono + skew /\ until[n] <= gen[n].baseWall
  BY DEF SameClockInv
<1>3. /\ gen'[n].baseWall = gen[n].baseWall /\ gen'[n].baseMono = gen[n].baseMono
      /\ \A m \in NodeIds : m # n => gen'[m] = gen[m]
  BY <1>1, SMTT(30) DEF Generators
<1>4. ASSUME NEW r \in reused' PROVE r.until <= r.base
  BY <1>2, <1>4 DEF SameClockInv
<1>5. ASSUME NEW m \in NodeIds
      PROVE  /\ until'[m] <= ms' + skew
             /\ gen'[m] # NoGen => gen'[m].baseWall = gen'[m].baseMono + skew /\ until'[m] <= gen'[m].baseWall
  BY <1>2, <1>3 DEF SameClockInv
<1> QED
  BY <1>4, <1>5 DEF SameClockInv

(***************************************************************************)
(* "a restart can at worst re-enter this millisecond" (uuid_clock_test.go):*)
(* if every process starts on the same wall clock, past the epoch, an id is*)
(* issued again only in the very millisecond in which its node restarted.  *)
(***************************************************************************)
THEOREM SameClockReentersOneMillisecond ==
  ASSUME NEW skew \in Int, Skews = {skew}, skew >= Epoch
  PROVE  UuidSpec => [](\A r \in reused : r.at = r.base)
<1>0. Epoch \in Nat
  BY UuidAssumption
<1>1. UuidInit => SameClockInv(skew)
  BY <1>0 DEF UuidInit, SameClockInv
<1>2. UuidInv /\ SameClockInv(skew) /\ [UuidNext]_uuidVars => SameClockInv(skew)'
  <2> SUFFICES ASSUME UuidInv, SameClockInv(skew), [UuidNext]_uuidVars PROVE SameClockInv(skew)'
    OBVIOUS
  <2>0. ms \in Nat /\ until \in [NodeIds -> Int] /\ gen \in [NodeIds -> Generators \cup {NoGen}]
    BY UuidAssumption DEF UuidInv, UuidTypes
  <2>1. ASSUME NEW n \in NodeIds, gen[n] # NoGen, NEW now, NEW s, Issue(n, now, s)
        PROVE  SameClockInv(skew)'
    <3>1. /\ gen' = [gen EXCEPT ![n] = [gen[n] EXCEPT !.timestamp = now, !.step = s, !.waiting = FALSE]]
          /\ reused' \subseteq reused \cup {[at |-> now, base |-> gen[n].baseWall, until |-> until[n]]}
          /\ UNCHANGED <<ms, until>>
      BY <2>1, Zenon DEF Issue
    <3> QED
      BY <2>1, <3>1, SameClockIssue
  <2>2. ASSUME NEW n \in NodeIds, Generate(n) \/ WaitOver(n) PROVE SameClockInv(skew)'
    <3>1. CASE \E now, s : Issue(n, now, s)
      BY <2>1, <2>2, <3>1 DEF Generate, WaitOver
    <3>2. CASE /\ gen' = [gen EXCEPT ![n].step = 0, ![n].waiting = TRUE]
               /\ UNCHANGED <<ms, ids, issued, until, reused>>
      <4>1. gen[n] # NoGen /\ gen[n] \in Generators
        BY <2>0, <2>2 DEF Generate, WaitOver
      <4>2. /\ gen'[n].baseWall = gen[n].baseWall /\ gen'[n].baseMono = gen[n].baseMono
            /\ \A m \in NodeIds : m # n => gen'[m] = gen[m]
        BY <2>0, <3>2, <4>1, SMTT(30) DEF Generators
      <4> QED
        BY <3>2, <4>1, <4>2 DEF SameClockInv
    <3> QED
      BY <2>2, <3>1, <3>2, Zenon DEF Generate, WaitOver
  <2>3. ASSUME NEW n \in NodeIds, NEW s \in Skews, NewUUID(n, s) PROVE SameClockInv(skew)'
    <3>1. BaseWall(ms + s) = ms + skew
      BY <1>0, <2>0 DEF BaseWall
    <3>2. /\ gen' = [gen EXCEPT ![n] = [baseWall |-> ms + skew, baseMono |-> ms,
                                       timestamp |-> 0, step |-> 0, waiting |-> FALSE]]
          /\ until' = [until EXCEPT ![n] = IF gen[n] # NoGen /\ NowMs(n) > @ THEN NowMs(n) ELSE @]
          /\ UNCHANGED <<ms, reused>>
      BY <2>3, <3>1, Zenon DEF NewUUID
    <3>3. gen[n] # NoGen => NowMs(n) = ms + skew
      <4> SUFFICES ASSUME gen[n] # NoGen PROVE NowMs(n) = ms + skew
        OBVIOUS
      <4>1. gen[n] \in Generators /\ gen[n].baseWall = gen[n].baseMono + skew
        BY <2>0 DEF SameClockInv
      <4>2. gen[n].baseMono \in Nat
        BY <4>1, SMTT(30) DEF Generators
      <4> QED
        BY <2>0, <4>1, <4>2 DEF NowMs
    <3>4. until[n] \in Int /\ until[n] <= ms + skew
      BY <2>0 DEF SameClockInv
    <3>5. /\ until'[n] <= ms + skew /\ gen'[n].baseWall = ms + skew /\ gen'[n].baseMono = ms
          /\ \A m \in NodeIds : m # n => gen'[m] = gen[m] /\ until'[m] = until[m]
      BY <2>0, <3>2, <3>3, <3>4
    <3> QED
      BY <3>2, <3>5 DEF SameClockInv
  <2>4. CASE ClockTick
    BY <2>0, <2>4 DEF ClockTick, SameClockInv
  <2>5. CASE UNCHANGED uuidVars
    BY <2>5 DEF uuidVars, SameClockInv
  <2> QED
    BY <2>2, <2>3, <2>4, <2>5 DEF UuidNext
<1>3. UuidInv /\ SameClockInv(skew) => \A r \in reused : r.at = r.base
  BY DEF UuidInv, UuidTypes, ReuseOnlyInReenteredTime, SameClockInv
<1> QED
  BY <1>1, <1>2, <1>3, UuidInvariance, PTL DEF UuidSpec

-----------------------------------------------------------------------------
(***************************************************************************)
(* The start of a node. Its kinds are known before its member key is       *)
(* written, so before another node can send it a message.                  *)
(***************************************************************************)

\* The node's kinds are set before it is listed, by itself or by an earlier process with its address.
LifeInv ==
  /\ listed \in BOOLEAN
  /\ main = "claiming" \/ listed \/ actor = "starting" => state
  /\ LockedActivation

(***************************************************************************)
(* An actor activated while its node starts takes its lock first, if no    *)
(* member entry of an earlier process with the node's address is left:     *)
(* Start sets the node's kinds before it publishes its member key. With    *)
(* such an entry left it does not hold (run life_unlocked).                *)
(***************************************************************************)
THEOREM ActivationsLocked ==
  ASSUME ~OldEntry
  PROVE  LifeSpec => []LockedActivation
<1>1. LifeInit => LifeInv
  BY Zenon DEF LifeInit, LifeInv, LockedActivation
<1>2. LifeInv /\ [LifeNext]_lifeVars => LifeInv'
  <2> SUFFICES ASSUME LifeInv, [LifeNext]_lifeVars PROVE LifeInv'
    OBVIOUS
  <2> USE DEF LifeInv, LockedActivation
  <2>1. CASE StartSteps
    <3>1. CASE LoadMembers
      <4>1. listed' \in BOOLEAN /\ (listed' => listed)
        BY <3>1 DEF LoadMembers
      <4> QED
        BY <3>1, <4>1 DEF LoadMembers
    <3>2. CASE ConfigInit
      BY <3>2 DEF ConfigInit, Main
    <3>3. CASE Register
      BY <3>3 DEF Register, Main
    <3>4. CASE Listen \/ Grant \/ ClaimLost \/ SystemInit \/ StartWatches \/ ProviderStartFails
      <4>1. main' # "claiming" /\ UNCHANGED <<listed, state, actor>>
        BY <3>4, Zenon DEF Main, Listen, Grant, ClaimLost, SystemInit, StartWatches, ProviderStartFails, node
      <4> QED
        BY <4>1
    <3> QED
      BY <2>1, <3>1, <3>2, <3>3, <3>4 DEF StartSteps
  <2>2. CASE Wait \/ Stops \/ \E signal \in BOOLEAN : StopBegins(signal)
    BY <2>2 DEF Stops, Main, Wait, StopBegins, StopActors, ProviderStop, ProviderReleases, ServerStop, node
  <2>3. CASE Report \/ ServeFails \/ WatchCloses \/ LeaseEnds
    BY <2>3 DEF Report, KeepAliveCloses, ChecksStopping, ForceStop, ServeFails, WatchCloses, LeaseEnds, node
  <2>4. CASE EnvelopeArrives \/ RegisterToCluster \/ ActorStops
    BY <2>4 DEF EnvelopeArrives, RegisterToCluster, ActorStops, node
  <2>5. CASE UNCHANGED lifeVars
    BY <2>5 DEF lifeVars, node
  <2> QED
    BY <2>1, <2>2, <2>3, <2>4, <2>5 DEF LifeNext
<1>3. LifeInv => LockedActivation
  BY DEF LifeInv
<1> QED
  BY <1>1, <1>2, <1>3, PTL DEF LifeSpec
=============================================================================
