-------------------------- MODULE PrimitiveProofs --------------------------
(***************************************************************************)
(* Proofs about the execution gate, the ring buffer and the timer of a     *)
(* node, each for any sets of its constants.                               *)
(***************************************************************************)
EXTENDS ExecutionGate, RingBuffer, Timer, SequenceTheorems, TLAPS

-----------------------------------------------------------------------------
(***************************************************************************)
(* The gate is free of data races on executingCall and implements the      *)
(* atomic Permit, for any sets of drainers and strays.                     *)
(***************************************************************************)

LEMMA InitGateInv == GateInit => GateInv
BY GateAssumption DEF GateInit, GateInv, GateTypes, Goroutines, Region

LEMMA NextGateInv == GateInv /\ [GateNext]_gateVars => GateInv'
<1> SUFFICES ASSUME GateInv, [GateNext]_gateVars PROVE GateInv'
  OBVIOUS
<1> USE GateAssumption DEF GateInv, GateTypes, Goroutines, Region, Step
<1>1. ASSUME NEW g \in Drainers, TakePermit(g) \/ SetCall(g) \/ PublishOwner(g) PROVE GateInv'
  BY <1>1 DEF TakePermit, SetCall, PublishOwner
<1>2. ASSUME NEW g \in Drainers, RevokeOwner(g) \/ ClearCall(g) \/ ReturnPermit(g) PROVE GateInv'
  BY <1>2 DEF RevokeOwner, ClearCall, ReturnPermit
<1>3. ASSUME NEW g \in Goroutines, LoadOwner(g) PROVE GateInv'
  BY <1>3 DEF LoadOwner, Home
<1>4. ASSUME NEW g \in Goroutines, ReadCall(g) PROVE GateInv'
  BY <1>4 DEF ReadCall, Home
<1>5. CASE UNCHANGED gateVars
  BY <1>5 DEF gateVars
<1> QED
  BY <1>1, <1>2, <1>3, <1>4, <1>5 DEF GateNext, DrainerStep

\* Where each goroutine of the gate is says who holds the permit and who writes executingCall.
THEOREM GateInvariance == GateSpec => []GateInv
BY InitGateInv, NextGateInv, PTL DEF GateSpec

(***************************************************************************)
(* No interleaving of enter, leave and currentExecution lets two goroutines*)
(* touch executingCall at once with one of them writing.                   *)
(***************************************************************************)
THEOREM RaceFree == GateSpec => []NoPointerRace
<1>1. GateInv => NoPointerRace
  BY GateAssumption
     DEF GateInv, GateTypes, NoPointerRace, Writing, Reading, Goroutines, Region
<1> QED
  BY <1>1, GateInvariance, PTL

\* Holder is the drainer in the region, when there is one.
LEMMA HolderIs ==
  ASSUME GateInv
  PROVE  /\ \A g \in Drainers : pc[g] \in Region <=> Holder = g
         /\ (\A g \in Drainers : pc[g] \notin Region) => Holder = None
BY GateAssumption DEF GateInv, Holder

LEMMA HolderIsNext ==
  ASSUME GateInv'
  PROVE  /\ \A g \in Drainers : pc'[g] \in Region <=> Holder' = g
         /\ (\A g \in Drainers : pc'[g] \notin Region) => Holder' = None
BY GateAssumption DEF GateInv, Holder

(***************************************************************************)
(* enter is one step of Permit at the receive from the permit channel,     *)
(* leave one at the send back, currentExecution one at its last load; every*)
(* other step of the gate is invisible.                                    *)
(***************************************************************************)
THEOREM Refinement == GateSpec => GateImplementsPermit
<1>1. GateInit => P!Init
  BY GateAssumption DEF GateInit, P!Init, Holder, Region, Goroutines, P!Goroutines
<1>2. ASSUME GateInv, GateInv', [GateNext]_gateVars
      PROVE  [P!Next]_<<Holder, seen>>
  <2> USE GateAssumption, <1>2 DEF Step, P!Next, P!Enter, P!Leave, P!Ask, P!Goroutines, Goroutines
  <2>0. /\ \A g \in Drainers : pc[g] \in Region <=> Holder = g
        /\ (\A g \in Drainers : pc[g] \notin Region) => Holder = None
        /\ \A g \in Drainers : pc'[g] \in Region <=> Holder' = g
        /\ (\A g \in Drainers : pc'[g] \notin Region) => Holder' = None
    BY HolderIs, HolderIsNext
  <2>1. ASSUME NEW g \in Drainers, TakePermit(g) PROVE P!Enter(g)
    BY <2>0, <2>1 DEF TakePermit, GateInv, GateTypes, Region
  <2>2. ASSUME NEW g \in Drainers, ReturnPermit(g) PROVE P!Leave(g)
    BY <2>0, <2>2 DEF ReturnPermit, GateInv, GateTypes, Region
  <2>3. ASSUME NEW g \in Drainers, SetCall(g) \/ PublishOwner(g) \/ RevokeOwner(g) \/ ClearCall(g)
        PROVE  UNCHANGED <<Holder, seen>>
    BY <2>0, <2>3 DEF SetCall, PublishOwner, RevokeOwner, ClearCall, GateInv, GateTypes, Region
  <2>4. ASSUME NEW g \in Goroutines, LoadOwner(g)
        PROVE  P!Ask(g) \/ UNCHANGED <<Holder, seen>>
    BY <2>0, <2>4 DEF LoadOwner, Home, GateInv, GateTypes, Region
  <2>5. ASSUME NEW g \in Goroutines, ReadCall(g) PROVE P!Ask(g)
    <3>1. g \in Drainers /\ executingCall = g /\ pc[g] \in Region
      BY <2>5 DEF ReadCall, GateInv, Region
    <3>2. pc'[g] \in Region
      BY <2>5, <3>1 DEF ReadCall, Home, GateInv, GateTypes, Region
    <3>3. Holder = g /\ Holder' = g
      BY <2>0, <3>1, <3>2
    <3> QED
      BY <2>5, <3>1, <3>3 DEF ReadCall
  <2>6. CASE UNCHANGED gateVars
    BY <2>0, <2>6 DEF gateVars, Holder
  <2> QED
    BY <2>1, <2>2, <2>3, <2>4, <2>5, <2>6 DEF GateNext, DrainerStep
<1> QED
  BY <1>1, <1>2, GateInvariance, PTL DEF GateSpec, GateImplementsPermit, P!Spec

-----------------------------------------------------------------------------
(***************************************************************************)
(* The ring buffer is a bounded FIFO queue for every initial capacity,     *)
(* limit and set of items. What a Push or a Pop does to the window of live *)
(* slots is proved once per operation (PushPlain, PushGrow, PopShift); the *)
(* invariant and the refinement both follow from it.                       *)
(***************************************************************************)

\* New leaves a usable pair of capacities whatever it is given.
LEMMA Capacities ==
  /\ initCap \in Int /\ initCap >= 1
  /\ maxCap \in Int /\ maxCap >= initCap
BY RingAssumption DEF initCap, maxCap

\* The indices are integers within the array.
LEMMA Numbers ==
  ASSUME RingTypes
  PROVE  /\ cap \in Int /\ cap >= 1 /\ initCap <= cap /\ cap <= maxCap
         /\ size \in Int /\ 0 <= size /\ size <= cap
         /\ head \in Int /\ 0 <= head /\ head < cap
         /\ tail \in Int /\ 0 <= tail /\ tail < cap
BY Capacities DEF RingTypes

\* Different elements have different slots.
LEMMA Slots ==
  ASSUME RingTypes
  PROVE  /\ \A i \in 0..cap - 1 : Slot(i) \in 0..cap - 1
         /\ \A i, j \in 0..cap - 1 : Slot(i) = Slot(j) => i = j
BY Numbers DEF Slot

\* Push into a ring with a free slot writes the slot behind the window.
LEMMA PushPlain ==
  ASSUME RingTypes, Window, NEW x \in Items, size # cap,
         items' = [items EXCEPT ![tail] = x], tail' = next(tail, cap), size' = size + 1,
         UNCHANGED <<head, cap>>
  PROVE  /\ RingTypes'
         /\ tail' = Slot(size)'
         /\ \A i \in 0..size : items'[Slot(i)'] = IF i < size THEN items[Slot(i)] ELSE x
<1>1. \A i : Slot(i)' = Slot(i)
  BY DEF Slot
<1>2. \A i \in 0..size - 1 : Slot(i) # tail
  BY Numbers, Slots DEF Window
<1>3. items' \in [0..cap - 1 -> Items \cup {Nil}] /\ items'[tail] = x
  BY Numbers DEF RingTypes
<1>4. tail' \in 0..cap - 1 /\ tail' = Slot(size)'
  <2>1. Slot(size)' = IF head + size + 1 < cap THEN head + size + 1 ELSE head + size + 1 - cap
    BY Numbers DEF Slot
  <2>2. tail = IF head + size < cap THEN head + size ELSE head + size - cap
    BY DEF Window, Slot
  <2> QED
    BY <2>1, <2>2, Numbers DEF next
<1>5. RingTypes'
  BY <1>3, <1>4, Numbers DEF RingTypes
<1>6. ASSUME NEW i \in 0..size
      PROVE  items'[Slot(i)'] = IF i < size THEN items[Slot(i)] ELSE x
  <2>1. CASE i = size
    BY <1>1, <1>3, <2>1, Numbers DEF Window
  <2>2. CASE i \in 0..size - 1
    BY <1>1, <1>2, <2>2, Numbers, Slots DEF RingTypes
  <2> QED
    BY <2>1, <2>2, Numbers
<1> QED
  BY <1>4, <1>5, <1>6

\* Push into a full ring below the limit unrolls it: element i moves to slot i.
LEMMA PushGrow ==
  ASSUME RingTypes, Window, NEW x \in Items, size = cap, cap < maxCap,
         items' = [grownItems EXCEPT ![size] = x], head' = 0, tail' = next(size, grownCap),
         size' = size + 1, cap' = grownCap
  PROVE  /\ RingTypes'
         /\ tail' = Slot(size)'
         /\ \A i \in 0..size : items'[Slot(i)'] = IF i < size THEN items[Slot(i)] ELSE x
<1>1. grownCap \in Int /\ cap < grownCap /\ grownCap <= maxCap
  BY Numbers, Capacities DEF grownCap, smaller
<1>2. tail = head
  BY Numbers DEF Window, Slot
<1>3. grownItems \in [0..grownCap - 1 -> Items \cup {Nil}]
  BY <1>1, <1>2, Numbers DEF grownItems, RingTypes
<1>4. items' \in [0..grownCap - 1 -> Items \cup {Nil}] /\ items'[size] = x
  BY <1>1, <1>3, Numbers
<1>5. \A i \in 0..grownCap - 1 : Slot(i)' = i
  BY <1>1 DEF Slot
<1>6. tail' \in 0..grownCap - 1 /\ tail' = Slot(size)'
  <2>1. Slot(size)' = IF size + 1 < grownCap THEN size + 1 ELSE size + 1 - grownCap
    BY <1>1, Numbers DEF Slot
  <2> QED
    BY <1>1, <2>1, Numbers DEF next
<1>7. RingTypes'
  BY <1>1, <1>4, <1>6, Numbers, Capacities DEF RingTypes
<1>8. \A i \in 0..size - 1 : grownItems[i] = items[Slot(i)]
  BY <1>1, <1>2, Numbers DEF grownItems, Slot
<1>9. ASSUME NEW i \in 0..size
      PROVE  items'[Slot(i)'] = IF i < size THEN items[Slot(i)] ELSE x
  <2>1. i \in 0..grownCap - 1
    BY <1>1, Numbers
  <2>2. CASE i = size
    BY <1>4, <1>5, <2>1, <2>2
  <2>3. CASE i \in 0..size - 1
    BY <1>3, <1>5, <1>8, <2>1, <2>3, Numbers
  <2> QED
    BY <2>2, <2>3, Numbers
<1> QED
  BY <1>6, <1>7, <1>9

\* Pop moves the window by one slot.
LEMMA PopShift ==
  ASSUME RingTypes, Window, size # 0,
         items' = [items EXCEPT ![head] = Nil], head' = next(head, cap), size' = size - 1,
         UNCHANGED <<tail, cap>>
  PROVE  /\ RingTypes'
         /\ tail' = Slot(size)'
         /\ \A i \in 0..size - 2 : items'[Slot(i)'] = items[Slot(i + 1)]
<1>1. ASSUME NEW i \in 0..size - 1 PROVE Slot(i)' = Slot(i + 1)
  <2>1. CASE head + 1 = cap
    <3>1. head' = 0 /\ cap' = cap /\ i < cap
      BY <2>1, Numbers DEF next
    <3> QED
      BY <2>1, <3>1, Numbers DEF Slot
  <2>2. CASE head + 1 # cap
    <3>1. head' = head + 1 /\ cap' = cap
      BY <2>2, Numbers DEF next
    <3> QED
      BY <3>1, Numbers DEF Slot
  <2> QED
    BY <2>1, <2>2
<1>2. items' \in [0..cap - 1 -> Items \cup {Nil}]
  BY Numbers DEF RingTypes
<1>3. head' \in 0..cap - 1
  BY Numbers DEF next
<1>4. tail' = Slot(size)'
  <2>1. ASSUME NEW i \in 0..size - 1, i = size - 1
        PROVE  Slot(i)' = tail
    BY <1>1, <2>1, Numbers DEF Window
  <2>2. size - 1 \in 0..size - 1 /\ size' = size - 1
    BY Numbers
  <2>3. \A i : i = size' => Slot(i)' = Slot(size)'
    BY DEF Slot
  <2> QED
    BY <2>1, <2>2, <2>3
<1>5. RingTypes'
  BY <1>2, <1>3, Numbers DEF RingTypes
<1>6. ASSUME NEW i \in 0..size - 2 PROVE items'[Slot(i)'] = items[Slot(i + 1)]
  <2>1. Slot(i + 1) \in 0..cap - 1 /\ Slot(i + 1) # head /\ i \in 0..size - 1
    BY Numbers DEF Slot
  <2>2. items'[Slot(i + 1)] = items[Slot(i + 1)]
    BY <2>1 DEF RingTypes
  <2> QED
    BY <1>1, <2>1, <2>2
<1> QED
  BY <1>4, <1>5, <1>6

-----------------------------------------------------------------------------
(* The window of live slots. *)

Core == RingTypes /\ Window

LEMMA InitCore == RingInit => Core
<1> SUFFICES ASSUME RingInit PROVE Core
  OBVIOUS
<1>1. cap \in Int /\ cap >= 1 /\ cap = initCap /\ head = 0 /\ tail = 0 /\ size = 0
  BY Capacities DEF RingInit
<1>2. items \in [0..cap - 1 -> Items \cup {Nil}]
  BY DEF RingInit
<1> QED
  BY <1>1, <1>2, Capacities DEF Core, RingTypes, Window, Slot

\* What the steps of the ring do, with the window facts of the lemmas above.
LEMMA PushStep ==
  ASSUME Core, NEW x \in Items, Push(x)
  PROVE  \/ UNCHANGED <<items, head, tail, size, cap, closed>>
         \/ /\ Core' /\ closed' = closed /\ size' = size + 1
            /\ \A i \in 0..size : items'[Slot(i)'] = IF i < size THEN items[Slot(i)] ELSE x
<1> SUFFICES ASSUME ~UNCHANGED <<items, head, tail, size, cap, closed>>
             PROVE  /\ Core' /\ closed' = closed /\ size' = size + 1
                    /\ \A i \in 0..size :
                         items'[Slot(i)'] = IF i < size THEN items[Slot(i)] ELSE x
  OBVIOUS
<1>1. size' = size + 1 /\ closed' = closed
  BY DEF Push
<1>2. /\ RingTypes'
      /\ tail' = Slot(size)'
      /\ \A i \in 0..size : items'[Slot(i)'] = IF i < size THEN items[Slot(i)] ELSE x
  <2>1. CASE size # cap
    <3>1. /\ items' = [items EXCEPT ![tail] = x] /\ tail' = next(tail, cap)
          /\ UNCHANGED <<head, cap>>
      BY <2>1 DEF Push
    <3> QED
      BY <1>1, <2>1, <3>1, PushPlain, Zenon DEF Core
  <2>2. CASE size = cap
    <3>1. /\ cap < maxCap
          /\ items' = [grownItems EXCEPT ![size] = x] /\ head' = 0
          /\ tail' = next(size, grownCap) /\ cap' = grownCap
      BY <2>2 DEF Push
    <3> QED
      BY <1>1, <2>2, <3>1, PushGrow, Zenon DEF Core
  <2> QED
    BY <2>1, <2>2
<1>3. \A i \in 0..size' - 1 : items'[Slot(i)'] # Nil
  <2> SUFFICES ASSUME NEW i \in 0..size PROVE items'[Slot(i)'] # Nil
    BY <1>1, Numbers DEF Core
  <2>1. i < size => items[Slot(i)] # Nil
    BY Numbers DEF Core, Window
  <2> QED
    BY <1>2, <2>1, RingAssumption
<1> QED
  BY <1>1, <1>2, <1>3 DEF Core, Window

LEMMA PopStep ==
  ASSUME Core, Pop, size # 0
  PROVE  /\ Core' /\ closed' = closed /\ size' = size - 1 /\ ret' = items[Slot(0)]
         /\ \A i \in 0..size - 2 : items'[Slot(i)'] = items[Slot(i + 1)]
<1>1. /\ items' = [items EXCEPT ![head] = Nil] /\ head' = next(head, cap)
      /\ size' = size - 1 /\ UNCHANGED <<tail, cap, closed>> /\ ret' = items[head]
  BY DEF Pop
<1>2. /\ RingTypes' /\ tail' = Slot(size)'
      /\ \A i \in 0..size - 2 : items'[Slot(i)'] = items[Slot(i + 1)]
  BY <1>1, PopShift DEF Core
<1>3. \A i \in 0..size' - 1 : items'[Slot(i)'] # Nil
  BY <1>1, <1>2, Numbers DEF Core, Window
<1>4. Slot(0) = head
  BY Numbers DEF Core, Slot
<1> QED
  BY <1>1, <1>2, <1>3, <1>4 DEF Core, Window

LEMMA SameCore ==
  ASSUME Core, UNCHANGED <<items, head, tail, size, cap>>
  PROVE  Core'
BY DEF Core, RingTypes, Window, Slot

LEMMA NextCore == Core /\ [RingNext]_ringVars => Core'
<1> SUFFICES ASSUME Core, [RingNext]_ringVars PROVE Core'
  OBVIOUS
<1>1. ASSUME NEW x \in Items, Push(x) PROVE Core'
  BY <1>1, PushStep, SameCore
<1>2. CASE Pop
  BY <1>2, PopStep, SameCore DEF Pop
<1>3. CASE Close \/ UNCHANGED ringVars
  BY <1>3, SameCore DEF Close, ringVars
<1> QED
  BY <1>1, <1>2, <1>3 DEF RingNext

\* The closed flag is a Boolean.
LEMMA ClosedType == closed \in BOOLEAN /\ [RingNext]_ringVars => (closed \in BOOLEAN)'
BY Zenon DEF RingNext, Push, Pop, Close, ringVars

(***************************************************************************)
(* For every capacity the indices of the ring agree and its live slots hold*)
(* elements.                                                               *)
(***************************************************************************)
THEOREM RingInvariance == RingSpec => []RingInv
<1>1. RingInit => Core /\ closed \in BOOLEAN
  BY InitCore, Zenon DEF RingInit
<1>2. Core /\ closed \in BOOLEAN /\ [RingNext]_ringVars => (Core /\ closed \in BOOLEAN)'
  BY NextCore, ClosedType
<1>3. Core /\ closed \in BOOLEAN => RingInv
  BY DEF Core, RingInv
<1> QED
  BY <1>1, <1>2, <1>3, PTL DEF RingSpec

-----------------------------------------------------------------------------
(* The ring as a queue. *)

LEMMA ContentsType ==
  ASSUME Core
  PROVE  /\ Contents \in Seq(Items) /\ Len(Contents) = size /\ DOMAIN Contents = 1..size
         /\ \A i \in 1..size : Contents[i] = items[Slot(i - 1)]
<1>1. \A i \in 1..size : items[Slot(i - 1)] \in Items
  <2> SUFFICES ASSUME NEW i \in 1..size PROVE items[Slot(i - 1)] \in Items
    OBVIOUS
  <2>1. i - 1 \in 0..size - 1 /\ i - 1 \in 0..cap - 1
    BY Numbers DEF Core
  <2>2. items[Slot(i - 1)] # Nil
    BY <2>1 DEF Core, Window
  <2>3. Slot(i - 1) \in 0..cap - 1
    BY <2>1, Slots DEF Core
  <2> QED
    BY <2>2, <2>3 DEF Core, RingTypes
<1>2. size \in Nat
  BY Numbers DEF Core
<1> QED
  BY <1>1, <1>2 DEF Contents

LEMMA PushAppends ==
  ASSUME Core, Core', NEW x \in Items, size' = size + 1,
         \A i \in 0..size : items'[Slot(i)'] = IF i < size THEN items[Slot(i)] ELSE x
  PROVE  Contents' = Append(Contents, x)
<1>1. /\ Contents \in Seq(Items) /\ Len(Contents) = size
      /\ \A i \in 1..size : Contents[i] = items[Slot(i - 1)]
  BY ContentsType
<1>2. Contents' = [i \in 1..size + 1 |-> items'[Slot(i - 1)']]
  BY DEF Contents
<1>3. /\ Append(Contents, x) \in Seq(Items) /\ Len(Append(Contents, x)) = size + 1
      /\ \A i \in 1..size : Append(Contents, x)[i] = Contents[i]
      /\ Append(Contents, x)[size + 1] = x
  BY <1>1, AppendProperties
<1>4. size \in Nat
  BY Numbers DEF Core
<1>5. \A i \in 1..size + 1 : items'[Slot(i - 1)'] = Append(Contents, x)[i]
  <2> SUFFICES ASSUME NEW i \in 1..size + 1
               PROVE  items'[Slot(i - 1)'] = Append(Contents, x)[i]
    BY Zenon
  <2>1. i - 1 \in 0..size /\ (i - 1 < size => i \in 1..size) /\ (~(i - 1 < size) => i = size + 1)
    BY <1>4
  <2>2. items'[Slot(i - 1)'] = IF i - 1 < size THEN items[Slot(i - 1)] ELSE x
    BY <2>1
  <2> QED
    BY <1>1, <1>3, <2>1, <2>2
<1> DEFINE A == Append(Contents, x)
<1>6. A \in Seq(Items) /\ Len(A) = size + 1
  BY <1>3
<1> HIDE DEF A
<1>7. A = [i \in 1..size + 1 |-> A[i]]
  BY <1>6, <1>4
<1> QED
  BY <1>2, <1>5, <1>7 DEF A

LEMMA PopTakesHead ==
  ASSUME Core, Core', size # 0, size' = size - 1,
         \A i \in 0..size - 2 : items'[Slot(i)'] = items[Slot(i + 1)]
  PROVE  Contents # <<>> /\ Head(Contents) = items[Slot(0)] /\ Contents' = Tail(Contents)
<1>1. /\ Contents \in Seq(Items) /\ Len(Contents) = size
      /\ \A i \in 1..size : Contents[i] = items[Slot(i - 1)]
  BY ContentsType
<1>2. size \in Nat /\ size >= 1
  BY Numbers DEF Core
<1>3. Contents # <<>> /\ Head(Contents) = Contents[1]
  BY <1>1, <1>2
<1>4. Contents' = [i \in 1..size - 1 |-> items'[Slot(i - 1)']]
  BY DEF Contents
<1> DEFINE T == Tail(Contents)
<1>5. T \in Seq(Items) /\ Len(T) = size - 1 /\ \A i \in 1..size - 1 : T[i] = Contents[i + 1]
  BY <1>1, <1>2, <1>3
<1> HIDE DEF T
<1>6. \A i \in 1..size - 1 : items'[Slot(i - 1)'] = T[i]
  <2> SUFFICES ASSUME NEW i \in 1..size - 1 PROVE items'[Slot(i - 1)'] = T[i]
    OBVIOUS
  <2>1. i - 1 \in 0..size - 2 /\ i + 1 \in 1..size /\ (i - 1) + 1 = i /\ (i + 1) - 1 = i
    BY <1>2
  <2>2. items'[Slot(i - 1)'] = items[Slot(i)]
    BY <2>1
  <2>3. T[i] = items[Slot(i)]
    BY <1>1, <1>5, <2>1
  <2> QED
    BY <2>2, <2>3
<1>7. T = [i \in 1..size - 1 |-> T[i]]
  BY <1>2, <1>5
<1>8. Contents[1] = items[Slot(0)]
  BY <1>1, <1>2
<1> QED
  BY <1>3, <1>4, <1>6, <1>7, <1>8 DEF T

LEMMA SameContents ==
  ASSUME UNCHANGED <<items, head, tail, size, cap>>
  PROVE  UNCHANGED Contents
BY DEF Contents, Slot

\* Every step of the ring is a step of the queue.
LEMMA StepRefines ==
  ASSUME Core, [RingNext]_ringVars
  PROVE  [F!Next]_<<Contents, closed, ret>>
<1>0. Len(Contents) = size /\ size \in Int /\ size <= maxCap /\ size <= cap /\ cap <= maxCap
      /\ maxCap \in Int /\ cap \in Int
  BY ContentsType, Numbers, Capacities DEF Core
<1>1. ASSUME NEW x \in Items, Push(x) PROVE F!Push(x)
  <2>1. CASE closed
    BY <1>1, <2>1, SameContents DEF Push, F!Push
  <2>2. CASE ~closed /\ size = cap /\ cap >= maxCap
    <3>1. ret' = "PushOverflow" /\ UNCHANGED <<items, head, tail, size, cap, closed>>
      BY <1>0, <1>1, <2>2 DEF Push
    <3> QED
      BY <1>0, <2>2, <3>1, SameContents DEF F!Push
  <2>3. CASE ~closed /\ ~(size = cap /\ cap >= maxCap)
    <3>1. ret' = "PushOK" /\ size' = size + 1 /\ closed' = closed
      BY <1>0, <1>1, <2>3 DEF Push
    <3>2. size' # size
      BY <1>0, <3>1
    <3>3. Contents' = Append(Contents, x)
      BY <1>1, <3>1, <3>2, PushStep, PushAppends
    <3>4. Len(Contents) < maxCap
      BY <1>0, <2>3
    <3> QED
      BY <2>3, <3>1, <3>3, <3>4, Zenon DEF F!Push
  <2> QED
    BY <2>1, <2>2, <2>3
<1>2. CASE Pop
  <2>1. CASE size = 0
    <3>1. Contents = <<>>
      BY <2>1 DEF Contents
    <3>2. ret' = Nil /\ UNCHANGED <<items, head, tail, size, cap, closed>>
      BY <1>2, <2>1 DEF Pop
    <3> QED
      BY <3>1, <3>2, SameContents DEF F!Next, F!Pop
  <2>2. CASE size # 0
    BY <1>2, <2>2, PopStep, PopTakesHead DEF F!Next, F!Pop
  <2> QED
    BY <2>1, <2>2
<1>3. CASE Close
  BY <1>3, SameContents DEF Close, F!Next, F!Close
<1>4. CASE UNCHANGED ringVars
  BY <1>4, SameContents DEF ringVars
<1> QED
  BY <1>1, <1>2, <1>3, <1>4 DEF RingNext, F!Next

(***************************************************************************)
(* The ring is a FIFO queue that refuses exactly at maxCap: head, tail,    *)
(* wrap-around and doubling are invisible to Push and Pop.                 *)
(***************************************************************************)
THEOREM RingRefinement == RingSpec => RingImplementsFifo
<1>1. RingInit => F!Init
  <2> SUFFICES ASSUME RingInit PROVE F!Init
    OBVIOUS
  <2>1. Contents = <<>>
    BY DEF RingInit, Contents
  <2> QED
    BY <2>1 DEF RingInit, F!Init
<1>2. Core /\ [RingNext]_ringVars => [F!Next]_<<Contents, closed, ret>>
  BY StepRefines
<1> QED
  BY <1>1, <1>2, InitCore, NextCore, PTL DEF RingSpec, RingImplementsFifo, F!Spec

-----------------------------------------------------------------------------
(* Slots outside the window. *)

LEMMA NoStaleStep == Core /\ NoStaleSlots /\ [RingNext]_ringVars => NoStaleSlots'
<1> SUFFICES ASSUME Core, NoStaleSlots, [RingNext]_ringVars PROVE NoStaleSlots'
  OBVIOUS
<1>1. CASE UNCHANGED <<items, head, size, cap>>
  BY <1>1 DEF NoStaleSlots, Slot
<1>2. ASSUME NEW x \in Items, Push(x), size # cap, size' # size PROVE NoStaleSlots'
  <2>1. /\ items' = [items EXCEPT ![tail] = x] /\ UNCHANGED <<head, cap>> /\ size' = size + 1
    BY <1>2 DEF Push
  <2>2. ASSUME NEW j \in 0..cap - 1, \A i \in 0..size : Slot(i) # j PROVE items'[j] = Nil
    <3>1. j # tail
      BY <2>2, Numbers DEF Core, Window
    <3>2. items[j] = Nil
      BY <2>2, Numbers DEF Core, NoStaleSlots
    <3> QED
      BY <2>1, <3>1, <3>2 DEF Core, RingTypes
  <2>3. \A i : Slot(i)' = Slot(i)
    BY <2>1 DEF Slot
  <2>4. 0..size' - 1 = 0..size
    BY <2>1, Numbers DEF Core
  <2> QED
    BY <2>1, <2>2, <2>3, <2>4, Zenon DEF NoStaleSlots
<1>3. ASSUME NEW x \in Items, Push(x), size = cap, size' # size PROVE NoStaleSlots'
  <2>1. /\ items' = [grownItems EXCEPT ![size] = x] /\ head' = 0 /\ cap' = grownCap
        /\ size' = size + 1 /\ cap < maxCap
    BY <1>3 DEF Push
  <2>2. grownCap \in Int /\ cap < grownCap
    BY <2>1, Numbers, Capacities DEF Core, grownCap, smaller
  <2>3. tail = head
    BY <1>3, Numbers DEF Core, Window, Slot
  <2>4. \A i \in 0..grownCap - 1 : Slot(i)' = i
    BY <2>1, <2>2 DEF Slot
  <2>5. ASSUME NEW j \in 0..grownCap - 1, \A i \in 0..size : Slot(i)' # j PROVE items'[j] = Nil
    <3>1. ~(j \in 0..size)
      BY <2>4, <2>5
    <3>2. j > size
      BY <3>1, Numbers DEF Core
    <3>3. grownItems[j] = Nil
      BY <1>3, <2>3, <3>2, Numbers DEF Core, grownItems
    <3> QED
      BY <2>1, <2>2, <3>2, <3>3, Numbers, SMTT(30) DEF Core, grownItems
  <2>6. 0..size' - 1 = 0..size
    BY <2>1, Numbers DEF Core
  <2> QED
    BY <2>1, <2>5, <2>6, Zenon DEF NoStaleSlots
<1>4. CASE Pop /\ size # 0
  <2>1. /\ items' = [items EXCEPT ![head] = Nil] /\ head' = next(head, cap)
        /\ size' = size - 1 /\ UNCHANGED <<tail, cap>>
    BY <1>4 DEF Pop
  <2>2. ASSUME NEW i \in 0..size - 1 PROVE Slot(i)' = Slot(i + 1)
    <3>1. CASE head + 1 = cap
      BY <2>1, <3>1, Numbers DEF Core, Slot, next
    <3>2. CASE head + 1 # cap
      BY <2>1, <3>2, Numbers DEF Core, Slot, next
    <3> QED
      BY <3>1, <3>2
  <2>3. ASSUME NEW j \in 0..cap - 1, \A i \in 0..size' - 1 : Slot(i)' # j PROVE items'[j] = Nil
    <3>1. CASE j = head
      BY <2>1, <3>1 DEF Core, RingTypes
    <3>2. CASE j # head
      <4>1. ASSUME NEW i \in 0..size - 1 PROVE Slot(i) # j
        <5>1. CASE i = 0
          BY <3>2, <5>1, Numbers DEF Core, Slot
        <5>2. CASE i # 0
          <6>1. i - 1 \in 0..size' - 1 /\ i - 1 \in 0..size - 1 /\ (i - 1) + 1 = i
            BY <2>1, <5>2, Numbers DEF Core
          <6> QED
            BY <2>2, <2>3, <6>1
        <5> QED
          BY <5>1, <5>2
      <4>2. items[j] = Nil
        BY <4>1 DEF NoStaleSlots
      <4> QED
        BY <2>1, <3>2, <4>2 DEF Core, RingTypes
    <3> QED
      BY <3>1, <3>2
  <2> QED
    BY <2>1, <2>3 DEF NoStaleSlots
<1>5. ASSUME NEW x \in Items, Push(x), size' = size PROVE UNCHANGED <<items, head, size, cap>>
  BY <1>5, Numbers DEF Push, Core
<1>6. (Pop /\ size = 0) \/ Close \/ UNCHANGED ringVars => UNCHANGED <<items, head, size, cap>>
  BY DEF Pop, Close, ringVars
<1> QED
  BY <1>1, <1>2, <1>3, <1>4, <1>5, <1>6 DEF RingNext

(***************************************************************************)
(* A popped element is no longer reachable from the ring, also after it    *)
(* grew: every slot outside the window holds the zero value.               *)
(***************************************************************************)
THEOREM SlotsCleared == RingSpec => []NoStaleSlots
<1>1. RingInit => NoStaleSlots
  BY Capacities DEF RingInit, NoStaleSlots
<1> QED
  BY <1>1, InitCore, NextCore, NoStaleStep, PTL DEF RingSpec

-----------------------------------------------------------------------------
(***************************************************************************)
(* The timer. A callback that started after a cancellation finds the state *)
(* word at "done" in its check, because no step takes the word out of      *)
(* "done".                                                                 *)
(***************************************************************************)

\* What the state word and the callback's position say of each other.
TimerInv ==
  /\ tstate \in {"init", "ready", "done"} /\ fired \in {"init", "ready", "done"}
  /\ callback \in {"idle", "spin", "check", "fn", "recheck", "reset"}
  /\ fired = "done" => tstate = "done"
  /\ NoFurtherTick

\* The state word only moves forward: no step takes a cancellation back.
THEOREM TimerInvariance == TimerSpec => []TimerInv
<1> USE DEF TimerInv, NoFurtherTick
<1>1. TimerInit => TimerInv
  BY DEF TimerInit
<1>2. ASSUME TimerInv, [TimerNext]_timerVars PROVE TimerInv'
  <2>1. CASE Ready
    BY <1>2, <2>1 DEF Ready
  <2>2. CASE Fire
    BY <1>2, <2>2 DEF Fire
  <2>3. CASE Callback
    BY <1>2, <2>3 DEF Callback, SeesReady, CheckDone, CallFn, Recheck, Reset
  <2>4. ASSUME NEW c \in Cancellers, Swap(c) \/ Stop(c) PROVE TimerInv'
    BY <1>2, <2>4 DEF Swap, Stop
  <2>5. CASE UNCHANGED timerVars
    BY <1>2, <2>5 DEF timerVars
  <2> QED
    BY <1>2, <2>1, <2>2, <2>3, <2>4, <2>5 DEF TimerNext
<1> QED
  BY <1>1, <1>2, PTL DEF TimerSpec

(***************************************************************************)
(* However many goroutines cancel it, a callback that starts after the     *)
(* first cancellation never reaches fn.                                    *)
(***************************************************************************)
THEOREM NoTickAfterCancel == TimerSpec => []NoFurtherTick
BY TimerInvariance, PTL DEF TimerInv
=============================================================================
