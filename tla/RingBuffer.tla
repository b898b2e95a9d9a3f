---------------------------- MODULE RingBuffer ----------------------------
(***************************************************************************)
(* al/ringbuffer: the ring behind every mailbox. Each method holds rb.mu   *)
(* for all of its work, so it is one step. items is a Go slice, a function *)
(* on 0..cap-1; a slot without an element holds the zero value Nil.        *)
(***************************************************************************)
EXTENDS Integers, Sequences

CONSTANTS Items, InitCap, MaxCap, Nil

ASSUME RingAssumption ==
  /\ InitCap \in Int /\ MaxCap \in Int
  /\ Nil \notin Items

VARIABLES items, head, tail, size, cap, closed, ret

ringVars == <<items, head, tail, size, cap, closed, ret>>

\* New clamps initCap to at least 1 and maxCap to at least initCap.
initCap == IF InitCap <= 0 THEN 1 ELSE InitCap
maxCap  == IF MaxCap < initCap THEN initCap ELSE MaxCap

RingInit ==
  /\ cap = initCap
  /\ items = [i \in 0..cap - 1 |-> Nil]
  /\ head = 0 /\ tail = 0 /\ size = 0
  /\ closed = FALSE
  /\ ret = Nil

next(i, c) == IF i + 1 = c THEN 0 ELSE i + 1

smaller(a, b) == IF a < b THEN a ELSE b

(***************************************************************************)
(* grow: the new capacity, and the new slice with the old contents unrolled*)
(* in FIFO order: items[head:] first, then items[:tail].                   *)
(***************************************************************************)
\* Mutant: the two parts are copied in the wrong order.
grownSwapped ==
  [i \in 0..smaller(cap * 2, maxCap) - 1 |->
     IF i < tail THEN items[i] ELSE IF i < cap THEN items[head + i - tail] ELSE Nil]

grownCap == smaller(cap * 2, maxCap)
grownItems ==
  [i \in 0..grownCap - 1 |->
     IF i < cap - head THEN items[head + i]
     ELSE IF i < cap - head + tail THEN items[i - (cap - head)]
     ELSE Nil]

Push(x) ==
  \/ /\ closed
     /\ ret' = "PushClosed"
     /\ UNCHANGED <<items, head, tail, size, cap, closed>>
  \/ /\ ~closed /\ size = cap /\ cap >= maxCap
     /\ ret' = "PushOverflow"
     /\ UNCHANGED <<items, head, tail, size, cap, closed>>
  \/ /\ ~closed /\ size = cap /\ cap < maxCap
     /\ items' = [grownItems EXCEPT ![size] = x]
     /\ head' = 0
     /\ tail' = next(size, grownCap)
     /\ size' = size + 1
     /\ cap' = grownCap
     /\ ret' = "PushOK"
     /\ UNCHANGED closed
  \/ /\ ~closed /\ size # cap
     /\ items' = [items EXCEPT ![tail] = x]
     /\ tail' = next(tail, cap)
     /\ size' = size + 1
     /\ ret' = "PushOK"
     /\ UNCHANGED <<head, cap, closed>>

Pop ==
  \/ size = 0 /\ ret' = Nil /\ UNCHANGED <<items, head, tail, size, cap, closed>>
  \/ /\ size # 0
     /\ ret' = items[head]
     /\ items' = [items EXCEPT ![head] = Nil]
     /\ head' = next(head, cap)
     /\ size' = size - 1
     /\ UNCHANGED <<tail, cap, closed>>

Close ==
  /\ closed' = TRUE
  /\ UNCHANGED <<items, head, tail, size, cap, ret>>

RingNext == (\E x \in Items : Push(x)) \/ Pop \/ Close

RingSpec == RingInit /\ [][RingNext]_ringVars

-----------------------------------------------------------------------------
\* The slot of the i-th queued element, i = 0 for the next Pop.
Slot(i) == IF head + i < cap THEN head + i ELSE head + i - cap

RingTypes ==
  /\ cap \in initCap..maxCap
  /\ size \in 0..cap
  /\ head \in 0..cap - 1
  /\ tail \in 0..cap - 1
  /\ items \in [0..cap - 1 -> Items \cup {Nil}]

Window ==
  /\ tail = Slot(size)
  /\ \A i \in 0..size - 1 : items[Slot(i)] # Nil

(***************************************************************************)
(* The three indices agree (grow relies on tail = head in a full ring), and*)
(* the slots between head and tail hold elements.                          *)
(***************************************************************************)
RingInv == RingTypes /\ closed \in BOOLEAN /\ Window

(***************************************************************************)
(* A slot outside the live window holds the zero value: a popped Context is*)
(* not kept reachable by the ring, also across grow.                       *)
(***************************************************************************)
NoStaleSlots ==
  \A j \in 0..cap - 1 : (\A i \in 0..size - 1 : Slot(i) # j) => items[j] = Nil

(***************************************************************************)
(* The ring implements BoundedFifo: wrapping and growing change neither the*)
(* contents nor their order, and Push refuses exactly at the limit.        *)
(***************************************************************************)
Contents == [i \in 1..size |-> items[Slot(i - 1)]]
F == INSTANCE BoundedFifo WITH queue <- Contents, Limit <- maxCap
RingImplementsFifo == F!Spec
=============================================================================
