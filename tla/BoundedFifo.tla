---------------------------- MODULE BoundedFifo ----------------------------
(***************************************************************************)
(* What the mailbox promises: a bounded first-in first-out queue that      *)
(* refuses instead of blocking and, once closed, takes nothing more but    *)
(* still gives out what it holds. Processor uses its mailbox in this form. *)
(***************************************************************************)
EXTENDS Naturals, Sequences

CONSTANTS Items, Limit, Nil

VARIABLES queue, closed, ret

Init == queue = <<>> /\ closed = FALSE /\ ret = Nil

Push(x) ==
  \/ closed /\ ret' = "PushClosed" /\ UNCHANGED <<queue, closed>>
  \/ ~closed /\ Len(queue) = Limit /\ ret' = "PushOverflow" /\ UNCHANGED <<queue, closed>>
  \/ ~closed /\ Len(queue) < Limit /\ ret' = "PushOK" /\ queue' = Append(queue, x) /\ UNCHANGED closed

Pop ==
  \/ queue = <<>> /\ ret' = Nil /\ UNCHANGED <<queue, closed>>
  \/ queue # <<>> /\ ret' = Head(queue) /\ queue' = Tail(queue) /\ UNCHANGED closed

Close == closed' = TRUE /\ UNCHANGED <<queue, ret>>

Next == (\E x \in Items : Push(x)) \/ Pop \/ Close

Spec == Init /\ [][Next]_<<queue, closed, ret>>
=============================================================================
