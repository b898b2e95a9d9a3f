------------------------------- MODULE Permit -------------------------------
(***************************************************************************)
(* What the execution gate promises: one drainer at a time holds the       *)
(* actor, and asking "is this my call?" is answered as if in one step. This*)
(* is the gate Processor works with.                                       *)
(***************************************************************************)
CONSTANTS Drainers, Strays, None

VARIABLES holder,  \* the drainer holding the permit, or None
          seen     \* per goroutine: the last answer of currentExecution

Goroutines == Drainers \cup Strays

Init ==
  /\ holder = None
  /\ seen = [g \in Goroutines |-> "unasked"]

Enter(g) == holder = None /\ holder' = g /\ UNCHANGED seen
Leave(g) == holder = g /\ holder' = None /\ UNCHANGED seen

\* Only the holder is ever told that a call is its own, and it always is.
Ask(g) ==
  /\ g \in Strays \/ holder = g
  /\ seen' = [seen EXCEPT ![g] = IF holder = g THEN g ELSE None]
  /\ UNCHANGED holder

Next ==
  \/ \E g \in Drainers : Enter(g) \/ Leave(g)
  \/ \E g \in Goroutines : Ask(g)

Spec == Init /\ [][Next]_<<holder, seen>>
=============================================================================
