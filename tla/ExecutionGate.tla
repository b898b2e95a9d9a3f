--------------------------- MODULE ExecutionGate ---------------------------
(***************************************************************************)
(* execution_gate.go, one memory operation per step. The permit is a       *)
(* channel of capacity one; executionOwnerID is atomic; executingCall is a *)
(* plain pointer, so two goroutines must never touch it at the same time   *)
(* unless both read. A drainer's execution and goroutine id are identified *)
(* with the drainer. Strays are goroutines that are not drainers of this   *)
(* actor (children of a handler, handlers of other actors) and call        *)
(* currentExecution through the actor's BaseActor.Ask at any time.         *)
(***************************************************************************)
EXTENDS Naturals

CONSTANTS Drainers, Strays, None

ASSUME GateAssumption ==
  /\ Drainers \cap Strays = {}
  /\ None \notin Drainers \cup Strays

VARIABLES
  executionPermit,   \* tokens in the channel, which holds at most one
  executionOwnerID,
  executingCall,
  pc,
  seen               \* per goroutine: the last answer of currentExecution

gateVars == <<executionPermit, executionOwnerID, executingCall, pc, seen>>

Goroutines == Drainers \cup Strays

GateInit ==
  /\ executionPermit = 1
  /\ executionOwnerID = None
  /\ executingCall = None
  /\ pc = [g \in Goroutines |-> "outside"]
  /\ seen = [g \in Goroutines |-> "unasked"]

Step(g, l, k) == pc[g] = l /\ pc' = [pc EXCEPT ![g] = k]

-----------------------------------------------------------------------------
(* enter *)

\* Mutant: an empty permit channel does not block.
TakeNoPermit(g) ==
  /\ Step(g, "outside", "setCall")
  /\ executionPermit' = 0
  /\ UNCHANGED <<executionOwnerID, executingCall, seen>>

TakePermit(g) ==
  /\ Step(g, "outside", "setCall")
  /\ executionPermit = 1
  /\ executionPermit' = 0
  /\ UNCHANGED <<executionOwnerID, executingCall, seen>>

SetCall(g) ==
  /\ Step(g, "setCall", "publish")
  /\ executingCall' = g
  /\ UNCHANGED <<executionPermit, executionOwnerID, seen>>

PublishOwner(g) ==
  /\ Step(g, "publish", "inside")
  /\ executionOwnerID' = g
  /\ UNCHANGED <<executionPermit, executingCall, seen>>

-----------------------------------------------------------------------------
(* leave *)

RevokeOwner(g) ==
  /\ Step(g, "inside", "clearCall")
  /\ executionOwnerID' = None
  /\ UNCHANGED <<executionPermit, executingCall, seen>>

ClearCall(g) ==
  /\ Step(g, "clearCall", "return")
  /\ executingCall' = None
  /\ UNCHANGED <<executionPermit, executionOwnerID, seen>>

ReturnPermit(g) ==
  /\ Step(g, "return", "outside")
  /\ executionPermit' = executionPermit + 1
  /\ UNCHANGED <<executionOwnerID, executingCall, seen>>

-----------------------------------------------------------------------------
(* currentExecution, called by the drainer's own handler or by a stray *)

Home(g) == IF g \in Drainers THEN "inside" ELSE "outside"

\* Mutant: the check reads ownerID != 0 || ..., so that the owner is turned away too.
LoadNoOwner(g) ==
  /\ pc[g] = Home(g)
  /\ seen' = [seen EXCEPT ![g] = None]
  /\ UNCHANGED <<pc, executionPermit, executionOwnerID, executingCall>>

\* A failed identity check must never read executingCall.
LoadOwner(g) ==
  /\ pc[g] = Home(g)
  /\ IF executionOwnerID # g
     THEN seen' = [seen EXCEPT ![g] = None] /\ UNCHANGED pc
     ELSE pc' = [pc EXCEPT ![g] = "readCall"] /\ UNCHANGED seen
  /\ UNCHANGED <<executionPermit, executionOwnerID, executingCall>>

ReadCall(g) ==
  /\ Step(g, "readCall", Home(g))
  /\ seen' = [seen EXCEPT ![g] = executingCall]
  /\ UNCHANGED <<executionPermit, executionOwnerID, executingCall>>

-----------------------------------------------------------------------------
DrainerStep(g) ==
  \/ TakePermit(g) \/ SetCall(g) \/ PublishOwner(g)
  \/ RevokeOwner(g) \/ ClearCall(g) \/ ReturnPermit(g)

GateNext ==
  \/ \E g \in Drainers : DrainerStep(g)
  \/ \E g \in Goroutines : LoadOwner(g) \/ ReadCall(g)

GateSpec == GateInit /\ [][GateNext]_gateVars

Region == {"setCall", "publish", "inside", "readCall", "clearCall", "return"}

GateTypes ==
  /\ executionPermit \in {0, 1}
  /\ executionOwnerID \in Drainers \cup {None}
  /\ executingCall \in Drainers \cup {None}
  /\ pc \in [Goroutines -> Region \cup {"outside"}]
  /\ seen \in [Goroutines -> Goroutines \cup {None, "unasked"}]

(***************************************************************************)
(* The plain pointer executingCall is free of data races: while a goroutine*)
(* is at a write of it in enter or leave, no other goroutine is at a read  *)
(* in currentExecution or at a write.                                      *)
(***************************************************************************)
Writing(g) == pc[g] \in {"setCall", "clearCall"}
Reading(g) == pc[g] = "readCall"
NoPointerRace ==
  \A g, h \in Goroutines : Writing(g) /\ (Writing(h) \/ Reading(h)) => g = h

(***************************************************************************)
(* The gate implements Permit: holding the permit is atomic to everybody   *)
(* who can ask, and currentExecution never names a call that is not the    *)
(* caller's own, nor denies the caller its own.                            *)
(***************************************************************************)
Holder ==
  IF \E g \in Drainers : pc[g] \in Region
  THEN CHOOSE g \in Drainers : pc[g] \in Region
  ELSE None
P == INSTANCE Permit WITH holder <- Holder
GateImplementsPermit == P!Spec

(***************************************************************************)
(* The permit token is out exactly while one drainer is between enter and  *)
(* leave, and the published owner id and pointer follow that drainer's     *)
(* position. This is inductive and implies the other properties.           *)
(***************************************************************************)
GateInv ==
  /\ GateTypes
  /\ executionPermit = 1 <=> \A g \in Drainers : pc[g] \notin Region
  /\ \A g, h \in Drainers : pc[g] \in Region /\ pc[h] \in Region => g = h
  /\ \A g \in Strays : pc[g] = "outside"
  /\ \A g \in Drainers : executionOwnerID = g <=> pc[g] \in {"inside", "readCall"}
  /\ \A g \in Drainers :
       executingCall = g <=> pc[g] \in {"publish", "inside", "readCall", "clearCall"}
=============================================================================
