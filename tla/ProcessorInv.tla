--------------------------- MODULE ProcessorInv ---------------------------
(***************************************************************************)
(* The inductive invariant behind the safety properties of Processor.      *)
(* Ownership of the running role is unique, so the owner's program counter *)
(* determines the lifecycle state; that table (OwnerLifecycle) carries the *)
(* rest.                                                                   *)
(***************************************************************************)
EXTENDS Processor

\* The permit is held exactly in the region between enter and leave.
PermitInv == \A d \in Drainers : HoldsPermit(d) <=> executingCall = d

\* Which positions have a message in hand.
CurInv ==
  \A d \in Drainers :
    /\ pc[d] \in {"count", "enter", "invoke", "register", "started", "receive", "poison",
                  "poisonSchedule", "yield", "await", "uncount"} => cur[d] # None
    /\ pc[d] \in {"free", "loop", "pop", "stopReady", "stopReadyCalls", "enterStop",
                  "stopIfIdle", "stopIfNoCalls", "preStop", "lastCall", "reschedule", "finish",
                  "recheck", "recheckStop", "recheckCalls", "wake"} => cur[d] = None

\* A drainer gave its role away only from inside Receive.
TransferInv ==
  \A d \in drainOwnershipTransferred :
    pc[d] \in {"receive", "yield", "await", "leave", "uncount", "lastCall", "reschedule", "finish"}

CallKindInv ==
  \A d \in Drainers :
    /\ pc[d] \in {"register", "started"} => callKind[d] = "start"
    /\ pc[d] \in {"receive", "yield", "await"} => callKind[d] = "receive"
    /\ pc[d] = "preStop" => callKind[d] = "stop"
    /\ pc[d] \in {"yield", "await", "lastCall", "reschedule"} => d \in drainOwnershipTransferred

CountInv == unfinishedCalls = Cardinality({d \in Drainers : Counted(d)})

\* The lifecycle state as a function of where the owner is.
OwnerLifecycle(d) ==
  /\ pc[d] = "loop" => lifecycleState \in {"initializing", "started", "stopped"}
  /\ pc[d] = "pop" => lifecycleState \in {"initializing", "started"}
  /\ pc[d] \in {"count", "enter", "invoke"} =>
       lifecycleState = IF cur[d] = Initialize THEN "initializing" ELSE "started"
  /\ pc[d] \in {"register", "started"} => lifecycleState = "starting" /\ cur[d] = Initialize
  /\ pc[d] \in {"receive", "poison", "poisonSchedule", "stopReady", "stopReadyCalls", "enterStop",
                "stopIfIdle", "stopIfNoCalls"} => lifecycleState = "started"
  /\ pc[d] = "stop" => lifecycleState = IF cur[d] = None THEN "started" ELSE "starting"
  /\ pc[d] \in {"preStop", "unregister", "stopped"} => lifecycleState = "stopping"
  /\ pc[d] \in {"remove", "flush"} => lifecycleState = "stopped"
  /\ pc[d] \in {"leave", "uncount", "finish"} => lifecycleState \in {"started", "stopped"}

LifecycleInv ==
  /\ \A d \in Drainers : Owner(d) => OwnerLifecycle(d)
  /\ drainStatus = "idle" => lifecycleState \in {"initializing", "started"}
  /\ drainStatus = "stopped" <=> lifecycleState = "stopped"
  /\ lifecycleState \in {"initializing", "starting"} => drainOwnershipTransferred = {}

\* Initialize is at the head of the mailbox until it is popped, and nowhere else.
InitializeInv ==
  /\ \A i \in 1..Len(mailbox) :
       mailbox[i] = Initialize =>
         i = 1 /\ lifecycleState = "initializing" /\ \A d \in Drainers : cur[d] # Initialize
  /\ lifecycleState = "initializing" /\ (\A d \in Drainers : cur[d] # Initialize) =>
       mailbox # <<>> /\ mailbox[1] = Initialize

RegistrationInv ==
  /\ lock = "held" => clusterRegistrationOwned
  /\ ~registered => lifecycleState = "stopped" /\ lock # "held"
  /\ \A d \in Drainers : pc[d] \in {"stopped", "remove", "flush"} => lock # "held"

FlushInv == flushed # <<>> => lifecycleState = "stopped"

\* The safety invariants of Processor together with what makes them inductive.
IndInv ==
  /\ TypeOK
  /\ PermitInv
  /\ CurInv
  /\ TransferInv
  /\ CallKindInv
  /\ CountInv
  /\ SingleDrainOwner
  /\ StopWaitsForCalls
  /\ ReceiveOnlyWhileStarted
  /\ LifecycleInv
  /\ InitializeInv
  /\ NoLostWakeup
  /\ RegistrationInv
  /\ FlushInv
  /\ AcceptedInOrder
=============================================================================
