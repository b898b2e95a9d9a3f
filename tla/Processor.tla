----------------------------- MODULE Processor -----------------------------
(***************************************************************************)
(* One actor: its mailbox, the on-demand scheduler that drains it, the     *)
(* execution gate and the lifecycle (processor_mailbox.go,                 *)
(* processor_scheduler.go, processor_lifecycle.go, execution.go).          *)
(*                                                                         *)
(* Every goroutine that runs drain() is a member of Drainers with its own  *)
(* program counter; senders and callers of poison() are goroutines too.    *)
(* One step is one operation on shared state (an atomic load, store or     *)
(* CAS, a mailbox operation, taking or returning the permit) together with *)
(* the goroutine's private work next to it.                                *)
(***************************************************************************)
EXTENDS Integers, Sequences, FiniteSets

CONSTANTS
  Drainers,   \* identities for goroutines that run drain()
  Msgs,       \* messages other goroutines send to the actor
  Poisons,    \* those whose payload is message.Poison
  Callers,    \* goroutines that call poison() directly
  Capacity,   \* limit of the mailbox ring buffer
  MaxAsks,    \* bound: Asks one handler issues
  Initialize, \* the startup message
  None

ASSUME ProcessorAssumption ==
  /\ IsFiniteSet(Drainers)
  /\ Poisons \subseteq Msgs
  /\ Initialize \notin Msgs
  /\ None \notin Msgs \cup {Initialize}
  /\ None \notin Drainers
  /\ Capacity \in Nat \ {0}
  /\ MaxAsks \in Nat

VARIABLES
  mailbox, closed,            \* ringbuffer: queued messages, admission closed
  drainStatus,                \* mailboxScheduler.drainStatus
  unfinishedCalls,            \* mailboxScheduler.unfinishedCalls
  executingCall,              \* gate: the drainer holding the permit, or None
  lifecycleState, stopRequested, clusterRegistrationOwned,
  registered,                 \* the registry maps the actor's id to this processor
  lock,                       \* the actor's registration key in etcd
  pc, cur, callKind,          \* per drainer: position, popped message, execution.callKind
  drainOwnershipTransferred,  \* drainers whose execution.drainOwnershipTransferred is set
  goexit,                     \* drainers whose handler called runtime.Goexit
  asks,                       \* per message: Asks its handler issued
  sender,                     \* per message: position of the goroutine that sends it
  caller,                     \* per caller: position in poison()
  spawner,                    \* position of the goroutine that spawned the actor
  accepted, begun, flushed    \* history: pushed, handed to invoke, dead-lettered by stop

locals    == <<cur, callKind, drainOwnershipTransferred, goexit, asks>>
drainVars == <<pc, locals>>
gateVars  == <<executingCall, unfinishedCalls>>
lifeVars  == <<lifecycleState, clusterRegistrationOwned, registered, lock>>
boxVars   == <<mailbox, closed, accepted, begun, flushed>>
envVars   == <<sender, caller, spawner>>
vars == <<drainVars, gateVars, lifeVars, boxVars, envVars, drainStatus, stopRequested>>

Contexts == Msgs \cup {Initialize}

Init ==
  /\ mailbox = <<Initialize>> /\ accepted = <<Initialize>>
  /\ closed = FALSE /\ begun = <<>> /\ flushed = <<>>
  /\ drainStatus = "idle"
  /\ unfinishedCalls = 0
  /\ executingCall = None
  /\ lifecycleState = "initializing"
  /\ stopRequested = FALSE
  /\ clusterRegistrationOwned = FALSE
  /\ registered = TRUE
  /\ lock = "none"
  /\ pc = [d \in Drainers |-> "free"]
  /\ cur = [d \in Drainers |-> None]
  /\ callKind = [d \in Drainers |-> "start"]
  /\ drainOwnershipTransferred = {}
  /\ goexit = {}
  /\ asks = [m \in Contexts |-> 0]
  /\ sender = [m \in Msgs |-> "new"]
  /\ caller = [c \in Callers |-> "new"]
  /\ spawner = "init"

Goto(d, l) == pc' = [pc EXCEPT ![d] = l]

\* A drainer at l takes its step and continues at k.
Step(d, l, k) == pc[d] = l /\ Goto(d, k)

(***************************************************************************)
(* schedule(): CAS idle -> running, and only the winner starts a drainer.  *)
(* q is the program counter of all drainers after the caller's own move, so*)
(* a drainer whose last act is schedule() leaves its identity to the next. *)
(***************************************************************************)
schedule(q) ==
  \/ /\ drainStatus = "idle"
     /\ drainStatus' = "running"
     /\ \E n \in Drainers :
          /\ q[n] = "free"
          /\ pc' = [q EXCEPT ![n] = "loop"]
  \/ /\ drainStatus # "idle"
     /\ UNCHANGED drainStatus
     /\ pc' = q

-----------------------------------------------------------------------------
(* Goroutines outside the actor. *)

\* send(): Push first, then schedule; a refused message is dead-lettered.
Push(m) ==
  /\ sender[m] = "new"
  /\ IF closed \/ Len(mailbox) >= Capacity
     THEN /\ sender' = [sender EXCEPT ![m] = "refused"]
          /\ UNCHANGED <<mailbox, accepted>>
     ELSE /\ sender' = [sender EXCEPT ![m] = "pushed"]
          /\ mailbox' = Append(mailbox, m)
          /\ accepted' = Append(accepted, m)
  /\ UNCHANGED <<drainVars, gateVars, lifeVars, closed, begun, flushed, caller, spawner, drainStatus, stopRequested>>

SendSchedule(m) ==
  /\ sender[m] = "pushed"
  /\ sender' = [sender EXCEPT ![m] = "done"]
  /\ schedule(pc)
  /\ UNCHANGED <<locals, gateVars, lifeVars, boxVars, caller, spawner, stopRequested>>

\* poison(): latch the request, then schedule.
RequestStop(c) ==
  /\ caller[c] = "new"
  /\ caller' = [caller EXCEPT ![c] = "requested"]
  /\ stopRequested' = TRUE
  /\ UNCHANGED <<drainVars, gateVars, lifeVars, boxVars, sender, spawner, drainStatus>>

StopSchedule(c) ==
  /\ caller[c] = "requested"
  /\ caller' = [caller EXCEPT ![c] = "done"]
  /\ schedule(pc)
  /\ UNCHANGED <<locals, gateVars, lifeVars, boxVars, sender, spawner, stopRequested>>

\* init(): the spawner schedules after it published the processor.
SpawnerInit ==
  /\ spawner = "init"
  /\ spawner' = "done"
  /\ schedule(pc)
  /\ UNCHANGED <<locals, gateVars, lifeVars, boxVars, sender, caller, stopRequested>>

-----------------------------------------------------------------------------
(* drain() and the scheduler's invoke(). *)

DrainLoop(d) ==
  /\ Step(d, "loop", IF drainStatus # "stopped" THEN "pop" ELSE "finish")
  /\ UNCHANGED <<locals, gateVars, lifeVars, boxVars, envVars, drainStatus, stopRequested>>

Pop(d) ==
  /\ pc[d] = "pop"
  /\ IF mailbox = <<>>
     THEN /\ Goto(d, "stopReady")
          /\ UNCHANGED <<cur, mailbox>>
     ELSE /\ Goto(d, "count")
          /\ cur' = [cur EXCEPT ![d] = Head(mailbox)]
          /\ mailbox' = Tail(mailbox)
  /\ UNCHANGED <<callKind, drainOwnershipTransferred, goexit, asks, gateVars, lifeVars, closed, accepted, begun, flushed, envVars, drainStatus, stopRequested>>

\* Mutant: unfinishedCalls.Store(1) instead of Add(1).
CountOneCall(d) ==
  /\ Step(d, "count", "enter")
  /\ unfinishedCalls' = 1
  /\ UNCHANGED <<locals, executingCall, lifeVars, boxVars, envVars, drainStatus, stopRequested>>

CountCall(d) ==
  /\ Step(d, "count", "enter")
  /\ unfinishedCalls' = unfinishedCalls + 1
  /\ UNCHANGED <<locals, executingCall, lifeVars, boxVars, envVars, drainStatus, stopRequested>>

\* executionGate.enter before a call.
Enter(d) ==
  /\ Step(d, "enter", "invoke")
  /\ executingCall = None
  /\ executingCall' = d
  /\ UNCHANGED <<locals, unfinishedCalls, lifeVars, boxVars, envVars, drainStatus, stopRequested>>

\* execution.invoke: dispatch on the message.
Invoke(d) ==
  /\ pc[d] = "invoke"
  /\ begun' = Append(begun, cur[d])
  /\ \/ /\ cur[d] = Initialize
        /\ callKind' = [callKind EXCEPT ![d] = "start"]
        /\ IF lifecycleState = "initializing"
           THEN lifecycleState' = "starting" /\ Goto(d, "register")
           ELSE UNCHANGED lifecycleState /\ Goto(d, "leave")
     \/ /\ cur[d] \in Poisons
        /\ Goto(d, "poison")
        /\ UNCHANGED <<callKind, lifecycleState>>
     \/ /\ cur[d] \in Msgs \ Poisons
        /\ callKind' = [callKind EXCEPT ![d] = "receive"]
        /\ Goto(d, "receive")
        /\ UNCHANGED lifecycleState
  /\ UNCHANGED <<cur, drainOwnershipTransferred, goexit, asks, gateVars, clusterRegistrationOwned, registered, lock, mailbox, closed, accepted, flushed, envVars, drainStatus, stopRequested>>

\* A Poison delivered through the mailbox calls poison() from the drainer.
PoisonRequest(d) ==
  /\ Step(d, "poison", "poisonSchedule")
  /\ stopRequested' = TRUE
  /\ UNCHANGED <<locals, gateVars, lifeVars, boxVars, envVars, drainStatus>>

PoisonSchedule(d) ==
  /\ pc[d] = "poisonSchedule"
  /\ schedule([pc EXCEPT ![d] = "leave"])
  /\ UNCHANGED <<locals, gateVars, lifeVars, boxVars, envVars, stopRequested>>

-----------------------------------------------------------------------------
(* User code: Started, Receive and PreStop run between these steps. *)

UserCode == {"started", "receive", "preStop"}

\* BaseActor.Ask refuses unless the call handles a message; execution.suspend
\* hands draining to a successor on the first Ask. The successor inherits running.
Suspend(d) ==
  /\ pc[d] \in UserCode
  /\ executingCall = d
  /\ callKind[d] = "receive"
  /\ asks[cur[d]] < MaxAsks
  /\ asks' = [asks EXCEPT ![cur[d]] = @ + 1]
  /\ drainOwnershipTransferred' = drainOwnershipTransferred \cup {d}
  /\ IF d \in drainOwnershipTransferred
     THEN Goto(d, "yield")
     ELSE \E n \in Drainers : /\ pc[n] = "free"
                              /\ pc' = [pc EXCEPT ![d] = "yield", ![n] = "loop"]
  /\ UNCHANGED <<cur, callKind, goexit, gateVars, lifeVars, boxVars, envVars, drainStatus, stopRequested>>

\* suspend's gate.leave.
Yield(d) ==
  /\ Step(d, "yield", "await")
  /\ executingCall' = None
  /\ UNCHANGED <<locals, unfinishedCalls, lifeVars, boxVars, envVars, drainStatus, stopRequested>>

\* Mutant: a resumed call goes on without re-entering the gate.
ResumeWithoutPermit(d) ==
  /\ Step(d, "await", "receive")
  /\ executingCall' = d
  /\ UNCHANGED <<locals, unfinishedCalls, lifeVars, boxVars, envVars, drainStatus, stopRequested>>

\* The reply, its timeout or a failed send ends the wait; resume re-enters the gate.
Resume(d) ==
  /\ pc[d] = "await"
  /\ executingCall = None
  /\ executingCall' = d
  /\ Goto(d, CASE callKind[d] = "start" -> "started"
               [] callKind[d] = "receive" -> "receive"
               [] callKind[d] = "stop" -> "preStop")
  /\ UNCHANGED <<locals, unfinishedCalls, lifeVars, boxVars, envVars, drainStatus, stopRequested>>

\* Receive returns or panics (recovered), or calls runtime.Goexit.
ReceiveEnds(d) ==
  /\ Step(d, "receive", "leave")
  /\ goexit' \in {goexit, goexit \cup {d}}
  /\ UNCHANGED <<cur, callKind, drainOwnershipTransferred, asks, gateVars, lifeVars, boxVars, envVars, drainStatus, stopRequested>>

-----------------------------------------------------------------------------
(* The end of a call. *)

\* gate.leave, for a call and for stopIfIdle (no message in hand).
Leave(d) ==
  /\ Step(d, "leave", IF cur[d] = None THEN "finish" ELSE "uncount")
  /\ executingCall' = None
  /\ UNCHANGED <<locals, unfinishedCalls, lifeVars, boxVars, envVars, drainStatus, stopRequested>>

\* A call that gave its drain role away neither pops again nor retires the role.
AfterCall(d) == IF d \in drainOwnershipTransferred \cup goexit THEN "finish" ELSE "loop"

UncountCall(d) ==
  /\ Step(d, "uncount", IF d \in drainOwnershipTransferred /\ unfinishedCalls - 1 = 0
                        THEN "lastCall" ELSE AfterCall(d))
  /\ unfinishedCalls' = unfinishedCalls - 1
  /\ cur' = [cur EXCEPT ![d] = None]
  /\ UNCHANGED <<callKind, drainOwnershipTransferred, goexit, asks, executingCall, lifeVars, boxVars, envVars, drainStatus, stopRequested>>

LastCall(d) ==
  /\ Step(d, "lastCall", IF stopRequested THEN "reschedule" ELSE "finish")
  /\ UNCHANGED <<locals, gateVars, lifeVars, boxVars, envVars, drainStatus, stopRequested>>

Reschedule(d) ==
  /\ pc[d] = "reschedule"
  /\ schedule([pc EXCEPT ![d] = "finish"])
  /\ UNCHANGED <<locals, gateVars, lifeVars, boxVars, envVars, stopRequested>>

-----------------------------------------------------------------------------
(* Retiring: finishDraining, and the recheck that prevents a lost wakeup. *)

\* Mutant: a call that handed its role over retires the successor's role.
FinishTransferred(d) ==
  /\ pc[d] = "finish"
  /\ IF drainStatus = "running"
     THEN drainStatus' = "idle" /\ Goto(d, "recheck")
     ELSE UNCHANGED drainStatus /\ Goto(d, "free")
  /\ callKind' = [callKind EXCEPT ![d] = "start"]
  /\ drainOwnershipTransferred' = drainOwnershipTransferred \ {d}
  /\ goexit' = goexit \ {d}
  /\ UNCHANGED <<cur, asks, gateVars, lifeVars, boxVars, envVars, stopRequested>>

FinishDraining(d) ==
  /\ pc[d] = "finish"
  /\ IF d \notin drainOwnershipTransferred /\ drainStatus = "running"
     THEN drainStatus' = "idle" /\ Goto(d, "recheck")
     ELSE UNCHANGED drainStatus /\ Goto(d, "free")
  /\ callKind' = [callKind EXCEPT ![d] = "start"]
  /\ drainOwnershipTransferred' = drainOwnershipTransferred \ {d}
  /\ goexit' = goexit \ {d}
  /\ UNCHANGED <<cur, asks, gateVars, lifeVars, boxVars, envVars, stopRequested>>

\* Mutant: finishDraining does not look at the mailbox again.
RecheckStopOnly(d) ==
  /\ \/ Step(d, "recheck", "recheckStop")
     \/ Step(d, "recheckStop", IF stopRequested THEN "recheckCalls" ELSE "free")
     \/ Step(d, "recheckCalls", IF unfinishedCalls = 0 THEN "wake" ELSE "free")
  /\ UNCHANGED <<locals, gateVars, lifeVars, boxVars, envVars, drainStatus, stopRequested>>

Recheck(d) ==
  /\ \/ Step(d, "recheck", IF mailbox # <<>> THEN "wake" ELSE "recheckStop")
     \/ Step(d, "recheckStop", IF stopRequested THEN "recheckCalls" ELSE "free")
     \/ Step(d, "recheckCalls", IF unfinishedCalls = 0 THEN "wake" ELSE "free")
  /\ UNCHANGED <<locals, gateVars, lifeVars, boxVars, envVars, drainStatus, stopRequested>>

Wake(d) ==
  /\ pc[d] = "wake"
  /\ schedule([pc EXCEPT ![d] = "free"])
  /\ UNCHANGED <<locals, gateVars, lifeVars, boxVars, envVars, stopRequested>>

-----------------------------------------------------------------------------
(* Stopping: stopReady, stopIfIdle. *)

StopReady(d) ==
  /\ \/ Step(d, "stopReady", IF stopRequested THEN "stopReadyCalls" ELSE "finish")
     \/ Step(d, "stopReadyCalls", IF unfinishedCalls = 0 THEN "enterStop" ELSE "finish")
  /\ UNCHANGED <<locals, gateVars, lifeVars, boxVars, envVars, drainStatus, stopRequested>>

EnterStop(d) ==
  /\ Step(d, "enterStop", "stopIfIdle")
  /\ executingCall = None
  /\ executingCall' = d
  /\ callKind' = [callKind EXCEPT ![d] = "stop"]
  /\ UNCHANGED <<cur, drainOwnershipTransferred, goexit, asks, unfinishedCalls, lifeVars, boxVars, envVars, drainStatus, stopRequested>>

\* Mutant: the status is expected to be idle, although the caller itself is running.
StopOnlyIfParked(d) ==
  /\ \/ Step(d, "stopIfIdle",
             IF drainStatus # "idle" \/ mailbox # <<>> THEN "leave" ELSE "stopIfNoCalls")
     \/ Step(d, "stopIfNoCalls", IF unfinishedCalls # 0 THEN "leave" ELSE "stop")
  /\ UNCHANGED <<locals, gateVars, lifeVars, boxVars, envVars, drainStatus, stopRequested>>

StopIfIdle(d) ==
  /\ \/ Step(d, "stopIfIdle",
             IF drainStatus = "stopped" \/ mailbox # <<>> THEN "leave" ELSE "stopIfNoCalls")
     \/ Step(d, "stopIfNoCalls", IF unfinishedCalls # 0 THEN "leave" ELSE "stop")
  /\ UNCHANGED <<locals, gateVars, lifeVars, boxVars, envVars, drainStatus, stopRequested>>

-----------------------------------------------------------------------------
(* actorLifecycleState.start and stop, under the permit. *)

\* registerToCluster takes no lock for a kind this node does not offer to the cluster,
\* takes it, or fails; a failure whose last transaction was committed unseen leaves an
\* entry this actor does not own.
RegisterToCluster(d) ==
  /\ pc[d] = "register"
  /\ \/ Goto(d, "started") /\ clusterRegistrationOwned' = TRUE /\ lock' \in {"none", "held"}
     \/ Goto(d, "stop") /\ lock' \in {"none", "stale"} /\ UNCHANGED clusterRegistrationOwned
  /\ UNCHANGED <<locals, gateVars, lifecycleState, registered, boxVars, envVars, drainStatus, stopRequested>>

\* Started returns, or panics or exits: then the deferred stop cleans up.
StartedEnds(d) ==
  /\ pc[d] = "started"
  /\ \/ Goto(d, "leave") /\ lifecycleState' = "started"
     \/ Goto(d, "stop") /\ UNCHANGED lifecycleState
  /\ UNCHANGED <<locals, gateVars, clusterRegistrationOwned, registered, lock, boxVars, envVars, drainStatus, stopRequested>>

\* Close admission before cleanup; PreStop only after a completed Started.
Stop(d) ==
  /\ pc[d] = "stop"
  /\ IF lifecycleState \in {"stopping", "stopped"}
     THEN Goto(d, "leave") /\ UNCHANGED <<lifecycleState, callKind, closed>>
     ELSE /\ Goto(d, IF lifecycleState = "started" THEN "preStop" ELSE "unregister")
          /\ lifecycleState' = "stopping"
          /\ callKind' = [callKind EXCEPT ![d] = "stop"]
          /\ closed' = TRUE
  /\ UNCHANGED <<cur, drainOwnershipTransferred, goexit, asks, gateVars, clusterRegistrationOwned, registered, lock,
                 mailbox, accepted, begun, flushed, envVars, drainStatus, stopRequested>>

\* Mutant: the registry entry goes before the cluster registration.
PreStopRemovesFirst(d) ==
  /\ Step(d, "preStop", "unregister")
  /\ registered' = FALSE
  /\ UNCHANGED <<locals, gateVars, lifecycleState, clusterRegistrationOwned, lock, boxVars, envVars, drainStatus, stopRequested>>

\* PreStop returns, panics or exits; the deferred cleanup runs in each case.
PreStopEnds(d) ==
  /\ Step(d, "preStop", "unregister")
  /\ UNCHANGED <<locals, gateVars, lifeVars, boxVars, envVars, drainStatus, stopRequested>>

\* Deregistration may fail, which is logged and leaves a stale entry.
UnregisterFromCluster(d) ==
  /\ Step(d, "unregister", "stopped")
  /\ IF clusterRegistrationOwned /\ lock = "held"
     THEN lock' \in {"released", "stale"}
     ELSE UNCHANGED lock
  /\ UNCHANGED <<locals, gateVars, lifecycleState, clusterRegistrationOwned, registered, boxVars, envVars, drainStatus, stopRequested>>

StoreStopped(d) ==
  /\ Step(d, "stopped", "remove")
  /\ lifecycleState' = "stopped"
  /\ drainStatus' = "stopped"
  /\ UNCHANGED <<locals, gateVars, clusterRegistrationOwned, registered, lock, boxVars, envVars, stopRequested>>

RemoveFromRegistry(d) ==
  /\ Step(d, "remove", "flush")
  /\ registered' = FALSE
  /\ UNCHANGED <<locals, gateVars, lifecycleState, clusterRegistrationOwned, lock, boxVars, envVars, drainStatus, stopRequested>>

\* Mutant: the mailbox is emptied without dead letters.
FlushSilently(d) ==
  /\ Step(d, "flush", "leave")
  /\ mailbox' = <<>>
  /\ UNCHANGED <<locals, gateVars, lifeVars, closed, accepted, begun, flushed, envVars, drainStatus, stopRequested>>

\* Mutant: one Pop, without the loop around it.
FlushOne(d) ==
  /\ Step(d, "flush", "leave")
  /\ IF mailbox = <<>>
     THEN UNCHANGED <<mailbox, flushed>>
     ELSE /\ flushed' = Append(flushed, Head(mailbox))
          /\ mailbox' = Tail(mailbox)
  /\ UNCHANGED <<locals, gateVars, lifeVars, closed, accepted, begun, envVars, drainStatus, stopRequested>>

\* Whatever is still queued goes to dead letters, one Pop at a time.
Flush(d) ==
  /\ pc[d] = "flush"
  /\ IF mailbox = <<>>
     THEN Goto(d, "leave") /\ UNCHANGED <<mailbox, flushed>>
     ELSE /\ flushed' = Append(flushed, Head(mailbox))
          /\ mailbox' = Tail(mailbox)
          /\ UNCHANGED pc
  /\ UNCHANGED <<locals, gateVars, lifeVars, closed, accepted, begun, envVars, drainStatus, stopRequested>>

-----------------------------------------------------------------------------
Draining(d) ==
  \/ DrainLoop(d) \/ Pop(d) \/ CountCall(d) \/ Enter(d) \/ Invoke(d)
  \/ PoisonRequest(d) \/ PoisonSchedule(d)
Handling(d)  == Suspend(d) \/ Yield(d) \/ Resume(d) \/ ReceiveEnds(d)
Finishing(d) == Leave(d) \/ UncountCall(d) \/ LastCall(d) \/ Reschedule(d)
Retiring(d)  == FinishDraining(d) \/ Recheck(d) \/ Wake(d)
Halting(d)   == StopReady(d) \/ EnterStop(d) \/ StopIfIdle(d)
Lifecycle(d) ==
  \/ RegisterToCluster(d) \/ StartedEnds(d) \/ Stop(d) \/ PreStopEnds(d)
  \/ UnregisterFromCluster(d) \/ StoreStopped(d) \/ RemoveFromRegistry(d) \/ Flush(d)

DrainerStep(d) ==
  Draining(d) \/ Handling(d) \/ Finishing(d) \/ Retiring(d) \/ Halting(d) \/ Lifecycle(d)

Outside ==
  \/ \E m \in Msgs : Push(m) \/ SendSchedule(m)
  \/ \E c \in Callers : RequestStop(c) \/ StopSchedule(c)
  \/ SpawnerInit

Next == Outside \/ \E d \in Drainers : DrainerStep(d)

Spec == Init /\ [][Next]_vars

\* The Go scheduler runs every runnable goroutine, user handlers return, an Ask
\* is bounded by askTimeout, and the permit channel is served in arrival order.
\* Whether anyone sends or poisons is up to the environment.
Fairness ==
  /\ WF_vars(SpawnerInit)
  /\ \A m \in Msgs : WF_vars(SendSchedule(m))
  /\ \A c \in Callers : WF_vars(StopSchedule(c))
  /\ \A d \in Drainers : WF_vars(DrainerStep(d))

FairSpec == Spec /\ Fairness

-----------------------------------------------------------------------------
(* Regions of the program counter. *)

HoldsPermit(d) ==
  pc[d] \in {"invoke", "register", "poison", "poisonSchedule", "yield", "leave",
             "stopIfIdle", "stopIfNoCalls", "stop", "unregister", "stopped",
             "remove", "flush"} \cup UserCode

\* The drainer that owns the running role: it alone pops the mailbox.
Owner(d) ==
  /\ pc[d] \notin {"free", "recheck", "recheckStop", "recheckCalls", "wake"}
  /\ d \notin drainOwnershipTransferred

\* A message popped and not yet given to execution.invoke.
Holding(d) == pc[d] \in {"count", "enter", "invoke"}

\* A call popped and counted but not finished.
Counted(d) == cur[d] # None /\ pc[d] # "count"

Stopping(d) == pc[d] \in {"stop", "preStop", "unregister", "stopped", "remove", "flush"}

Labels ==
  {"free", "loop", "pop", "count", "enter", "invoke", "poison", "poisonSchedule",
   "yield", "await", "leave", "uncount", "lastCall", "reschedule", "finish",
   "recheck", "recheckStop", "recheckCalls", "wake", "stopReady", "stopReadyCalls",
   "enterStop", "stopIfIdle", "stopIfNoCalls", "register", "stop", "unregister",
   "stopped", "remove", "flush"} \cup UserCode

DrainerTypes ==
  /\ pc \in [Drainers -> Labels]
  /\ cur \in [Drainers -> Contexts \cup {None}]
  /\ callKind \in [Drainers -> {"start", "receive", "stop"}]
  /\ drainOwnershipTransferred \subseteq Drainers
  /\ goexit \subseteq Drainers

MailboxTypes ==
  /\ mailbox \in Seq(Contexts) /\ accepted \in Seq(Contexts)
  /\ begun \in Seq(Contexts) /\ flushed \in Seq(Contexts)

\* The ring buffer never grows past its limit.
MailboxBounded == Len(mailbox) <= Capacity

SharedTypes ==
  /\ drainStatus \in {"idle", "running", "stopped"}
  /\ unfinishedCalls \in Int
  /\ executingCall \in Drainers \cup {None}
  /\ lifecycleState \in {"initializing", "starting", "started", "stopping", "stopped"}
  /\ lock \in {"none", "held", "released", "stale"}

FlagTypes ==
  /\ closed \in BOOLEAN
  /\ stopRequested \in BOOLEAN
  /\ clusterRegistrationOwned \in BOOLEAN
  /\ registered \in BOOLEAN

EnvironmentTypes ==
  /\ asks \in [Contexts -> Nat]
  /\ sender \in [Msgs -> {"new", "pushed", "refused", "done"}]
  /\ caller \in [Callers -> {"new", "requested", "done"}]
  /\ spawner \in {"init", "done"}

\* Every variable holds a value of the type its Go counterpart has, and the mailbox
\* stays within its limit.
TypeOK ==
  DrainerTypes /\ MailboxTypes /\ MailboxBounded /\ SharedTypes /\ FlagTypes /\ EnvironmentTypes

(***************************************************************************)
(* Handlers and lifecycle hooks of one actor never run in parallel, however*)
(* many drainers are alive: user code runs only between executionGate.enter*)
(* and leave, and one drainer at a time is there.                          *)
(***************************************************************************)
SerialExecution ==
  \A d, e \in Drainers : HoldsPermit(d) /\ HoldsPermit(e) => d = e

(***************************************************************************)
(* One drainer pops the mailbox. Ownership follows drainStatus through     *)
(* schedule's CAS, suspend's hand-over and finishDraining, with neither a  *)
(* second owner nor a running status that nobody owns.                     *)
(***************************************************************************)
SingleDrainOwner ==
  /\ \A d, e \in Drainers : Owner(d) /\ Owner(e) => d = e
  /\ drainStatus = "running" => \E d \in Drainers : Owner(d)
  /\ drainStatus = "idle" => \A d \in Drainers : ~Owner(d)

(***************************************************************************)
(* lifecycle.stop, hence PreStop, never runs while another handler is      *)
(* suspended in an Ask: stopIfIdle rechecks unfinishedCalls under the      *)
(* permit, and a failed start is the only other way in.                    *)
(***************************************************************************)
StopWaitsForCalls ==
  \A d, e \in Drainers : Stopping(d) /\ Counted(e) => d = e

(***************************************************************************)
(* Receive runs only between a completed Started and the start of stop,    *)
(* also for a handler that is suspended in an Ask.                         *)
(***************************************************************************)
ReceiveOnlyWhileStarted ==
  \A d \in Drainers : pc[d] \in {"receive", "yield", "await"} => lifecycleState = "started"

(***************************************************************************)
(* No accepted message is lost, duplicated or overtaken: what the mailbox  *)
(* accepted is, in order, what was invoked, what the owner holds but has   *)
(* not invoked, what stop dead-lettered and what is still queued.          *)
(***************************************************************************)
InHand ==
  IF \E d \in Drainers : Holding(d) THEN <<cur[CHOOSE d \in Drainers : Holding(d)]>> ELSE <<>>
AcceptedInOrder == accepted = begun \o InHand \o flushed \o mailbox

(***************************************************************************)
(* No lost wakeup: an idle scheduler with work (a queued message, or a stop*)
(* request and no unfinished call) has a goroutine about to schedule. This *)
(* is what finishDraining's recheck and invoke's reschedule are for.       *)
(***************************************************************************)
SchedulePending ==
  \/ spawner = "init"
  \/ \E m \in Msgs : sender[m] = "pushed"
  \/ \E d \in Drainers : pc[d] \in {"poisonSchedule", "recheck", "wake"}
StopPending ==
  \/ SchedulePending
  \/ \E c \in Callers : caller[c] = "requested"
  \/ \E d \in Drainers : pc[d] \in {"recheckStop", "recheckCalls", "lastCall", "reschedule"}
NoLostWakeup ==
  drainStatus = "idle" =>
    /\ mailbox # <<>> => SchedulePending
    /\ stopRequested /\ unfinishedCalls = 0 => StopPending

(***************************************************************************)
(* The registry entry outlives the cluster registration: a stopping actor  *)
(* leaves the registry only after it tried to give its registration up, so *)
(* a new local activation cannot have its own key removed by the old one.  *)
(***************************************************************************)
RegistrationReleasedFirst == lock = "held" => registered

(***************************************************************************)
(* A stop request, which nothing takes back, ends in a stopped actor with  *)
(* no drainer goroutine left and the permit returned.                      *)
(***************************************************************************)
StopCompletes ==
  []<>(stopRequested => /\ lifecycleState = "stopped"
                        /\ executingCall = None
                        /\ \A d \in Drainers : pc[d] = "free")

(***************************************************************************)
(* Every message the mailbox accepted is handled to its end or             *)
(* dead-lettered.                                                          *)
(***************************************************************************)
Settled(m) ==
  /\ \E i \in DOMAIN (begun \o flushed) : (begun \o flushed)[i] = m
  /\ \A d \in Drainers : cur[d] # m
AcceptedSettles == []<>(\A m \in Msgs : sender[m] \in {"pushed", "done"} => Settled(m))
=============================================================================
