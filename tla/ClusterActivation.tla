------------------------- MODULE ClusterActivation -------------------------
(***************************************************************************)
(* One cluster actor and the nodes that may activate it: on-demand         *)
(* activation (system_cluster.go), the registration key in etcd that is its*)
(* single-activation lock (kind_opts.go, provider_etcd.go), the lifecycle  *)
(* as far as the lock is concerned (processor_lifecycle.go) and a node's   *)
(* shutdown (system_life.go), with crashes, restarts and lost etcd answers.*)
(*                                                                         *)
(* Spawn and Processor say why one instance at a time exists on a node and *)
(* runs its hooks in order, so a node has one instance here. Which node a  *)
(* sender picks depends on its view of the cluster: any node may be asked. *)
(***************************************************************************)
EXTENDS Integers

CONSTANTS
  Nodes,
  MaxBoots,      \* bound: times a node is started
  MaxRounds,     \* polls of stopActorsImpl before its deadline
  RegisterTimes, \* defaultRegisterTimes
  PoisonFirst,   \* the actor kind's poisonFirstOnQuit
  PromptActivation, \* an activation that saw draining unset publishes its actor before the last poll
  NoKey

ASSUME ActivationAssumption ==
  /\ NoKey \notin Nodes
  /\ NoKey \notin [node : Nodes, lease : Nodes \X (1..MaxBoots) \cup {<<NoKey, 0>>}]
  /\ MaxBoots \in Nat /\ MaxRounds \in Nat \ {0} /\ RegisterTimes \in Nat \ {0}
  /\ PoisonFirst \in BOOLEAN /\ PromptActivation \in BOOLEAN

VARIABLES
  lock,    \* etcd: the actor's key, [node, lease], or NoKey
  leases,  \* etcd: leases that live, as <<node, boot>>
  up, boot,                    \* per node: the process runs; how often it was started
  draining, stopper, drained, round,  \* per node: WaitStopSignal and stopActors
  activator,                   \* per node: a goroutine in ensureClusterKindActorExist
  inst, attempts, owned, stopRequested \* per node: the actor's instance; failed registrations

etcdVars == <<lock, leases>>
nodeVars == <<up, boot>>
stopVars == <<draining, stopper, drained, round>>
instVars == <<inst, attempts, owned, stopRequested>>
activationVars == <<etcdVars, nodeVars, stopVars, activator, instVars>>

ActivationInit ==
  /\ lock = NoKey /\ leases = {}
  /\ up = [n \in Nodes |-> FALSE]
  /\ boot = [n \in Nodes |-> 0]
  /\ draining = [n \in Nodes |-> FALSE]
  /\ stopper = [n \in Nodes |-> "serving"]
  /\ drained = [n \in Nodes |-> TRUE]
  /\ round = [n \in Nodes |-> 1]
  /\ activator = [n \in Nodes |-> "idle"]
  /\ inst = [n \in Nodes |-> "none"]
  /\ attempts = [n \in Nodes |-> 0]
  /\ owned = [n \in Nodes |-> FALSE]
  /\ stopRequested = [n \in Nodes |-> FALSE]

-----------------------------------------------------------------------------
(* Processes and leases *)

\* Start: a new process and a new lease.
Boot(n) ==
  /\ ~up[n] /\ boot[n] < MaxBoots
  /\ up' = [up EXCEPT ![n] = TRUE]
  /\ boot' = [boot EXCEPT ![n] = @ + 1]
  /\ leases' = leases \cup {<<n, boot[n] + 1>>}
  /\ UNCHANGED <<lock, stopVars, activator, instVars>>

\* The process ends, by a crash or after WaitStopSignal: all it knew is gone.
Down(n) ==
  /\ up[n]
  /\ up' = [up EXCEPT ![n] = FALSE]
  /\ draining' = [draining EXCEPT ![n] = FALSE]
  /\ stopper' = [stopper EXCEPT ![n] = "serving"]
  /\ drained' = [drained EXCEPT ![n] = TRUE]
  /\ round' = [round EXCEPT ![n] = 1]
  /\ activator' = [activator EXCEPT ![n] = "idle"]
  /\ inst' = [inst EXCEPT ![n] = "none"]
  /\ attempts' = [attempts EXCEPT ![n] = 0]
  /\ owned' = [owned EXCEPT ![n] = FALSE]
  /\ stopRequested' = [stopRequested EXCEPT ![n] = FALSE]
  /\ UNCHANGED <<etcdVars, boot>>

\* etcd drops a lease and the key bound to it.
Drop(l) ==
  /\ leases' = leases \ {l}
  /\ lock' = IF lock # NoKey /\ lock.lease = l THEN NoKey ELSE lock

\* Keepalive holds the lease while the process runs, and a process that stopped
\* keepalive ends before the lease does.
LeaseExpires(l) ==
  /\ l \in leases
  /\ ~up[l[1]] \/ boot[l[1]] # l[2]
  /\ Drop(l)
  /\ UNCHANGED <<nodeVars, stopVars, activator, instVars>>

-----------------------------------------------------------------------------
(* ensureClusterKindActorExist *)

\* The draining flag is looked at once, before the user's producer runs.
Ensure(n) ==
  /\ up[n] /\ activator[n] = "idle" /\ inst[n] = "none"
  /\ ~draining[n]
  /\ activator' = [activator EXCEPT ![n] = "producing"]
  /\ UNCHANGED <<etcdVars, nodeVars, stopVars, instVars>>

\* buildProcessor returned; the instance is published and scheduled.
Publish(n) ==
  /\ activator[n] = "producing"
  /\ activator' = [activator EXCEPT ![n] = "idle"]
  /\ inst' = [inst EXCEPT ![n] = "registering"]
  /\ UNCHANGED <<etcdVars, nodeVars, stopVars, attempts, owned, stopRequested>>

-----------------------------------------------------------------------------
(* Lifecycle: registration, Started, PreStop, deregistration *)

\* releaseEtcd zeroes leaseId before it closes the client; 0 means no lease.
ClientOpen(n) == stopper[n] # "closed"
NoLease == <<NoKey, 0>>
LeaseOf(n) == IF stopper[n] = "zeroed" THEN NoLease ELSE <<n, boot[n]>>

\* setTxn can create the key.
Creates(n) == lock = NoKey /\ LeaseOf(n) \in leases \cup {NoLease}

\* setTxn commits and its answer arrives: the actor owns the registration.
Acquire(n) ==
  /\ inst[n] = "registering" /\ ClientOpen(n) /\ Creates(n)
  /\ lock' = [node |-> n, lease |-> LeaseOf(n)]
  /\ inst' = [inst EXCEPT ![n] = "starting"]
  /\ attempts' = [attempts EXCEPT ![n] = 0]
  /\ owned' = [owned EXCEPT ![n] = TRUE]
  /\ UNCHANGED <<leases, nodeVars, stopVars, activator, stopRequested>>

\* A closed client panics, and the deferred stop cleans up at once.
Retries(n) == attempts[n] + 1 < RegisterTimes /\ ClientOpen(n)

\* setTxn returns false: the key exists, or etcd failed, perhaps after it committed.
AcquireFails(n) ==
  /\ inst[n] = "registering"
  /\ attempts' = [attempts EXCEPT ![n] = IF Retries(n) THEN @ + 1 ELSE 0]
  /\ inst' = [inst EXCEPT ![n] = IF Retries(n) THEN "registering" ELSE "stopping"]
  /\ \/ UNCHANGED lock
     \/ ClientOpen(n) /\ Creates(n) /\ lock' = [node |-> n, lease |-> LeaseOf(n)]
  /\ UNCHANGED <<leases, nodeVars, stopVars, activator, owned, stopRequested>>

\* Started returns, or panics: then the deferred stop runs.
StartedEnds(n) ==
  /\ inst[n] = "starting"
  /\ \E k \in {"started", "stopping"} : inst' = [inst EXCEPT ![n] = k]
  /\ UNCHANGED <<etcdVars, nodeVars, stopVars, activator, attempts, owned, stopRequested>>

\* poison() from a user, from clusterMemberChanged or from shutdown.
Poison(n) ==
  /\ inst[n] # "none"
  /\ stopRequested' = [stopRequested EXCEPT ![n] = TRUE]
  /\ UNCHANGED <<etcdVars, nodeVars, stopVars, activator, inst, attempts, owned>>

StopBegins(n) ==
  /\ inst[n] = "started" /\ stopRequested[n]
  /\ inst' = [inst EXCEPT ![n] = "stopping"]
  /\ UNCHANGED <<etcdVars, nodeVars, stopVars, activator, attempts, owned, stopRequested>>

\* PreStop has ended. removeTxn deletes the key if its value is this node's address;
\* when etcd fails the key may stay.
Unregister(n) ==
  /\ inst[n] = "stopping"
  /\ inst' = [inst EXCEPT ![n] = "unregistered"]
  /\ owned' = [owned EXCEPT ![n] = FALSE]
  /\ \/ UNCHANGED lock
     \/ owned[n] /\ ClientOpen(n) /\ lock # NoKey /\ lock.node = n /\ lock' = NoKey
  /\ UNCHANGED <<leases, nodeVars, stopVars, activator, attempts, stopRequested>>

Remove(n) ==
  /\ inst[n] = "unregistered"
  /\ inst' = [inst EXCEPT ![n] = "none"]
  /\ stopRequested' = [stopRequested EXCEPT ![n] = FALSE]
  /\ UNCHANGED <<etcdVars, nodeVars, stopVars, activator, attempts, owned>>

-----------------------------------------------------------------------------
(* WaitStopSignal *)

\* A signal or ForceStop.
BeginDrain(n) ==
  /\ up[n] /\ stopper[n] = "serving"
  /\ draining' = [draining EXCEPT ![n] = TRUE]
  /\ stopper' = [stopper EXCEPT ![n] = "first"]
  /\ UNCHANGED <<etcdVars, nodeVars, drained, round, activator, instVars>>

\* A poll of phase k poisons the actors the phase claims, and goes on until none is left ...
Claims(n) == inst[n] # "none" /\ (stopper[n] = "first" => PoisonFirst)
NextPhase(n) == IF stopper[n] = "first" THEN "latter" ELSE "release"

PollEmpty(n) ==
  /\ stopper[n] \in {"first", "latter"}
  /\ ~Claims(n)
  /\ PromptActivation /\ stopper[n] = "latter" => activator[n] = "idle"
  /\ stopper' = [stopper EXCEPT ![n] = NextPhase(n)]
  /\ round' = [round EXCEPT ![n] = 1]
  /\ UNCHANGED <<etcdVars, nodeVars, draining, drained, activator, instVars>>

\* Mutant: the phase has no deadline.
PollForever(n) ==
  /\ stopper[n] \in {"first", "latter"}
  /\ Claims(n)
  /\ stopRequested' = [stopRequested EXCEPT ![n] = TRUE]
  /\ UNCHANGED <<stopper, drained, round, etcdVars, nodeVars, draining, activator, inst, attempts, owned>>

\* ... or the deadline passes, and the phase reports that actors are left.
PollClaims(n) ==
  /\ stopper[n] \in {"first", "latter"}
  /\ Claims(n)
  /\ stopRequested' = [stopRequested EXCEPT ![n] = TRUE]
  /\ IF round[n] < MaxRounds
     THEN round' = [round EXCEPT ![n] = @ + 1] /\ UNCHANGED <<stopper, drained>>
     ELSE /\ round' = [round EXCEPT ![n] = 1]
          /\ stopper' = [stopper EXCEPT ![n] = NextPhase(n)]
          /\ drained' = [drained EXCEPT ![n] = FALSE]
  /\ UNCHANGED <<etcdVars, nodeVars, draining, activator, inst, attempts, owned>>

\* Mutant: the lease is given up whether or not the actors stopped.
ReleaseAlways(n) ==
  /\ stopper[n] = "release"
  /\ stopper' = [stopper EXCEPT ![n] = "zeroed"]
  /\ Drop(<<n, boot[n]>>)
  /\ UNCHANGED <<nodeVars, draining, drained, round, activator, instVars>>

\* releaseEtcd: revoke the lease only if every actor stopped (the call may fail).
ReleaseLease(n) ==
  /\ stopper[n] = "release"
  /\ stopper' = [stopper EXCEPT ![n] = "zeroed"]
  /\ \/ drained[n] /\ Drop(<<n, boot[n]>>)
     \/ UNCHANGED etcdVars
  /\ UNCHANGED <<nodeVars, draining, drained, round, activator, instVars>>

CloseClient(n) ==
  /\ stopper[n] = "zeroed"
  /\ stopper' = [stopper EXCEPT ![n] = "closed"]
  /\ UNCHANGED <<etcdVars, nodeVars, draining, drained, round, activator, instVars>>

-----------------------------------------------------------------------------
Activation(n) ==
  \/ Ensure(n) \/ Publish(n) \/ Acquire(n) \/ AcquireFails(n) \/ StartedEnds(n)
  \/ Poison(n) \/ StopBegins(n) \/ Unregister(n) \/ Remove(n)
StopperStep(n) == PollEmpty(n) \/ PollClaims(n) \/ ReleaseLease(n) \/ CloseClient(n)

NodeStep(n) == Boot(n) \/ Down(n) \/ Activation(n) \/ BeginDrain(n) \/ StopperStep(n)

ActivationNext ==
  \/ \E n \in Nodes : NodeStep(n)
  \/ \E l \in leases : LeaseExpires(l)

ActivationSpec == ActivationInit /\ [][ActivationNext]_activationVars

\* The stopping goroutine is scheduled, and a producer returns. No actor is assumed to stop.
ActivationFairSpec ==
  /\ ActivationSpec
  /\ WF_activationVars(\E n \in Nodes : StopperStep(n))
  /\ \A n \in Nodes : WF_activationVars(Publish(n))

-----------------------------------------------------------------------------
\* Every variable has the type of its counterpart; attempts and polls stay in bounds.
ActivationTypes ==
  /\ leases \subseteq Nodes \X (1..MaxBoots)
  /\ lock = NoKey \/ lock \in [node : Nodes, lease : Nodes \X (1..MaxBoots) \cup {NoLease}]
  /\ up \in [Nodes -> BOOLEAN] /\ boot \in [Nodes -> 0..MaxBoots]
  /\ draining \in [Nodes -> BOOLEAN] /\ drained \in [Nodes -> BOOLEAN]
  /\ stopper \in [Nodes -> {"serving", "first", "latter", "release", "zeroed", "closed"}]
  /\ round \in [Nodes -> 1..MaxRounds]
  /\ activator \in [Nodes -> {"idle", "producing"}]
  /\ inst \in [Nodes -> {"none", "registering", "starting", "started", "stopping", "unregistered"}]
  /\ attempts \in [Nodes -> 0..(RegisterTimes - 1)]
  /\ owned \in [Nodes -> BOOLEAN] /\ stopRequested \in [Nodes -> BOOLEAN]

\* User code of the actor may run on n: Started, Receive or PreStop.
Running(n) == owned[n] /\ inst[n] \in {"starting", "started", "stopping"}

(***************************************************************************)
(* The actor runs on one node at a time, across crashes, restarts, lost    *)
(* etcd answers and shutdowns that do or do not finish draining.           *)
(***************************************************************************)
SingleActivation == \A n, m \in Nodes : Running(n) /\ Running(m) => n = m

\* n gave its lease up, because stopActors reported that nothing was left.
Released(n) == stopper[n] \in {"zeroed", "closed"} /\ drained[n]

(***************************************************************************)
(* "Only give up the lease if every actor really stopped" (system_life.go):*)
(* whatever activations are under way when the actors are polled, the actor*)
(* runs on two nodes only if one of them gave its lease up; a shutdown that*)
(* did not drain, a crash, a restart or a lost answer is not enough. (That *)
(* a running process keeps its lease is LeaseExpires' assumption.)         *)
(***************************************************************************)
TwiceOnlyAfterRelease ==
  \A n, m \in Nodes : Running(n) /\ Running(m) => n = m \/ Released(n) \/ Released(m)

(***************************************************************************)
(* A shutdown ends even if an actor never stops: in the end no shutdown is *)
(* under way.                                                              *)
(***************************************************************************)
ShutdownEnds == <>[](\A n \in Nodes : draining[n] => stopper[n] = "closed")

(***************************************************************************)
(* The lock hangs off a lease, so that it goes away with its node.         *)
(***************************************************************************)
LockHasLease == lock # NoKey => lock.lease # NoLease

(***************************************************************************)
(* A start that gives up its registration lost to another: the key is not  *)
(* its own.                                                                *)
(***************************************************************************)
LoserHasWinner ==
  \A n \in Nodes :
    inst[n] = "stopping" /\ ~owned[n] => lock = NoKey \/ lock.lease # <<n, boot[n]>>
=============================================================================
