----------------------------- MODULE SystemLife -----------------------------
(***************************************************************************)
(* The life of one node's process: Start and WaitStopSignal                *)
(* (system_life.go), the provider's part in both (provider_etcd.go), the   *)
(* inbound server (remote/stream_server.go), and the goroutines that report*)
(* that the node can no longer go on: the server's, the keepalive's and the*)
(* watch's. The server takes messages before the node is a member and until*)
(* it has left, and a message may activate a cluster actor this node owns. *)
(*                                                                         *)
(* Members, the polls of the drain and the actor's own life are in         *)
(* Membership, ClusterActivation and Processor.                            *)
(***************************************************************************)
CONSTANT
  OldEntry  \* BOOLEAN: an earlier process with this address may still be listed as a member

Reporters == {"serve", "keepalive", "watch"}

VARIABLES
  main,      \* where Start, or WaitStopSignal, stands
  server,    \* "off", "serving", "failed" or "stopped"
  lease,     \* etcd: the lease lives
  renewed,   \* the client keeps it alive
  key,       \* etcd: the member key
  listed,    \* the published nodes have this node's address
  state,     \* config.state is set
  forceChan, \* forceCloseChan, of capacity 1, is full
  stopping,  \* the provider's flag
  draining,  \* the system's flag
  drained,   \* what stopActors returned
  reporter,  \* per reporter: "off", "on", "checks", "calls" or "ended"
  actor      \* "none", "starting", or running "locked" or "unlocked"

leaseVars == <<lease, renewed, key>>
shutdown == <<stopping, draining, drained>>
node == <<listed, state>>
lifeVars == <<main, server, leaseVars, node, forceChan, shutdown, reporter, actor>>

LifeInit ==
  /\ main = "new" /\ server = "off"
  /\ lease = FALSE /\ renewed = FALSE /\ key = FALSE
  /\ listed = FALSE /\ state = FALSE
  /\ forceChan = FALSE /\ stopping = FALSE /\ draining = FALSE /\ drained = FALSE
  /\ reporter = [r \in Reporters |-> "off"]
  /\ actor = "none"

Main(from, to) == main = from /\ main' = to

-----------------------------------------------------------------------------
(* Start *)

\* RpcService.Start: the server takes messages from here on. If it cannot listen, Start panics.
Listen ==
  /\ main = "new"
  /\ \/ /\ main' = "listening" /\ server' = "serving"
        /\ reporter' = [reporter EXCEPT !["serve"] = "on"]
     \/ main' = "failed" /\ UNCHANGED <<server, reporter>>
  /\ UNCHANGED <<leaseVars, node, forceChan, shutdown, actor>>

\* The client connects, and a lease is granted and kept alive.
Grant ==
  /\ Main("listening", "granted")
  /\ lease' = TRUE /\ renewed' = TRUE
  /\ UNCHANGED <<server, key, node, forceChan, shutdown, reporter, actor>>

LoadMembers ==
  /\ main \in {"granted", "lost"} /\ main' = "loaded"
  /\ listed' \in {listed, listed \/ OldEntry}
  /\ UNCHANGED <<server, leaseVars, state, forceChan, shutdown, reporter, actor>>

\* config.init: kinds and address for the key to claim.
ConfigInit ==
  /\ Main("loaded", "claiming")
  /\ state' = TRUE
  /\ UNCHANGED <<server, leaseVars, listed, forceChan, shutdown, reporter, actor>>

\* register: the key is there, and the node lists itself.
Register ==
  /\ Main("claiming", "claimed")
  /\ lease /\ key' = TRUE /\ listed' = TRUE
  /\ UNCHANGED <<server, lease, renewed, state, forceChan, shutdown, reporter, actor>>

\* Another round; the transaction may have been committed.
ClaimLost ==
  /\ Main("claiming", "lost")
  /\ key' \in {key, lease}
  /\ UNCHANGED <<server, lease, renewed, node, forceChan, shutdown, reporter, actor>>

\* system.init: markRunning, the id generator, the event stream.
SystemInit ==
  /\ Main("claimed", "inited")
  /\ UNCHANGED <<server, leaseVars, node, forceChan, shutdown, reporter, actor>>

\* watchMembers and keepAlive start their goroutines.
StartWatches ==
  /\ Main("inited", "started")
  /\ reporter' = [reporter EXCEPT !["keepalive"] = "on", !["watch"] = "on"]
  /\ UNCHANGED <<server, leaseVars, node, forceChan, shutdown, actor>>

\* releaseEtcd. Without a revocation, or if that fails, the lease is no longer renewed.
ReleaseEtcd(revoke) ==
  /\ renewed' = FALSE
  /\ \/ revoke /\ lease' = FALSE /\ key' = FALSE
     \/ UNCHANGED <<lease, key>>

\* Mutant: what start acquired is kept.
StartFailsHolding ==
  /\ main \in {"listening", "granted", "loaded", "lost", "claimed"} /\ main' = "failed"
  /\ UNCHANGED <<server, leaseVars, node, forceChan, shutdown, reporter, actor>>

\* etcd fails, there is no id left, or system.init panics: start gives back what it has, and Start
\* panics.
ProviderStartFails ==
  /\ main \in {"listening", "granted", "loaded", "lost", "claimed"} /\ main' = "failed"
  /\ ReleaseEtcd(TRUE)
  /\ UNCHANGED <<server, node, forceChan, shutdown, reporter, actor>>

-----------------------------------------------------------------------------
(* The reporters, and etcd *)

Reports(r, from, to) == reporter[r] = from /\ reporter' = [reporter EXCEPT ![r] = to]

\* Serve returns an error: the node takes no messages any more.
ServeFails ==
  /\ server = "serving" /\ server' = "failed"
  /\ Reports("serve", "on", "calls")
  /\ UNCHANGED <<main, leaseVars, node, forceChan, shutdown, actor>>

\* The lease is lost, or was not renewed, and the keys with it.
LeaseEnds ==
  /\ lease
  /\ lease' = FALSE /\ key' = FALSE
  /\ UNCHANGED <<main, server, renewed, node, forceChan, shutdown, reporter, actor>>

\* The keepalive channel closes, by that or by the provider's own teardown.
KeepAliveCloses ==
  /\ ~lease \/ ~renewed
  /\ Reports("keepalive", "on", "checks")
  /\ UNCHANGED <<main, server, leaseVars, node, forceChan, shutdown, actor>>

\* The watch ends, by etcd or with the client.
WatchCloses ==
  /\ Reports("watch", "on", "checks")
  /\ UNCHANGED <<main, server, leaseVars, node, forceChan, shutdown, actor>>

\* A deliberate teardown is not reported.
ChecksStopping(r) ==
  /\ Reports(r, "checks", IF stopping THEN "ended" ELSE "calls")
  /\ UNCHANGED <<main, server, leaseVars, node, forceChan, shutdown, actor>>

\* Mutant: a plain send on the channel.
ForceStopBlocks(r) ==
  /\ ~forceChan /\ Reports(r, "calls", "ended")
  /\ forceChan' = TRUE
  /\ UNCHANGED <<main, server, leaseVars, node, shutdown, actor>>

\* Mutant: a channel without a buffer.
ForceStopUnbuffered(r) ==
  /\ Reports(r, "calls", "ended")
  /\ forceChan' = (main = "waiting")
  /\ UNCHANGED <<main, server, leaseVars, node, shutdown, actor>>

\* ForceStop, on the reporter's goroutine.
ForceStop(r) ==
  /\ Reports(r, "calls", "ended")
  /\ forceChan' = TRUE
  /\ UNCHANGED <<main, server, leaseVars, node, shutdown, actor>>

-----------------------------------------------------------------------------
(* WaitStopSignal *)

\* The application calls it after Start.
Wait ==
  /\ Main("started", "waiting")
  /\ UNCHANGED <<server, leaseVars, node, forceChan, shutdown, reporter, actor>>

\* A signal or a forced stop; stopActors begins.
StopBegins(signal) ==
  /\ signal \/ forceChan
  /\ Main("waiting", "draining")
  /\ forceChan' = (signal /\ forceChan)
  /\ draining' = TRUE
  /\ UNCHANGED <<server, leaseVars, node, stopping, drained, reporter, actor>>

\* stopActors returns: nothing runs, or the time is over.
StopActors ==
  /\ Main("draining", "leaving")
  /\ drained' = (actor = "none")
  /\ UNCHANGED <<server, leaseVars, node, forceChan, stopping, draining, reporter, actor>>

\* clusterProvider.stop flags the teardown and then releases etcd.
ProviderStop ==
  /\ Main("leaving", "releasing")
  /\ stopping' = TRUE
  /\ UNCHANGED <<server, leaseVars, node, forceChan, draining, drained, reporter, actor>>

ProviderReleases ==
  /\ Main("releasing", "left")
  /\ ReleaseEtcd(drained)
  /\ UNCHANGED <<server, node, forceChan, shutdown, reporter, actor>>

\* RpcService.Stop; Serve returns without an error.
ServerStop ==
  /\ Main("left", "done")
  /\ server' = IF server = "serving" THEN "stopped" ELSE server
  /\ reporter' = [reporter EXCEPT !["serve"] = IF @ = "on" THEN "ended" ELSE @]
  /\ UNCHANGED <<leaseVars, node, forceChan, shutdown, actor>>

-----------------------------------------------------------------------------
(* A cluster actor that hashes to this node's address *)

\* An envelope for it arrives.
EnvelopeArrives ==
  /\ server = "serving" /\ listed /\ ~draining
  /\ actor = "none" /\ actor' = "starting"
  /\ UNCHANGED <<main, server, leaseVars, node, forceChan, shutdown, reporter>>

\* registerToCluster takes the lock if the node's state names the kind, and nothing otherwise.
RegisterToCluster ==
  /\ actor = "starting"
  /\ actor' \in IF state THEN (IF lease THEN {"locked"} ELSE {}) \cup {"none"} ELSE {"unlocked"}
  /\ UNCHANGED <<main, server, leaseVars, node, forceChan, shutdown, reporter>>

ActorStops ==
  /\ actor \in {"locked", "unlocked"} /\ actor' = "none"
  /\ UNCHANGED <<main, server, leaseVars, node, forceChan, shutdown, reporter>>

-----------------------------------------------------------------------------
StartSteps ==
  \/ Listen \/ Grant \/ LoadMembers \/ ConfigInit \/ Register \/ ClaimLost \/ SystemInit \/ StartWatches
  \/ ProviderStartFails
Stops == StopActors \/ ProviderStop \/ ProviderReleases \/ ServerStop
Report == KeepAliveCloses \/ \E r \in Reporters : ChecksStopping(r) \/ ForceStop(r)

LifeNext ==
  \/ StartSteps \/ Wait \/ Stops \/ \E signal \in BOOLEAN : StopBegins(signal)
  \/ Report \/ ServeFails \/ WatchCloses \/ LeaseEnds
  \/ EnvelopeArrives \/ RegisterToCluster \/ ActorStops

\* The main goroutine and the reporters go on, and a lease that is not renewed ends. No failure,
\* message, signal or call of the application is certain.
LifeGoesOn == Stops \/ StopBegins(FALSE) \/ (~renewed /\ LeaseEnds)
LifeFairness == WF_lifeVars(LifeGoesOn) /\ WF_lifeVars(Report)

LifeSpec == LifeInit /\ [][LifeNext]_lifeVars /\ LifeFairness

-----------------------------------------------------------------------------
(***************************************************************************)
(* "Every grain's single-activation lock hangs off this node's etcd lease" *)
(* (system_life.go): whenever a message comes in during Start, the actor it*)
(* activates takes its lock before it runs.                                *)
(***************************************************************************)
LockedActivation == actor # "unlocked"

(***************************************************************************)
(* "No failure below may leave the client, lease and keepalive running with*)
(* this node's member key published" (provider_etcd.go, start): after a    *)
(* failed Start the key is gone in the end, also if a claim was committed  *)
(* without an answer, what follows the claim panicked, or the revocation   *)
(* failed.                                                                 *)
(***************************************************************************)
FailedStartLeaves == <>[](main = "failed" => ~key)

(***************************************************************************)
(* A node that lost its server, its lease or its watch does not go on: the *)
(* report is kept even if it comes before the application waits for it.    *)
(***************************************************************************)
FatalStops == <>[](main = "waiting" => lease /\ server = "serving" /\ reporter["watch"] = "on")

(***************************************************************************)
(* "a plain send would park the caller ... forever on a second stop        *)
(* request" (system_life.go, ForceStop): every report returns, however many*)
(* there are and whether or not anyone still receives.                     *)
(***************************************************************************)
ReportersReturn == <>[](\A r \in Reporters : reporter[r] # "calls")
=============================================================================
