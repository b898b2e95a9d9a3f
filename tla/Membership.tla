----------------------------- MODULE Membership -----------------------------
(***************************************************************************)
(* How a process joins the cluster and follows it, provider_etcd.go: load  *)
(* the members, claim a node id with a create-only transaction, replay the *)
(* member keys' changes from the revision of the first load, and stop when *)
(* the lease or the watch is lost. etcd (external) is the member keys, the *)
(* log of their changes and the leases they hang off; its answers may be   *)
(* lost, and it may expire the lease of a process that still runs.         *)
(*                                                                         *)
(* nodeMap and its published snapshot change under one lock and are one    *)
(* variable here; Routing tells them apart.                                *)
(***************************************************************************)
EXTENDS Naturals, Sequences, FiniteSets, SequencesExt

CONSTANTS
  Procs,           \* processes, each started once
  Ids,             \* node ids, 1..MaxNodeMax
  RegisterRounds,  \* registerRounds
  Nobody           \* no member

ASSUME MemberAssumption == IsFiniteSet(Ids) /\ Nobody \notin Procs \cup Ids

VARIABLES
  members,   \* etcd: node id -> the process whose key it is, or Nobody
  changes,   \* etcd: the log of changes, [id, val]; val = Nobody is a DELETE
  leases,    \* etcd: processes whose lease lives
  phase,     \* per process: where start, or the process's life after it, stands
  nodeMap,   \* per process: its view of members
  rev,       \* per process: how much of changes its view has taken in
  nodeId,    \* per process: the id it claimed, or Nobody
  round,     \* per process: lost rounds of register
  forced     \* per process: why ForceStop was called, "lease" or "watch", or "no"

etcd == <<members, changes, leases>>
memberVars == <<etcd, phase, nodeMap, rev, nodeId, round, forced>>

MemberInit ==
  /\ members = [i \in Ids |-> Nobody] /\ changes = <<>> /\ leases = {}
  /\ phase = [p \in Procs |-> "off"]
  /\ nodeMap = [p \in Procs |-> [i \in Ids |-> Nobody]]
  /\ rev = [p \in Procs |-> 0]
  /\ nodeId = [p \in Procs |-> Nobody]
  /\ round = [p \in Procs |-> 0]
  /\ forced = [p \in Procs |-> "no"]

-----------------------------------------------------------------------------
(* etcd *)

\* The transaction writes p's key for id i.
Put(p, i) ==
  /\ p \in leases
  /\ members' = [members EXCEPT ![i] = p]
  /\ changes' = Append(changes, [id |-> i, val |-> p])
  /\ UNCHANGED leases

\* A lease ends, by a revocation or by its time, and its keys with it.
Drop(p) ==
  LET keys == SetToSeq({i \in Ids : members[i] = p}) IN
  /\ leases' = leases \ {p}
  /\ members' = [i \in Ids |-> IF members[i] = p THEN Nobody ELSE members[i]]
  /\ changes' = changes \o [k \in DOMAIN keys |-> [id |-> keys[k], val |-> Nobody]]

\* A process that cannot reach etcd loses its lease.
Expire(p) ==
  /\ p \in leases
  /\ Drop(p)
  /\ UNCHANGED <<phase, nodeMap, rev, nodeId, round, forced>>

Moves(p, to) == phase' = [phase EXCEPT ![p] = to]

\* The process ends and what it knew is gone. Its lease is revoked (the call may fail) or left.
Exits(p, to) ==
  /\ Moves(p, to)
  /\ nodeMap' = [nodeMap EXCEPT ![p] = [i \in Ids |-> Nobody]]
  /\ rev' = [rev EXCEPT ![p] = 0]
  /\ nodeId' = [nodeId EXCEPT ![p] = Nobody]
  /\ round' = [round EXCEPT ![p] = 0]
  /\ forced' = [forced EXCEPT ![p] = "no"]
  /\ Drop(p) \/ UNCHANGED etcd

-----------------------------------------------------------------------------
(* start *)

Start(p) ==
  /\ phase[p] = "off"
  /\ Moves(p, "load")
  /\ leases' = leases \cup {p}
  /\ UNCHANGED <<members, changes, nodeMap, rev, nodeId, round, forced>>

\* loadMembers adds what it finds; it takes nothing out of nodeMap.
Loaded(p) == [i \in Ids |-> IF members[i] # Nobody THEN members[i] ELSE nodeMap[p][i]]

Load(p) ==
  /\ phase[p] = "load"
  /\ nodeMap' = [nodeMap EXCEPT ![p] = Loaded(p)]
  /\ rev' = [rev EXCEPT ![p] = Len(changes)]
  /\ Moves(p, "claim")
  /\ UNCHANGED <<etcd, nodeId, round, forced>>

\* freeNodeIds
Free(p) == {i \in Ids : nodeMap[p][i] = Nobody}

\* Mutant: the transaction does not ask whether the key exists.
CreatesBlindly(p, i) == Put(p, i)

\* setTxn commits: CreateRevision(key) = 0.
Creates(p, i) == members[i] = Nobody /\ Put(p, i)

\* setTxn succeeds; the process adds itself to its view, starts the watch from rev and keepalive.
Claim(p, i) ==
  /\ phase[p] = "claim" /\ i \in Free(p)
  /\ Creates(p, i)
  /\ nodeMap' = [nodeMap EXCEPT ![p][i] = p]
  /\ nodeId' = [nodeId EXCEPT ![p] = i]
  /\ round' = [round EXCEPT ![p] = 0]
  /\ Moves(p, "serving")
  /\ UNCHANGED <<rev, forced>>

\* setTxn returns false: the key exists or etcd failed, perhaps after it committed.
ClaimFails(p, i) ==
  /\ phase[p] = "claim" /\ i \in Free(p)
  /\ Moves(p, "reload")
  /\ UNCHANGED etcd \/ Creates(p, i)
  /\ UNCHANGED <<nodeMap, rev, nodeId, round, forced>>

\* Mutant: the watch is to start from the last load.
ReloadAnchors(p) ==
  /\ phase[p] = "reload" /\ round[p] + 1 < RegisterRounds
  /\ nodeMap' = [nodeMap EXCEPT ![p] = Loaded(p)]
  /\ rev' = [rev EXCEPT ![p] = Len(changes)]
  /\ round' = [round EXCEPT ![p] = @ + 1]
  /\ Moves(p, "claim")
  /\ UNCHANGED <<etcd, nodeId, forced>>

\* A lost round: load again and retry. The revision of this load is not kept.
Reload(p) ==
  /\ phase[p] = "reload" /\ round[p] + 1 < RegisterRounds
  /\ nodeMap' = [nodeMap EXCEPT ![p] = Loaded(p)]
  /\ round' = [round EXCEPT ![p] = @ + 1]
  /\ Moves(p, "claim")
  /\ UNCHANGED <<etcd, rev, nodeId, forced>>

\* etcd fails a load, all ids are taken or the rounds are used up: start revokes its lease.
StartFails(p) ==
  /\ \/ phase[p] \in {"load", "reload"}
     \/ phase[p] = "claim" /\ Free(p) = {}
  /\ Exits(p, "failed")

-----------------------------------------------------------------------------
(* A running process *)

\* parseWatch: a change arrives.
ParseWatch(p) ==
  /\ phase[p] = "serving" /\ forced[p] # "watch" /\ rev[p] < Len(changes)
  /\ LET c == changes[rev[p] + 1] IN nodeMap' = [nodeMap EXCEPT ![p][c.id] = c.val]
  /\ rev' = [rev EXCEPT ![p] = @ + 1]
  /\ UNCHANGED <<etcd, phase, nodeId, round, forced>>

\* Only the first call counts.
ForcesStop(p, why) ==
  /\ phase[p] = "serving" /\ forced[p] = "no"
  /\ forced' = [forced EXCEPT ![p] = why]
  /\ UNCHANGED <<etcd, phase, nodeMap, rev, nodeId, round>>

\* Mutant: a closed keepalive channel is taken for a teardown.
KeepAliveEndsQuietly(p) == FALSE /\ ForcesStop(p, "lease")

\* The keepalive channel closes after the lease is gone.
KeepAliveEnds(p) == p \notin leases /\ ForcesStop(p, "lease")

\* The watch ends with an error, or its channel closes: no further changes arrive.
WatchLost(p) == ForcesStop(p, "watch")

\* WaitStopSignal, after ForceStop or a signal: the lease is revoked, or left to expire.
Stop(p) ==
  /\ phase[p] = "serving"
  /\ Exits(p, "stopped")

-----------------------------------------------------------------------------
Starting(p) ==
  Start(p) \/ Load(p) \/ Reload(p) \/ StartFails(p) \/ \E i \in Ids : Claim(p, i) \/ ClaimFails(p, i)
MemberNext ==
  \E p \in Procs : \/ Starting(p) \/ Expire(p) \/ ParseWatch(p)
                   \/ KeepAliveEnds(p) \/ WatchLost(p) \/ Stop(p)

\* Goroutines run; a process that was told to stop gets there.
StopsForced == \E p \in Procs : KeepAliveEnds(p) \/ (forced[p] # "no" /\ Stop(p))
MemberFairness == WF_memberVars(StopsForced)

MemberSpec == MemberInit /\ [][MemberNext]_memberVars /\ MemberFairness

-----------------------------------------------------------------------------
(***************************************************************************)
(* "a stale view costs a round, never a duplicate id" (provider_etcd.go):  *)
(* two processes with the same id do not both hold a lease, whatever they  *)
(* saw when they claimed it and whichever answers were lost.               *)
(***************************************************************************)
UniqueNodeId ==
  \A p, q \in leases : nodeId[p] = nodeId[q] /\ nodeId[p] # Nobody => p = q

(***************************************************************************)
(* A serving process that has taken in every change sees exactly the       *)
(* members, although its loads only added entries, its own entry was added *)
(* ahead of the watch and the replay began at the first load.              *)
(***************************************************************************)
ViewConverges ==
  \A p \in Procs : phase[p] = "serving" /\ rev[p] = Len(changes) => nodeMap[p] = members

(***************************************************************************)
(* A process whose lease is gone, so that its node id and its actors' locks*)
(* may pass to others, stops: in the end only lease holders serve.         *)
(***************************************************************************)
LeaseLossStops == <>[](\A p \in Procs : phase[p] = "serving" => p \in leases)
=============================================================================
