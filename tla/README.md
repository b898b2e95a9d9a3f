# A TLA+ model of grain

grain is a distributed actor framework in Go. Nodes form a cluster through etcd,
actors ("grains") are activated on demand on the node that a rendezvous hash of
their name selects, messages travel over gRPC streams, and an actor's handler may
`Ask` another actor without blocking the messages behind it.

This directory holds TLA+ modules that model the framework from the mailbox to the cluster,
TLC configurations that check them on small instances, and TLAPS proofs of their
safety properties for every size of the instance. `PROJECT.json` relates each
definition to the lines of `src/` it models.

## 1. Inventory

| Component | State | Operations | Interacts with |
|---|---|---|---|
| Processor (`processor_*.go`, `execution.go`) | mailbox, drainStatus, unfinishedCalls, lifecycle, stop latch, registration ownership; per drainer goroutine an `execution` | send, poison, init, schedule, drain, invoke, suspend, resume, start, stop | gate, ring buffer, registry, etcd |
| Execution gate (`execution_gate.go`) | permit channel, owner id, call pointer | enter, leave, currentExecution | every goroutine that calls `Ask` |
| Ring buffer (`al/ringbuffer`) | slots, head, tail, size, cap, closed | Push, Pop, Close, grow | processor |
| Ask (`request_helper.go`, `system.go`) | pending map, reply channels, admission lock and flag | registerAsk, deliverReply, cancelAsk, awaitReply, wakePendingAsks | processor, shutdown |
| Creation (`processor_spawn.go`, `registry.go`) | creation slots with user counts, registry | lock, unlock, spawnNew, getOrSpawn, register, remove | processor |
| Single activation, shutdown (`system_cluster.go`, `system_life.go`, `kind_opts.go`, `provider_etcd.go`) | lock key and leases in etcd, draining flag, drain phases, instance per node | ensure, register, unregister, poison, drain, releaseEtcd | processor, creation, etcd |
| Membership (`provider_etcd.go`) | node map, version, snapshot | register, loadMembers, watchMembers, publish, keepAlive | routing, activation |
| Routing (`routing_resolver.go`) | generation, route cache per reference | resolve, refresh | membership, hash |
| Dispatch (`system.go`, `system_envelope.go`, `dead_letter.go`) | registry | Tell, Ask, sendToLocal, sendToRemote, recvEnvelope, dead letters | routing, transport, activation |
| Rendezvous hash (`addr_hash.go`) | none | CalcAddrByKind8Name | routing |
| Event stream (`event_stream.go`) | local subscriptions, cluster-wide map | subscribe, unsubscribe, publish, watch | etcd |
| Timers (`schedule.go`) | state word, timer | fire, re-arm, cancel | processor |
| Transport (`stream_write.go`, `remote/`) | connection, stream | Started, Receive, PreStop, Listen | processor, dispatch |
| System (`system_life.go`) | forceCloseChan, draining | Start, WaitStopSignal, ForceStop | provider, server |
| Ids (`uuid/`) | timestamp, step, node | Generate | spawn, Ask |
| Concurrent map (`al/safemap`) | locked shards | Set..., Remove..., iterations | registry, Ask table |
| Names (`actor_name.go`, `actor_parse.go`) | none | validation, id, parseCache | routing, transport |
| Configuration, codes, logging, generated code, examples | | | not modelled; see `PROJECT.json` |

What makes the system hard, and what correctness means for each part:

- **Processor.** No actor has a goroutine of its own. Whoever finds the scheduler idle
  starts a drainer; the first `Ask` of a handler hands draining to a successor and gives
  the permit away, so several goroutines of one actor are alive at once. Correct means:
  user code runs serially, one drainer pops the mailbox, no wake-up is lost, accepted
  messages are handled in order or dead-lettered, `PreStop` runs after the last handler,
  and a stop request is eventually honoured, with panics and `runtime.Goexit` anywhere.
- **Gate.** `currentExecution` may be called from any goroutine, also from one that does
  not belong to the actor, while others enter and leave. Correct means: no data race on
  the pointer, and the answer is that of an atomic permit.
- **Ring buffer.** Growth of a wrapped ring, a limit that is not a power of two. Correct
  means a bounded FIFO that keeps no reference to popped values.
- **Ask.** Reply, duplicate reply, timeout, panic of the send and shutdown race. Correct
  means one outcome, no leaked entry, nobody forgotten by the shutdown wake-up.
- **Creation.** Slots come and go under creators that wait for them. Correct means one
  creator per id and no actor instance that is built and thrown away.
- **Single activation.** The lock is a key bound to a lease, the lease is revoked at
  shutdown, etcd answers get lost. Correct means the actor runs on one node at a time.
- **Start and stop.** The server takes messages before the node is a member; server, lease
  and watch may be lost at any time. Correct means an actor never runs without its lock, a
  failed start leaves nothing behind, and a loss stops the node without blocking whoever
  reports it.
- **Membership.** Claims race, answers get lost, leases expire under a running process.
  Correct means unique node ids, views that converge, and no service without a lease.
- **Routing and hash.** Version, snapshot, generation and cache are read at different times.
  Correct means that a route is that of one published node set, not an outdated one, and
  that every node computes the same owner whatever the order of its list.
- **Dispatch and transport.** Views of the owner differ while members change, actors stop
  under a message, streams break with messages queued. Correct means that every message
  ends, a failed Ask is told, and a Poison activates nothing.
- **Event stream.** The actor and the watch write the same map. Correct means that a
  caught-up node publishes to exactly the interested nodes.
- **Timers, ids, maps, names.** A cancel races with a callback that re-arms itself; steps
  overflow and nodes restart; iterations race with writers; separators in names.

## 2. Modules

| Module | Models | Extends or implements | Proofs |
|---|---|---|---|
| `Processor` | one actor, one atomic operation per step | | `ProcessorControl`, `ProcessorProofs` |
| `ProcessorInv` | its inductive invariant | `Processor` | |
| `Permit` | what the gate promises | | |
| `ExecutionGate` | the gate, one memory access per step | implements `Permit` | `PrimitiveProofs` |
| `BoundedFifo` | what the mailbox promises | | |
| `RingBuffer` | the ring, index by index | implements `BoundedFifo` | `PrimitiveProofs` |
| `Timer` | startTimer, its callback and its cancels | | `PrimitiveProofs` |
| `PendingAsk` | the table of pending Asks and its shutdown | | `ActorProofs` |
| `Spawn` | creation slots and registry | | `ActorProofs` |
| `ClusterActivation` | one cluster actor on several nodes, etcd, shutdown | | `ActorProofs` |
| `SystemLife` | start, fatal losses and stop of one node | | `NodeProofs` |
| `Uuid` | Generate, with clocks and restarts | | `NodeProofs` |
| `ShardedMap` | the sharded map and its iterations | | `NodeProofs` |
| `ActorId` | actor ids, built and parsed | | `ActorIdProofs` |
| `Membership` | node ids, member keys, watch, leases | | `MembershipProofs` |
| `EventStream` | one event's subscriptions on several nodes | | `MembershipProofs` |
| `AddrHash` | the owner of an actor among given nodes | | |
| `Ownership` | nodes that join and leave | `AddrHash` | `RoutingProofs` |
| `Routing` | resolver and route cache of one reference | `AddrHash` | `RoutingProofs` |
| `Delivery` | the way of a message between nodes, and back | | `RoutingProofs` |
| `MCProcessor` | instance and symmetry for TLC | `Processor` | |
| `MCPrimitives`, `MCCluster` | the parts of a node, and of the cluster layer, in one run each | the modules above | |

`MCPrimitives` and `MCCluster` put several modules into one run: a variable `part`, chosen
initially, says which of them runs, the others stand still. The reachable states are the
sum of the parts' states, not their product, so a run checks each part on its own. They
extend the modules, so that TLC checks the very definitions the proofs are about and
evaluates their assumptions.

The layers fit together as follows. `Processor` works with the gate as `Permit`
(`executingCall` there is `holder` here) and with the mailbox as `BoundedFifo`; the two
refinements justify that. `ClusterActivation` has one instance per node with its
hooks in order; `Spawn` and `Processor` justify that. `Routing` computes owners with
`AddrHash` and tells the node map, its published snapshot and its version apart, which are
one variable in `Membership`. `Delivery` has a view of the owner per node that follows the
members with a delay, which is what `Membership` and `Routing` give it. `Uuid` has one
generator per node id at a time, which is `UniqueNodeId`; a process that lost its claim and
still issues ids while another holds it is left out. `SystemLife` refines the one
step `Boot` of `ClusterActivation` into the order of Start.

### Processor

Drainer goroutines are identities with a program counter; `schedule` and `suspend` take a
free identity and a drainer that returns gives it back. The labels name the next shared
operation. `cur` is the message the goroutine popped, `drainOwnershipTransferred` the set
of drainers whose `execution` has that flag, and `goexit` the ones whose handler exited.
`accepted`, `begun` and `flushed` are history variables. `lock` is what the cluster
registration left in etcd: "stale" is an entry whose removal failed, or one that a lost
answer left behind. A panic in a handler is recovered and looks like a return, so
`ReceiveEnds`, `StartedEnds` and `PreStopEnds` cover return, panic and Goexit. Waiting for
a reply ends at any time (`Resume`), which covers the reply, the timeout and a failed send.

### ExecutionGate and Permit

`enter` is three steps and `leave` is three steps; `currentExecution` is a load of the
owner id and, if that is the goroutine's own, a read of the pointer. `Strays` are
goroutines that never drain. Because an unsuccessful load may not be followed by a read,
the pointer is never read while it is written.

### RingBuffer and BoundedFifo

The refinement mapping reads `size` slots from `head`. Growth is part of `Push`, as in the
code; the clamping of both capacities in `New` is modelled, so the run includes an
initial capacity smaller than the limit and a limit that cuts off the doubling.

### PendingAsk

`RLock`, `CheckClosed` and `Insert` are `registerAsk`; a writer that waits keeps new
readers out, as Go's RWMutex does. `deliverReply` is two steps, since between `Pop` and the
send the shutdown snapshot can be taken. `Visit` reads one entry at a time because the
map is sharded and replies go on meanwhile. A reply is of the awaited type ("T"), the
sentinel of an error or of the shutdown, or of another type: the cases of `awaitReply`. Both outcomes of `select` are possible when both are ready.

### Spawn

The two sections under `processorCreator.mu` call nothing and are one step each. A slot or
an instance is a heap object, and one that nobody refers to can be allocated again, so an
ABA mistake would show. `Build` covers a producer that panics. `register` never finds
another instance (`NoUnusedInstance`), so its failing branch is a conditional inside
`Register`.

### ClusterActivation

One actor, any number of nodes. `Boot` is `providerEtcd.start` as far as the lease is
concerned, `Down` a crash or the end of the process. `Acquire` and `AcquireFails` are the
outcomes of `setTxn`: a failure may have committed. `stopper` walks through the drain
phases, the revocation, the zeroed `leaseId` and the closed client.

Two assumptions are built in. A running process keeps its lease, and a process that
cancelled keepalive ends before its lease does: a partitioned node's actors do run on for
a while, and nothing in the code claims otherwise (without this assumption TLC finds
`SingleActivation` violated at once). And `PromptActivation`, a constant: an
activation that passed the draining check publishes its actor before the last drain poll.
The run `activation` sets it, `activation_late` does not.

### SystemLife

One process. The server serves from `Listen` on, so `EnvelopeArrives` may start an actor at any
point of Start at which the published nodes list this node's address; `RegisterToCluster`
then finds the kinds of `config.state`, or none. `OldEntry` says that an earlier process
with the same address may still be a member when this one loads the members. The three
`Reporters` are the goroutines of the server, keepalive and the watch; each checks the
provider's `stopping` flag where the code does and calls `ForceStop`, whose channel has one
place. `WaitStopSignal` is `Wait`, `StopBegins`, `StopActors`, `ProviderStop`,
`ProviderReleases`, `ServerStop`, in that order.

### Membership

etcd is the member keys, the log of their changes and the leases. A process loads the
members, claims a free id with a create-only transaction whose answer may be lost, loads
again after a lost round, adds its own entry and replays the log from its first load. The
replay may for a moment remove the entry it just added, when another process held the id
in between; `ViewConverges` says that it is back at the end of the log. A lease may expire
under a running process.

### AddrHash, Ownership and Routing

A node is `[addr, score, hosts]`; scores are given, and TLC tries zero, equal and
unroutable ones in every order of the list. `Scan` is the loop of `CalcAddrByKind8Name`, a
recursive function of the position, and `Owners` the results over all orders. In `Routing` each lock-free read and each
compare-and-swap is a step: published version, generation, refresh under its mutex,
cached entry, store. The reference may be resolved by another system in between.

### Delivery

A message is at one place: a goroutine on some node at some point of `tellWithSender`,
`sendToLocal` or `recvEnvelope`, a mailbox, a stream writer's queue, or a stream. An Ask has
a request and an answer. The owner moves up to `MaxMoves` times; a node learns it later
(`Learn`) and then sweeps its registry (`ClusterMemberChanged`). The lookup of the fast path
and the resolution of the route are steps of their own (`TellWithSender`, `Resolve`), so an
instance may come or go in between. An activation may be refused, or end in a panic of the
producer, which takes the message with it: `recvEnvelope` recovers it without a dead letter,
and a local sender gets the panic. Writers may fail to
connect, break, and be told to stop with messages queued.

### EventStream

One event. `Subscribe` and `Unsubscribe` call etcd and change the map afterwards; an etcd
call may fail before or after it takes effect; the watch applies changes in order, may
end, and a node may crash.

### Timer, Uuid, ShardedMap, ActorId

`Timer` makes every access of the state word a step; the runtime's timer is external. `Uuid`
keeps the word's width: shifts are modulo `2^TotalBits`. A restart replaces a node's
generator at any time, also within a millisecond; the new process's clock is off by one of
`Skews`, so it may be the same as before, later, earlier or before the epoch. Ids do repeat
then: the new process knows nothing of what was issued. `reused` records every id that is
issued again, with the time it carries, and `until` how far the clocks of earlier processes
got, so that `ReuseOnlyInReenteredTime` can say which ids those are.
`ShardedMap` covers `IterCb`, `IterBuffered` and `Clear`; a waiting writer keeps new
readers out. `ActorId` has strings as short sequences of characters, since the properties
are about separators. The kind of a `WithOptsKindName` option is not validated when a named
actor is spawned, so `NewDirectActorRef` takes any text: with a '/' in it the id parses into
empty parts; with an '@' it parses back, although `config_with.go:96` calls such ids
unparsable; with the kind "reply" `isAsk` holds of it. The address is empty before Start.

## 3. Runs

| Run | Bounds | States | Shows |
|---|---|---|---|
| `processor` | 4 drainers, 2 messages, 1 caller of poison, capacity 1, 1 Ask per handler | 486,000 | serial execution, single owner, stop after calls, order, wake-ups, release order |
| `processor_live` | 3 drainers, a message and a Poison message, capacity 2 | 198,000 | `StopCompletes`, `AcceptedSettles` |
| `primitives` | 3 drainers, 2 goroutines outside; 3 values, capacity 2 to 5; 2 cancels; 3+1+1 id bits, 4 ids, 3 ms, clocks 1 ms early or late; 2 shards, 2 keys; texts up to 2, wire up to 7 characters | 147,000 | gate and ring: race freedom and refinement; timer: `NoFurtherTick`, `CancelSilences`, `TimerKeepsTicking`; ids: `ReuseOnlyInReenteredTime`; map: `SnapshotExact`, `IterationEnds`; names: `ParsesIntoItsParts` |
| `ask` | 2 Asks, 2 repliers | 127,000 | coverage of the wake-up, no leak, `ShutdownReleases` |
| `spawn` | 2 ids, 3 creators, 2 slots, 2 instances | 74,000 | one creator, no unused instance, `SpawnReturns` |
| `activation` | 2 nodes, 2 boots each, 2 registration attempts, 2 polls per phase | 294,000 | `SingleActivation`, `ShutdownEnds` |
| `cluster` | 2 processes, 2 ids, 2 rounds; 5 nodes; 2 senders, 3 versions; 2 event nodes, 3 changes; 2 nodes, an Ask and a Poison, 1 move; one process | 222,000 | membership: `UniqueNodeId`, `ViewConverges`, `LeaseLossStops`; owner: `OwnerAgreed`, `LeastDisruption`; routing: `RouteIsFresh`, `NoRollback`; events: `PublishReaches`; delivery: `EveryMessageEnds`, `DeadAskIsFailed`, `PoisonStartsNothing`; start and stop: `FailedStartLeaves`, `FatalStops`, `ReportersReturn` |
| `activation_late` | 2 nodes, 1 boot each, without `PromptActivation` | | violates `SingleActivation` |
| `activation_lease` | 2 nodes | | violates `LockHasLease` |
| `activation_lost` | 2 nodes | | violates `LoserHasWinner` |
| `life_unlocked` | one process, `OldEntry` | | violates `LockedActivation` |
| `delivery_stray` | 2 nodes, as in `cluster` | | violates `StrayStops` |

**Why the bounds are enough.** With two messages and one Ask each, at most two handlers
are suspended and a third drainer is the owner; a fourth identity covers a drainer that
has parked and still rechecks. A mailbox of one place overflows with the second message.
Two Asks suffice because Asks interact only through the lock and the snapshot; two
repliers give a duplicate reply. The slots and instances of a creation are at most one
per id, so two of each never run out. Three creators give a holder, a waiter and a newcomer,
the pattern in which a slot could be deleted too early. Two nodes with two boots give a
lock of an earlier incarnation. Two processes race for two ids, so that one loses a round, and
the loser's second load meets a key that was deleted meanwhile. Three versions let a
resolution be overtaken twice. Four ids with two steps per millisecond overflow the step
and cross a restart; two skews give restarts on the same clock, on a later and on an earlier
one, and ids that repeat. One move of the owner makes two nodes disagree for a while,
which is what makes messages come back. The proofs remove the bounds where they exist.

**Deadlock.** Creation is checked for deadlock. The others do stop: an idle actor, Asks that
have ended, a closed ring, a cancelled timer, ids or boots that are used up. What must not
stop there is stated as liveness.

**Fairness.** Processor: every goroutine that can take a step takes one. This is the Go
scheduler, together with handlers that return and Asks bounded by `askTimeout`; nothing is
assumed of senders and of whoever calls poison. Ask: asker and shutdown goroutines are
scheduled; `Timeout` and repliers get no fairness, so release at shutdown depends on
neither. A replier that has popped an entry finishes its non-blocking send. Spawn: weak
fairness for creators and strong fairness for taking the slot's mutex, since Go's mutex
hands over to a waiter that starved for a millisecond. Activation: the stopping goroutine
is scheduled and producers return; no actor is assumed to stop. Timer: the runtime fires an
armed timer and its callback runs; nobody has to cancel. Map: writers and the iteration are
scheduled; processing of an entry gets strong fairness, as its nested lookup may wait for
writers again and again and an RWMutex lets waiting readers in after each writer.
Membership: only that a process whose `ForceStop` was called stops. Delivery: goroutines go
on, and the watch brings each node the owner in the end; nothing else changes members.
Start and stop: the stopping goroutine and the reporters go on, a lease that nobody renews
ends; no failure, message or signal is certain.

## 4. Disagreements between code and comments

- `activation_late`. `system_cluster.go:29` says "never activate once shutdown began" and
  `system_life.go:101` that stopActors "reports whether they ALL stopped". The flag is read
  once, before the user's producer runs; an actor published after the last poll is neither
  poisoned nor counted, the lease is revoked and a peer activates the same actor.
- `activation_lease`. `system_life.go:103` says that every lock "hangs off this node's etcd
  lease". `releaseEtcd` zeroes `leaseId` before it closes the client, and an actor still
  registering on a node that did not drain then creates its key with lease 0, which is none.
- `activation_lost`. `kind_opts.go:22` says that of two racing nodes "exactly one wins and
  the loser's start() stops it". A committed transaction whose answer is lost is retried
  against the node's own key; the start gives up and the key stays until the lease ends.
- `life_unlocked`. `system_life.go:103` again: "Every grain's single-activation lock hangs off
  this node's etcd lease". Start serves before the provider starts. A process restarted on its
  fixed address finds its predecessor's entry among the members, so a message that arrives
  then is its own; `config.init` has not run, the node's kinds are empty, and
  `defaultRegisterToCluster` returns nil without a lock.
- `delivery_stray`. `system_cluster.go:15` says of an actor "no longer owned by this node: stop
  it". A sender that resolved this node before the change and activates the actor after the
  sweep leaves an instance that nothing stops until the members change again.

## 5. Proofs

Every safety invariant and every action property that a passing run checks, both refinements
included, is also a theorem, for every value of the constants that satisfies the named
assumptions (`SingleActivation` with `PromptActivation`). Most of these say that a set that is counted is finite, that the value for
"none" is no other value, and that capacities are positive. The others:

- `UuidAssumption`: powers of two multiply (the prover knows nothing of `2^n`), and no clock
  runs past the time field, which `uuid.go` dates to 2164.
- `IdAssumption`: strings are sequences of characters, and addresses, host and port, contain no
  separator.
- `MembersAssumption`: scores and addresses are ordered like numbers.
- `MemberAssumption`, `ShardAssumption`: there are finitely many node ids; every key has a
  shard.

Types, the inductive invariants, `ReceiveOnlyWhileStarted`, `NoStaleSlots`, `OneDelivery`,
`SuccessIsAnAnswer`, `SlotAccounting`, `TwiceOnlyAfterRelease` and
`SameClockReentersOneMillisecond` are theorems and not checked by a run. `LockedActivation` is
a theorem without the entry of an earlier process and violated with it (run `life_unlocked`).

- **Processor.** The safety properties are not inductive. `IndInv` adds who holds the
  permit, where a message is in hand, that a transferred role is only found inside
  Receive, that `unfinishedCalls` counts the calls in progress, and the table
  `OwnerLifecycle`. The table is the heart: the owner is unique, so its program counter
  determines the lifecycle state, hence that `stop` has no suspended call beside it and
  that Initialize is first. `ProcessorControl` proves the parts about control, the mailbox's
  limit and the place of Initialize, `ProcessorProofs` the history, the flush, wake-ups and
  registration, and draws the corollaries. `ReceiveOnlyWhileStarted` is a conjunct of `IndInv`.
- **Gate.** `GateInv` ties the permit, owner id and pointer to the program counters.
  Race freedom follows, and each step is an `Enter`, `Leave` or `Ask` of `Permit` or a
  stutter.
- **Ring.** `RingInv` says that tail is `size` places after head. With it the contents after
  `Push`, growth and `Pop` are those of the FIFO.
- **Ask.** `AskInv` adds to the properties that an Ask being inserted is a reader (so the
  exclusive lock waits for it), that a replier about to send has taken its entry out of
  the map, and that during the snapshot every waiting Ask already visited is served.
- **Spawn.** The invariant ties slots to the creators that refer to them and the mutex
  holder to its position; exclusion per id follows because creators of one id share a slot.
- **Activation.** A running instance holds the lock through its own process's lease, unless its
  node gave the lease up (`HoldsLock`): a process that is up keeps its lease until the shutdown
  revokes it (the first of the assumptions in section 2), and it revokes only when drained.
  This needs no assumption on activations and
  gives `TwiceOnlyAfterRelease`: of two running instances one is on a node that reported
  drained and gave its lease up, which is the case `activation_late` exhibits and the only one.
  That a drained node has no instance and none on the way (`DrainedStays`) needs
  `PromptActivation`. `SingleActivation` follows from the two, and the hypothesis is part of its
  theorem's statement. The assumption that `NoKey` is no lock record is what lets the prover
  tell a free lock from a held one.
- **Timer.** No step takes the state word out of "done", so a callback that fired after a
  cancel stops at its first look at the word (`TimerInv`).
- **Map.** While something iterates, an entry that was there all along has been collected if
  its shard is done, and what was collected was there at some time (`SnapshotInv`).
- **Ids.** Within their ranges the three fields do not overlap in the word, so `Pack` is
  injective (`PackInjective`, plain arithmetic on quotients and remainders). `UuidInv` says that
  an id issued under a node id is no later than the clocks of earlier processes were (`until`),
  or the present generator is past it, over a carry of the step and a wait for the clock; and
  that no generator is ahead of its clock. So an id that is issued again carries a time between
  the start of its process and `until`. If all processes start on one clock, the two are
  the same millisecond (`SameClockReentersOneMillisecond`), which is what
  `uuid_clock_test.go:150` says a restart can do at worst.
- **Start.** A node's kinds are set before it claims its key (`LifeInv`).
- **Names.** `ParseSplits` shows that parseCache's cuts, each at the first separator of what is
  left, split any string as its separators do; `ParsesBack` that a reference gives its parts back
  if its kind has no '/', and `ParsesToNothing` that it gives none if it has. `IdInv` says that
  references at hand are put together from a plain name and address and any kind.
- **Membership.** `HoldsKey` ties a process's id to its key while its lease lives: two holders of
  one id would share a key. `LogInv` says that the last change of an id is what etcd holds, and
  `ViewInv` that of an id without a change to come a process knows what etcd holds. This
  survives its second load and its own entry, which are ahead of the replay: whatever they
  bring in early has its change still to come.
- **Event stream.** The same two invariants for the keys of an event (`EsLogInv`, `EsViewInv`),
  and `EsActorInv` for what the actor is doing, which ties its subscribers to its key except
  after a failed call.
- **Ownership.** `ScanFirst` shows that the loop holds the first of the nodes it has seen, in the
  order of score and address. The first of a set is unique and does not depend on the order;
  a node that joins or leaves changes it only to or from itself.
- **Routing.** Every generation, snapshot in hand and cached route names a published version and
  that version's nodes or owner, and is no older than the one published when the resolution
  began (`RoutingInv`).
- **Delivery.** `FatesMove` and `GrainsMove` say what a step may do to messages and instances: no
  message is unsent again, a request that becomes a dead letter sends its answer in the same
  step, and an instance appears only once a message other than a Poison was sent.
  `DeliveryMoves` proves this of each step and both properties follow.

Facts about a first place, a number of places or the length of a list need induction. They are
proved from the least number for which they would fail (`LeastNat`); a recursive function is
unfolded by the existence of what it defines (`ScanExists`).

**Only model-checked.** Liveness and fairness, which are out of the prover's reach:
`StopCompletes`, `AcceptedSettles`, `ShutdownReleases`, `SpawnReturns`, `ShutdownEnds`,
`CancelSilences`, `TimerKeepsTicking`, `IterationEnds`, `LeaseLossStops`, `EveryMessageEnds`,
`FailedStartLeaves`, `FatalStops` and `ReportersReturn`.

## 6. Not modelled

- **Ext data** of a node (`SetNodeExtData` and so on): each call is one access to one key.
- **The hash** behind a score, and the hashes of the sharded map: no property depends on
  their values.
- **Pools** of timers and channels for Asks: a pooled object is taken and returned by one
  goroutine.
- **The parsers of ids** (`ParseTime` and so on), which shift a field out of a word.
- **JSON**, `Keys` and `Items` of the map: built on the iterations that are modelled.
- **Options and paths** of the configuration: set before Start, read afterwards.
- **Message bytes and error codes**: stateless conversions.
- **What user code may call while its node starts**: between the node's own entry and
  `system.init` an actor that is activated finds no id generator and no event stream.
- **A partitioned node's actors** run on until keepalive notices; the code claims nothing
  else, and `ClusterActivation` assumes it away (see there).
- Logging, stack traces, the host's address, generated code, the examples, and the inside
  of etcd, gRPC and the Go runtime.
