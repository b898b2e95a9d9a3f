---------------------------- MODULE EventStream ----------------------------
(***************************************************************************)
(* Subscriptions to one event across the cluster: the event-stream actor of*)
(* each node (event_stream.go), its key in etcd, and the watch goroutine   *)
(* (provider_etcd.go) that keeps the node's map of interested nodes. The   *)
(* actor changes the map too, right after its own etcd calls, so the watch *)
(* may replay older changes over it. etcd calls fail before or after they  *)
(* take effect; a watch may end; a node may crash. etcd is external.       *)
(***************************************************************************)
EXTENDS Naturals, Sequences

CONSTANTS
  EsNodes,     \* nodes with an event stream
  Subscribers, \* per node: actors that subscribe there
  MaxLog       \* bound: changes of the keys

VARIABLES
  keys,      \* etcd: nodes whose key for the event exists
  log,       \* etcd: changes, [node, put]
  esActor,   \* per node: what the actor is doing
  sub,       \* per node: sub[event]
  eventMap,  \* per node: eventStreamMaps[event], the nodes a publish goes to
  pos,       \* per node: changes the watch goroutine has applied
  watching,  \* per node: the watch is alive
  failed     \* history: the node's last etcd call reported an error

esVars == <<keys, log, esActor, sub, eventMap, pos, watching, failed>>

EsInit ==
  /\ keys = {} /\ log = <<>>
  /\ esActor = [n \in EsNodes |-> "new"]
  /\ sub = [n \in EsNodes |-> {}]
  /\ eventMap = [n \in EsNodes |-> {}]
  /\ pos = [n \in EsNodes |-> 0]
  /\ watching = [n \in EsNodes |-> FALSE]
  /\ failed = [n \in EsNodes |-> FALSE]

Does(n, to) == esActor' = [esActor EXCEPT ![n] = to]
Handles(n) == esActor[n] = "idle" /\ Len(log) < MaxLog

\* RWMap: GetOrCreate(event).Set(node) and Delete(node).
Added(n, m) == [eventMap EXCEPT ![n] = @ \cup {m}]
Deleted(n, m) == [eventMap EXCEPT ![n] = @ \ {m}]

\* etcd: a Put always makes a change, a Delete only if the key exists.
PutKey(n) == keys' = keys \cup {n} /\ log' = Append(log, [node |-> n, put |-> TRUE])
DeleteKey(n) ==
  /\ keys' = keys \ {n}
  /\ log' = IF n \in keys THEN Append(log, [node |-> n, put |-> FALSE]) ELSE log

-----------------------------------------------------------------------------
\* Started: watchEventStream loads the keys and watches from there, or the actor stops itself.
Started(n) ==
  /\ esActor[n] = "new"
  /\ \/ /\ Does(n, "idle")
        /\ eventMap' = [eventMap EXCEPT ![n] = keys]
        /\ pos' = [pos EXCEPT ![n] = Len(log)]
        /\ watching' = [watching EXCEPT ![n] = TRUE]
     \/ Does(n, "gone") /\ UNCHANGED <<eventMap, pos, watching>>
  /\ UNCHANGED <<keys, log, sub, failed>>

\* The first subscriber of the event on this node has it registered.
Subscribe(n, a) ==
  /\ Handles(n)
  /\ sub' = [sub EXCEPT ![n] = @ \cup {a}]
  /\ Does(n, IF sub[n] = {} THEN "put" ELSE "idle")
  /\ UNCHANGED <<keys, log, eventMap, pos, watching, failed>>

\* The last one has it unregistered.
Unsubscribe(n, a) ==
  /\ Handles(n) /\ a \in sub[n]
  /\ sub' = [sub EXCEPT ![n] = @ \ {a}]
  /\ Does(n, IF sub[n] = {a} THEN "delete" ELSE "idle")
  /\ UNCHANGED <<keys, log, eventMap, pos, watching, failed>>

\* provider.registerEventStream and unregisterEventStream return; on an error the actor gives up.
EtcdReturns(n) ==
  /\ \/ /\ esActor[n] = "put" /\ PutKey(n)
        /\ Does(n, "set") /\ failed' = [failed EXCEPT ![n] = FALSE]
     \/ /\ esActor[n] = "delete" /\ DeleteKey(n)
        /\ Does(n, "unset") /\ failed' = [failed EXCEPT ![n] = FALSE]
     \/ /\ esActor[n] \in {"put", "delete"}
        /\ \/ UNCHANGED <<keys, log>>
           \/ esActor[n] = "put" /\ PutKey(n)
           \/ esActor[n] = "delete" /\ DeleteKey(n)
        /\ Does(n, "idle") /\ failed' = [failed EXCEPT ![n] = TRUE]
  /\ UNCHANGED <<sub, eventMap, pos, watching>>

\* Mutant: the node stays in its own map.
UpdatesMapOnPutOnly(n) ==
  /\ esActor[n] \in {"set", "unset"}
  /\ eventMap' = Added(n, n)
  /\ Does(n, "idle")
  /\ UNCHANGED <<keys, log, sub, pos, watching, failed>>

\* After the call the actor updates its own map, ahead of the watch.
UpdatesMap(n) ==
  /\ esActor[n] \in {"set", "unset"}
  /\ eventMap' = IF esActor[n] = "set" THEN Added(n, n) ELSE Deleted(n, n)
  /\ Does(n, "idle")
  /\ UNCHANGED <<keys, log, sub, pos, watching, failed>>

\* parseWatchEventStream, on the watch goroutine.
ParseWatchEventStream(n) ==
  /\ watching[n] /\ pos[n] < Len(log)
  /\ LET c == log[pos[n] + 1] IN
     eventMap' = IF c.put THEN Added(n, c.node) ELSE Deleted(n, c.node)
  /\ pos' = [pos EXCEPT ![n] = @ + 1]
  /\ UNCHANGED <<keys, log, esActor, sub, watching, failed>>

\* "subscriptions are now frozen"
WatchEnds(n) ==
  /\ watching[n]
  /\ watching' = [watching EXCEPT ![n] = FALSE]
  /\ UNCHANGED <<keys, log, esActor, sub, eventMap, pos, failed>>

\* The node dies, and its key with its lease.
Crash(n) ==
  /\ esActor[n] # "gone"
  /\ Does(n, "gone") /\ DeleteKey(n)
  /\ sub' = [sub EXCEPT ![n] = {}]
  /\ eventMap' = [eventMap EXCEPT ![n] = {}]
  /\ pos' = [pos EXCEPT ![n] = 0]
  /\ watching' = [watching EXCEPT ![n] = FALSE]
  /\ failed' = [failed EXCEPT ![n] = FALSE]

EsNext ==
  \E n \in EsNodes :
    \/ Started(n) \/ EtcdReturns(n) \/ UpdatesMap(n) \/ ParseWatchEventStream(n) \/ WatchEnds(n) \/ Crash(n)
    \/ \E a \in Subscribers[n] : Subscribe(n, a) \/ Unsubscribe(n, a)

EsSpec == EsInit /\ [][EsNext]_esVars

-----------------------------------------------------------------------------
(* Publishing, on the actor between two of its messages *)

\* onPublish: an event that reaches the actor of a node is told to the subscribers there.
OnPublish(n) == {n} \X sub[n]

\* The event-stream actors the node knows for the event.
GetActorsByEvent(n) == eventMap[n]

\* broadcastPublish: each of them is sent the event. Who gets it, if nothing else happens.
BroadcastPublish(n) == UNION {OnPublish(m) : m \in GetActorsByEvent(n)}

CaughtUp(n) == watching[n] /\ pos[n] = Len(log) /\ esActor[n] = "idle"

(***************************************************************************)
(* A node that has applied every change publishes to exactly the nodes with*)
(* a key, although its actor and its watch goroutine both write the map, in*)
(* either order, and although etcd calls fail; the subscribers of a node   *)
(* all get the event and no other node does, unless that node's last       *)
(* registration failed, which is not retried while it has subscribers.     *)
(***************************************************************************)
PublishReaches ==
  \A n \in EsNodes : CaughtUp(n) =>
    /\ GetActorsByEvent(n) = keys
    /\ \A m \in EsNodes : esActor[m] = "idle" /\ ~failed[m] =>
         /\ OnPublish(m) \subseteq BroadcastPublish(n)
         /\ m \in GetActorsByEvent(n) => OnPublish(m) # {}
=============================================================================
