------------------------------ MODULE Delivery ------------------------------
(***************************************************************************)
(* The way of a message from Tell or Ask to a handler or to the dead       *)
(* letters: dispatch (system.go), on-demand activation and hand-over of a  *)
(* cluster actor (system_cluster.go), the outbound stream writer           *)
(* (stream_write.go), the inbound server (remote/stream_server.go,         *)
(* system_envelope.go) and dead letters (dead_letter.go).                  *)
(*                                                                         *)
(* One cluster actor. Every message is carried by one goroutine at a time, *)
(* so the model says for each message where it is; tellWithSender's        *)
(* lookup, the resolution of the route, sendToLocal with its activation,   *)
(* and the send are separate steps. An Ask is a request and an answer,     *)
(* which travels the same way back to the asking node. The order of        *)
(* messages within a mailbox or a stream is left open (Processor and       *)
(* RingBuffer keep it). Which node a node takes for the owner (Routing) is *)
(* its view; views follow the members (Membership) with a delay.           *)
(***************************************************************************)
EXTENDS Naturals

CONSTANTS
  Nodes,
  Requests,  \* messages that are sent
  Src,       \* request -> the node it is sent from
  Kind,      \* request -> "ask", "tell" or "poison"
  FirstOwners, \* nodes that may own the actor at first
  MaxMoves,  \* bound: changes of the actor's owner
  NoNode     \* "": no node hosts the kind

Asks == {m \in Requests : Kind[m] = "ask"}
Messages == Requests \X {"request"} \cup Asks \X {"answer"}
Request(m) == <<m, "request">>
Answer(m) == <<m, "answer">>
IsAnswer(x) == x[2] = "answer"
Poisons(x) == ~IsAnswer(x) /\ Kind[x[1]] = "poison"

VARIABLES
  owner,    \* the node the members make the owner, or NoNode
  moves,    \* changes of it so far
  view,     \* per node: the owner it resolves
  sweep,    \* per node: its watcher has yet to look for actors that are owned elsewhere
  grain,    \* per node: the actor's instance, "none", "live" or "stopping"
  writer,   \* per pair of nodes: the stream writer, "none", "starting", "open", or told to stop with
            \* a stream that takes messages ("dying") or none that does ("broken")
  place,    \* per message: what carries it: [pc, node, peer]
  fate      \* per message: "unsent", "flying", "dead" (a dead letter), or "over" (handled, or
            \* gone without a report)

clusterVars == <<owner, moves, view, sweep>>
deliveryVars == <<clusterVars, grain, writer, place, fate>>

Links == {l \in Nodes \X Nodes : l[1] # l[2]}

DeliveryInit ==
  /\ owner \in FirstOwners /\ moves = 0
  /\ view = [n \in Nodes |-> owner] /\ sweep = [n \in Nodes |-> FALSE]
  /\ grain = [n \in Nodes |-> "none"]
  /\ writer = [l \in Links |-> "none"]
  /\ place = [x \in Messages |-> [pc |-> "nowhere", node |-> Src[x[1]], peer |-> NoNode]]
  /\ fate = [x \in Messages |-> "unsent"]

Here(x) == place[x].node
Pc(x, pc) == fate[x] = "flying" /\ place[x].pc = pc
Goes(x, pc) == place' = [place EXCEPT ![x].pc = pc] /\ UNCHANGED fate

Nowhere(n) == [pc |-> "nowhere", node |-> n, peer |-> NoNode]

\* The asking side of x still waits for an answer that nobody has sent.
Waits(x) == ~IsAnswer(x) /\ x[1] \in Asks /\ fate[Answer(x[1])] = "unsent"

\* Where and how messages are after the set X ended as f; requests in Fail are answered on node n.
Settle(X, f, Fail, n) ==
  LET answers == {Answer(x[1]) : x \in {y \in Fail : Waits(y)}} IN
  /\ fate' = [x \in Messages |-> IF x \in X THEN f ELSE IF x \in answers THEN "flying" ELSE fate[x]]
  /\ place' = [x \in Messages |-> IF x \in X THEN Nowhere(Src[x[1]])
                               ELSE IF x \in answers
                                    THEN [pc |-> "dispatch", node |-> n, peer |-> NoNode]
                                    ELSE place[x]]

Ends(x, f) == Settle({x}, f, {}, Here(x))

\* Mutant: the waiting Ask is not told.
DeadSilently(X, n) == Settle(X, "dead", {}, n)

\* emitDeadLetter, and the error to a waiting Ask that goes with it.
Dead(X, n) == Settle(X, "dead", X, n)

-----------------------------------------------------------------------------
(* system.go *)

SetsOff(x) == fate' = [fate EXCEPT ![x] = "flying"] /\ place' = [place EXCEPT ![x].pc = "dispatch"]

\* tell, or Ask's send.
Send(m) ==
  /\ fate[Request(m)] = "unsent" /\ Kind[m] # "poison"
  /\ SetsOff(Request(m))
  /\ UNCHANGED <<clusterVars, grain, writer>>

\* An instance here is told directly; otherwise the Poison is a message.
Poison(m) ==
  /\ fate[Request(m)] = "unsent" /\ Kind[m] = "poison"
  /\ IF grain[Src[m]] # "none"
     THEN Ends(Request(m), "over") /\ grain' = [grain EXCEPT ![Src[m]] = "stopping"]
     ELSE SetsOff(Request(m)) /\ UNCHANGED grain
  /\ UNCHANGED <<clusterVars, writer>>

ToRemote(x, k) == place' = [place EXCEPT ![x].pc = "remote", ![x].peer = k] /\ UNCHANGED fate

\* An answer goes to the asking node; a request to the instance here, if the lookup finds one.
TellWithSender(x) ==
  /\ Pc(x, "dispatch")
  /\ LET n == Here(x) IN
     IF IsAnswer(x)
     THEN IF Src[x[1]] = n THEN Goes(x, "local") ELSE ToRemote(x, Src[x[1]])
     ELSE Goes(x, IF grain[n] # "none" THEN "send" ELSE "resolve")
  /\ UNCHANGED <<clusterVars, grain, writer>>

\* Otherwise the route is resolved, whatever was spawned here since: to the owner, if there is one.
Resolve(x) ==
  /\ Pc(x, "resolve")
  /\ LET n == Here(x) IN
     CASE view[n] = NoNode -> Dead({x}, n)
       [] view[n] = n -> Goes(x, "local")
       [] OTHER -> ToRemote(x, view[n])
  /\ UNCHANGED <<clusterVars, grain, writer>>

\* The instance is spawned; refused while draining, or if the kind is unknown here. A producer that
\* panics takes the message with it: recvEnvelope recovers, a local sender has the panic.
EnsureClusterKindActorExist(x) ==
  \/ Goes(x, "relook") /\ grain' = [grain EXCEPT ![Here(x)] = "live"]
  \/ Dead({x}, Here(x)) /\ UNCHANGED grain
  \/ Ends(x, "over") /\ UNCHANGED grain

\* Mutant: a Poison activates the actor it is to stop.
SendToLocalPoisons(x) ==
  /\ Pc(x, "local")
  /\ IF IsAnswer(x) THEN Ends(x, "over") /\ UNCHANGED grain
     ELSE IF grain[Here(x)] # "none" THEN Goes(x, "send") /\ UNCHANGED grain
     ELSE EnsureClusterKindActorExist(x)
  /\ UNCHANGED <<clusterVars, writer>>

\* An answer is delivered (PendingAsk); a Poison for an actor that does not run is over.
SendToLocal(x) ==
  /\ Pc(x, "local")
  /\ IF IsAnswer(x) THEN Ends(x, "over") /\ UNCHANGED grain
     ELSE IF grain[Here(x)] # "none" THEN Goes(x, "send") /\ UNCHANGED grain
     ELSE IF Poisons(x) THEN Ends(x, "over") /\ UNCHANGED grain
     ELSE EnsureClusterKindActorExist(x)
  /\ UNCHANGED <<clusterVars, writer>>

\* The actor may have stopped again.
Relook(x) ==
  /\ Pc(x, "relook")
  /\ IF grain[Here(x)] # "none" THEN Goes(x, "send") ELSE Dead({x}, Here(x))
  /\ UNCHANGED <<clusterVars, grain, writer>>

\* proc.send on the process that was looked up: closed or full mailboxes refuse.
ProcSend(x) ==
  /\ Pc(x, "send")
  /\ (grain[Here(x)] # "none" /\ Goes(x, "mailbox")) \/ Dead({x}, Here(x))
  /\ UNCHANGED <<clusterVars, grain, writer>>

\* sendToRemote: the writer to the peer is looked up or spawned; its mailbox too may refuse.
SendToRemote(x) ==
  LET l == <<Here(x), place[x].peer>> IN
  /\ Pc(x, "remote")
  /\ writer' = [writer EXCEPT ![l] = IF @ = "none" THEN "starting" ELSE @]
  /\ Goes(x, "writer") \/ Dead({x}, Here(x))
  /\ UNCHANGED <<clusterVars, grain>>

-----------------------------------------------------------------------------
(* The actor's instance on a node *)

In(pc, n) == {x \in Messages : Pc(x, pc) /\ Here(x) = n}

\* The handler runs, and answers a request that waits, or does not.
Handle(x) ==
  LET n == Here(x) IN
  /\ Pc(x, "mailbox") /\ grain[n] # "none"
  /\ grain' = IF Poisons(x) THEN [grain EXCEPT ![n] = "stopping"] ELSE grain
  /\ \E reply \in {{}, {x}} : Settle({x}, "over", reply, n)
  /\ UNCHANGED <<clusterVars, writer>>

\* A shutdown, the actor itself, or a start that did not get the actor's lock.
StopRequested(n) ==
  /\ grain[n] = "live"
  /\ grain' = [grain EXCEPT ![n] = "stopping"]
  /\ UNCHANGED <<clusterVars, writer, place, fate>>

\* The instance stops and flushes its mailbox.
GrainStops(n) ==
  /\ grain[n] = "stopping"
  /\ grain' = [grain EXCEPT ![n] = "none"]
  /\ Dead(In("mailbox", n), n)
  /\ UNCHANGED <<clusterVars, writer>>

-----------------------------------------------------------------------------
(* stream_write.go and stream_server.go *)

On(pc, l) == {x \in In(pc, l[1]) : place[x].peer = l[2]}

\* Started dials and opens the stream; when it cannot, the writer stops itself.
WriterStarted(l) ==
  /\ writer[l] = "starting"
  /\ \E s \in {"open", "broken"} : writer' = [writer EXCEPT ![l] = s]
  /\ UNCHANGED <<clusterVars, grain, place, fate>>

\* Receive: without a stream, or if marshalling fails, the message is a dead letter.
Carry(x) ==
  LET l == <<Here(x), place[x].peer>> IN
  /\ Pc(x, "writer") /\ writer[l] \in {"open", "dying", "broken"}
  /\ (writer[l] # "broken" /\ Goes(x, "wire")) \/ Dead({x}, Here(x))
  /\ UNCHANGED <<clusterVars, grain, writer>>

\* Or the stream refuses it: the writer closes the connection and poisons itself.
CarryFails(x) ==
  LET l == <<Here(x), place[x].peer>> IN
  /\ Pc(x, "writer") /\ writer[l] \in {"open", "dying"}
  /\ Dead({x}, Here(x)) /\ writer' = [writer EXCEPT ![l] = "broken"]
  /\ UNCHANGED <<clusterVars, grain>>

\* Recv returns: the stream is dead or the peer sent something, and the writer poisons itself.
RecvReturns(l) ==
  /\ writer[l] = "open"
  /\ writer' = [writer EXCEPT ![l] = "dying"]
  /\ UNCHANGED <<clusterVars, grain, place, fate>>

\* What was on a dead stream never arrives, and nobody is told.
Lost(x) ==
  /\ Pc(x, "wire")
  /\ Ends(x, "over")
  /\ UNCHANGED <<clusterVars, grain, writer>>

\* Mutant: what the writer has not carried is forgotten.
WriterStopsForgets(l) ==
  /\ writer[l] \in {"dying", "broken"}
  /\ writer' = [writer EXCEPT ![l] = "none"]
  /\ UNCHANGED <<clusterVars, grain, place, fate>>

\* The writer stops and flushes its mailbox. A later send spawns another.
WriterStops(l) ==
  /\ writer[l] \in {"dying", "broken"}
  /\ writer' = [writer EXCEPT ![l] = "none"]
  /\ Dead(On("writer", l), l[1])
  /\ UNCHANGED <<clusterVars, grain>>

\* Listen and RecvEnvelope on the peer. A message of an unknown type is refused, with a log line only.
RecvEnvelope(x) ==
  /\ Pc(x, "wire")
  /\ \/ /\ place' = [place EXCEPT ![x] = [pc |-> "dispatch", node |-> @.peer, peer |-> NoNode]]
        /\ UNCHANGED fate
     \/ Ends(x, "over")
  /\ UNCHANGED <<clusterVars, grain, writer>>

-----------------------------------------------------------------------------
(* Members *)

OwnerMoves ==
  /\ moves < MaxMoves
  /\ owner' \in (Nodes \cup {NoNode}) \ {owner}
  /\ moves' = moves + 1
  /\ UNCHANGED <<view, sweep, grain, writer, place, fate>>

\* Watch events change the node's routes.
Learn(n) ==
  /\ view[n] # owner /\ ~sweep[n]
  /\ view' = [view EXCEPT ![n] = owner]
  /\ sweep' = [sweep EXCEPT ![n] = TRUE]
  /\ UNCHANGED <<owner, moves, grain, writer, place, fate>>

\* Then the watcher stops the instance here of an actor that is owned elsewhere.
ClusterMemberChanged(n) ==
  /\ sweep[n]
  /\ sweep' = [sweep EXCEPT ![n] = FALSE]
  /\ grain' = IF view[n] \notin {NoNode, n} /\ grain[n] = "live"
              THEN [grain EXCEPT ![n] = "stopping"] ELSE grain
  /\ UNCHANGED <<owner, moves, view, writer, place, fate>>

-----------------------------------------------------------------------------
Carried(x) ==
  \/ TellWithSender(x) \/ Resolve(x) \/ SendToLocal(x) \/ Relook(x) \/ ProcSend(x)
  \/ SendToRemote(x) \/ Handle(x) \/ Carry(x) \/ CarryFails(x) \/ RecvEnvelope(x) \/ Lost(x)

GoesOn ==
  \/ \E x \in Messages : Carried(x)
  \/ \E n \in Nodes : GrainStops(n)
  \/ \E l \in Links : WriterStarted(l) \/ WriterStops(l)
WatchDelivers == \E n \in Nodes : Learn(n) \/ ClusterMemberChanged(n)

DeliveryNext ==
  \/ GoesOn \/ WatchDelivers \/ OwnerMoves
  \/ \E m \in Requests : Send(m) \/ Poison(m)
  \/ \E n \in Nodes : StopRequested(n)
  \/ \E l \in Links : RecvReturns(l)

\* Some goroutine that carries a message or stops or starts an actor goes on (handlers return),
\* and watches deliver. Nothing need stop, no stream need break, no owner need move.
DeliveryFairness == WF_deliveryVars(GoesOn) /\ WF_deliveryVars(WatchDelivers)

DeliverySpec == DeliveryInit /\ [][DeliveryNext]_deliveryVars /\ DeliveryFairness

-----------------------------------------------------------------------------
(***************************************************************************)
(* Every message that is sent ends: handled, a dead letter, refused, or    *)
(* lost with its stream. Nodes whose views differ may pass it back and     *)
(* forth, but only until the views agree; none is stranded in a writer or  *)
(* in the mailbox of an actor that stops.                                  *)
(***************************************************************************)
EveryMessageEnds == <>[](\A x \in Messages : fate[x] # "flying")

(***************************************************************************)
(* "Fail a waiting Ask NOW rather than wait out askTimeout" (system.go): an*)
(* Ask whose request became a dead letter, on whatever node and in whatever*)
(* actor, has its answer under way or ended.                               *)
(***************************************************************************)
DeadAskIsFailed ==
  \A m \in Asks : fate[Request(m)] = "dead" => fate[Answer(m)] # "unsent"

(***************************************************************************)
(* "Poison for a non-running actor is a no-op" (system.go): an instance    *)
(* exists only once a message other than a Poison was sent, so stopping a  *)
(* dormant actor starts none, wherever the Poison is routed.               *)
(***************************************************************************)
PoisonStartsNothing ==
  (\A m \in Requests : Kind[m] # "poison" => fate[Request(m)] = "unsent")
    => \A n \in Nodes : grain[n] = "none"

(***************************************************************************)
(* "no longer owned by this node: stop it" (system_cluster.go): once the   *)
(* owner does not change any more, no instance stays on another node.      *)
(***************************************************************************)
StrayStops ==
  \A n \in Nodes :
    grain[n] = "live" /\ moves = MaxMoves /\ owner \notin {n, NoNode} ~> grain[n] # "live"
=============================================================================
