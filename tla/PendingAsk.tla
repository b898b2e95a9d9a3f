----------------------------- MODULE PendingAsk -----------------------------
(***************************************************************************)
(* The waiting half of Ask: registerAsk, deliverReply and cancelAsk        *)
(* (system.go), askImpl and awaitReply (request_helper.go), and            *)
(* wakePendingAsks, which shutdown uses to release whoever still waits     *)
(* (system_life.go).                                                       *)
(*                                                                         *)
(* An ask is the goroutine that issues it and its request id. A replier is *)
(* one call of deliverReply: an actor's Reply, a dead letter's error, a    *)
(* late or a duplicate answer. pending is a sharded map, so every operation*)
(* on one key is one step and the iteration visits keys one at a time.     *)
(***************************************************************************)
EXTENDS FiniteSets

CONSTANTS Asks, Repliers, None

\* What a reply can carry: the type the ask wants, a message of the framework's own (ErrCode,
\* Poison), which awaitReply matches before T, or anything else.
Kinds == {"T", "sentinel", "other"}

ASSUME AskAssumption ==
  None \notin Kinds \cup {"ok", "err"} \cup [ask : Asks, kind : Kinds]

VARIABLES
  pendingRegistrationClosed,
  readers,  \* asks inside the shared section of pendingRegistrationMu
  waker,    \* position of wakePendingAsks
  pending,  \* request ids in the pending map
  reply,    \* per ask: the content of its reply channel, which holds one
  asker,    \* per ask: position
  result,   \* per ask: what awaitReply returned
  replier,  \* per replier: position
  carries,  \* per replier: the ask whose channel it got and what it answers
  unvisited, replies \* wakePendingAsks: keys still to iterate, channels collected

askVars   == <<asker, result>>
replyVars == <<replier, carries>>
wakeVars  == <<waker, unvisited, replies, pendingRegistrationClosed>>
pendingVars == <<askVars, replyVars, wakeVars, readers, pending, reply>>

AskInit ==
  /\ pendingRegistrationClosed = FALSE
  /\ readers = {}
  /\ waker = "serving"
  /\ pending = {}
  /\ reply = [a \in Asks |-> None]
  /\ asker = [a \in Asks |-> "new"]
  /\ result = [a \in Asks |-> None]
  /\ replier = [r \in Repliers |-> "new"]
  /\ carries = [r \in Repliers |-> None]
  /\ unvisited = {} /\ replies = {}

AskGoto(a, l, k) == asker[a] = l /\ asker' = [asker EXCEPT ![a] = k]

\* A non-blocking send on a channel of capacity one.
TrySend(a, k) == reply' = IF reply[a] = None THEN [reply EXCEPT ![a] = k] ELSE reply

-----------------------------------------------------------------------------
(* askImpl *)

\* pendingRegistrationMu: a waiting writer keeps new readers out.
RLock(a) ==
  /\ AskGoto(a, "new", "register")
  /\ waker \in {"serving", "wake", "done"}
  /\ readers' = readers \cup {a}
  /\ UNCHANGED <<result, replyVars, wakeVars, pending, reply>>

\* A closed registration refuses the ask: errSystemStopping.
CheckClosed(a) ==
  /\ \/ /\ ~pendingRegistrationClosed
        /\ AskGoto(a, "register", "insert")
        /\ UNCHANGED <<result, readers>>
     \/ /\ pendingRegistrationClosed
        /\ AskGoto(a, "register", "refused")
        /\ result' = [result EXCEPT ![a] = "err"]
        /\ readers' = readers \ {a}
  /\ UNCHANGED <<replyVars, wakeVars, pending, reply>>

Insert(a) ==
  /\ AskGoto(a, "insert", "tell")
  /\ pending' = pending \cup {a}
  /\ readers' = readers \ {a}
  /\ UNCHANGED <<result, replyVars, wakeVars, reply>>

\* The request is sent; a panic on the way still runs the deferred cancelAsk.
Tell(a) ==
  /\ AskGoto(a, "tell", "await") \/ AskGoto(a, "tell", "cancel")
  /\ UNCHANGED <<result, readers, replyVars, wakeVars, pending, reply>>

Decode(k) == IF k = "T" THEN "ok" ELSE "err"

\* select: an answer in the channel ...
Receive(a) ==
  /\ reply[a] # None
  /\ AskGoto(a, "await", "cancel")
  /\ reply' = [reply EXCEPT ![a] = None]
  /\ result' = [result EXCEPT ![a] = Decode(reply[a])]
  /\ UNCHANGED <<readers, replyVars, wakeVars, pending>>

\* ... or askTimeout, whichever select picks when both are ready.
Timeout(a) ==
  /\ AskGoto(a, "await", "cancel")
  /\ result' = [result EXCEPT ![a] = "err"]
  /\ UNCHANGED <<readers, replyVars, wakeVars, pending, reply>>

\* Mutant: only deliverReply takes entries out.
EndWithoutCancel(a) ==
  /\ AskGoto(a, "cancel", "ended")
  /\ UNCHANGED <<result, readers, replyVars, wakeVars, pending, reply>>

Cancel(a) ==
  /\ AskGoto(a, "cancel", "ended")
  /\ pending' = pending \ {a}
  /\ UNCHANGED <<result, readers, replyVars, wakeVars, reply>>

AskStep(a) ==
  \/ RLock(a) \/ CheckClosed(a) \/ Insert(a) \/ Tell(a) \/ Receive(a) \/ Cancel(a)

-----------------------------------------------------------------------------
(* deliverReply *)

\* Only a request that was sent can be answered; the answer may come late.
Sent(a) == asker[a] \in {"tell", "await", "cancel", "ended"}

PopPending(r, a, k) ==
  /\ replier[r] = "new" /\ Sent(a)
  /\ replier' = [replier EXCEPT ![r] = IF a \in pending THEN "send" ELSE "done"]
  /\ carries' = [carries EXCEPT ![r] = IF a \in pending THEN [ask |-> a, kind |-> k] ELSE None]
  /\ pending' = pending \ {a}
  /\ UNCHANGED <<askVars, wakeVars, readers, reply>>

SendReply(r) ==
  /\ replier[r] = "send"
  /\ replier' = [replier EXCEPT ![r] = "done"]
  /\ TrySend(carries[r].ask, carries[r].kind)
  /\ UNCHANGED <<askVars, carries, wakeVars, readers, pending>>

-----------------------------------------------------------------------------
(* wakePendingAsks *)

WakeGoto(l, k) == waker = l /\ waker' = k

\* The writer announces itself, then waits for the readers to leave.
AnnounceClose ==
  /\ WakeGoto("serving", "lock")
  /\ UNCHANGED <<pendingRegistrationClosed, unvisited, replies, askVars, replyVars, readers, pending, reply>>

\* Mutant: registration is closed without the exclusive lock.
CloseWithoutLock ==
  /\ WakeGoto("lock", "snapshot")
  /\ pendingRegistrationClosed' = TRUE
  /\ unvisited' = Asks
  /\ UNCHANGED <<replies, askVars, replyVars, readers, pending, reply>>

CloseRegistration ==
  /\ WakeGoto("lock", "snapshot")
  /\ readers = {}
  /\ pendingRegistrationClosed' = TRUE
  /\ unvisited' = Asks
  /\ UNCHANGED <<replies, askVars, replyVars, readers, pending, reply>>

\* IterCb reaches the keys in any order, each as it is at that moment.
Visit(a) ==
  /\ waker = "snapshot" /\ a \in unvisited
  /\ unvisited' = unvisited \ {a}
  /\ replies' = IF a \in pending THEN replies \cup {a} ELSE replies
  /\ UNCHANGED <<waker, pendingRegistrationClosed, askVars, replyVars, readers, pending, reply>>

Unlock ==
  /\ unvisited = {}
  /\ WakeGoto("snapshot", "wake")
  /\ UNCHANGED <<pendingRegistrationClosed, unvisited, replies, askVars, replyVars, readers, pending, reply>>

\* Mutant: the loop blocks on a channel that was filled since the snapshot.
WakeBlocks(a) ==
  /\ waker = "wake" /\ a \in replies
  /\ \A b \in replies : reply[b] = None
  /\ replies' = replies \ {a}
  /\ TrySend(a, "sentinel")
  /\ UNCHANGED <<waker, pendingRegistrationClosed, unvisited, askVars, replyVars, readers, pending>>

WakeOne(a) ==
  /\ waker = "wake" /\ a \in replies
  /\ replies' = replies \ {a}
  /\ TrySend(a, "sentinel")
  /\ UNCHANGED <<waker, pendingRegistrationClosed, unvisited, askVars, replyVars, readers, pending>>

WakeDone ==
  /\ replies = {}
  /\ WakeGoto("wake", "done")
  /\ UNCHANGED <<pendingRegistrationClosed, unvisited, replies, askVars, replyVars, readers, pending, reply>>

WakeStep ==
  \/ CloseRegistration \/ Unlock \/ WakeDone
  \/ \E a \in Asks : Visit(a) \/ WakeOne(a)

-----------------------------------------------------------------------------
AskNext ==
  \/ \E a \in Asks : AskStep(a) \/ Timeout(a)
  \/ \E r \in Repliers : SendReply(r) \/ \E a \in Asks, k \in Kinds : PopPending(r, a, k)
  \/ AnnounceClose \/ WakeStep

AskSpec == AskInit /\ [][AskNext]_pendingVars

\* Every goroutine that can run does. Nothing is assumed of answers and timers:
\* an ask may be left without either.
AskFairness ==
  /\ \A a \in Asks : WF_pendingVars(AskStep(a))
  /\ \A r \in Repliers : WF_pendingVars(SendReply(r))
  /\ WF_pendingVars(WakeStep)

AskFairSpec == AskSpec /\ AskFairness

-----------------------------------------------------------------------------
Positions == {"new", "register", "insert", "tell", "await", "cancel", "ended", "refused"}

\* Every variable has the type of its counterpart in the code.
AskTypes ==
  /\ pendingRegistrationClosed \in BOOLEAN
  /\ readers \subseteq Asks /\ pending \subseteq Asks
  /\ unvisited \subseteq Asks /\ replies \subseteq Asks
  /\ waker \in {"serving", "lock", "snapshot", "wake", "done"}
  /\ reply \in [Asks -> Kinds \cup {None}]
  /\ asker \in [Asks -> Positions]
  /\ result \in [Asks -> {"ok", "err", None}]
  /\ replier \in [Repliers -> {"new", "send", "done"}]
  /\ carries \in [Repliers -> [ask : Asks, kind : Kinds] \cup {None}]

\* Someone has the channel of a in hand and will fill it.
Served(a) ==
  \/ reply[a] # None
  \/ \E r \in Repliers : replier[r] = "send" /\ carries[r].ask = a
  \/ a \in replies

(***************************************************************************)
(* Shutdown overlooks nobody: once wakePendingAsks holds its snapshot, an  *)
(* ask that still waits has an answer in its channel or someone on the way *)
(* to fill it. This is why registration closes under the exclusive lock and*)
(* why deliverReply may take the entry away before it has sent.            *)
(***************************************************************************)
WakeCovers ==
  waker \in {"wake", "done"} =>
    \A a \in Asks : asker[a] \in {"insert", "tell", "await"} => Served(a)

(***************************************************************************)
(* The pending map holds no entry of an ask that has ended, whichever of   *)
(* reply, timeout, panic and shutdown ended it: late answers find nothing  *)
(* and the map does not grow.                                              *)
(***************************************************************************)
NoPendingLeak == \A a \in pending : asker[a] \in {"tell", "await", "cancel"}

(***************************************************************************)
(* An answer is delivered once: of all the calls of deliverReply for one   *)
(* request, one gets the channel.                                          *)
(***************************************************************************)
OneDelivery ==
  \A r, s \in Repliers :
    replier[r] = "send" /\ replier[s] = "send" /\ carries[r].ask = carries[s].ask => r = s

(***************************************************************************)
(* An ask succeeds only with an answer of its own type that was sent to it:*)
(* never with shutdown's error, a Poison or an error of a peer.            *)
(***************************************************************************)
SuccessIsAnAnswer ==
  \A a \in Asks : result[a] = "ok" =>
    \E r \in Repliers : replier[r] = "done" /\ carries[r] = [ask |-> a, kind |-> "T"]

(***************************************************************************)
(* Shutdown releases every ask without waiting for an answer or a timer.   *)
(***************************************************************************)
ShutdownReleases ==
  waker # "serving" ~> \A a \in Asks : asker[a] \in {"new", "ended", "refused"}
=============================================================================
