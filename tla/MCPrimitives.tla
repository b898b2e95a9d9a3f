---------------------------- MODULE MCPrimitives ----------------------------
(***************************************************************************)
(* One run for the parts of a node that share no state with each other: in *)
(* a behaviour one of them runs and the others stand still, so the states  *)
(* are those of the parts, one after the other.                            *)
(***************************************************************************)
EXTENDS ExecutionGate, RingBuffer, Timer, Uuid, ShardedMap, ActorId, TLC

VARIABLE part

Init ==
  /\ part \in {"gate", "ring", "timer", "uuid", "map", "id"}
  /\ GateInit /\ RingInit /\ TimerInit /\ UuidInit /\ MapInit /\ IdInit

Next ==
  /\ UNCHANGED part
  /\ \/ part = "gate" /\ GateNext
     \/ part # "gate" /\ UNCHANGED gateVars
  /\ \/ part = "ring" /\ RingNext
     \/ part # "ring" /\ UNCHANGED ringVars
  /\ \/ part = "timer" /\ TimerNext
     \/ part # "timer" /\ UNCHANGED timerVars
  /\ \/ part = "uuid" /\ UuidNext
     \/ part # "uuid" /\ UNCHANGED uuidVars
  /\ \/ part = "map" /\ MapNext
     \/ part # "map" /\ UNCHANGED mapVars
  /\ \/ part = "id" /\ IdNext
     \/ part # "id" /\ UNCHANGED idVars

vars == <<part, gateVars, ringVars, timerVars, uuidVars, mapVars, idVars>>

\* Each part's fairness, where that part runs.
FairTimer ==
  /\ WF_timerVars(part = "timer" /\ Ready)
  /\ WF_timerVars(part = "timer" /\ Fire)
  /\ WF_timerVars(part = "timer" /\ Callback)
  /\ \A c \in Cancellers : WF_timerVars(part = "timer" /\ Stop(c))

FairMap ==
  /\ WF_mapVars(part = "map" /\ \E k \in Keys : Write(k))
  /\ WF_mapVars(part = "map" /\ Iterates)
  /\ SF_mapVars(part = "map" /\ \E p \in Keys \X Values : Process(p))

Spec == Init /\ [][Next]_vars /\ FairTimer /\ FairMap

-----------------------------------------------------------------------------
\* Values of the constants.
MCSkews == {-1, 1}
MCGetShard == "k1" :> 1 @@ "k2" :> 2
MCTexts == UNION {[1 .. n -> {"x", "/", "@"}] : n \in 0 .. 2} \cup {<<"r">>}
MCAddrs == {<<>>, <<"x">>}

\* A timer that nobody cancels fires again and again, a callback before startTimer finished included.
TimerKeepsTicking == part = "timer" => KeepsTicking
=============================================================================
