------------------------------- MODULE Timer -------------------------------
(***************************************************************************)
(* A repeating timer, startTimer of schedule.go: the callback that re-arms *)
(* its own time.Timer races with the function that cancels it. Each access *)
(* of the shared state word is a step. The runtime's timer is external: it *)
(* starts the callback on a goroutine of its own when it is armed.         *)
(***************************************************************************)
CONSTANTS
  Cancellers  \* goroutines that call the CancelScheduleFunc

VARIABLES
  tstate,     \* state: "init", "ready" or "done"
  armed,      \* the runtime will run the callback
  callback,   \* where the callback's goroutine stands
  cancel,     \* per canceller: "new", "stop" or "ended"
  fired       \* history: the state when the callback was last started

timerVars == <<tstate, armed, callback, cancel, fired>>

TimerInit ==
  /\ tstate = "init" /\ armed = TRUE /\ callback = "idle"
  /\ cancel = [c \in Cancellers |-> "new"]
  /\ fired = "init"

\* startTimer has assigned t; only now does its caller hold the cancel function.
Ready ==
  /\ tstate = "init"
  /\ tstate' = "ready"
  /\ UNCHANGED <<armed, callback, cancel, fired>>

Fire ==
  /\ armed /\ callback = "idle"
  /\ armed' = FALSE
  /\ callback' = "spin"
  /\ fired' = tstate
  /\ UNCHANGED <<tstate, cancel>>

\* The callback waits until t is assigned, and gives up if the timer was cancelled.
SeesReady ==
  /\ callback = "spin" /\ tstate # "init"
  /\ callback' = "check"
  /\ UNCHANGED <<tstate, armed, cancel, fired>>

\* Mutant: the callback runs fn without a look at the state.
CheckNothing ==
  /\ callback = "check"
  /\ callback' = "fn"
  /\ UNCHANGED <<tstate, armed, cancel, fired>>

CheckDone ==
  /\ callback = "check"
  /\ callback' = IF tstate = "done" THEN "idle" ELSE "fn"
  /\ UNCHANGED <<tstate, armed, cancel, fired>>

\* fn, which for a schedule is sender.tell(target, message).
CallFn ==
  /\ callback = "fn"
  /\ callback' = "recheck"
  /\ UNCHANGED <<tstate, armed, cancel, fired>>

Recheck ==
  /\ callback = "recheck"
  /\ callback' = IF tstate = "done" THEN "idle" ELSE "reset"
  /\ UNCHANGED <<tstate, armed, cancel, fired>>

\* Mutant: the timer is not armed again.
ResetForgotten ==
  /\ callback = "reset"
  /\ callback' = "idle"
  /\ UNCHANGED <<tstate, armed, cancel, fired>>

\* A cancel between Recheck and here has already stopped the timer, and it is armed again.
Reset ==
  /\ callback = "reset"
  /\ armed' = TRUE
  /\ callback' = "idle"
  /\ UNCHANGED <<tstate, cancel, fired>>

-----------------------------------------------------------------------------
\* Mutant: Stop without the state word.
SwapNothing(c) ==
  /\ cancel[c] = "new" /\ tstate # "init"
  /\ cancel' = [cancel EXCEPT ![c] = "stop"]
  /\ UNCHANGED <<tstate, armed, callback, fired>>

Swap(c) ==
  /\ cancel[c] = "new" /\ tstate # "init"
  /\ tstate' = "done"
  /\ cancel' = [cancel EXCEPT ![c] = IF tstate # "done" THEN "stop" ELSE "ended"]
  /\ UNCHANGED <<armed, callback, fired>>

Stop(c) ==
  /\ cancel[c] = "stop"
  /\ armed' = FALSE
  /\ cancel' = [cancel EXCEPT ![c] = "ended"]
  /\ UNCHANGED <<tstate, callback, fired>>

-----------------------------------------------------------------------------
Callback == SeesReady \/ CheckDone \/ CallFn \/ Recheck \/ Reset
TimerNext == Ready \/ Fire \/ Callback \/ \E c \in Cancellers : Swap(c) \/ Stop(c)

\* The runtime fires an armed timer, and goroutines that can run do run. Nobody has to cancel.
TimerFairness ==
  /\ WF_timerVars(Ready) /\ WF_timerVars(Fire) /\ WF_timerVars(Callback)
  /\ \A c \in Cancellers : WF_timerVars(Stop(c))

TimerSpec == TimerInit /\ [][TimerNext]_timerVars /\ TimerFairness

-----------------------------------------------------------------------------
(***************************************************************************)
(* "Cancel only guarantees no FURTHER fn() runs" (schedule.go): a callback *)
(* that starts after the cancellation does not run fn, even when the cancel*)
(* met the callback between its re-check and Reset and the timer was armed *)
(* once more. fn may still run in a callback that had passed its check.    *)
(***************************************************************************)
NoFurtherTick == callback \in {"fn", "recheck"} => fired # "done"

(***************************************************************************)
(* Once some cancel has returned the timer falls silent for good: not      *)
(* armed, no callback under way.                                           *)
(***************************************************************************)
CancelSilences ==
  (\E c \in Cancellers : cancel[c] = "ended") ~> [](~armed /\ callback = "idle")

(***************************************************************************)
(* A timer nobody cancels ticks again and again.                           *)
(***************************************************************************)
KeepsTicking == []<>(callback = "fn" \/ tstate = "done")
=============================================================================
