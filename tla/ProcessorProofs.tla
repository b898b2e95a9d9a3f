-------------------------- MODULE ProcessorProofs --------------------------
(***************************************************************************)
(* Proof that IndInv is an invariant of Processor, for any number of       *)
(* drainers, messages and callers, any mailbox capacity and any number of  *)
(* Asks per handler; the safety properties of Processor are corollaries.   *)
(* ProcessorControl holds the first lemmas; here are the history of what   *)
(* was accepted and handled, the flush, wakeups and the cluster            *)
(* registration.                                                           *)
(***************************************************************************)
EXTENDS ProcessorControl

\* Only the owner holds a popped message, so InHand is what Holding says.
LEMMA AcceptedStep ==
  ASSUME Base, FlushInv, AcceptedInOrder, [Next]_vars, ControlInv'
  PROVE  AcceptedInOrder'
<1> USE ProcessorAssumption DEF Base
<1>0. /\ \A d \in Drainers : Holding(d) => InHand = <<cur[d]>>
      /\ (\A d \in Drainers : ~Holding(d)) => InHand = <<>>
  <2>1. \A d, e \in Drainers : Holding(d) /\ Holding(e) => d = e
    BY SMTT(30) DEF ControlInv, SingleDrainOwner, Owner, Holding, TransferInv
  <2> QED
    BY <2>1, SMTT(30) DEF InHand
<1>0a. /\ \A d \in Drainers : Holding(d)' => InHand' = <<cur'[d]>>
       /\ (\A d \in Drainers : ~Holding(d)') => InHand' = <<>>
  <2>1. \A d, e \in Drainers : Holding(d)' /\ Holding(e)' => d = e
    BY SMTT(30) DEF ControlInv, SingleDrainOwner, Owner, Holding, TransferInv
  <2> QED
    BY <2>1, SMTT(30) DEF InHand
<1>0b. InHand \in Seq(Contexts)
  <2>1. \A d \in Drainers : Holding(d) => cur[d] \in Contexts
    BY DEF ControlInv, DrainerTypes, CurInv, Holding
  <2>2. \A c \in Contexts : <<c>> \in Seq(Contexts)
    OBVIOUS
  <2> QED
    BY <1>0, <2>1, <2>2, EmptySeq, Zenon
<1>0c. begun \o InHand \in Seq(Contexts) /\ (begun \o InHand) \o flushed \in Seq(Contexts)
  BY <1>0b, ConcatProperties DEF MailboxTypes
<1>1. ASSUME NEW m \in Msgs, Push(m) PROVE AcceptedInOrder'
  <2>1. InHand' = InHand /\ UNCHANGED <<begun, flushed>>
    BY <1>1, <1>0, <1>0a DEF Push, drainVars, locals, Holding
  <2>2. CASE UNCHANGED <<mailbox, accepted>>
    BY <2>1, <2>2 DEF AcceptedInOrder
  <2>3. CASE mailbox' = Append(mailbox, m) /\ accepted' = Append(accepted, m)
    <3>1. m \in Contexts /\ mailbox \in Seq(Contexts)
      BY DEF Contexts, MailboxTypes
    <3>2. ((begun \o InHand) \o flushed) \o Append(mailbox, m)
            = Append(((begun \o InHand) \o flushed) \o mailbox, m)
      BY <3>1, <1>0c, PushAtEnd, SMTT(30)
    <3> QED
      BY <2>1, <2>3, <3>2 DEF AcceptedInOrder
  <2> QED
    BY <1>1, <2>2, <2>3 DEF Push
<1>2. ASSUME NEW d \in Drainers, Pop(d) PROVE AcceptedInOrder'
  <2>1. UNCHANGED <<begun, flushed, accepted>> /\ pc' = [pc EXCEPT ![d] = pc'[d]]
    BY <1>2, SMTT(30) DEF Pop, Goto, ControlInv, DrainerTypes
  <2>2. \A e \in Drainers : ~Holding(e)
    BY <1>2 DEF Pop, Holding, ControlInv, SingleDrainOwner, Owner, TransferInv
  <2>3. CASE mailbox = <<>>
    <3>1. \A e \in Drainers : ~Holding(e)'
      BY <1>2, <2>2, <2>3 DEF Pop, Goto, Holding, ControlInv, DrainerTypes
    <3> QED
      BY <1>2, <2>1, <2>2, <2>3, <3>1, <1>0, <1>0a, SMTT(30) DEF Pop, AcceptedInOrder
  <2>4. CASE mailbox # <<>>
    <3>1. Holding(d)' /\ cur'[d] = Head(mailbox) /\ mailbox' = Tail(mailbox)
      BY <1>2, <2>4, SMTT(30) DEF Pop, Goto, Holding, ControlInv, DrainerTypes
    <3>2. flushed = <<>>
      BY <1>2, SMTT(30) DEF Pop, FlushInv, LifeInv, LifecycleInv, OwnerLifecycle, Owner, ControlInv, TransferInv
    <3>3. InHand = <<>> /\ InHand' = <<Head(mailbox)>>
      BY <3>1, <2>2, <1>0, <1>0a, SMTT(30)
    <3> QED
      BY <2>1, <2>4, <3>1, <3>2, <3>3, PopToHand, SMTT(30) DEF AcceptedInOrder, MailboxTypes
  <2> QED
    BY <2>3, <2>4
<1>3. ASSUME NEW d \in Drainers, Invoke(d) PROVE AcceptedInOrder'
  <2>1. /\ UNCHANGED <<accepted, flushed, mailbox>> /\ begun' = Append(begun, cur[d])
        /\ Holding(d) /\ cur[d] \in Contexts
    BY <1>3, SMTT(30) DEF Invoke, Holding, ControlInv, DrainerTypes, CurInv
  <2>2. \A e \in Drainers : ~Holding(e)'
    BY <1>3, SMTT(30) DEF Invoke, Goto, Holding, ControlInv, DrainerTypes, SingleDrainOwner, Owner, TransferInv
  <2>3. InHand = <<cur[d]>> /\ InHand' = <<>>
    BY <2>1, <2>2, <1>0, <1>0a, SMTT(30)
  <2> QED
    BY <2>1, <2>3, InvokeHand, SMTT(30) DEF AcceptedInOrder, MailboxTypes
<1>4. ASSUME NEW d \in Drainers, Flush(d) PROVE AcceptedInOrder'
  <2>1. InHand' = InHand /\ UNCHANGED <<accepted, begun>>
    BY <1>4, <1>0, <1>0a DEF Flush, Goto, locals, Holding, ControlInv, DrainerTypes
  <2>2. CASE mailbox = <<>>
    BY <1>4, <2>1, <2>2 DEF Flush, AcceptedInOrder
  <2>3. CASE mailbox # <<>>
    <3>1. mailbox' = Tail(mailbox) /\ flushed' = Append(flushed, Head(mailbox))
      BY <1>4, <2>3 DEF Flush
    <3>2. mailbox \in Seq(Contexts) /\ flushed \in Seq(Contexts)
      BY DEF MailboxTypes
    <3>3. ((begun \o InHand) \o Append(flushed, Head(mailbox))) \o Tail(mailbox)
            = ((begun \o InHand) \o flushed) \o mailbox
      <4> DEFINE b == begun \o InHand
                 h == Head(mailbox)
                 t == Tail(mailbox)
      <4>1. b \in Seq(Contexts)
        BY <1>0c
      <4>2. h \in Contexts /\ t \in Seq(Contexts) /\ mailbox = <<h>> \o t
        BY <2>3, <3>2
      <4> DEFINE bf == b \o flushed
                 hs == <<h>>
      <4> HIDE DEF b, h, t
      <4>3. b \o Append(flushed, h) = bf \o hs
        BY <3>2, <4>1, <4>2
      <4>4. bf \in Seq(Contexts) /\ hs \in Seq(Contexts)
        BY <3>2, <4>1, <4>2, ConcatProperties
      <4>5. mailbox = hs \o t /\ t \in Seq(Contexts)
        BY <4>2
      <4> HIDE DEF bf, hs
      <4>6. (bf \o hs) \o t = bf \o (hs \o t)
        BY <4>4, <4>5, ConcatAssociative, SMTT(30)
      <4>7. (b \o Append(flushed, h)) \o t = bf \o mailbox
        BY <4>3, <4>5, <4>6
      <4> QED
        BY <4>7, ZenonT(30) DEF b, h, t, bf
    <3> QED
      BY <2>1, <3>1, <3>3, ZenonT(30) DEF AcceptedInOrder
  <2> QED
    BY <2>2, <2>3
<1> SUFFICES ASSUME /\ \A m \in Msgs : ~Push(m)
                    /\ \A d \in Drainers : ~Pop(d) /\ ~Flush(d) /\ ~Invoke(d)
             PROVE  /\ \A d \in Drainers : Holding(d)' <=> Holding(d)
                    /\ \A d \in Drainers : Holding(d) => cur'[d] = cur[d]
  BY <1>0, <1>0a, <1>1, <1>2, <1>3, <1>4, BoxUntouched, ZenonT(30) DEF AcceptedInOrder
<1> DEFINE Same == /\ \A d \in Drainers : Holding(d)' <=> Holding(d)
                   /\ \A d \in Drainers : Holding(d) => cur'[d] = cur[d]
<1>d. DrainerTypes
  BY DEF ControlInv
<1> HIDE DEF Base
<1> USE <1>d DEF Holding, DrainerTypes, Goto, Step, schedule, UserCode, locals, drainVars, gateVars,
          lifeVars
<1>5. CASE Outside
  <2>1. ASSUME NEW m \in Msgs, SendSchedule(m) PROVE Same
    BY <2>1, SMTT(30) DEF SendSchedule
  <2>2. ASSUME NEW c \in Callers, RequestStop(c) \/ StopSchedule(c) PROVE Same
    BY <2>2, SMTT(30) DEF RequestStop, StopSchedule
  <2>3. CASE SpawnerInit
    BY <2>3, SMTT(30) DEF SpawnerInit
  <2> QED
    BY <1>5, <2>1, <2>2, <2>3, ZenonT(30) DEF Outside
<1>6. ASSUME NEW d \in Drainers, Draining(d) PROVE Same
  <2>1. CASE DrainLoop(d) \/ CountCall(d) \/ Enter(d)
    BY <2>1, SMTT(30) DEF DrainLoop, CountCall, Enter
  <2>2. CASE PoisonRequest(d) \/ PoisonSchedule(d)
    BY <2>2, SMTT(30) DEF PoisonRequest, PoisonSchedule
  <2> QED
    BY <1>6, <2>1, <2>2, ZenonT(30) DEF Draining
<1>7. ASSUME NEW d \in Drainers, Handling(d) PROVE Same
  <2>1. CASE Suspend(d) \/ Yield(d)
    BY <2>1, SMTT(30) DEF Suspend, Yield
  <2>2. CASE Resume(d) \/ ReceiveEnds(d)
    BY <2>2, SMTT(30) DEF Resume, ReceiveEnds
  <2> QED
    BY <1>7, <2>1, <2>2, ZenonT(30) DEF Handling
<1>8. ASSUME NEW d \in Drainers, Finishing(d) PROVE Same
  <2>1. CASE Leave(d) \/ UncountCall(d)
    BY <2>1, SMTT(30) DEF Leave, UncountCall, AfterCall
  <2>2. CASE LastCall(d) \/ Reschedule(d)
    BY <2>2, SMTT(30) DEF LastCall, Reschedule
  <2> QED
    BY <1>8, <2>1, <2>2, ZenonT(30) DEF Finishing
<1>9. ASSUME NEW d \in Drainers, Retiring(d) PROVE Same
  <2>1. CASE FinishDraining(d) \/ Recheck(d)
    BY <2>1, SMTT(30) DEF FinishDraining, Recheck
  <2>2. CASE Wake(d)
    BY <2>2, SMTT(30) DEF Wake
  <2> QED
    BY <1>9, <2>1, <2>2, ZenonT(30) DEF Retiring
<1>10. ASSUME NEW d \in Drainers, Halting(d) PROVE Same
  BY <1>10, SMTT(30) DEF Halting, StopReady, EnterStop, StopIfIdle
<1>11. ASSUME NEW d \in Drainers, Lifecycle(d) PROVE Same
  <2>1. CASE RegisterToCluster(d) \/ StartedEnds(d) \/ Stop(d) \/ PreStopEnds(d)
    BY <2>1, SMTT(30) DEF RegisterToCluster, StartedEnds, Stop, PreStopEnds
  <2>2. CASE UnregisterFromCluster(d) \/ StoreStopped(d) \/ RemoveFromRegistry(d)
    BY <2>2, SMTT(30) DEF UnregisterFromCluster, StoreStopped, RemoveFromRegistry
  <2> QED
    BY <1>11, <2>1, <2>2, ZenonT(30) DEF Lifecycle
<1>12. CASE UNCHANGED vars
  BY <1>12 DEF vars
<1> QED
  BY <1>5, <1>6, <1>7, <1>8, <1>9, <1>10, <1>11, <1>12, ZenonT(30) DEF Next, DrainerStep

-----------------------------------------------------------------------------
(* The flush, wakeups, the cluster registration and the remaining types. *)

\* Only stop's flush dead-letters, and nothing leaves the state it runs in.
LEMMA FlushStep ==
  ASSUME Base, FlushInv, [Next]_vars
  PROVE  FlushInv'
<1> DEFINE Kept == UNCHANGED flushed /\ (lifecycleState = "stopped" => lifecycleState' = "stopped")
<1>0. Kept => FlushInv'
  BY DEF FlushInv
<1> USE DEF lifeVars, boxVars
<1>1. ASSUME Outside PROVE Kept
  BY <1>1 DEF Outside, Push, SendSchedule, RequestStop, StopSchedule, SpawnerInit
<1>2. ASSUME NEW d \in Drainers, Draining(d) PROVE Kept
  BY <1>2 DEF Draining, DrainLoop, Pop, CountCall, Enter, Invoke, PoisonRequest, PoisonSchedule
<1>3. ASSUME NEW d \in Drainers, Handling(d) PROVE Kept
  BY <1>3 DEF Handling, Suspend, Yield, Resume, ReceiveEnds
<1>4. ASSUME NEW d \in Drainers, Finishing(d) PROVE Kept
  BY <1>4 DEF Finishing, Leave, UncountCall, LastCall, Reschedule
<1>5. ASSUME NEW d \in Drainers, Retiring(d) PROVE Kept
  BY <1>5 DEF Retiring, FinishDraining, Recheck, Wake
<1>6. ASSUME NEW d \in Drainers, Halting(d) PROVE Kept
  BY <1>6 DEF Halting, StopReady, EnterStop, StopIfIdle
<1>7. ASSUME NEW d \in Drainers, Lifecycle(d) PROVE FlushInv'
  <2>1. CASE Flush(d)
    <3>1. lifecycleState = "stopped" /\ UNCHANGED lifecycleState
      <4>1. pc[d] = "flush"
        BY <2>1 DEF Flush
      <4>2. Owner(d)
        BY <4>1 DEF Owner, Base, ControlInv, TransferInv
      <4> QED
        BY <2>1, <4>1, <4>2 DEF Flush, Base, LifeInv, LifecycleInv, OwnerLifecycle
    <3> QED
      BY <3>1 DEF FlushInv
  <2>2. CASE StartedEnds(d)
    <3>1. pc[d] = "started"
      BY <2>2 DEF StartedEnds
    <3>2. Owner(d)
      BY <3>1 DEF Owner, Base, ControlInv, TransferInv
    <3>3. lifecycleState = "starting"
      BY <3>1, <3>2 DEF Base, LifeInv, LifecycleInv, OwnerLifecycle
    <3> QED
      BY <2>2, <3>3, <1>0 DEF StartedEnds
  <2>3. CASE Stop(d)
    BY <2>3, <1>0 DEF Stop
  <2>4. CASE RegisterToCluster(d) \/ PreStopEnds(d) \/ UnregisterFromCluster(d)
    BY <2>4, <1>0 DEF RegisterToCluster, PreStopEnds, UnregisterFromCluster
  <2>5. CASE StoreStopped(d) \/ RemoveFromRegistry(d)
    BY <2>5, <1>0 DEF StoreStopped, RemoveFromRegistry
  <2> QED
    BY <1>7, <2>1, <2>2, <2>3, <2>4, <2>5, ZenonT(30) DEF Lifecycle
<1>8. ASSUME UNCHANGED vars PROVE Kept
  BY <1>8 DEF vars
<1> HIDE DEF Kept
<1> QED
  BY <1>0, <1>1, <1>2, <1>3, <1>4, <1>5, <1>6, <1>7, <1>8, ZenonT(30) DEF Next, DrainerStep

LEMMA SharedTypesStep ==
  ASSUME Base, SharedTypes, EnvironmentTypes, [Next]_vars
  PROVE  SharedTypes' /\ EnvironmentTypes'
<1> USE DEF SharedTypes, EnvironmentTypes, schedule, locals, drainVars, gateVars, lifeVars,
          envVars
<1>1. ASSUME NEW m \in Msgs, Push(m) \/ SendSchedule(m) PROVE SharedTypes' /\ EnvironmentTypes'
  BY <1>1, SMTT(30) DEF Push, SendSchedule
<1>2. ASSUME NEW c \in Callers, RequestStop(c) \/ StopSchedule(c)
      PROVE  SharedTypes' /\ EnvironmentTypes'
  BY <1>2, SMTT(30) DEF RequestStop, StopSchedule
<1>3. CASE SpawnerInit
  BY <1>3, SMTT(30) DEF SpawnerInit
<1>4. ASSUME NEW d \in Drainers, Draining(d) PROVE SharedTypes' /\ EnvironmentTypes'
  <2>1. CASE DrainLoop(d)
    BY <2>1, SMTT(30) DEF DrainLoop
  <2>2. CASE Pop(d)
    BY <2>2, SMTT(30) DEF Pop
  <2>3. CASE CountCall(d)
    BY <2>3, SMTT(30) DEF CountCall
  <2>4. CASE Enter(d)
    BY <2>4, SMTT(30) DEF Enter
  <2>5. CASE Invoke(d)
    BY <2>5, SMTT(30) DEF Invoke
  <2>6. CASE PoisonRequest(d)
    BY <2>6, SMTT(30) DEF PoisonRequest
  <2>7. CASE PoisonSchedule(d)
    BY <2>7, SMTT(30) DEF PoisonSchedule
  <2> QED
    BY <1>4, <2>1, <2>2, <2>3, <2>4, <2>5, <2>6, <2>7, ZenonT(30) DEF Draining
<1>5. ASSUME NEW d \in Drainers, Handling(d) PROVE SharedTypes' /\ EnvironmentTypes'
  <2>1. CASE Suspend(d)
    <3>1. cur[d] \in Contexts
      BY <2>1 DEF Suspend, UserCode, Base, ControlInv, DrainerTypes, CurInv, CallKindInv
    <3> QED
      BY <2>1, <3>1 DEF Suspend
  <2>2. CASE Yield(d)
    BY <2>2, SMTT(30) DEF Yield
  <2>3. CASE Resume(d)
    BY <2>3, SMTT(30) DEF Resume
  <2>4. CASE ReceiveEnds(d)
    BY <2>4, SMTT(30) DEF ReceiveEnds
  <2> QED
    BY <1>5, <2>1, <2>2, <2>3, <2>4, ZenonT(30) DEF Handling
<1>6. ASSUME NEW d \in Drainers, Finishing(d) PROVE SharedTypes' /\ EnvironmentTypes'
  <2>1. CASE Leave(d)
    BY <2>1, SMTT(30) DEF Leave
  <2>2. CASE UncountCall(d)
    BY <2>2, SMTT(30) DEF UncountCall
  <2>3. CASE LastCall(d) \/ Reschedule(d)
    BY <2>3, SMTT(30) DEF LastCall, Reschedule
  <2> QED
    BY <1>6, <2>1, <2>2, <2>3, ZenonT(30) DEF Finishing
<1>7. ASSUME NEW d \in Drainers, Retiring(d) PROVE SharedTypes' /\ EnvironmentTypes'
  <2>1. CASE FinishDraining(d)
    BY <2>1, SMTT(30) DEF FinishDraining
  <2>2. CASE Recheck(d)
    BY <2>2, SMTT(30) DEF Recheck
  <2>3. CASE Wake(d)
    BY <2>3, SMTT(30) DEF Wake
  <2> QED
    BY <1>7, <2>1, <2>2, <2>3, ZenonT(30) DEF Retiring
<1>8. ASSUME NEW d \in Drainers, Halting(d) PROVE SharedTypes' /\ EnvironmentTypes'
  <2>1. CASE StopReady(d)
    BY <2>1, SMTT(30) DEF StopReady
  <2>2. CASE EnterStop(d)
    BY <2>2, SMTT(30) DEF EnterStop
  <2>3. CASE StopIfIdle(d)
    BY <2>3, SMTT(30) DEF StopIfIdle
  <2> QED
    BY <1>8, <2>1, <2>2, <2>3, ZenonT(30) DEF Halting
<1>9. ASSUME NEW d \in Drainers, Lifecycle(d) PROVE SharedTypes' /\ EnvironmentTypes'
  <2>1. CASE RegisterToCluster(d)
    BY <2>1, SMTT(30) DEF RegisterToCluster
  <2>2. CASE StartedEnds(d)
    BY <2>2, SMTT(30) DEF StartedEnds
  <2>3. CASE Stop(d)
    BY <2>3, SMTT(30) DEF Stop
  <2>4. CASE PreStopEnds(d)
    BY <2>4, SMTT(30) DEF PreStopEnds
  <2>5. CASE UnregisterFromCluster(d)
    BY <2>5, SMTT(30) DEF UnregisterFromCluster
  <2>6. CASE StoreStopped(d) \/ RemoveFromRegistry(d)
    BY <2>6, SMTT(30) DEF StoreStopped, RemoveFromRegistry
  <2>7. CASE Flush(d)
    BY <2>7, SMTT(30) DEF Flush
  <2> QED
    BY <1>9, <2>1, <2>2, <2>3, <2>4, <2>5, <2>6, <2>7, ZenonT(30) DEF Lifecycle
<1>10. CASE UNCHANGED vars
  BY <1>10 DEF vars
<1> QED
  BY <1>1, <1>2, <1>3, <1>4, <1>5, <1>6, <1>7, <1>8, <1>9, <1>10, ZenonT(30)
     DEF Next, Outside, DrainerStep

LEMMA FlagTypesStep ==
  ASSUME FlagTypes, [Next]_vars
  PROVE  FlagTypes'
<1> USE ProcessorAssumption DEF FlagTypes, Step, Goto, schedule, locals, drainVars,
          gateVars, lifeVars, boxVars, envVars
<1>1. CASE Outside
  BY <1>1, ZenonT(30) DEF Outside, Push, SendSchedule, RequestStop, StopSchedule, SpawnerInit
<1>2. ASSUME NEW d \in Drainers, Draining(d) PROVE FlagTypes'
  BY <1>2, ZenonT(30) DEF Draining, DrainLoop, Pop, CountCall, Enter, Invoke, PoisonRequest, PoisonSchedule
<1>3. ASSUME NEW d \in Drainers, Handling(d) PROVE FlagTypes'
  BY <1>3, ZenonT(30) DEF Handling, Suspend, Yield, Resume, ReceiveEnds
<1>4. ASSUME NEW d \in Drainers, Finishing(d) PROVE FlagTypes'
  BY <1>4, ZenonT(30) DEF Finishing, Leave, UncountCall, LastCall, Reschedule
<1>5. ASSUME NEW d \in Drainers, Retiring(d) PROVE FlagTypes'
  BY <1>5, ZenonT(30) DEF Retiring, FinishDraining, Recheck, Wake
<1>6. ASSUME NEW d \in Drainers, Halting(d) PROVE FlagTypes'
  BY <1>6, ZenonT(30) DEF Halting, StopReady, EnterStop, StopIfIdle
<1>7. ASSUME NEW d \in Drainers, Lifecycle(d) PROVE FlagTypes'
  BY <1>7, ZenonT(30) DEF Lifecycle, RegisterToCluster, StartedEnds, Stop, PreStopEnds,
              UnregisterFromCluster, StoreStopped, RemoveFromRegistry, Flush
<1>8. CASE UNCHANGED vars
  BY <1>8 DEF vars
<1> QED
  BY <1>1, <1>2, <1>3, <1>4, <1>5, <1>6, <1>7, <1>8, ZenonT(30) DEF Next, DrainerStep

\* While the role has an owner the status is not idle, so a step of the owner needs no
\* wakeup; whoever else makes work available or sets the status to idle will schedule.
LEMMA WakeupStep ==
  ASSUME Base, SharedTypes, EnvironmentTypes, NoLostWakeup, [Next]_vars
  PROVE  NoLostWakeup'
<1> USE ProcessorAssumption
<1>0. ASSUME NEW d \in Drainers, Owner(d), drainStatus' \in {drainStatus, "stopped"}
      PROVE  NoLostWakeup'
  BY <1>0 DEF Base, ControlInv, SingleDrainOwner, NoLostWakeup
<1>a. ASSUME NEW d \in Drainers, Owner(d), NEW q, schedule(q)
      PROVE  NoLostWakeup'
  <2>1. drainStatus # "idle"
    BY <1>a DEF Base, ControlInv, SingleDrainOwner
  <2> QED
    BY <1>a, <2>1, <1>0 DEF schedule
<1>b. ASSUME NEW q, schedule(q) PROVE drainStatus' # "idle"
  BY <1>b DEF schedule
<1>c. drainStatus' # "idle" => NoLostWakeup'
  BY DEF NoLostWakeup
<1>1. ASSUME NEW m \in Msgs, Push(m) \/ SendSchedule(m) PROVE NoLostWakeup'
  <2>1. CASE Push(m)
    BY <2>1 DEF Push, NoLostWakeup, SchedulePending, StopPending, EnvironmentTypes, drainVars,
                gateVars
  <2> QED
    BY <1>1, <2>1, <1>b, <1>c, ZenonT(30) DEF SendSchedule
<1>2. ASSUME NEW c \in Callers, RequestStop(c) \/ StopSchedule(c) PROVE NoLostWakeup'
  <2>1. CASE RequestStop(c)
    BY <2>1 DEF RequestStop, NoLostWakeup, SchedulePending, StopPending, EnvironmentTypes,
                drainVars, gateVars, boxVars
  <2> QED
    BY <1>2, <2>1, <1>b, <1>c, ZenonT(30) DEF StopSchedule
<1>3. CASE SpawnerInit
  BY <1>3, <1>b, <1>c, ZenonT(30) DEF SpawnerInit
<1>4. ASSUME NEW d \in Drainers, Draining(d) PROVE NoLostWakeup'
  <2>1. pc[d] \in {"loop", "pop", "count", "enter", "invoke", "poison", "poisonSchedule"}
    BY <1>4 DEF Draining, DrainLoop, Pop, CountCall, Enter, Invoke, PoisonRequest, PoisonSchedule,
                Step
  <2>2. Owner(d)
    BY <2>1 DEF Owner, Base, ControlInv, TransferInv
  <2>3. CASE PoisonSchedule(d)
    BY <2>2, <2>3, <1>a, ZenonT(30) DEF PoisonSchedule
  <2>4. CASE ~PoisonSchedule(d)
    <3>1. UNCHANGED drainStatus
      BY <1>4, <2>4 DEF Draining, DrainLoop, Pop, CountCall, Enter, Invoke, PoisonRequest
    <3> QED
      BY <2>2, <3>1, <1>0
  <2> QED
    BY <2>3, <2>4
<1>5. ASSUME NEW d \in Drainers, Handling(d) PROVE NoLostWakeup'
  <2>1. CASE Suspend(d)
    <3>1. CASE d \in drainOwnershipTransferred
      <4>1. UNCHANGED <<drainStatus, mailbox, stopRequested, unfinishedCalls, envVars>>
        BY <2>1 DEF Suspend, boxVars, gateVars
      <4>2. \A e \in Drainers : pc'[e] = pc[e] \/ (e = d /\ pc[d] \in UserCode)
        BY <2>1, <3>1 DEF Suspend, Goto, Base, ControlInv, DrainerTypes
      <4> QED
        BY <4>1, <4>2 DEF NoLostWakeup, SchedulePending, StopPending, UserCode, envVars
    <3>2. CASE d \notin drainOwnershipTransferred
      <4>1. Owner(d) /\ UNCHANGED drainStatus
        BY <2>1, <3>2 DEF Suspend, Owner, UserCode
      <4> QED
        BY <4>1, <1>0
    <3> QED
      BY <3>1, <3>2
  <2>2. CASE Yield(d) \/ Resume(d) \/ ReceiveEnds(d)
    <3>1. UNCHANGED <<drainStatus, mailbox, stopRequested, unfinishedCalls, envVars>>
      BY <2>2 DEF Yield, Resume, ReceiveEnds, boxVars, gateVars
    <3>2. \A e \in Drainers : pc'[e] = pc[e] \/ (e = d /\ pc[d] \in {"yield", "await", "receive"})
      BY <2>2 DEF Yield, Resume, ReceiveEnds, Step, Goto, Base, ControlInv, DrainerTypes
    <3> QED
      BY <3>1, <3>2 DEF NoLostWakeup, SchedulePending, StopPending, envVars
  <2> QED
    BY <1>5, <2>1, <2>2, ZenonT(30) DEF Handling
<1>6. ASSUME NEW d \in Drainers, Finishing(d) PROVE NoLostWakeup'
  <2>1. CASE Leave(d)
    <3>1. UNCHANGED <<drainStatus, mailbox, stopRequested, unfinishedCalls, envVars>>
      BY <2>1 DEF Leave, boxVars
    <3>2. \A e \in Drainers : pc'[e] = pc[e] \/ (e = d /\ pc[d] = "leave")
      BY <2>1 DEF Leave, Step, Goto, Base, ControlInv, DrainerTypes
    <3> QED
      BY <3>1, <3>2 DEF NoLostWakeup, SchedulePending, StopPending, envVars
  <2>2. CASE UncountCall(d)
    <3>1. CASE d \in drainOwnershipTransferred
      <4>1. /\ UNCHANGED <<drainStatus, mailbox, stopRequested, envVars>>
            /\ unfinishedCalls' = unfinishedCalls - 1
            /\ pc[d] = "uncount"
        BY <2>2 DEF UncountCall, Step, boxVars
      <4>2. /\ \A e \in Drainers \ {d} : pc'[e] = pc[e]
            /\ unfinishedCalls' = 0 => pc'[d] = "lastCall"
        BY <2>2, <3>1 DEF UncountCall, Step, Goto, Base, ControlInv, DrainerTypes
      <4>3. drainStatus = "idle" /\ mailbox # <<>> => SchedulePending'
        BY <4>1, <4>2 DEF NoLostWakeup, SchedulePending, envVars
      <4>4. unfinishedCalls' = 0 => StopPending'
        BY <4>2 DEF StopPending
      <4> QED
        BY <4>1, <4>3, <4>4 DEF NoLostWakeup
    <3>2. CASE d \notin drainOwnershipTransferred
      <4>1. Owner(d) /\ UNCHANGED drainStatus
        BY <2>2, <3>2 DEF UncountCall, Step, Owner
      <4> QED
        BY <4>1, <1>0
    <3> QED
      BY <3>1, <3>2
  <2>3. CASE LastCall(d)
    <3>1. UNCHANGED <<drainStatus, mailbox, stopRequested, unfinishedCalls, envVars>>
      BY <2>3 DEF LastCall, boxVars, gateVars
    <3>2. /\ \A e \in Drainers : pc'[e] = pc[e] \/ (e = d /\ pc[d] = "lastCall")
          /\ stopRequested => pc'[d] = "reschedule"
      BY <2>3 DEF LastCall, Step, Goto, Base, ControlInv, DrainerTypes
    <3> QED
      BY <3>1, <3>2 DEF NoLostWakeup, SchedulePending, StopPending, envVars
  <2>4. CASE Reschedule(d)
    BY <2>4, <1>b, <1>c, ZenonT(30) DEF Reschedule
  <2> QED
    BY <1>6, <2>1, <2>2, <2>3, <2>4, ZenonT(30) DEF Finishing
<1>7. ASSUME NEW d \in Drainers, Retiring(d) PROVE NoLostWakeup'
  <2>1. CASE FinishDraining(d)
    <3>1. UNCHANGED <<mailbox, stopRequested, unfinishedCalls, envVars>> /\ pc[d] = "finish"
      BY <2>1 DEF FinishDraining, boxVars, gateVars
    <3>2. CASE d \notin drainOwnershipTransferred /\ drainStatus = "running"
      <4>1. pc'[d] = "recheck"
        BY <2>1, <3>2 DEF FinishDraining, Goto, Base, ControlInv, DrainerTypes
      <4> QED
        BY <4>1 DEF NoLostWakeup, SchedulePending, StopPending
    <3>3. CASE ~(d \notin drainOwnershipTransferred /\ drainStatus = "running")
      <4>1. /\ UNCHANGED drainStatus
            /\ \A e \in Drainers : pc'[e] = pc[e] \/ e = d
        BY <2>1, <3>3 DEF FinishDraining, Goto, Base, ControlInv, DrainerTypes
      <4> QED
        BY <3>1, <4>1 DEF NoLostWakeup, SchedulePending, StopPending, envVars
    <3> QED
      BY <3>2, <3>3
  <2>2. CASE Recheck(d)
    <3>1. UNCHANGED <<drainStatus, mailbox, stopRequested, unfinishedCalls, envVars>>
      BY <2>2 DEF Recheck, boxVars, gateVars
    <3>2. \A e \in Drainers \ {d} : pc'[e] = pc[e]
      BY <2>2 DEF Recheck, Step, Goto, Base, ControlInv, DrainerTypes
    <3>3. /\ mailbox # <<>> /\ pc[d] \in {"poisonSchedule", "recheck", "wake"} => pc'[d] = "wake"
          /\ stopRequested /\ unfinishedCalls = 0 /\ pc[d] \in {"recheck", "recheckStop", "recheckCalls"}
               => pc'[d] \in {"wake", "recheckStop", "recheckCalls"}
          /\ pc[d] \in {"recheck", "recheckStop", "recheckCalls"}
      BY <2>2, SMTT(30) DEF Recheck, Step, Goto, Base, ControlInv, DrainerTypes
    <3>4. mailbox # <<>> /\ SchedulePending => SchedulePending'
      BY <3>1, <3>2, <3>3 DEF SchedulePending, envVars
    <3>5. stopRequested /\ unfinishedCalls = 0 => StopPending'
      BY <3>3 DEF StopPending, SchedulePending
    <3> QED
      BY <3>1, <3>4, <3>5 DEF NoLostWakeup
  <2>3. CASE Wake(d)
    BY <2>3, <1>b, <1>c, ZenonT(30) DEF Wake
  <2> QED
    BY <1>7, <2>1, <2>2, <2>3, ZenonT(30) DEF Retiring
<1>8. ASSUME NEW d \in Drainers, Halting(d) PROVE NoLostWakeup'
  <2>1. /\ UNCHANGED drainStatus
        /\ pc[d] \in {"stopReady", "stopReadyCalls", "enterStop", "stopIfIdle", "stopIfNoCalls"}
    BY <1>8 DEF Halting, StopReady, EnterStop, StopIfIdle, Step
  <2>2. Owner(d)
    BY <2>1 DEF Owner, Base, ControlInv, TransferInv
  <2> QED
    BY <2>1, <2>2, <1>0
<1>9. ASSUME NEW d \in Drainers, Lifecycle(d) PROVE NoLostWakeup'
  <2>1. pc[d] \in {"register", "started", "stop", "preStop", "unregister", "stopped", "remove", "flush"}
    BY <1>9 DEF Lifecycle, RegisterToCluster, StartedEnds, Stop, PreStopEnds,
                UnregisterFromCluster, StoreStopped, RemoveFromRegistry, Flush, Step
  <2>2. drainStatus' \in {drainStatus, "stopped"}
    BY <1>9 DEF Lifecycle, RegisterToCluster, StartedEnds, Stop, PreStopEnds,
                UnregisterFromCluster, StoreStopped, RemoveFromRegistry, Flush
  <2>3. Owner(d)
    BY <2>1 DEF Owner, Base, ControlInv, TransferInv
  <2> QED
    BY <2>2, <2>3, <1>0
<1>10. CASE UNCHANGED vars
  BY <1>10 DEF vars, drainVars, gateVars, boxVars, envVars, NoLostWakeup, SchedulePending,
               StopPending
<1> QED
  BY <1>1, <1>2, <1>3, <1>4, <1>5, <1>6, <1>7, <1>8, <1>9, <1>10, ZenonT(30)
     DEF Next, Outside, DrainerStep

\* Outside the lifecycle no step touches the registration, the registry or a stopped state.
LEMMA RegistrationStep ==
  ASSUME Base, RegistrationInv, [Next]_vars
  PROVE  RegistrationInv'
<1> DEFINE Late == {"stopped", "remove", "flush"}
           Kept == /\ UNCHANGED <<lock, clusterRegistrationOwned, registered>>
                   /\ lifecycleState = "stopped" => lifecycleState' = "stopped"
                   /\ \A d \in Drainers : pc'[d] \in Late => pc[d] \in Late
<1>0. Kept => RegistrationInv'
  BY DEF RegistrationInv
<1>d. DrainerTypes
  BY DEF Base, ControlInv
<1> USE <1>d DEF DrainerTypes, Goto, Step, schedule, locals, drainVars, gateVars, lifeVars
<1>1. ASSUME Outside PROVE Kept
  <2>1. ASSUME NEW m \in Msgs, Push(m) \/ SendSchedule(m) PROVE Kept
    BY <2>1, SMTT(30) DEF Push, SendSchedule
  <2>2. ASSUME NEW c \in Callers, RequestStop(c) \/ StopSchedule(c) PROVE Kept
    BY <2>2, SMTT(30) DEF RequestStop, StopSchedule
  <2>3. ASSUME SpawnerInit PROVE Kept
    BY <2>3, SMTT(30) DEF SpawnerInit
  <2> QED
    BY <1>1, <2>1, <2>2, <2>3, ZenonT(30) DEF Outside
<1>2. ASSUME NEW d \in Drainers, Draining(d) PROVE Kept
  <2>1. CASE DrainLoop(d) \/ Pop(d)
    BY <2>1, SMTT(30) DEF DrainLoop, Pop
  <2>2. CASE CountCall(d) \/ Enter(d)
    BY <2>2, SMTT(30) DEF CountCall, Enter
  <2>3. CASE Invoke(d)
    BY <2>3, SMTT(30) DEF Invoke
  <2>4. CASE PoisonRequest(d) \/ PoisonSchedule(d)
    BY <2>4, SMTT(30) DEF PoisonRequest, PoisonSchedule
  <2> QED
    BY <1>2, <2>1, <2>2, <2>3, <2>4, ZenonT(30) DEF Draining
<1>3. ASSUME NEW d \in Drainers, Handling(d) PROVE Kept
  <2>1. CASE Suspend(d) \/ Yield(d)
    BY <2>1, SMTT(30) DEF Suspend, Yield
  <2>2. CASE Resume(d) \/ ReceiveEnds(d)
    BY <2>2, SMTT(30) DEF Resume, ReceiveEnds
  <2> QED
    BY <1>3, <2>1, <2>2, ZenonT(30) DEF Handling
<1>4. ASSUME NEW d \in Drainers, Finishing(d) PROVE Kept
  <2>1. CASE Leave(d) \/ UncountCall(d)
    BY <2>1, SMTT(30) DEF Leave, UncountCall, AfterCall
  <2>2. CASE LastCall(d) \/ Reschedule(d)
    BY <2>2, SMTT(30) DEF LastCall, Reschedule
  <2> QED
    BY <1>4, <2>1, <2>2, ZenonT(30) DEF Finishing
<1>5. ASSUME NEW d \in Drainers, Retiring(d) PROVE Kept
  <2>1. CASE FinishDraining(d) \/ Recheck(d)
    BY <2>1, SMTT(30) DEF FinishDraining, Recheck
  <2>2. CASE Wake(d)
    BY <2>2, SMTT(30) DEF Wake
  <2> QED
    BY <1>5, <2>1, <2>2, ZenonT(30) DEF Retiring
<1>6. ASSUME NEW d \in Drainers, Halting(d) PROVE Kept
  <2>1. CASE StopReady(d) \/ EnterStop(d)
    BY <2>1, SMTT(30) DEF StopReady, EnterStop
  <2>2. CASE StopIfIdle(d)
    BY <2>2, SMTT(30) DEF StopIfIdle
  <2> QED
    BY <1>6, <2>1, <2>2, ZenonT(30) DEF Halting
<1>7. ASSUME NEW d \in Drainers, Lifecycle(d) PROVE RegistrationInv'
  <2>1. pc[d] \in {"register", "started", "stop", "preStop", "unregister"} \cup Late
    BY <1>7 DEF Lifecycle, RegisterToCluster, StartedEnds, Stop, PreStopEnds,
                UnregisterFromCluster, StoreStopped, RemoveFromRegistry, Flush
  <2>2. Owner(d) /\ OwnerLifecycle(d)
    BY <2>1 DEF Owner, Base, ControlInv, TransferInv, LifeInv, LifecycleInv
  <2>3. \A e \in Drainers \ {d} : pc[e] \notin Late
    BY <2>2 DEF Owner, Base, ControlInv, SingleDrainOwner, TransferInv
  <2>4. CASE RegisterToCluster(d)
    BY <2>2, <2>3, <2>4 DEF RegisterToCluster, RegistrationInv, OwnerLifecycle
  <2>5. CASE StartedEnds(d)
    BY <2>2, <2>3, <2>5, <1>0 DEF StartedEnds, OwnerLifecycle
  <2>6. CASE Stop(d) \/ PreStopEnds(d)
    BY <2>3, <2>6, <1>0 DEF Stop, PreStopEnds
  <2>7. CASE UnregisterFromCluster(d)
    BY <2>2, <2>3, <2>7 DEF UnregisterFromCluster, RegistrationInv, OwnerLifecycle
  <2>8. CASE StoreStopped(d)
    BY <2>3, <2>8, <1>0 DEF StoreStopped
  <2>9. CASE RemoveFromRegistry(d)
    BY <2>2, <2>3, <2>9 DEF RemoveFromRegistry, RegistrationInv, OwnerLifecycle
  <2>10. CASE Flush(d)
    BY <2>3, <2>10, <1>0 DEF Flush
  <2> QED
    BY <1>7, <2>4, <2>5, <2>6, <2>7, <2>8, <2>9, <2>10, ZenonT(30) DEF Lifecycle
<1>8. ASSUME UNCHANGED vars PROVE Kept
  BY <1>8 DEF vars
<1> HIDE DEF Kept
<1> QED
  BY <1>0, <1>1, <1>2, <1>3, <1>4, <1>5, <1>6, <1>7, <1>8, ZenonT(30) DEF Next, DrainerStep

-----------------------------------------------------------------------------
(* The inductive invariant and what follows from it. *)

LEMMA InitIndInv == Init => IndInv
<1> SUFFICES ASSUME Init PROVE IndInv
  OBVIOUS
<1> USE ProcessorAssumption DEF Init
<1>1. TypeOK
  <2>1. <<Initialize>> \in Seq(Contexts) /\ <<>> \in Seq(Contexts)
    BY DEF Contexts
  <2>2. DrainerTypes /\ SharedTypes
    BY DEF DrainerTypes, SharedTypes, Labels
  <2>3. FlagTypes
    BY Zenon DEF FlagTypes
  <2>4. MailboxTypes /\ EnvironmentTypes
    BY <2>1 DEF MailboxTypes, EnvironmentTypes
  <2>5. MailboxBounded
    BY DEF MailboxBounded
  <2> QED
    BY <2>2, <2>3, <2>4, <2>5 DEF TypeOK
<1>2. CountInv
  <2>1. {d \in Drainers : Counted(d)} = {}
    BY DEF Counted
  <2> QED
    BY <2>1, FS_EmptySet, ZenonT(30) DEF CountInv
<1>3. AcceptedInOrder /\ InitializeInv /\ FlushInv
  BY DEF AcceptedInOrder, InHand, Holding, InitializeInv, FlushInv
<1>4. PermitInv /\ CurInv /\ TransferInv /\ CallKindInv /\ SingleDrainOwner
  BY DEF PermitInv, HoldsPermit, UserCode, CurInv, TransferInv, CallKindInv, SingleDrainOwner, Owner
<1>5. StopWaitsForCalls /\ ReceiveOnlyWhileStarted /\ LifecycleInv
  BY DEF StopWaitsForCalls, Stopping, ReceiveOnlyWhileStarted, LifecycleInv, OwnerLifecycle, Owner
<1>6. NoLostWakeup /\ RegistrationInv
  BY DEF NoLostWakeup, SchedulePending, StopPending, RegistrationInv
<1> QED
  BY <1>1, <1>2, <1>3, <1>4, <1>5, <1>6 DEF IndInv

LEMMA NextIndInv == IndInv /\ [Next]_vars => IndInv'
<1> SUFFICES ASSUME IndInv, [Next]_vars PROVE IndInv'
  OBVIOUS
<1>1. Base
  BY DEF IndInv, TypeOK, Base, ControlInv, LifeInv
<1>2. ControlInv'
  BY <1>1, ControlStep DEF Base, LifeInv
<1>3. LifeInv' /\ MailboxTypes' /\ InitializeInv'
  BY <1>1, LifeStep, MailboxTypesStep, InitializeStep
<1>4. CountInv'
  BY <1>1, CountStep DEF Base, ControlInv
<1>5. FlushInv' /\ AcceptedInOrder'
  BY <1>1, <1>2, FlushStep, AcceptedStep DEF IndInv
<1>6. SharedTypes' /\ EnvironmentTypes' /\ NoLostWakeup'
  BY <1>1, SharedTypesStep, WakeupStep DEF IndInv, TypeOK
<1>7. FlagTypes' /\ RegistrationInv'
  BY <1>1, FlagTypesStep, RegistrationStep DEF IndInv, TypeOK
<1>8. MailboxBounded'
  BY <1>1, BoundStep DEF IndInv, TypeOK
<1> QED
  BY <1>2, <1>3, <1>4, <1>5, <1>6, <1>7, <1>8 DEF IndInv, TypeOK, ControlInv, LifeInv

(***************************************************************************)
(* Every reachable state of a processor satisfies the inductive invariant. *)
(***************************************************************************)
THEOREM Invariance == Spec => []IndInv
<1> QED
  BY InitIndInv, NextIndInv, PTL DEF Spec

(***************************************************************************)
(* Type correctness of mailbox, scheduler, gate and lifecycle state.       *)
(***************************************************************************)
THEOREM TypeCorrect == Spec => []TypeOK
<1>1. IndInv => TypeOK
  BY DEF IndInv
<1> QED
  BY <1>1, Invariance, PTL

(***************************************************************************)
(* executionGate serialises Receive, Started and PreStop of one actor.     *)
(***************************************************************************)
THEOREM Serial == Spec => []SerialExecution
<1>1. IndInv => SerialExecution
  BY DEF IndInv, PermitInv, SerialExecution
<1> QED
  BY <1>1, Invariance, PTL

(***************************************************************************)
(* Exactly one drainer owns the running role, whatever the interleaving of *)
(* schedule, suspend and finishDraining.                                   *)
(***************************************************************************)
THEOREM OneOwner == Spec => []SingleDrainOwner
<1>1. IndInv => SingleDrainOwner
  BY DEF IndInv
<1> QED
  BY <1>1, Invariance, PTL

(***************************************************************************)
(* stop never runs beside an unfinished call, a suspended one included.    *)
(***************************************************************************)
THEOREM StopSafe == Spec => []StopWaitsForCalls
<1>1. IndInv => StopWaitsForCalls
  BY DEF IndInv
<1> QED
  BY <1>1, Invariance, PTL

(***************************************************************************)
(* Receive runs only between a completed Started and the start of stop.    *)
(***************************************************************************)
THEOREM ReceiveSafe == Spec => []ReceiveOnlyWhileStarted
<1>1. IndInv => ReceiveOnlyWhileStarted
  BY DEF IndInv
<1> QED
  BY <1>1, Invariance, PTL

(***************************************************************************)
(* A message that Push accepted is never lost, repeated or reordered.      *)
(***************************************************************************)
THEOREM Fifo == Spec => []AcceptedInOrder
<1>1. IndInv => AcceptedInOrder
  BY DEF IndInv
<1> QED
  BY <1>1, Invariance, PTL

(***************************************************************************)
(* An idle scheduler with work to do has a goroutine about to schedule.    *)
(***************************************************************************)
THEOREM WakeupKept == Spec => []NoLostWakeup
<1>1. IndInv => NoLostWakeup
  BY DEF IndInv
<1> QED
  BY <1>1, Invariance, PTL

(***************************************************************************)
(* stop gives the cluster registration up before the registry entry.       *)
(***************************************************************************)
THEOREM ReleaseOrder == Spec => []RegistrationReleasedFirst
<1>1. IndInv => RegistrationReleasedFirst
  BY DEF IndInv, RegistrationInv, RegistrationReleasedFirst
<1> QED
  BY <1>1, Invariance, PTL
=============================================================================
