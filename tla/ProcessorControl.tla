-------------------------- MODULE ProcessorControl --------------------------
(***************************************************************************)
(* First part of the proof that IndInv is inductive: who holds the permit, *)
(* who owns the running role, how many calls are unfinished, which         *)
(* lifecycle state each position of the owner goes with, the mailbox's type*)
(* and limit, and the place of Initialize. Each lemma <Part>Step shows that*)
(* a step preserves one part of IndInv and assumes only the parts it needs,*)
(* one group of DrainerStep at a time.                                     *)
(***************************************************************************)
EXTENDS ProcessorInv, FiniteSetTheorems, SequenceTheorems, TLAPS

-----------------------------------------------------------------------------
(* Facts about sequences and finite sets. *)

\* What Pop and Flush take from a non-empty mailbox, and what they leave.
LEMMA HeadTail ==
  ASSUME NEW S, NEW q \in Seq(S), q # <<>>
  PROVE  /\ Head(q) = q[1]
         /\ Head(q) \in S
         /\ Tail(q) \in Seq(S)
         /\ Len(q) > 0
         /\ Len(Tail(q)) = Len(q) - 1
         /\ \A i \in 1..Len(Tail(q)) : Tail(q)[i] = q[i + 1]
OBVIOUS

\* A finite set that gains or loses one element: unfinishedCalls.Add(1) and Add(-1).
LEMMA OneMore ==
  ASSUME NEW S, NEW T, NEW x, IsFiniteSet(S), x \notin S, T = S \cup {x}
  PROVE  Cardinality(T) = Cardinality(S) + 1
BY FS_AddElement

LEMMA OneLess ==
  ASSUME NEW S, NEW T, NEW x, IsFiniteSet(S), x \in S, T = S \ {x}
  PROVE  Cardinality(T) = Cardinality(S) - 1
BY FS_RemoveElement

-----------------------------------------------------------------------------
(* unfinishedCalls counts the calls between CountCall and UncountCall. *)

CountedSet == {d \in Drainers : Counted(d)}

\* unfinishedCalls.Load() == 0 means that no call is running or suspended.
LEMMA NoUnfinishedCalls ==
  ASSUME CountInv, unfinishedCalls = 0
  PROVE  \A d \in Drainers : ~Counted(d)
<1>1. IsFiniteSet(CountedSet)
  BY ProcessorAssumption, FS_Subset DEF CountedSet
<1>2. CountedSet = {}
  BY <1>1, FS_EmptySet, ZenonT(30) DEF CountInv, CountedSet
<1> QED
  BY <1>2, ZenonT(30) DEF CountedSet

\* Every step but the two counter updates leaves the set of counted calls alone.
LEMMA CountStep ==
  ASSUME DrainerTypes, CurInv, CountInv, [Next]_vars
  PROVE  CountInv'
<1>0. /\ IsFiniteSet(CountedSet)
      /\ unfinishedCalls = Cardinality(CountedSet)
      /\ CountInv' <=> unfinishedCalls' = Cardinality(CountedSet')
  BY ProcessorAssumption, FS_Subset DEF CountInv, CountedSet
<1> USE ProcessorAssumption DEF DrainerTypes, CurInv, Counted, Labels, UserCode, Goto, Step,
          schedule, locals, drainVars, gateVars, lifeVars, boxVars, envVars
<1>1. ASSUME NEW d \in Drainers, CountCall(d) PROVE CountInv'
  <2>1. CountedSet' = CountedSet \cup {d} /\ d \notin CountedSet
    BY <1>1 DEF CountCall, CountedSet
  <2>2. Cardinality(CountedSet') = Cardinality(CountedSet) + 1
    BY <2>1, <1>0, OneMore
  <2> QED
    BY <2>2, <1>1, <1>0 DEF CountCall
<1>2. ASSUME NEW d \in Drainers, UncountCall(d) PROVE CountInv'
  <2>1. CountedSet' = CountedSet \ {d} /\ d \in CountedSet
    BY <1>2 DEF UncountCall, AfterCall, CountedSet
  <2>2. Cardinality(CountedSet') = Cardinality(CountedSet) - 1
    BY <2>1, <1>0, OneLess
  <2> QED
    BY <2>2, <1>2, <1>0 DEF UncountCall
<1> SUFFICES ASSUME \A d \in Drainers : ~CountCall(d) /\ ~UncountCall(d)
             PROVE  CountedSet' = CountedSet /\ UNCHANGED unfinishedCalls
  BY <1>0, <1>1, <1>2
<1> USE DEF CountedSet
<1>3. CASE Outside
  BY <1>3, SMTT(30) DEF Outside, Push, SendSchedule, RequestStop, StopSchedule, SpawnerInit
<1>4. ASSUME NEW d \in Drainers, Draining(d)
      PROVE  CountedSet' = CountedSet /\ UNCHANGED unfinishedCalls
  BY <1>4, SMTT(30) DEF Draining, DrainLoop, Pop, Enter, Invoke, PoisonRequest, PoisonSchedule
<1>5. ASSUME NEW d \in Drainers, Handling(d)
      PROVE  CountedSet' = CountedSet /\ UNCHANGED unfinishedCalls
  BY <1>5, SMTT(30) DEF Handling, Suspend, Yield, Resume, ReceiveEnds
<1>6. ASSUME NEW d \in Drainers, Finishing(d)
      PROVE  CountedSet' = CountedSet /\ UNCHANGED unfinishedCalls
  BY <1>6, SMTT(30) DEF Finishing, Leave, LastCall, Reschedule
<1>7. ASSUME NEW d \in Drainers, Retiring(d)
      PROVE  CountedSet' = CountedSet /\ UNCHANGED unfinishedCalls
  BY <1>7, SMTT(30) DEF Retiring, FinishDraining, Recheck, Wake
<1>8. ASSUME NEW d \in Drainers, Halting(d)
      PROVE  CountedSet' = CountedSet /\ UNCHANGED unfinishedCalls
  BY <1>8, SMTT(30) DEF Halting, StopReady, EnterStop, StopIfIdle
<1>9. ASSUME NEW d \in Drainers, Lifecycle(d)
      PROVE  CountedSet' = CountedSet /\ UNCHANGED unfinishedCalls
  <2>1. CASE RegisterToCluster(d) \/ StartedEnds(d) \/ Stop(d) \/ PreStopEnds(d)
    BY <2>1, SMTT(30) DEF RegisterToCluster, StartedEnds, Stop, PreStopEnds
  <2>2. CASE UnregisterFromCluster(d) \/ StoreStopped(d) \/ RemoveFromRegistry(d) \/ Flush(d)
    BY <2>2, SMTT(30) DEF UnregisterFromCluster, StoreStopped, RemoveFromRegistry, Flush
  <2> QED
    BY <1>9, <2>1, <2>2, ZenonT(30) DEF Lifecycle
<1>10. CASE UNCHANGED vars
  BY <1>10 DEF vars
<1> QED
  BY <1>3, <1>4, <1>5, <1>6, <1>7, <1>8, <1>9, <1>10, ZenonT(30) DEF Next, DrainerStep

-----------------------------------------------------------------------------
(* Who holds the permit, who owns the running role, what each call carries. *)

ControlInv ==
  DrainerTypes /\ PermitInv /\ CurInv /\ TransferInv /\ CallKindInv /\ SingleDrainOwner

LEMMA ControlStep ==
  ASSUME ControlInv, MailboxTypes, LifecycleInv, [Next]_vars
  PROVE  ControlInv'
<1> USE ProcessorAssumption DEF ControlInv, DrainerTypes, PermitInv, CurInv, TransferInv,
          CallKindInv, SingleDrainOwner, HoldsPermit, Owner, Labels, UserCode, Goto, Step,
          schedule, locals, drainVars, gateVars, lifeVars, boxVars, envVars
<1>1. CASE Outside
  BY <1>1, SMTT(30) DEF Outside, Push, SendSchedule, RequestStop, StopSchedule, SpawnerInit
<1>2. ASSUME NEW d \in Drainers, Pop(d) PROVE ControlInv'
  <2>1. mailbox # <<>> => Head(mailbox) \in Contexts
    BY HeadTail DEF MailboxTypes
  <2>2. None \notin Contexts
    BY SMTT(30) DEF Contexts
  <2> QED
    BY <1>2, <2>1, <2>2 DEF Pop
<1>3. ASSUME NEW d \in Drainers, Draining(d), ~Pop(d) PROVE ControlInv'
  <2>1. CASE DrainLoop(d) \/ CountCall(d) \/ Enter(d)
    BY <2>1, SMTT(30) DEF DrainLoop, CountCall, Enter
  <2>2. CASE Invoke(d) \/ PoisonRequest(d) \/ PoisonSchedule(d)
    BY <2>2, SMTT(30) DEF Invoke, PoisonRequest, PoisonSchedule
  <2> QED
    BY <1>3, <2>1, <2>2, ZenonT(30) DEF Draining
<1>4. ASSUME NEW d \in Drainers, Handling(d) PROVE ControlInv'
  BY <1>4, SMTT(30) DEF Handling, Suspend, Yield, Resume, ReceiveEnds
<1>5. ASSUME NEW d \in Drainers, Finishing(d) PROVE ControlInv'
  BY <1>5, SMTT(30) DEF Finishing, Leave, UncountCall, AfterCall, LastCall, Reschedule
<1>6. ASSUME NEW d \in Drainers, Retiring(d) PROVE ControlInv'
  BY <1>6, SMTT(30) DEF Retiring, FinishDraining, Recheck, Wake
<1>7. ASSUME NEW d \in Drainers, Halting(d) PROVE ControlInv'
  BY <1>7, SMTT(30) DEF Halting, StopReady, EnterStop, StopIfIdle
<1>8. ASSUME NEW d \in Drainers, Stop(d) PROVE ControlInv'
  <2>1. lifecycleState = "started" => cur[d] = None
    BY <1>8, SMTT(30) DEF Stop, LifecycleInv, OwnerLifecycle
  <2> QED
    BY <1>8, <2>1 DEF Stop
<1>9. ASSUME NEW d \in Drainers, Lifecycle(d), ~Stop(d) PROVE ControlInv'
  <2>1. CASE RegisterToCluster(d) \/ StartedEnds(d) \/ PreStopEnds(d) \/ UnregisterFromCluster(d)
    BY <2>1, SMTT(30) DEF RegisterToCluster, StartedEnds, PreStopEnds, UnregisterFromCluster
  <2>2. CASE StoreStopped(d) \/ RemoveFromRegistry(d) \/ Flush(d)
    BY <2>2, SMTT(30) DEF StoreStopped, RemoveFromRegistry, Flush
  <2> QED
    BY <1>9, <2>1, <2>2, ZenonT(30) DEF Lifecycle
<1>10. CASE UNCHANGED vars
  BY <1>10 DEF vars
<1> QED
  BY <1>1, <1>2, <1>3, <1>4, <1>5, <1>6, <1>7, <1>8, <1>9, <1>10, ZenonT(30) DEF Next, DrainerStep

-----------------------------------------------------------------------------
(* The lifecycle follows the owner; nothing stops while a call is unfinished. *)

LifeInv ==
  /\ LifecycleInv
  /\ StopWaitsForCalls
  /\ ReceiveOnlyWhileStarted

\* The parts of IndInv that the lemmas below rest on.
Base == ControlInv /\ LifeInv /\ CountInv /\ InitializeInv /\ MailboxTypes

LEMMA LifeStep ==
  ASSUME Base, [Next]_vars
  PROVE  LifeInv'
<1> USE ProcessorAssumption DEF Base, ControlInv, LifeInv, DrainerTypes, CurInv,
          TransferInv, CallKindInv, SingleDrainOwner, LifecycleInv, OwnerLifecycle,
          StopWaitsForCalls, ReceiveOnlyWhileStarted, Owner, Counted, Stopping, Labels,
          UserCode, Goto, Step, schedule, locals, drainVars, gateVars, lifeVars,
          boxVars, envVars
<1>0. unfinishedCalls = 0 => \A d \in Drainers : ~Counted(d)
  BY NoUnfinishedCalls, SMTT(30)
<1>1. CASE Outside
  BY <1>1, SMTT(30) DEF Outside, Push, SendSchedule, RequestStop, StopSchedule, SpawnerInit
<1>2. ASSUME NEW d \in Drainers, Pop(d) PROVE LifeInv'
  <2>1. /\ \A e \in Drainers : Owner(e) <=> e = d
        /\ lifecycleState \in {"initializing", "started"}
    BY <1>2 DEF Pop
  <2>2. lifecycleState = "initializing" => \A e \in Drainers : cur[e] # Initialize
    <3>1. None # Initialize
      OBVIOUS
    <3>2. lifecycleState = "initializing" => \A e \in Drainers : cur[e] = None
      BY <1>2, <2>1 DEF Pop
    <3> QED
      BY <3>1, <3>2
  <2>3. ASSUME mailbox # <<>>
        PROVE  /\ Head(mailbox) \in Contexts
               /\ Head(mailbox) = Initialize <=> lifecycleState = "initializing"
    BY <2>1, <2>2, <2>3, HeadTail DEF InitializeInv, MailboxTypes
  <2>4. None \notin Contexts
    BY DEF Contexts
  <2>5. CASE mailbox = <<>>
    <3>1. lifecycleState = "started"
      BY <2>1, <2>2, <2>5, SMTT(30) DEF InitializeInv
    <3> QED
      BY <1>2, <2>1, <2>5, <3>1 DEF Pop
  <2>6. CASE mailbox # <<>>
    BY <1>2, <2>1, <2>3, <2>4, <2>6, SMTT(30) DEF Pop
  <2> QED
    BY <2>5, <2>6
<1>3. ASSUME NEW d \in Drainers, Draining(d), ~Pop(d) PROVE LifeInv'
  <2>1. CASE DrainLoop(d) \/ CountCall(d) \/ Enter(d)
    BY <2>1, SMTT(30) DEF DrainLoop, CountCall, Enter
  <2>2. CASE Invoke(d) \/ PoisonRequest(d) \/ PoisonSchedule(d)
    BY <2>2, SMTT(30) DEF Invoke, PoisonRequest, PoisonSchedule
  <2> QED
    BY <1>3, <2>1, <2>2, ZenonT(30) DEF Draining
<1>4. ASSUME NEW d \in Drainers, Handling(d) PROVE LifeInv'
  <2>1. CASE Suspend(d) \/ Yield(d)
    BY <2>1, SMTT(30) DEF Suspend, Yield
  <2>2. CASE Resume(d) \/ ReceiveEnds(d)
    BY <2>2, SMTT(30) DEF Resume, ReceiveEnds
  <2> QED
    BY <1>4, <2>1, <2>2, ZenonT(30) DEF Handling
<1>5. ASSUME NEW d \in Drainers, Finishing(d) PROVE LifeInv'
  <2>1. CASE Leave(d) \/ UncountCall(d)
    BY <2>1, SMTT(30) DEF Leave, UncountCall, AfterCall
  <2>2. CASE LastCall(d) \/ Reschedule(d)
    BY <2>2, SMTT(30) DEF LastCall, Reschedule
  <2> QED
    BY <1>5, <2>1, <2>2, ZenonT(30) DEF Finishing
<1>6. ASSUME NEW d \in Drainers, Retiring(d) PROVE LifeInv'
  <2>1. CASE FinishDraining(d) \/ Recheck(d)
    BY <2>1, SMTT(30) DEF FinishDraining, Recheck
  <2>2. CASE Wake(d)
    BY <2>2, SMTT(30) DEF Wake
  <2> QED
    BY <1>6, <2>1, <2>2, ZenonT(30) DEF Retiring
<1>7. ASSUME NEW d \in Drainers, Halting(d) PROVE LifeInv'
  <2>1. CASE StopReady(d) \/ EnterStop(d)
    BY <2>1, <1>0, SMTT(30) DEF StopReady, EnterStop
  <2>2. CASE StopIfIdle(d)
    BY <2>2, <1>0, SMTT(30) DEF StopIfIdle
  <2> QED
    BY <1>7, <2>1, <2>2, ZenonT(30) DEF Halting
<1>8. ASSUME NEW d \in Drainers, Lifecycle(d) PROVE LifeInv'
  <2>1. CASE RegisterToCluster(d) \/ StartedEnds(d)
    BY <2>1, SMTT(30) DEF RegisterToCluster, StartedEnds
  <2>2. CASE Stop(d) \/ PreStopEnds(d)
    BY <2>2, SMTT(30) DEF Stop, PreStopEnds
  <2>3. CASE UnregisterFromCluster(d) \/ StoreStopped(d)
    BY <2>3, SMTT(30) DEF UnregisterFromCluster, StoreStopped
  <2>4. CASE RemoveFromRegistry(d) \/ Flush(d)
    BY <2>4, SMTT(30) DEF RemoveFromRegistry, Flush
  <2> QED
    BY <1>8, <2>1, <2>2, <2>3, <2>4, ZenonT(30) DEF Lifecycle
<1>9. CASE UNCHANGED vars
  BY <1>9 DEF vars
<1> QED
  BY <1>1, <1>2, <1>3, <1>4, <1>5, <1>6, <1>7, <1>8, <1>9, ZenonT(30) DEF Next, DrainerStep

-----------------------------------------------------------------------------
(* The mailbox: its type and its limit. *)

\* Only Push, Pop, Invoke and Flush move messages.
LEMMA BoxUntouched ==
  ASSUME [Next]_vars, \A m \in Msgs : ~Push(m),
         \A d \in Drainers : ~Pop(d) /\ ~Invoke(d) /\ ~Flush(d)
  PROVE  UNCHANGED <<mailbox, accepted, begun, flushed>>
<1> DEFINE Same == UNCHANGED <<mailbox, accepted, begun, flushed>>
<1> USE DEF boxVars
<1>1. CASE Outside
  BY <1>1, SMTT(30) DEF Outside, SendSchedule, RequestStop, StopSchedule, SpawnerInit
<1>2. ASSUME NEW d \in Drainers, Draining(d) PROVE Same
  BY <1>2, SMTT(30) DEF Draining, DrainLoop, CountCall, Enter, PoisonRequest, PoisonSchedule
<1>3. ASSUME NEW d \in Drainers, Handling(d) PROVE Same
  BY <1>3, SMTT(30) DEF Handling, Suspend, Yield, Resume, ReceiveEnds
<1>4. ASSUME NEW d \in Drainers, Finishing(d) PROVE Same
  BY <1>4, SMTT(30) DEF Finishing, Leave, UncountCall, LastCall, Reschedule
<1>5. ASSUME NEW d \in Drainers, Retiring(d) PROVE Same
  BY <1>5, SMTT(30) DEF Retiring, FinishDraining, Recheck, Wake
<1>6. ASSUME NEW d \in Drainers, Halting(d) PROVE Same
  BY <1>6, SMTT(30) DEF Halting, StopReady, EnterStop, StopIfIdle
<1>7. ASSUME NEW d \in Drainers, Lifecycle(d) PROVE Same
  BY <1>7, SMTT(30) DEF Lifecycle, RegisterToCluster, StartedEnds, Stop, PreStopEnds,
              UnregisterFromCluster, StoreStopped, RemoveFromRegistry
<1> QED
  BY <1>1, <1>2, <1>3, <1>4, <1>5, <1>6, <1>7, ZenonT(30) DEF Next, DrainerStep, vars

LEMMA MailboxTypesStep ==
  ASSUME Base, [Next]_vars
  PROVE  MailboxTypes'
<1>0. MailboxTypes
  BY DEF Base
<1> USE <1>0 DEF MailboxTypes, boxVars
<1>1. ASSUME NEW m \in Msgs, Push(m) PROVE MailboxTypes'
  <2>1. m \in Contexts
    BY DEF Contexts
  <2>2. /\ UNCHANGED <<begun, flushed>>
        /\ \/ UNCHANGED <<mailbox, accepted>>
           \/ mailbox' = Append(mailbox, m) /\ accepted' = Append(accepted, m)
    BY <1>1 DEF Push
  <2>3. Append(mailbox, m) \in Seq(Contexts) /\ Append(accepted, m) \in Seq(Contexts)
    BY <2>1, AppendProperties
  <2> QED
    BY <2>2, <2>3, Zenon
<1>2. ASSUME NEW d \in Drainers, Pop(d) PROVE MailboxTypes'
  <2>1. mailbox # <<>> => Tail(mailbox) \in Seq(Contexts)
    BY HeadTail
  <2> QED
    BY <1>2, <2>1, ZenonT(30) DEF Pop
<1>3. ASSUME NEW d \in Drainers, Invoke(d) PROVE MailboxTypes'
  <2>1. cur[d] \in Contexts
    BY <1>3 DEF Invoke, Base, ControlInv, DrainerTypes, CurInv
  <2>2. begun' \in {begun, Append(begun, cur[d])} /\ UNCHANGED <<mailbox, accepted, flushed>>
    BY <1>3 DEF Invoke
  <2>3. Append(begun, cur[d]) \in Seq(Contexts)
    BY <2>1, AppendProperties
  <2> QED
    BY <2>2, <2>3, Zenon
<1>4. ASSUME NEW d \in Drainers, Flush(d) PROVE MailboxTypes'
  <2>1. mailbox # <<>> => Head(mailbox) \in Contexts /\ Tail(mailbox) \in Seq(Contexts)
    BY HeadTail
  <2>2. /\ UNCHANGED <<begun, accepted>>
        /\ \/ UNCHANGED <<mailbox, flushed>>
           \/ /\ mailbox # <<>> /\ mailbox' = Tail(mailbox)
              /\ flushed' = Append(flushed, Head(mailbox))
    BY <1>4 DEF Flush
  <2>3. mailbox # <<>> => Append(flushed, Head(mailbox)) \in Seq(Contexts)
    BY <2>1, AppendProperties
  <2> QED
    BY <2>1, <2>2, <2>3, Zenon
<1> QED
  BY <1>1, <1>2, <1>3, <1>4, BoxUntouched, Zenon

\* Push alone lengthens the mailbox, and only below the limit.
LEMMA BoundStep ==
  ASSUME MailboxTypes, MailboxBounded, [Next]_vars
  PROVE  MailboxBounded'
<1> USE ProcessorAssumption DEF MailboxTypes, MailboxBounded
<1>1. ASSUME NEW m \in Msgs, Push(m) PROVE MailboxBounded'
  <2>1. \/ UNCHANGED mailbox
        \/ Len(mailbox) < Capacity /\ mailbox' = Append(mailbox, m)
    BY <1>1 DEF Push
  <2>2. m \in Contexts
    BY DEF Contexts
  <2>3. Len(Append(mailbox, m)) = Len(mailbox) + 1
    BY <2>2, AppendProperties
  <2> QED
    BY <2>1, <2>3
<1>2. ASSUME NEW d \in Drainers, Pop(d) \/ Flush(d) PROVE MailboxBounded'
  <2>1. UNCHANGED mailbox \/ (mailbox # <<>> /\ mailbox' = Tail(mailbox))
    BY <1>2 DEF Pop, Flush
  <2>2. mailbox # <<>> => Len(Tail(mailbox)) = Len(mailbox) - 1
    BY HeadTail
  <2> QED
    BY <2>1, <2>2
<1>3. ASSUME NEW d \in Drainers, Invoke(d) PROVE UNCHANGED mailbox
  BY <1>3 DEF Invoke, boxVars
<1> QED
  BY <1>1, <1>2, <1>3, BoxUntouched, Zenon

\* The moves of a message in Push, Pop and Invoke keep the concatenation.
LEMMA PushAtEnd ==
  ASSUME NEW S, NEW a \in Seq(S), NEW q \in Seq(S), NEW m \in S
  PROVE  a \o Append(q, m) = Append(a \o q, m)
OBVIOUS

LEMMA PopToHand ==
  ASSUME NEW S, NEW b \in Seq(S), NEW q \in Seq(S), q # <<>>
  PROVE  ((b \o <<Head(q)>>) \o <<>>) \o Tail(q) = ((b \o <<>>) \o <<>>) \o q
OBVIOUS

LEMMA InvokeHand ==
  ASSUME NEW S, NEW b \in Seq(S), NEW c \in S, NEW f \in Seq(S), NEW q \in Seq(S)
  PROVE  ((Append(b, c) \o <<>>) \o f) \o q = ((b \o <<c>>) \o f) \o q
BY SMTT(30)

-----------------------------------------------------------------------------
(* The place of Initialize, and the FIFO history. *)

\* The steps that change neither a message in hand nor the lifecycle state.
LEMMA CurUntouched ==
  ASSUME [Next]_vars,
         \A d \in Drainers : /\ ~Pop(d) /\ ~Invoke(d) /\ ~UncountCall(d)
                             /\ ~StartedEnds(d) /\ ~Stop(d) /\ ~StoreStopped(d)
  PROVE  UNCHANGED <<cur, lifecycleState>>
<1> DEFINE Same == UNCHANGED <<cur, lifecycleState>>
<1> USE DEF locals, drainVars, lifeVars
<1>1. CASE Outside
  BY <1>1, SMTT(30) DEF Outside, Push, SendSchedule, RequestStop, StopSchedule, SpawnerInit
<1>2. ASSUME NEW d \in Drainers, Draining(d) PROVE Same
  BY <1>2, SMTT(30) DEF Draining, DrainLoop, CountCall, Enter, PoisonRequest, PoisonSchedule
<1>3. ASSUME NEW d \in Drainers, Handling(d) PROVE Same
  BY <1>3, SMTT(30) DEF Handling, Suspend, Yield, Resume, ReceiveEnds
<1>4. ASSUME NEW d \in Drainers, Finishing(d) PROVE Same
  BY <1>4, SMTT(30) DEF Finishing, Leave, LastCall, Reschedule
<1>5. ASSUME NEW d \in Drainers, Retiring(d) PROVE Same
  BY <1>5, SMTT(30) DEF Retiring, FinishDraining, Recheck, Wake
<1>6. ASSUME NEW d \in Drainers, Halting(d) PROVE Same
  BY <1>6, SMTT(30) DEF Halting, StopReady, EnterStop, StopIfIdle
<1>7. ASSUME NEW d \in Drainers, Lifecycle(d) PROVE Same
  BY <1>7, SMTT(30) DEF Lifecycle, RegisterToCluster, PreStopEnds, UnregisterFromCluster,
              RemoveFromRegistry, Flush
<1> QED
  BY <1>1, <1>2, <1>3, <1>4, <1>5, <1>6, <1>7, ZenonT(30) DEF Next, DrainerStep, vars

\* Initialize leaves the mailbox first and never returns to it.
LEMMA InitializeStep ==
  ASSUME Base, [Next]_vars
  PROVE  InitializeInv'
<1> USE ProcessorAssumption DEF Base, InitializeInv, ControlInv, DrainerTypes, CurInv, LifeInv,
          LifecycleInv, OwnerLifecycle, TransferInv, Owner, MailboxTypes, locals, drainVars,
          gateVars, lifeVars, boxVars, envVars, Goto, Step
<1>1. ASSUME NEW m \in Msgs, Push(m) PROVE InitializeInv'
  <2>1. CASE UNCHANGED mailbox
    BY <1>1, <2>1, SMTT(30) DEF Push
  <2>2. CASE mailbox' = Append(mailbox, m)
    <3>1. /\ Len(mailbox') = Len(mailbox) + 1 /\ Len(mailbox) \in Nat
          /\ \A i \in 1..Len(mailbox) : mailbox'[i] = mailbox[i]
          /\ mailbox'[Len(mailbox) + 1] = m
      BY <2>2 DEF Contexts
    <3>2. mailbox # <<>> => Len(mailbox) > 0
      BY HeadTail, SMTT(30)
    <3>3. UNCHANGED <<cur, lifecycleState>> /\ m # Initialize
      BY <1>1 DEF Push
    <3>4. mailbox' # <<>>
      BY <2>2
    <3>5. \A i \in 1..Len(mailbox') : mailbox'[i] = Initialize =>
             i = 1 /\ lifecycleState = "initializing" /\ \A d \in Drainers : cur[d] # Initialize
      BY <3>1, <3>3, SMTT(30)
    <3>6. mailbox # <<>> => mailbox'[1] = mailbox[1]
      BY <3>1, <3>2
    <3> QED
      BY <3>3, <3>4, <3>5, <3>6, SMTT(30)
  <2> QED
    BY <1>1, <2>1, <2>2 DEF Push
<1>2. ASSUME NEW d \in Drainers, Pop(d) PROVE InitializeInv'
  <2>1. CASE mailbox = <<>>
    BY <1>2, <2>1 DEF Pop
  <2>2. CASE mailbox # <<>>
    <3>1. /\ mailbox' = Tail(mailbox) /\ UNCHANGED lifecycleState
          /\ cur' = [cur EXCEPT ![d] = mailbox[1]] /\ cur[d] = None
      BY <1>2, <2>2, HeadTail, SMTT(30) DEF Pop
    <3>2. /\ Len(mailbox') = Len(mailbox) - 1
          /\ \A i \in 1..Len(mailbox') : mailbox'[i] = mailbox[i + 1]
      BY <3>1, <2>2, HeadTail, SMTT(30)
    <3>3. \A i \in 1..Len(mailbox') : mailbox'[i] # Initialize
      BY <3>2
    <3>4. lifecycleState = "initializing" => mailbox[1] = Initialize
      <4>1. lifecycleState = "initializing" => \A e \in Drainers : cur[e] # Initialize
        <5>1. None # Initialize
          OBVIOUS
        <5>2. pc[d] = "pop" /\ \A e \in Drainers : Owner(e) => e = d
          BY <1>2, SMTT(30) DEF Pop, SingleDrainOwner
        <5>3. lifecycleState = "initializing" => \A e \in Drainers : cur[e] = None
          BY <5>2, SMTT(30)
        <5> QED
          BY <5>1, <5>3, SMTT(30)
      <4> QED
        BY <4>1
    <3> QED
      BY <3>1, <3>3, <3>4, SMTT(30)
  <2> QED
    BY <2>1, <2>2, SMTT(30)
<1>3. ASSUME NEW d \in Drainers, Flush(d) PROVE InitializeInv'
  <2>1. lifecycleState = "stopped" /\ UNCHANGED <<lifecycleState, cur>>
    BY <1>3 DEF Flush
  <2>2. CASE mailbox = <<>>
    BY <1>3, <2>1, <2>2 DEF Flush
  <2>3. CASE mailbox # <<>>
    <3>1. mailbox' = Tail(mailbox)
      BY <1>3, <2>3 DEF Flush
    <3>2. /\ Len(mailbox') = Len(mailbox) - 1 /\ Len(mailbox) \in Nat
          /\ \A i \in 1..Len(mailbox') : mailbox'[i] = mailbox[i + 1]
      BY <2>3, <3>1, HeadTail, SMTT(30)
    <3> QED
      BY <2>1, <3>2, SMTT(30)
  <2> QED
    BY <2>2, <2>3
<1>4. ASSUME NEW d \in Drainers, UncountCall(d) PROVE InitializeInv'
  <2>1. lifecycleState # "initializing"
    BY <1>4 DEF UncountCall
  <2> QED
    BY <1>4, <2>1, SMTT(30) DEF UncountCall
<1>5. ASSUME NEW d \in Drainers, Invoke(d) \/ StartedEnds(d) \/ Stop(d) \/ StoreStopped(d)
      PROVE  InitializeInv'
  <2> DEFINE Calm ==
        /\ UNCHANGED <<mailbox, cur>>
        /\ lifecycleState' = "initializing" => lifecycleState = "initializing"
        /\ UNCHANGED lifecycleState \/ \A i \in 1..Len(mailbox) : mailbox[i] # Initialize
  <2>1. ASSUME Invoke(d) PROVE Calm
    BY <2>1, SMTT(30) DEF Invoke
  <2>2. ASSUME StartedEnds(d) PROVE Calm
    BY <2>2, SMTT(30) DEF StartedEnds
  <2>3. ASSUME Stop(d) \/ StoreStopped(d) PROVE Calm
    BY <2>3, SMTT(30) DEF Stop, StoreStopped
  <2>4. Calm
    BY <1>5, <2>1, <2>2, <2>3, Zenon
  <2> QED
    BY <2>4, SMTT(30)
<1>6. ASSUME UNCHANGED <<mailbox, cur, lifecycleState>> PROVE InitializeInv'
  BY <1>6
<1> QED
  BY <1>1, <1>2, <1>3, <1>4, <1>5, <1>6, BoxUntouched, CurUntouched, Zenon
=============================================================================
