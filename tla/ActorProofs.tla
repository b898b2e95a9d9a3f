---------------------------- MODULE ActorProofs ----------------------------
(***************************************************************************)
(* Proofs about what surrounds an actor: its creation (Spawn), its single  *)
(* activation in the cluster (ClusterActivation) and the Asks that wait for*)
(* it (PendingAsk), each for any sets of its constants.                    *)
(***************************************************************************)
EXTENDS Spawn, PendingAsk, ClusterActivation, FiniteSetTheorems, TLAPS

-----------------------------------------------------------------------------
(***************************************************************************)
(* Creation. OneCreator, NoUnusedInstance and SlotAccounting hold for any  *)
(* number of ids and creators. A creator that refers to a slot keeps it    *)
(* reserved for its id (SlotAccounting), so the creators of one id meet at *)
(* one mutex (Holding), which gives OneCreator and then NoUnusedInstance.  *)
(***************************************************************************)

\* A creator refers to a slot from Reserve to Release.
Referring ==
  /\ \A c \in Creators :
       slot[c] # Nil <=> pc[c] \in {"lock", "lookup", "build", "register", "init", "unlock", "release"}
  /\ \A c \in Creators : pc[c] # "idle" => id[c] # Nil

Distinct == \A i, j \in Ids : active[i] = active[j] /\ active[i] # Nil => i = j

Holding == \A c \in Creators : Inside(c) => holder[slot[c]] = c

SpawnInv ==
  SpawnTypes /\ Referring /\ Distinct /\ SlotAccounting /\ Holding /\ NoUnusedInstance

LEMMA SpawnInitInv == SpawnInit => SpawnInv
<1> SUFFICES ASSUME SpawnInit PROVE SpawnInv
  OBVIOUS
<1> USE SpawnAssumption DEF SpawnInit
<1>1. SpawnTypes
  BY DEF SpawnTypes
<1>2. Referring /\ Distinct /\ Holding /\ NoUnusedInstance
  BY DEF Referring, Distinct, Holding, Inside, NoUnusedInstance
<1>3. ASSUME NEW s \in Slots PROVE Users(s) = {}
  BY DEF Users
<1>4. SlotAccounting
  BY <1>3, FS_EmptySet DEF SlotAccounting
<1>5. QED
  BY <1>1, <1>2, <1>4 DEF SpawnInv

LEMMA OneCreatorHolds == SpawnInv => OneCreator
  BY DEF SpawnInv, SpawnTypes, Referring, SlotAccounting, Holding, Inside, OneCreator

\* A creator that may take a step, and the actions it takes outside Reserve and Release.
Quiet(c) ==
  \/ Hit(c) \/ LockSlot(c) \/ Lookup(c) \/ Build(c) \/ Register(c) \/ InitProc(c) \/ UnlockSlot(c)
  \/ \E i \in Ids : SpawnNew(c, i) \/ GetOrSpawn(c, i)

LEMMA SpawnTypeStep == SpawnInv /\ [SpawnNext]_spawnVars => SpawnTypes'
<1> SUFFICES ASSUME SpawnInv, [SpawnNext]_spawnVars PROVE SpawnTypes'
  OBVIOUS
<1> USE SpawnAssumption DEF SpawnInv, SpawnTypes, Referring, Step
<1>1. ASSUME NEW c \in Creators, Quiet(c) PROVE SpawnTypes'
  BY <1>1 DEF Quiet, Hit, LockSlot, Lookup, Build, FreshInstances, Register, InitProc, UnlockSlot, SpawnNew, GetOrSpawn, slotVars, locals
<1>2. ASSUME NEW c \in Creators, Reserve(c) PROVE SpawnTypes'
  <2>1. id[c] \in Ids
    BY <1>2 DEF Reserve
  <2>2. PICK s \in Slots :
          /\ active' = [active EXCEPT ![id[c]] = s]
          /\ users' = [users EXCEPT ![s] = IF active[id[c]] = s THEN @ + 1 ELSE 1]
          /\ slot' = [slot EXCEPT ![c] = s]
    BY <1>2, <2>1, ZenonT(30) DEF Reserve, FreshSlots
  <2>3. QED
    BY <1>2, <2>1, <2>2 DEF Reserve
<1>3. ASSUME NEW c \in Creators, Release(c) PROVE SpawnTypes'
  BY <1>3 DEF Release
<1>4. ASSUME NEW i \in Ids, RemoveProcess(i) PROVE SpawnTypes'
  BY <1>4 DEF RemoveProcess, slotVars, locals
<1>5. CASE UNCHANGED spawnVars
  BY <1>5 DEF spawnVars, slotVars, locals
<1>6. QED
  BY <1>1, <1>2, <1>3, <1>4, <1>5 DEF SpawnNext, CreatorStep, Quiet

LEMMA SlotStep == SpawnInv /\ [SpawnNext]_spawnVars => (Referring /\ Distinct /\ SlotAccounting)'
<1> SUFFICES ASSUME SpawnInv, [SpawnNext]_spawnVars PROVE (Referring /\ Distinct /\ SlotAccounting)'
  OBVIOUS
<1> USE SpawnAssumption DEF SpawnInv, Step
<1>0. \A s \in Slots : IsFiniteSet(Users(s))
  BY FS_Subset DEF Users
<1>1. ASSUME NEW c \in Creators, Quiet(c) PROVE (Referring /\ Distinct /\ SlotAccounting)'
  <2>1. Referring' /\ UNCHANGED <<active, users, slot>> /\ \A d \in Creators : slot[d] # Nil => id'[d] = id[d]
    BY <1>1 DEF SpawnTypes, Referring, Quiet, Hit, LockSlot, Lookup, Build, Register, InitProc, UnlockSlot, SpawnNew, GetOrSpawn, slotVars, locals
  <2>2. \A s \in Slots : Users(s)' = Users(s)
    BY <2>1 DEF Users
  <2>3. QED
    BY <2>1, <2>2 DEF SpawnTypes, Distinct, SlotAccounting
<1>2. ASSUME NEW c \in Creators, Reserve(c) PROVE (Referring /\ Distinct /\ SlotAccounting)'
  <2>1. id[c] \in Ids /\ slot[c] = Nil /\ UNCHANGED id
    BY <1>2 DEF Reserve, SpawnTypes, Referring
  <2>2. PICK s \in IF active[id[c]] # Nil THEN {active[id[c]]} ELSE FreshSlots :
          /\ active' = [active EXCEPT ![id[c]] = s]
          /\ users' = [users EXCEPT ![s] = IF active[id[c]] = s THEN @ + 1 ELSE 1]
          /\ slot' = [slot EXCEPT ![c] = s]
    BY <1>2, ZenonT(30) DEF Reserve
  <2>3. s \in Slots /\ s # Nil
    BY <2>1, <2>2 DEF FreshSlots, SpawnTypes
  <2>4. \A i \in Ids : active[i] = s => i = id[c]
    BY <2>1, <2>2, <2>3 DEF FreshSlots, Distinct
  <2>5. Referring' /\ Distinct'
    BY <1>2, <2>1, <2>2, <2>3, <2>4 DEF Reserve, SpawnTypes, Referring, Distinct
  <2>6. Users(s)' = Users(s) \cup {c} /\ c \notin Users(s) /\ \A t \in Slots \ {s} : Users(t)' = Users(t)
    BY <2>1, <2>2, <2>3 DEF Users, SpawnTypes
  <2>7. users'[s] = Cardinality(Users(s)')
    <3>1. Cardinality(Users(s) \cup {c}) = Cardinality(Users(s)) + 1
      BY <1>0, <2>3, <2>6, FS_AddElement, ZenonT(30)
    <3>2. CASE active[id[c]] = s
      BY <2>2, <2>3, <2>6, <3>1, <3>2 DEF SpawnTypes, SlotAccounting
    <3>3. CASE active[id[c]] # s
      <4>1. Users(s) = {}
        BY <2>2, <3>3 DEF FreshSlots, Users
      <4>2. QED
        BY <2>2, <2>3, <2>6, <3>1, <3>3, <4>1, FS_EmptySet DEF SpawnTypes
    <3>4. QED
      BY <3>2, <3>3
  <2>8. \A t \in Slots : users'[t] = Cardinality(Users(t)')
    BY <2>2, <2>3, <2>6, <2>7, ZenonT(30) DEF SpawnTypes, SlotAccounting
  <2>9. (\A i \in Ids : active[i] # Nil => Users(active[i]) # {})'
    <3> SUFFICES ASSUME NEW i \in Ids, active'[i] # Nil
                 PROVE \E d \in Creators : slot'[d] = active'[i]
      BY DEF Users
    <3>1. CASE i = id[c]
      BY <2>1, <2>2, <3>1 DEF SpawnTypes
    <3>2. CASE i # id[c]
      <4>1. active'[i] = active[i] /\ active[i] \in Slots \ {s}
        BY <2>1, <2>2, <2>4, <3>2 DEF SpawnTypes
      <4>2. QED
        BY <2>6, <4>1 DEF SlotAccounting, Users
    <3>3. QED
      BY <3>1, <3>2
  <2>10. \A d \in Creators : slot'[d] # Nil => active'[id'[d]] = slot'[d]
    <3> SUFFICES ASSUME NEW d \in Creators, slot'[d] # Nil PROVE active'[id[d]] = slot'[d]
      BY <2>1
    <3>1. CASE d = c
      BY <2>1, <2>2, <3>1 DEF SpawnTypes
    <3>2. CASE d # c
      <4>1. slot'[d] = slot[d] /\ active[id[d]] = slot[d] /\ id[d] \in Ids
        BY <2>2, <3>2 DEF SpawnTypes, SlotAccounting, Referring
      <4>2. id[d] = id[c] => active[id[c]] = s
        BY <2>2, <4>1
      <4>3. QED
        BY <2>1, <2>2, <4>1, <4>2 DEF SpawnTypes
    <3>3. QED
      BY <3>1, <3>2
  <2>11. QED
    BY <2>5, <2>8, <2>9, <2>10 DEF SlotAccounting
<1>3. ASSUME NEW c \in Creators, Release(c) PROVE (Referring /\ Distinct /\ SlotAccounting)'
  <2>0. PICK s \in Slots : s = slot[c]
    BY <1>3 DEF Release, SpawnTypes, Referring
  <2>1. s \in Slots /\ id[c] \in Ids /\ active[id[c]] = s /\ c \in Users(s) /\ UNCHANGED id
    BY <1>3, <2>0 DEF Release, SpawnTypes, Referring, SlotAccounting, Users
  <2>2. Referring'
    BY <1>3 DEF Release, SpawnTypes, Referring
  <2>3. Distinct'
    BY <1>3, <2>1 DEF Release, SpawnTypes, Distinct
  <2>4. Users(s)' = Users(s) \ {c} /\ \A t \in Slots \ {s} : Users(t)' = Users(t)
    BY <1>3, <2>0, <2>1 DEF Release, SpawnTypes, Users
  <2>5. Cardinality(Users(s) \ {c}) = Cardinality(Users(s)) - 1
    BY <1>0, <2>1, FS_RemoveElement, ZenonT(30)
  <2>6. \A t \in Slots : users'[t] = Cardinality(Users(t)')
    BY <1>3, <2>0, <2>1, <2>4, <2>5, ZenonT(30) DEF Release, SpawnTypes, SlotAccounting
  <2>7. Users(s)' = {} <=> users[s] = 1
    <3>1. IsFiniteSet(Users(s)') /\ Cardinality(Users(s)') = users[s] - 1
      BY <1>0, <2>1, <2>4, <2>5, FS_RemoveElement DEF SlotAccounting
    <3>2. users[s] \in Int
      BY <2>1 DEF SpawnTypes
    <3>3. QED
      BY <3>1, <3>2, FS_EmptySet
  <2>8. (\A i \in Ids : active[i] # Nil => Users(active[i]) # {})'
    <3> SUFFICES ASSUME NEW i \in Ids, active'[i] # Nil
                 PROVE \E d \in Creators : slot'[d] = active'[i]
      BY DEF Users
    <3>1. active'[i] = active[i] /\ active[i] \in Slots
      BY <1>3, <2>1 DEF Release, SpawnTypes
    <3>2. CASE active[i] = s
      <4>1. users[s] # 1
        BY <1>3, <2>0, <2>1, <3>1, <3>2 DEF Release, SpawnTypes, Distinct
      <4>2. QED
        BY <2>7, <3>1, <3>2, <4>1 DEF Users
    <3>3. CASE active[i] # s
      BY <2>4, <3>1, <3>3 DEF SlotAccounting, Users
    <3>4. QED
      BY <3>2, <3>3
  <2>9. \A d \in Creators : slot'[d] # Nil => active'[id'[d]] = slot'[d]
    <3> SUFFICES ASSUME NEW d \in Creators, slot'[d] # Nil PROVE active'[id[d]] = slot'[d]
      BY <2>1
    <3>1. d # c /\ slot'[d] = slot[d] /\ active[id[d]] = slot[d] /\ id[d] \in Ids
      BY <1>3 DEF Release, SpawnTypes, SlotAccounting, Referring
    <3>2. CASE slot[d] = s
      <4>1. d \in Users(s)'
        BY <3>1, <3>2 DEF Users
      <4>2. QED
        BY <1>3, <2>0, <2>7, <3>1, <4>1 DEF Release
    <3>3. CASE slot[d] # s
      BY <1>3, <2>1, <3>1, <3>3 DEF Release, SpawnTypes
    <3>4. QED
      BY <3>2, <3>3
  <2>10. QED
    BY <2>2, <2>3, <2>6, <2>8, <2>9 DEF SlotAccounting
<1>4. ASSUME NEW i \in Ids, RemoveProcess(i) PROVE (Referring /\ Distinct /\ SlotAccounting)'
  <2>1. UNCHANGED <<active, users, slot, id, pc>> /\ \A s \in Slots : Users(s)' = Users(s)
    BY <1>4 DEF RemoveProcess, slotVars, locals, Users
  <2>2. QED
    BY <2>1 DEF SpawnTypes, Referring, Distinct, SlotAccounting
<1>5. CASE UNCHANGED spawnVars
  <2>1. UNCHANGED <<active, users, slot, id, pc>> /\ \A s \in Slots : Users(s)' = Users(s)
    BY <1>5 DEF spawnVars, slotVars, locals, Users
  <2>2. QED
    BY <2>1 DEF SpawnTypes, Referring, Distinct, SlotAccounting
<1>6. QED
  BY <1>1, <1>2, <1>3, <1>4, <1>5 DEF SpawnNext, CreatorStep, Quiet

LEMMA MutexStep == SpawnInv /\ [SpawnNext]_spawnVars => (Holding /\ NoUnusedInstance)'
<1> SUFFICES ASSUME SpawnInv, [SpawnNext]_spawnVars PROVE (Holding /\ NoUnusedInstance)'
  OBVIOUS
<1>0. OneCreator
  BY OneCreatorHolds
<1> USE SpawnAssumption DEF SpawnInv, SpawnTypes, Referring, Step, Holding, Inside
<1>1. ASSUME NEW c \in Creators, CreatorStep(c) \/ \E i \in Ids : SpawnNew(c, i) \/ GetOrSpawn(c, i)
      PROVE Holding'
  <2>1. CASE LockSlot(c) \/ UnlockSlot(c)
    BY <2>1 DEF LockSlot, UnlockSlot, locals
  <2>2. CASE Reserve(c) \/ Release(c)
    BY <2>2 DEF Reserve, Release
  <2>3. CASE Hit(c) \/ Lookup(c) \/ Build(c) \/ Register(c) \/ InitProc(c) \/ \E i \in Ids : SpawnNew(c, i) \/ GetOrSpawn(c, i)
    BY <2>3 DEF Hit, Lookup, Build, Register, InitProc, SpawnNew, GetOrSpawn, slotVars, locals
  <2>4. QED
    BY <1>1, <2>1, <2>2, <2>3 DEF CreatorStep
<1>2. ASSUME NEW c \in Creators, CreatorStep(c) \/ \E i \in Ids : SpawnNew(c, i) \/ GetOrSpawn(c, i)
      PROVE NoUnusedInstance'
  <2> USE DEF NoUnusedInstance
  <2>1. CASE LockSlot(c) \/ UnlockSlot(c) \/ Reserve(c) \/ Release(c)
    BY <2>1 DEF LockSlot, UnlockSlot, Reserve, Release, locals
  <2>2. CASE Register(c)
    BY <1>0, <2>2 DEF Register, OneCreator
  <2>3. CASE Hit(c) \/ Lookup(c) \/ Build(c) \/ InitProc(c) \/ \E i \in Ids : SpawnNew(c, i) \/ GetOrSpawn(c, i)
    BY <2>3 DEF Hit, Lookup, Build, InitProc, SpawnNew, GetOrSpawn, slotVars, locals
  <2>4. QED
    BY <1>2, <2>1, <2>2, <2>3 DEF CreatorStep
<1>3. ASSUME NEW i \in Ids, RemoveProcess(i) PROVE (Holding /\ NoUnusedInstance)'
  BY <1>3 DEF RemoveProcess, NoUnusedInstance, slotVars, locals
<1>4. CASE UNCHANGED spawnVars
  BY <1>4 DEF spawnVars, NoUnusedInstance, slotVars, locals
<1>5. QED
  BY <1>1, <1>2, <1>3, <1>4, Zenon DEF SpawnNext

\* The invariant holds in every reachable state of the spawn machinery.
THEOREM SpawnInvariance == SpawnSpec => []SpawnInv
<1>1. SpawnInv /\ [SpawnNext]_spawnVars => SpawnInv'
  BY SpawnTypeStep, SlotStep, MutexStep DEF SpawnInv
<1>2. QED
  BY SpawnInitInv, <1>1, PTL DEF SpawnSpec

\* lock and unlock let one creator at a time build an id, however many call.
THEOREM CreatorsExcluded == SpawnSpec => []OneCreator
  BY SpawnInvariance, OneCreatorHolds, PTL

\* register always publishes what buildProcessor built.
THEOREM EveryInstancePublished == SpawnSpec => []NoUnusedInstance
<1>1. SpawnInv => NoUnusedInstance
  BY DEF SpawnInv
<1>2. QED
  BY SpawnInvariance, <1>1, PTL

\* users counts the creators of a slot, and no id keeps a slot without them.
THEOREM SlotsAccounted == SpawnSpec => []SlotAccounting
<1>1. SpawnInv => SlotAccounting
  BY DEF SpawnInv
<1>2. QED
  BY SpawnInvariance, <1>1, PTL

-----------------------------------------------------------------------------
(***************************************************************************)
(* Asks. The invariant has three parts: Admission (who is in the shared    *)
(* section while registration closes), Delivery and Answers (what became of*)
(* an entry that left the map) and Snapshot (nobody is overlooked).        *)
(***************************************************************************)

Admission ==
  /\ readers = {a \in Asks : asker[a] \in {"register", "insert"}}
  /\ waker = "snapshot" => readers = {}
  /\ pendingRegistrationClosed <=> waker \in {"snapshot", "wake", "done"}
  /\ waker \in {"snapshot", "wake", "done"} => \A a \in Asks : asker[a] # "insert"

\* An ask that was sent and still waits.
Waiting(a) == asker[a] \in {"tell", "await"}
Delivering(a) == \E r \in Repliers : replier[r] = "send" /\ carries[r].ask = a
Answered(a) ==
  \E r \in Repliers : replier[r] = "done" /\ carries[r] = [ask |-> a, kind |-> "T"]

Delivery ==
  /\ NoPendingLeak
  /\ \A a \in Asks : Waiting(a) /\ a \notin pending => reply[a] # None \/ Delivering(a)
  /\ \A r \in Repliers : replier[r] = "send" => carries[r] # None /\ Sent(carries[r].ask)
  /\ \A r \in Repliers : replier[r] = "send" => carries[r].ask \notin pending
  /\ OneDelivery

Answers ==
  /\ \A a \in Asks : reply[a] = "T" => Answered(a)
  /\ SuccessIsAnAnswer

Snapshot ==
  /\ waker = "snapshot" => \A a \in Asks \ unvisited : Waiting(a) => Served(a)
  /\ WakeCovers

AskInv == AskTypes /\ Admission /\ Delivery /\ Answers /\ Snapshot

LEMMA AskInitInv == AskInit => AskInv
<1> SUFFICES ASSUME AskInit PROVE AskInv
  OBVIOUS
<1> USE AskAssumption DEF AskInit
<1>1. AskTypes
  BY ZenonT(30) DEF AskTypes, Kinds, Positions
<1>2. Admission
  BY DEF Admission
<1>3. Delivery
  BY DEF Delivery, NoPendingLeak, Waiting, OneDelivery
<1>4. Answers
  BY DEF Answers, SuccessIsAnAnswer, Kinds
<1>5. Snapshot
  BY DEF Snapshot, WakeCovers
<1>6. QED
  BY <1>1, <1>2, <1>3, <1>4, <1>5 DEF AskInv

LEMMA AskTypeStep == AskTypes /\ Delivery /\ [AskNext]_pendingVars => AskTypes'
<1> SUFFICES ASSUME AskTypes, Delivery, [AskNext]_pendingVars PROVE AskTypes'
  OBVIOUS
<1> USE AskAssumption DEF AskTypes, Positions
<1>1. ASSUME NEW a \in Asks, AskStep(a) \/ Timeout(a) PROVE AskTypes'
  <2> USE DEF AskGoto, replyVars, wakeVars
  <2>1. CASE RLock(a) \/ CheckClosed(a)
    BY <2>1 DEF RLock, CheckClosed
  <2>2. CASE Insert(a) \/ Tell(a)
    BY <2>2 DEF Insert, Tell
  <2>3. CASE Receive(a) \/ Timeout(a)
    BY <2>3 DEF Receive, Timeout, Decode, Kinds
  <2>4. CASE Cancel(a)
    BY <2>4 DEF Cancel
  <2>5. QED
    BY <1>1, <2>1, <2>2, <2>3, <2>4 DEF AskStep
<1>2. ASSUME NEW r \in Repliers, SendReply(r) PROVE AskTypes'
  <2>1. carries[r] \in [ask : Asks, kind : Kinds]
    BY <1>2 DEF SendReply, Delivery
  <2>2. QED
    BY <1>2, <2>1 DEF SendReply, TrySend, askVars, wakeVars
<1>3. ASSUME NEW r \in Repliers, NEW a \in Asks, NEW k \in Kinds, PopPending(r, a, k) PROVE AskTypes'
  BY <1>3 DEF PopPending, askVars, wakeVars
<1>4. CASE AnnounceClose \/ WakeStep
  BY <1>4, ZenonT(30) DEF AnnounceClose, WakeStep, CloseRegistration, Visit, Unlock, WakeOne, WakeDone, WakeGoto, TrySend, Kinds, askVars, replyVars
<1>5. CASE UNCHANGED pendingVars
  BY <1>5 DEF pendingVars, askVars, replyVars, wakeVars
<1>6. QED
  BY <1>1, <1>2, <1>3, <1>4, <1>5 DEF AskNext

LEMMA AdmissionStep == AskTypes /\ Admission /\ [AskNext]_pendingVars => Admission'
<1> SUFFICES ASSUME AskTypes, Admission, [AskNext]_pendingVars PROVE Admission'
  OBVIOUS
<1> USE DEF AskTypes, Positions, Admission
<1>1. ASSUME NEW a \in Asks, AskStep(a) \/ Timeout(a) PROVE Admission'
  BY <1>1 DEF AskStep, RLock, CheckClosed, Insert, Tell, Receive, Cancel, Timeout, AskGoto, replyVars, wakeVars
<1>2. ASSUME NEW r \in Repliers, SendReply(r) \/ \E a \in Asks, k \in Kinds : PopPending(r, a, k)
      PROVE Admission'
  BY <1>2 DEF SendReply, PopPending, askVars, wakeVars
<1>3. CASE AnnounceClose \/ WakeStep
  BY <1>3 DEF AnnounceClose, WakeStep, CloseRegistration, Visit, Unlock, WakeOne, WakeDone, WakeGoto, askVars, replyVars
<1>4. CASE UNCHANGED pendingVars
  BY <1>4 DEF pendingVars, askVars, replyVars, wakeVars
<1>5. QED
  BY <1>1, <1>2, <1>3, <1>4 DEF AskNext

LEMMA DeliveryStep == AskTypes /\ Delivery /\ [AskNext]_pendingVars => Delivery'
<1> SUFFICES ASSUME AskTypes, Delivery, [AskNext]_pendingVars PROVE Delivery'
  OBVIOUS
<1> USE AskAssumption DEF AskTypes, Positions, Sent, Delivery, Waiting, Delivering, NoPendingLeak, OneDelivery
<1>1. ASSUME NEW a \in Asks, AskStep(a) \/ Timeout(a) PROVE Delivery'
  <2> USE DEF AskGoto, replyVars, wakeVars
  <2>1. CASE RLock(a) \/ CheckClosed(a)
    BY <2>1 DEF RLock, CheckClosed
  <2>2. CASE Insert(a) \/ Tell(a)
    BY <2>2 DEF Insert, Tell
  <2>3. CASE Receive(a) \/ Timeout(a)
    BY <2>3 DEF Receive, Timeout, Decode, Kinds
  <2>4. CASE Cancel(a)
    BY <2>4 DEF Cancel
  <2>5. QED
    BY <1>1, <2>1, <2>2, <2>3, <2>4 DEF AskStep
<1>2. ASSUME NEW r \in Repliers, SendReply(r) PROVE Delivery'
  BY <1>2 DEF SendReply, TrySend, askVars, wakeVars
<1>3. ASSUME NEW r \in Repliers, NEW a \in Asks, NEW k \in Kinds, PopPending(r, a, k) PROVE Delivery'
  <2>1. \A s \in Repliers \ {r} : carries'[s] = carries[s]
    BY <1>3 DEF PopPending
  <2>2. CASE a \in pending
    <3>1. carries'[r] # None /\ carries'[r].ask = a
      BY <1>3, <2>2 DEF PopPending
    <3>2. QED
      BY <1>3, <2>1, <2>2, <3>1 DEF PopPending, askVars, wakeVars
  <2>3. CASE a \notin pending
    BY <1>3, <2>1, <2>3 DEF PopPending, askVars, wakeVars
  <2>4. QED
    BY <2>2, <2>3
<1>4. CASE AnnounceClose \/ CloseRegistration \/ Unlock \/ WakeDone
  BY <1>4, SMTT(60) DEF AnnounceClose, CloseRegistration, Unlock, WakeDone, WakeGoto, askVars, replyVars
<1>5. ASSUME NEW a \in Asks, Visit(a) PROVE Delivery'
  BY <1>5, SMTT(60) DEF Visit, askVars, replyVars
<1>6. ASSUME NEW a \in Asks, WakeOne(a) PROVE Delivery'
  BY <1>6, SMTT(60) DEF WakeOne, WakeGoto, TrySend, Kinds, askVars, replyVars
<1>7. CASE UNCHANGED pendingVars
  BY <1>7 DEF pendingVars, askVars, replyVars, wakeVars
<1>8. QED
  BY <1>1, <1>2, <1>3, <1>4, <1>5, <1>6, <1>7 DEF AskNext, WakeStep

LEMMA AnswersStep == AskTypes /\ Delivery /\ Answers /\ [AskNext]_pendingVars => Answers'
<1> SUFFICES ASSUME AskTypes, Delivery, Answers, [AskNext]_pendingVars PROVE Answers'
  OBVIOUS
<1> USE AskAssumption DEF AskTypes, Positions, Answers, Answered, SuccessIsAnAnswer
<1>1. ASSUME NEW a \in Asks, AskStep(a) \/ Timeout(a) PROVE Answers'
  <2> USE DEF AskGoto, replyVars, wakeVars
  <2>1. CASE RLock(a) \/ CheckClosed(a)
    BY <2>1 DEF RLock, CheckClosed
  <2>2. CASE Insert(a) \/ Tell(a)
    BY <2>2 DEF Insert, Tell
  <2>3. CASE Receive(a) \/ Timeout(a)
    BY <2>3 DEF Receive, Timeout, Decode, Kinds
  <2>4. CASE Cancel(a)
    BY <2>4 DEF Cancel
  <2>5. QED
    BY <1>1, <2>1, <2>2, <2>3, <2>4 DEF AskStep
<1>2. ASSUME NEW r \in Repliers, SendReply(r) PROVE Answers'
  <2>1. carries[r] \in [ask : Asks, kind : Kinds]
    BY <1>2 DEF SendReply, Delivery
  <2>2. ASSUME NEW a \in Asks, Answered(a) PROVE Answered(a)'
    BY <1>2, <2>2 DEF SendReply, Answered
  <2>3. carries[r].kind = "T" => Answered(carries[r].ask)'
    BY <1>2, <2>1 DEF SendReply, Answered
  <2>4. QED
    BY <1>2, <2>1, <2>2, <2>3 DEF SendReply, TrySend, askVars, wakeVars
<1>3. ASSUME NEW r \in Repliers, NEW a \in Asks, NEW k \in Kinds, PopPending(r, a, k) PROVE Answers'
  BY <1>3 DEF PopPending, askVars, wakeVars
<1>4. CASE AnnounceClose \/ WakeStep
  BY <1>4, SMTT(60) DEF AnnounceClose, WakeStep, CloseRegistration, Visit, Unlock, WakeOne, WakeDone, WakeGoto, TrySend, Kinds, askVars, replyVars
<1>5. CASE UNCHANGED pendingVars
  BY <1>5 DEF pendingVars, askVars, replyVars, wakeVars
<1>6. QED
  BY <1>1, <1>2, <1>3, <1>4, <1>5 DEF AskNext

LEMMA SnapshotStep == AskInv /\ [AskNext]_pendingVars => Snapshot'
<1> SUFFICES ASSUME AskInv, [AskNext]_pendingVars PROVE Snapshot'
  OBVIOUS
<1> USE AskAssumption DEF AskInv, AskTypes, Positions, Snapshot, Waiting, WakeCovers, Served
<1>1. ASSUME NEW a \in Asks, AskStep(a) \/ Timeout(a) PROVE Snapshot'
  <2> USE DEF AskGoto, replyVars, wakeVars
  <2>1. CASE RLock(a) \/ CheckClosed(a)
    BY <2>1 DEF RLock, CheckClosed, Admission
  <2>2. CASE Insert(a) \/ Tell(a)
    BY <2>2 DEF Insert, Tell, Admission
  <2>3. CASE Receive(a) \/ Timeout(a)
    BY <2>3 DEF Receive, Timeout, Decode, Admission
  <2>4. CASE Cancel(a)
    BY <2>4 DEF Cancel, Admission
  <2>5. QED
    BY <1>1, <2>1, <2>2, <2>3, <2>4 DEF AskStep
<1>2. ASSUME NEW r \in Repliers, SendReply(r) PROVE Snapshot'
  BY <1>2 DEF Delivery, SendReply, TrySend, askVars, wakeVars
<1>3. ASSUME NEW r \in Repliers, NEW a \in Asks, NEW k \in Kinds, PopPending(r, a, k) PROVE Snapshot'
  <2>1. \A s \in Repliers \ {r} : carries'[s] = carries[s]
    BY <1>3 DEF PopPending
  <2>2. CASE a \in pending
    <3>1. carries'[r].ask = a
      BY <1>3, <2>2 DEF PopPending
    <3>2. QED
      BY <1>3, <2>1, <2>2, <3>1 DEF PopPending, askVars, wakeVars
  <2>3. CASE a \notin pending
    BY <1>3, <2>1, <2>3 DEF PopPending, askVars, wakeVars
  <2>4. QED
    BY <2>2, <2>3
<1>4. CASE AnnounceClose \/ WakeStep
  <2> USE DEF WakeGoto, askVars, replyVars
  <2>1. CASE AnnounceClose \/ CloseRegistration
    BY <2>1 DEF AnnounceClose, CloseRegistration
  <2>2. CASE Unlock \/ WakeDone
    BY <2>2 DEF Unlock, WakeDone, Admission
  <2>3. ASSUME NEW a \in Asks, Visit(a) PROVE Snapshot'
    BY <2>3 DEF Visit, Delivery, Delivering
  <2>4. ASSUME NEW a \in Asks, WakeOne(a) PROVE Snapshot'
    BY <2>4 DEF WakeOne, TrySend, Kinds
  <2>5. QED
    BY <1>4, <2>1, <2>2, <2>3, <2>4 DEF WakeStep
<1>5. CASE UNCHANGED pendingVars
  BY <1>5 DEF pendingVars, askVars, replyVars, wakeVars
<1>6. QED
  BY <1>1, <1>2, <1>3, <1>4, <1>5 DEF AskNext

\* The invariant holds in every reachable state of the ask table.
THEOREM AskInvariance == AskSpec => []AskInv
<1>1. AskInv /\ [AskNext]_pendingVars => AskInv'
  BY AskTypeStep, AdmissionStep, DeliveryStep, AnswersStep, SnapshotStep DEF AskInv
<1>2. QED
  BY AskInitInv, <1>1, PTL DEF AskSpec

\* wakePendingAsks overlooks no ask, for any number of asks and repliers.
THEOREM NobodyOverlooked == AskSpec => []WakeCovers
<1>1. AskInv => WakeCovers
  BY DEF AskInv, Snapshot
<1>2. QED
  BY AskInvariance, <1>1, PTL

\* cancelAsk leaves no entry behind.
THEOREM NoLeak == AskSpec => []NoPendingLeak
<1>1. AskInv => NoPendingLeak
  BY DEF AskInv, Delivery
<1>2. QED
  BY AskInvariance, <1>1, PTL

\* deliverReply gives the channel of a request to one caller.
THEOREM DeliveredOnce == AskSpec => []OneDelivery
<1>1. AskInv => OneDelivery
  BY DEF AskInv, Delivery
<1>2. QED
  BY AskInvariance, <1>1, PTL

\* awaitReply reports success only for an answer of the asked type.
THEOREM SuccessSound == AskSpec => []SuccessIsAnAnswer
<1>1. AskInv => SuccessIsAnAnswer
  BY DEF AskInv, Answers
<1>2. QED
  BY AskInvariance, <1>1, PTL

-----------------------------------------------------------------------------
(***************************************************************************)
(* Activation. A running instance holds the lock, and the lock hangs off   *)
(* the lease of the process it runs in, or off none, unless the node gave  *)
(* its lease up (HoldsLock): while the process is up its lease does not    *)
(* expire, and the shutdown revokes it only when it is drained. So of two  *)
(* instances one is on a node that gave its lease up, whatever activations *)
(* are in flight. That there are no two at all takes PromptActivation: by  *)
(* it nothing is on the way at the last poll of a drained node, and nothing*)
(* comes later, because the flag is set (DrainedStays).                    *)
(***************************************************************************)

\* An instance that owns the registration holds the lock through its process's lease, as long as
\* its node has not given that up.
HoldsLock(n) ==
  owned[n] => /\ inst[n] \in {"starting", "started", "stopping"}
              /\ \/ Released(n)
                 \/ /\ lock # NoKey /\ lock.node = n
                    /\ lock.lease \in {<<n, boot[n]>>, NoLease}

\* A process that does not run has no instance and no shutdown.
DownIsEmpty(n) == ~up[n] => ~owned[n] /\ inst[n] = "none" /\ activator[n] = "idle"

\* An activation in flight found no instance.
ProducesOne(n) == activator[n] = "producing" => inst[n] = "none"

\* What a node's own state says of it and of the lock.
NodeInv(n) == HoldsLock(n) /\ DownIsEmpty(n) /\ ProducesOne(n)

\* The inductive invariant.
ActivationInv == ActivationTypes /\ \A n \in Nodes : NodeInv(n)

\* The flag is set for the whole shutdown.
DrainFlag(n) == stopper[n] # "serving" => draining[n]

\* A drained node past its polls has no instance and none on the way.
DrainedStays(n) ==
  stopper[n] \in {"release", "zeroed", "closed"} /\ drained[n]
    => inst[n] = "none" /\ activator[n] = "idle"

\* What prompt activations add to the inductive invariant.
DrainInv == \A n \in Nodes : DrainFlag(n) /\ DrainedStays(n)

-----------------------------------------------------------------------------
\* ActivationInit has the inductive invariant.
LEMMA InitEstablishes == ActivationInit => ActivationInv
  BY ActivationAssumption, SMTT(30)
  DEF ActivationInit, ActivationInv, ActivationTypes, NodeInv, HoldsLock, DownIsEmpty, ProducesOne

\* A step of a node keeps every variable in its type.
LEMMA NodeStepType ==
  ASSUME ActivationTypes, NEW n \in Nodes, NodeStep(n)
  PROVE  ActivationTypes'
  <1> USE ActivationAssumption DEF ActivationTypes, etcdVars, nodeVars, stopVars, instVars
  <1>1. CASE Boot(n)
    BY <1>1, SMTT(30) DEF Boot
  <1>2. CASE Down(n)
    BY <1>2, SMTT(30) DEF Down
  <1>3. CASE Ensure(n)
    BY <1>3, SMTT(30) DEF Ensure
  <1>4. CASE Publish(n)
    BY <1>4, SMTT(30) DEF Publish
  <1>5. CASE Acquire(n)
    BY <1>5, SMTT(30) DEF Acquire, ClientOpen, Creates, LeaseOf, NoLease
  <1>6. CASE AcquireFails(n)
    BY <1>6, SMTT(30) DEF AcquireFails, ClientOpen, Creates, LeaseOf, NoLease, Retries
  <1>7. CASE StartedEnds(n)
    BY <1>7, SMTT(30) DEF StartedEnds
  <1>8. CASE Poison(n)
    BY <1>8, SMTT(30) DEF Poison
  <1>9. CASE StopBegins(n)
    BY <1>9, SMTT(30) DEF StopBegins
  <1>10. CASE Unregister(n)
    BY <1>10, SMTT(30) DEF Unregister
  <1>11. CASE Remove(n)
    BY <1>11, SMTT(30) DEF Remove
  <1>12. CASE BeginDrain(n)
    BY <1>12, SMTT(30) DEF BeginDrain
  <1>13. CASE PollEmpty(n)
    BY <1>13, SMTT(30) DEF PollEmpty, NextPhase
  <1>14. CASE PollClaims(n)
    <2>1. CASE round[n] < MaxRounds
      <3>1. round' = [round EXCEPT ![n] = @ + 1] /\ round[n] + 1 \in 1..MaxRounds
        BY <1>14, <2>1 DEF PollClaims
      <3> QED  BY <1>14, <2>1, <3>1 DEF PollClaims
    <2>2. CASE ~(round[n] < MaxRounds)
      <3>1. NextPhase(n) \in {"latter", "release"}  BY DEF NextPhase
      <3>2. /\ round' = [round EXCEPT ![n] = 1]
            /\ stopper' = [stopper EXCEPT ![n] = NextPhase(n)]
            /\ drained' = [drained EXCEPT ![n] = FALSE]
            /\ stopRequested' = [stopRequested EXCEPT ![n] = TRUE]
            /\ UNCHANGED <<etcdVars, nodeVars, draining, activator, inst, attempts, owned>>
        BY <1>14, <2>2 DEF PollClaims
      <3> QED  BY <3>1, <3>2
    <2> QED  BY <2>1, <2>2
  <1>15. CASE ReleaseLease(n)
    BY <1>15, SMTT(30) DEF ReleaseLease, Drop
  <1>16. CASE CloseClient(n)
    BY <1>16, SMTT(30) DEF CloseClient
  <1> QED
    BY <1>1, <1>2, <1>3, <1>4, <1>5, <1>6, <1>7, <1>8, <1>9, <1>10, <1>11, <1>12, <1>13,
       <1>14, <1>15, <1>16
    DEF NodeStep, Activation, StopperStep

\* etcd's expiry of a lease keeps every variable in its type.
LEMMA ExpiryType == ASSUME ActivationTypes, NEW l \in leases, LeaseExpires(l) PROVE ActivationTypes'
  BY DEF ActivationTypes, LeaseExpires, Drop, etcdVars, nodeVars, stopVars, instVars

\* A step that moves only m's shutdown, and does not take back that the lease was given up.
LEMMA KeepsLock ==
  ASSUME ActivationInv, NEW m \in Nodes, UNCHANGED <<lock, boot, up, inst, owned, activator>>,
         Released(m) => Released(m)'
  PROVE  NodeInv(m)'
  BY DEF ActivationInv, NodeInv, HoldsLock, DownIsEmpty, ProducesOne

\* The steps of a shutdown that do not touch the lease are such steps.
LEMMA ShutdownStep ==
  ASSUME ActivationTypes, NEW n \in Nodes, NEW m \in Nodes,
         BeginDrain(n) \/ PollEmpty(n) \/ PollClaims(n) \/ CloseClient(n)
  PROVE  /\ UNCHANGED <<lock, boot, up, inst, owned, activator>>
         /\ Released(m) => Released(m)'
  <1>1. UNCHANGED <<lock, boot, up, inst, owned, activator>>
    BY DEF BeginDrain, PollEmpty, PollClaims, CloseClient, etcdVars, nodeVars, instVars
  <1>2. m # n => stopper'[m] = stopper[m] /\ drained'[m] = drained[m]
    BY DEF ActivationTypes, BeginDrain, PollEmpty, PollClaims, CloseClient, stopVars
  <1>3. ~Released(n) \/ (stopper'[n] = "closed" /\ drained'[n] = drained[n])
    BY DEF ActivationTypes, BeginDrain, PollEmpty, PollClaims, CloseClient, Released
  <1>4. m # n => (Released(m) => Released(m)')
    BY <1>2, Zenon DEF Released
  <1>5. m = n => (Released(m) => Released(m)')
    BY <1>3, Zenon DEF Released
  <1> QED  BY <1>1, <1>4, <1>5

\* A step of node n keeps what NodeInv says of every node m.
LEMMA NodeStepInv ==
  ASSUME ActivationInv, NEW n \in Nodes, NodeStep(n), NEW m \in Nodes
  PROVE  NodeInv(m)'
  <1> USE ActivationAssumption
      DEF ActivationInv, ActivationTypes, NodeInv, HoldsLock, Released, DownIsEmpty, ProducesOne,
          etcdVars, nodeVars, stopVars, instVars
  <1>1. CASE Boot(n)
    BY <1>1, SMTT(30) DEF Boot
  <1>2. CASE Down(n)
    BY <1>2, SMTT(30) DEF Down
  <1>3. CASE Ensure(n)
    BY <1>3, SMTT(30) DEF Ensure
  <1>4. CASE Publish(n)
    BY <1>4, SMTT(30) DEF Publish
  <1>5. CASE Acquire(n)
    BY <1>5, SMTT(30) DEF Acquire, ClientOpen, Creates, LeaseOf, NoLease
  <1>6. CASE AcquireFails(n)
    BY <1>6, SMTT(30) DEF AcquireFails, ClientOpen, Creates, LeaseOf, NoLease, Retries
  <1>7. CASE StartedEnds(n)
    BY <1>7, SMTT(30) DEF StartedEnds
  <1>8. CASE Poison(n)
    BY <1>8, SMTT(30) DEF Poison
  <1>9. CASE StopBegins(n)
    BY <1>9, SMTT(30) DEF StopBegins
  <1>10. CASE Unregister(n)
    BY <1>10, SMTT(30) DEF Unregister, ClientOpen
  <1>11. CASE Remove(n)
    BY <1>11, SMTT(30) DEF Remove
  <1>12. CASE BeginDrain(n) \/ PollEmpty(n) \/ PollClaims(n) \/ CloseClient(n)
    BY <1>12, ShutdownStep, KeepsLock, Zenon
  <1>13. CASE ReleaseLease(n)
    BY <1>13, SMTT(60) DEF ReleaseLease, Drop, NoLease
  <1> QED
    BY <1>1, <1>2, <1>3, <1>4, <1>5, <1>6, <1>7, <1>8, <1>9, <1>10, <1>11, <1>12, <1>13
    DEF NodeStep, Activation, StopperStep

\* An expiry takes no lock from a running instance: its process is up and has this lease.
LEMMA ExpiryInv ==
  ASSUME ActivationInv, NEW l \in leases, LeaseExpires(l), NEW m \in Nodes
  PROVE  NodeInv(m)'
  BY ActivationAssumption, SMTT(30)
  DEF ActivationInv, ActivationTypes, NodeInv, HoldsLock, Released, DownIsEmpty, ProducesOne,
      LeaseExpires, Drop, NoLease, etcdVars, nodeVars, stopVars, instVars

\* A step that changes no variable keeps the invariant.
LEMMA StutterInv == ActivationInv /\ UNCHANGED activationVars => ActivationInv'
  BY DEF ActivationInv, ActivationTypes, NodeInv, HoldsLock, Released, DownIsEmpty, ProducesOne,
         activationVars, etcdVars, nodeVars, stopVars, instVars

\* Every step keeps the inductive invariant.
LEMMA InvPreserved ==
  ASSUME ActivationInv, [ActivationNext]_activationVars
  PROVE  ActivationInv'
  <1>1. CASE \E n \in Nodes : NodeStep(n)
    <2>1. PICK n \in Nodes : NodeStep(n)  BY <1>1
    <2>2. ActivationTypes'  BY <2>1, NodeStepType DEF ActivationInv
    <2>3. ASSUME NEW m \in Nodes PROVE NodeInv(m)'  BY <2>1, NodeStepInv
    <2> QED  BY <2>2, <2>3 DEF ActivationInv
  <1>2. CASE \E l \in leases : LeaseExpires(l)
    <2>1. PICK l \in leases : LeaseExpires(l)  BY <1>2
    <2>2. ActivationTypes'  BY <2>1, ExpiryType DEF ActivationInv
    <2>3. ASSUME NEW m \in Nodes PROVE NodeInv(m)'  BY <2>1, ExpiryInv
    <2> QED  BY <2>2, <2>3 DEF ActivationInv
  <1>3. CASE UNCHANGED activationVars
    BY <1>3, StutterInv
  <1> QED  BY <1>1, <1>2, <1>3 DEF ActivationNext

\* The inductive invariant holds throughout, however long activations take.
THEOREM InvHolds == ActivationSpec => []ActivationInv
  <1>1. ActivationInv /\ [ActivationNext]_activationVars => ActivationInv'
    BY InvPreserved
  <1> QED  BY <1>1, InitEstablishes, PTL DEF ActivationSpec

\* With prompt activations, a step of node n keeps what DrainInv says of every node m.
LEMMA NodeStepDrain ==
  ASSUME PromptActivation, ActivationInv, DrainInv, NEW n \in Nodes, NodeStep(n), NEW m \in Nodes
  PROVE  DrainFlag(m)' /\ DrainedStays(m)'
  <1> USE DEF ActivationInv, ActivationTypes, NodeInv, DownIsEmpty, DrainInv, DrainFlag, DrainedStays,
              etcdVars, nodeVars, stopVars, instVars
  <1>1. CASE Boot(n) \/ Down(n)
    BY <1>1, SMTT(30) DEF Boot, Down
  <1>2. CASE Ensure(n) \/ Publish(n)
    BY <1>2, SMTT(30) DEF Ensure, Publish
  <1> DEFINE Lives == inst[n] # "none" /\ (m # n => inst'[m] = inst[m]) /\ UNCHANGED <<stopVars, activator>>
  <1>3. CASE Acquire(n) \/ AcquireFails(n) \/ StartedEnds(n)
    <2>1. Lives
      BY <1>3 DEF Acquire, AcquireFails, StartedEnds
    <2> QED  BY <2>1
  <1>4. CASE Poison(n) \/ StopBegins(n) \/ Unregister(n) \/ Remove(n)
    <2>1. Lives
      BY <1>4 DEF Poison, StopBegins, Unregister, Remove
    <2> QED  BY <2>1
  <1>5. CASE BeginDrain(n)
    BY <1>5, SMTT(30) DEF BeginDrain
  <1>6. CASE PollEmpty(n)
    BY <1>6, SMTT(30) DEF PollEmpty, Claims, NextPhase
  <1>7. CASE PollClaims(n)
    BY <1>7, SMTT(30) DEF PollClaims, Claims, NextPhase
  <1>8. CASE ReleaseLease(n) \/ CloseClient(n)
    BY <1>8, SMTT(30) DEF ReleaseLease, CloseClient
  <1> QED
    BY <1>1, <1>2, <1>3, <1>4, <1>5, <1>6, <1>7, <1>8 DEF NodeStep, Activation, StopperStep

\* With prompt activations, every step keeps DrainInv.
LEMMA DrainPreserved ==
  ASSUME PromptActivation, ActivationInv, DrainInv, [ActivationNext]_activationVars
  PROVE  DrainInv'
  <1>1. CASE \E n \in Nodes : NodeStep(n)
    BY <1>1, NodeStepDrain DEF DrainInv
  <1>2. CASE (\E l \in leases : LeaseExpires(l)) \/ UNCHANGED activationVars
    BY <1>2 DEF LeaseExpires, DrainInv, DrainFlag, DrainedStays, activationVars, stopVars, instVars
  <1> QED  BY <1>1, <1>2 DEF ActivationNext

-----------------------------------------------------------------------------
\* Every variable keeps its type, and registration attempts and drain polls their bounds.
THEOREM TypeHolds == ActivationSpec => []ActivationTypes
  <1>1. ActivationInit => ActivationTypes  BY InitEstablishes DEF ActivationInv
  <1>2. ActivationTypes /\ [ActivationNext]_activationVars => ActivationTypes'
    <2> SUFFICES ASSUME ActivationTypes, [ActivationNext]_activationVars PROVE ActivationTypes'  OBVIOUS
    <2>1. CASE UNCHANGED activationVars
      BY <2>1 DEF ActivationTypes, activationVars, etcdVars, nodeVars, stopVars, instVars
    <2> QED  BY <2>1, NodeStepType, ExpiryType DEF ActivationNext
  <1> QED  BY <1>1, <1>2, PTL DEF ActivationSpec

(***************************************************************************)
(* However activations are timed, if the actor runs on two nodes then one  *)
(* of them gave its lease up after stopActors reported that nothing was    *)
(* left (releaseEtcd). Crashes, restarts, lost etcd answers and shutdowns  *)
(* that did not drain never get there (the lock of kind_opts.go,           *)
(* provider_etcd.go's lease), given that a running process's lease does not*)
(* expire under it (LeaseExpires).                                         *)
(***************************************************************************)
THEOREM TwiceOnlyAfterReleaseHolds == ActivationSpec => []TwiceOnlyAfterRelease
  <1>1. ActivationInv => TwiceOnlyAfterRelease
    BY DEF ActivationInv, NodeInv, HoldsLock, TwiceOnlyAfterRelease, Running
  <1> QED  BY <1>1, InvHolds, PTL

(***************************************************************************)
(* If every activation that looked at the draining flag before it was set  *)
(* publishes its actor before stopActors' last poll (PromptActivation,     *)
(* which nothing in ensureClusterKindActorExist enforces), the actor runs  *)
(* on one node at a time, whatever the number of nodes, crashes, restarts, *)
(* lost etcd answers and shutdowns (again while running processes keep     *)
(* their leases). Without it the actor can run twice: the run              *)
(* activation_late.                                                        *)
(***************************************************************************)
THEOREM SingleActivationHolds == PromptActivation /\ ActivationSpec => []SingleActivation
  <1>1. ActivationInit => DrainInv
    BY DEF ActivationInit, DrainInv, DrainFlag, DrainedStays
  <1>2. DrainInv /\ TwiceOnlyAfterRelease => SingleActivation
    BY DEF DrainInv, DrainedStays, TwiceOnlyAfterRelease, SingleActivation, Released, Running
  <1>3. CASE PromptActivation
    <2>1. ActivationInv /\ DrainInv /\ [ActivationNext]_activationVars => DrainInv'
      BY <1>3, DrainPreserved
    <2> QED  BY <2>1, <1>1, <1>2, InvHolds, TwiceOnlyAfterReleaseHolds, PTL DEF ActivationSpec
  <1>4. CASE ~PromptActivation
    BY <1>4
  <1> QED  BY <1>3, <1>4
=============================================================================
