------------------------------- MODULE Spawn -------------------------------
(***************************************************************************)
(* Creating actors on one node: processorCreator's per-id reservation, the *)
(* two spawn policies (processor_spawn.go) and the registry (registry.go). *)
(*                                                                         *)
(* A creator is a goroutine in spawnNewProcessor or getOrSpawnProcessor; it*)
(* may come back with another call. Slots and instances are heap objects:  *)
(* one that nobody refers to can be allocated again. The sections under    *)
(* processorCreator.mu call nothing, so each is one step.                  *)
(***************************************************************************)
EXTENDS Integers, FiniteSets

CONSTANTS Ids, Creators, Slots, Instances, Nil

ASSUME SpawnAssumption ==
  /\ IsFiniteSet(Creators)
  /\ Nil \notin Ids \cup Slots \cup Instances \cup Creators

VARIABLES
  active,    \* processorCreator.active: the slot reserved for an id
  users,     \* per slot: creators that use it or wait for it
  holder,    \* per slot: who holds its mutex
  processes, \* the registry
  pc,        \* per creator: position
  id, slot, proc  \* per creator: its arguments and locals

slotVars == <<active, users, holder>>
locals   == <<id, slot, proc>>
spawnVars == <<slotVars, processes, pc, locals>>

SpawnInit ==
  /\ active = [i \in Ids |-> Nil]
  /\ users = [s \in Slots |-> 0]
  /\ holder = [s \in Slots |-> Nil]
  /\ processes = [i \in Ids |-> Nil]
  /\ pc = [c \in Creators |-> "idle"]
  /\ id = [c \in Creators |-> Nil]
  /\ slot = [c \in Creators |-> Nil]
  /\ proc = [c \in Creators |-> Nil]

Step(c, l, k) == pc[c] = l /\ pc' = [pc EXCEPT ![c] = k]

-----------------------------------------------------------------------------
(* The calls. Only getOrSpawnProcessor looks before it reserves. *)

SpawnNew(c, i) ==
  /\ Step(c, "idle", "reserve")
  /\ id' = [id EXCEPT ![c] = i]
  /\ UNCHANGED <<slotVars, processes, slot, proc>>

GetOrSpawn(c, i) ==
  /\ Step(c, "idle", "hit")
  /\ id' = [id EXCEPT ![c] = i]
  /\ UNCHANGED <<slotVars, processes, slot, proc>>

Hit(c) ==
  /\ Step(c, "hit", IF processes[id[c]] # Nil THEN "idle" ELSE "reserve")
  /\ UNCHANGED <<slotVars, processes, locals>>

-----------------------------------------------------------------------------
(* processorCreator.lock and unlock *)

FreshSlots == {s \in Slots : (\A c \in Creators : slot[c] # s) /\ \A i \in Ids : active[i] # s}

\* Find or make the slot of the id, and count its users.
Reserve(c) ==
  /\ Step(c, "reserve", "lock")
  /\ \E s \in IF active[id[c]] # Nil THEN {active[id[c]]} ELSE FreshSlots :
       /\ active' = [active EXCEPT ![id[c]] = s]
       /\ users' = [users EXCEPT ![s] = IF active[id[c]] = s THEN @ + 1 ELSE 1]
       /\ slot' = [slot EXCEPT ![c] = s]
  /\ UNCHANGED <<holder, processes, id, proc>>

\* Mutant: nobody takes the slot's mutex.
LockNothing(c) ==
  /\ Step(c, "lock", "lookup")
  /\ UNCHANGED <<slotVars, processes, locals>>

LockSlot(c) ==
  /\ Step(c, "lock", "lookup")
  /\ holder[slot[c]] = Nil
  /\ holder' = [holder EXCEPT ![slot[c]] = c]
  /\ UNCHANGED <<active, users, processes, locals>>

UnlockSlot(c) ==
  /\ Step(c, "unlock", "release")
  /\ holder' = [holder EXCEPT ![slot[c]] = Nil]
  /\ UNCHANGED <<active, users, processes, locals>>

Release(c) ==
  /\ Step(c, "release", "idle")
  /\ users' = [users EXCEPT ![slot[c]] = @ - 1]
  /\ active' = IF users[slot[c]] = 1 THEN [active EXCEPT ![id[c]] = Nil] ELSE active
  /\ slot' = [slot EXCEPT ![c] = Nil]
  /\ UNCHANGED <<holder, processes, id, proc>>

-----------------------------------------------------------------------------
(* Under the reservation *)

\* Mutant: no second lookup before building.
LookupNothing(c) ==
  /\ Step(c, "lookup", "build")
  /\ UNCHANGED <<slotVars, processes, locals>>

\* spawnNewProcessor reports ErrNameExists, getOrSpawnProcessor returns the instance.
Lookup(c) ==
  /\ Step(c, "lookup", IF processes[id[c]] # Nil THEN "unlock" ELSE "build")
  /\ UNCHANGED <<slotVars, processes, locals>>

FreshInstances ==
  {p \in Instances : (\A c \in Creators : proc[c] # p) /\ \A i \in Ids : processes[i] # p}

\* Mutant: a producer that panics is tried again.
BuildRetries(c) ==
  /\ \/ Step(c, "build", "register") /\ \E p \in FreshInstances : proc' = [proc EXCEPT ![c] = p]
     \/ Step(c, "build", "lookup") /\ UNCHANGED proc
  /\ UNCHANGED <<slotVars, processes, id, slot>>

\* buildProcessor runs the user's producer, which may panic; unlock is deferred.
Build(c) ==
  /\ \/ Step(c, "build", "register") /\ \E p \in FreshInstances : proc' = [proc EXCEPT ![c] = p]
     \/ Step(c, "build", "unlock") /\ UNCHANGED proc
  /\ UNCHANGED <<slotVars, processes, id, slot>>

\* registry.register: SetIfNotExist.
Register(c) ==
  LET inserted == processes[id[c]] = Nil IN
  /\ Step(c, "register", IF inserted THEN "init" ELSE "unlock")
  /\ processes' = IF inserted THEN [processes EXCEPT ![id[c]] = proc[c]] ELSE processes
  /\ proc' = IF inserted THEN proc ELSE [proc EXCEPT ![c] = Nil]
  /\ UNCHANGED <<slotVars, id, slot>>

\* proc.init() schedules the first drain; the creator then lets go of the instance.
InitProc(c) ==
  /\ Step(c, "init", "unlock")
  /\ proc' = [proc EXCEPT ![c] = Nil]
  /\ UNCHANGED <<slotVars, processes, id, slot>>

\* lifecycle.stop of a published actor, which a message may start before init() does.
RemoveProcess(i) ==
  /\ processes[i] # Nil
  /\ processes' = [processes EXCEPT ![i] = Nil]
  /\ UNCHANGED <<slotVars, pc, locals>>

-----------------------------------------------------------------------------
CreatorStep(c) ==
  \/ Hit(c) \/ Reserve(c) \/ LockSlot(c) \/ Lookup(c) \/ Build(c) \/ Register(c) \/ InitProc(c)
  \/ UnlockSlot(c) \/ Release(c)

SpawnNext ==
  \/ \E c \in Creators : CreatorStep(c) \/ \E i \in Ids : SpawnNew(c, i) \/ GetOrSpawn(c, i)
  \/ \E i \in Ids : RemoveProcess(i)

SpawnSpec == SpawnInit /\ [][SpawnNext]_spawnVars

\* Producers return or panic, and sync.Mutex hands over to a starving waiter.
SpawnFairness == \A c \in Creators : WF_spawnVars(CreatorStep(c)) /\ SF_spawnVars(LockSlot(c))

SpawnFairSpec == SpawnSpec /\ SpawnFairness

-----------------------------------------------------------------------------
\* The creators that refer to slot s, and those between lock and unlock.
Users(s) == {c \in Creators : slot[c] = s}
Inside(c) == pc[c] \in {"lookup", "build", "register", "init", "unlock"}

\* Every variable has the type of its counterpart in the code.
SpawnTypes ==
  /\ active \in [Ids -> Slots \cup {Nil}]
  /\ users \in [Slots -> Int]
  /\ holder \in [Slots -> Creators \cup {Nil}]
  /\ processes \in [Ids -> Instances \cup {Nil}]
  /\ pc \in [Creators -> {"idle", "hit", "reserve", "lock", "lookup", "build", "register",
                          "init", "unlock", "release"}]
  /\ id \in [Creators -> Ids \cup {Nil}]
  /\ slot \in [Creators -> Slots \cup {Nil}]
  /\ proc \in [Creators -> Instances \cup {Nil}]

(***************************************************************************)
(* One id is under construction by one creator, across both spawn policies,*)
(* although slots come and go while creators queue for them.               *)
(***************************************************************************)
OneCreator == \A c, d \in Creators : Inside(c) /\ Inside(d) /\ id[c] = id[d] => c = d

(***************************************************************************)
(* No actor instance is built in vain: the id is free from the second      *)
(* lookup until the instance is published, so register never finds another *)
(* instance and no producer ran for an instance that is thrown away.       *)
(***************************************************************************)
NoUnusedInstance ==
  \A c \in Creators : pc[c] \in {"build", "register"} => processes[id[c]] = Nil

(***************************************************************************)
(* Reservations neither leak nor vanish early: an id has a slot exactly    *)
(* while creators use or wait for it, and the slot counts them.            *)
(***************************************************************************)
SlotAccounting ==
  /\ \A s \in Slots : users[s] = Cardinality(Users(s))
  /\ \A i \in Ids : active[i] # Nil => Users(active[i]) # {}
  /\ \A c \in Creators : slot[c] # Nil => active[id[c]] = slot[c]

(***************************************************************************)
(* Every spawn call returns, also when producers panic.                    *)
(***************************************************************************)
SpawnReturns == \A c \in Creators : (pc[c] # "idle") ~> (pc[c] = "idle")
=============================================================================
