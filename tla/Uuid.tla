-------------------------------- MODULE Uuid --------------------------------
(***************************************************************************)
(* The id generator, uuid/uuid.go: a millisecond, a node id and a step,    *)
(* packed into one word. Field widths are parameters, and the word wraps   *)
(* as a uint64 does. Every node id has at most one generator at a time (the*)
(* claim on the id in etcd, module Membership). A restart replaces it at   *)
(* any time, by one that starts from the wall clock, right or wrong, and   *)
(* knows nothing of what was issued before. Generate holds a mutex, so     *)
(* calls are steps; a call that has used up the steps of its millisecond   *)
(* keeps the mutex until the clock moves on.                               *)
(***************************************************************************)
EXTENDS Integers

CONSTANTS
  TimeBits, NodeBits, StepBits,
  Epoch,     \* epoch
  Skews,     \* what the wall clock may be off by when a process starts
  MaxMs,     \* bound: the last millisecond
  MaxIds,    \* bound: ids issued
  NoGen      \* no process has this node id

NodeMax == 2^NodeBits - 1
TimeShift == NodeBits + StepBits
TotalBits == TimeBits + TimeShift
NodeIds == 0..NodeMax + 1     \* what config may ask for

\* A generator, as its fields.
Generators ==
  [baseWall : Nat, baseMono : Nat, timestamp : Nat, step : 0 .. 2^StepBits - 1, waiting : BOOLEAN]

\* The widths are widths and powers of two multiply; no clock runs past the time field ("42 bits of
\* milliseconds = 139.4 years, used up in 2164-05", uuid.go).
ASSUME UuidAssumption ==
  /\ {2^TimeBits, 2^NodeBits, 2^StepBits} \subseteq Nat \ {0}
  /\ 2^TimeShift = 2^NodeBits * 2^StepBits
  /\ 2^TotalBits = 2^TimeBits * 2^TimeShift
  /\ Epoch \in Nat /\ MaxMs \in Nat /\ MaxMs < 2^TimeBits
  /\ \A s \in Skews : s \in Int /\ MaxMs + s - Epoch < 2^TimeBits
  /\ NoGen \notin Generators

VARIABLES
  ms,        \* the real time
  gen,       \* per node id: its generator, or NoGen
  ids,       \* history: ids issued by anyone, ever
  issued,    \* history: how many
  until,     \* history, per node id: the latest time its earlier processes' clocks have shown, or -1
  reused     \* history: ids issued though they had been before: when, by a process that started
             \* at which time, and what until was then

uuidVars == <<ms, gen, ids, issued, until, reused>>

UuidInit ==
  /\ ms = 0
  /\ gen = [n \in NodeIds |-> NoGen]
  /\ ids = {} /\ issued = 0
  /\ until = [n \in NodeIds |-> -1] /\ reused = {}

Shl(x, k) == (x * 2^k) % 2^TotalBits

\* nowMs: the wall clock sampled once, advanced by the monotonic clock.
NowMs(n) == gen[n].baseWall + (ms - gen[n].baseMono)

BaseWall(wall) == IF wall < Epoch THEN Epoch ELSE wall

\* NewUUID, in a new process. A node id too large is refused.
NewUUID(n, skew) ==
  /\ n <= NodeMax
  /\ gen' = [gen EXCEPT ![n] = [baseWall |-> BaseWall(ms + skew), baseMono |-> ms,
                                timestamp |-> 0, step |-> 0, waiting |-> FALSE]]
  /\ until' = [until EXCEPT ![n] = IF gen[n] # NoGen /\ NowMs(n) > @ THEN NowMs(n) ELSE @]
  /\ UNCHANGED <<ms, ids, issued, reused>>

\* The time field is an unsigned difference.
Pack(n, now, step) ==
  Shl((now - Epoch) % 2^TotalBits, TimeShift) + Shl(n, StepBits) + step

Issue(n, now, step) ==
  /\ gen' = [gen EXCEPT ![n].timestamp = now, ![n].step = step, ![n].waiting = FALSE]
  /\ ids' = ids \cup {Pack(n, now, step)}
  /\ issued' = issued + 1
  /\ reused' = IF Pack(n, now, step) \notin ids THEN reused
               ELSE reused \cup {[at |-> now, base |-> gen[n].baseWall, until |-> until[n]]}
  /\ UNCHANGED <<ms, until>>

\* Generate: a new step of this millisecond, a new millisecond, or a wait for the next one.
Generate(n) ==
  LET g == gen[n]
      now == IF NowMs(n) < g.timestamp THEN g.timestamp ELSE NowMs(n)
      step == (g.step + 1) % 2^StepBits IN
  /\ g # NoGen /\ ~g.waiting /\ issued < MaxIds
  /\ IF now # g.timestamp THEN Issue(n, now, 0)
     ELSE IF step # 0 THEN Issue(n, now, step)
     ELSE /\ gen' = [gen EXCEPT ![n].step = 0, ![n].waiting = TRUE]
          /\ UNCHANGED <<ms, ids, issued, until, reused>>

\* Mutant: the next millisecond is borrowed instead.
WaitOverBorrows(n) ==
  /\ gen[n] # NoGen /\ gen[n].waiting
  /\ Issue(n, gen[n].timestamp + 1, 0)

WaitOver(n) ==
  /\ gen[n] # NoGen /\ gen[n].waiting
  /\ NowMs(n) > gen[n].timestamp
  /\ Issue(n, NowMs(n), 0)

ClockTick == ms < MaxMs /\ ms' = ms + 1 /\ UNCHANGED <<gen, ids, issued, until, reused>>

UuidNext ==
  \/ \E n \in NodeIds : Generate(n) \/ WaitOver(n) \/ \E s \in Skews : NewUUID(n, s)
  \/ ClockTick

UuidSpec == UuidInit /\ [][UuidNext]_uuidVars

-----------------------------------------------------------------------------
(***************************************************************************)
(* "Waiting keeps timestamp <= real clock, so a restart can at worst       *)
(* re-enter this millisecond" (uuid_clock_test.go): an id is issued again  *)
(* only by a process that took a node id over, and only in milliseconds    *)
(* that its clock shows a second time, from where it started to where its  *)
(* predecessors' clocks stood when they were replaced. So one process, two *)
(* nodes, and a process that starts on a later clock repeat nothing.       *)
(***************************************************************************)
ReuseOnlyInReenteredTime == \A r \in reused : r.base <= r.at /\ r.at <= r.until
=============================================================================
