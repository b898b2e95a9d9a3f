----------------------------- MODULE ShardedMap -----------------------------
(***************************************************************************)
(* The concurrent map of al/safemap/concurrentmap.go and registry.rangeIt  *)
(* over it: keyed operations lock the shard of their key; an iteration     *)
(* read-locks the shards, one after the other (IterCb) or each in a        *)
(* goroutine of its own (snapshot, under IterBuffered and Clear), while    *)
(* keyed operations go on. sync.RWMutex: a waiting writer keeps new readers*)
(* out, and readers that waited enter when it unlocks.                     *)
(***************************************************************************)
EXTENDS Naturals, FiniteSets

CONSTANTS
  Shards,   \* 1 .. ShardCount
  Keys,
  GetShard, \* key -> shard
  Values,
  Absent    \* no entry

ASSUME ShardAssumption == GetShard \in [Keys -> Shards]

VARIABLES
  entries,  \* key -> value or Absent
  waiting,  \* the key whose writer waits for its shard's write lock, if any
  iter,     \* what iterates: "none", "range", "buffered" or "clear"
  visit,    \* per shard: "todo", "waiting" (for the read lock), "reading" or "done"
  taken,    \* the entries the iteration has collected
  todo,     \* of these, the ones the caller has not processed
  steady,   \* history: entries present ever since the iteration began
  sometime      \* history: entries present at some time since

mapVars == <<entries, waiting, iter, visit, taken, todo, steady, sometime>>

Pairs(e) == {<<k, e[k]>> : k \in {j \in Keys : e[j] # Absent}}

Stores == {"Set", "SetIfNotExist", "SetIfAbsent", "Upsert"}
Removals == {"Remove", "RemoveCb", "Pop"}

MapInit ==
  /\ entries = [k \in Keys |-> Absent] /\ waiting = {}
  /\ iter = "none" /\ visit = [s \in Shards |-> "done"]
  /\ taken = {} /\ todo = {} /\ steady = {} /\ sometime = {}

-----------------------------------------------------------------------------
(* Keyed operations *)

\* What a storing operation leaves under its key. Upsert's callback picks the new value.
Stored(op, old, v) == IF op \in {"SetIfNotExist", "SetIfAbsent"} /\ old # Absent THEN old ELSE v

\* What a removal leaves. RemoveCb's callback (registry.remove) asks for the expected value.
Removed(op, old, v) == IF op = "RemoveCb" /\ old # v THEN old ELSE Absent

\* The history of the entries while something iterates.
Remembers ==
  /\ steady' = steady \cap Pairs(entries')
  /\ sometime' = IF iter = "none" THEN {} ELSE sometime \cup Pairs(entries')

\* A writer calls Lock on its key's shard.
Lock(k) ==
  /\ waiting = {} /\ waiting' = {k}
  /\ UNCHANGED <<entries, iter, visit, taken, todo, steady, sometime>>

\* It has the lock, writes, and unlocks; readers that waited get the read lock.
Write(k) ==
  /\ k \in waiting /\ visit[GetShard[k]] # "reading"
  /\ \E v \in Values :
       \/ \E op \in Stores : entries' = [entries EXCEPT ![k] = Stored(op, @, v)]
       \/ \E op \in Removals : entries' = [entries EXCEPT ![k] = Removed(op, @, v)]
  /\ Remembers
  /\ waiting' = {}
  /\ visit' = [visit EXCEPT ![GetShard[k]] = IF @ = "waiting" THEN "reading" ELSE @]
  /\ UNCHANGED <<iter, taken, todo>>

\* A read lock on s is granted at once.
MayRead(s) == \A k \in waiting : GetShard[k] # s

-----------------------------------------------------------------------------
(* Iterations *)

Begin(kind) ==
  /\ iter = "none"
  /\ iter' = kind
  /\ visit' = [s \in Shards |-> "todo"]
  /\ taken' = {} /\ todo' = {}
  /\ steady' = Pairs(entries) /\ sometime' = Pairs(entries)
  /\ UNCHANGED <<entries, waiting>>

\* IterCb takes the shards in order, snapshot's goroutines in any.
InTurn(s) == iter = "range" => \A r \in Shards : r < s => visit[r] = "done"

RLock(s) ==
  /\ visit[s] = "todo" /\ InTurn(s)
  /\ visit' = [visit EXCEPT ![s] = IF MayRead(s) THEN "reading" ELSE "waiting"]
  /\ UNCHANGED <<entries, waiting, iter, taken, todo, steady, sometime>>

Shard(s) == {p \in Pairs(entries) : GetShard[p[1]] = s}

Copies(s) ==
  /\ taken' = taken \cup Shard(s) /\ todo' = todo \cup Shard(s)
  /\ visit' = [visit EXCEPT ![s] = "done"]
  /\ UNCHANGED <<entries, waiting, iter, steady, sometime>>

\* Mutant: the callback looks keys up while the read lock is held.
CollectNested(s) == visit[s] = "reading" /\ MayRead(s) /\ Copies(s)

\* The shard's entries are copied and the read lock is released.
Collect(s) == visit[s] = "reading" /\ Copies(s)

\* Mutant: the last shard is not waited for.
CollectedEarly == \E r \in Shards : \A s \in Shards \ {r} : visit[s] = "done"

Collected == \A s \in Shards : visit[s] = "done"

\* rangeIt goes on with its copy when IterCb has returned, IterBuffered's caller as soon as every
\* shard's goroutine has its read lock. Neither holds a lock.
Handed == IF iter = "range" THEN Collected ELSE \A s \in Shards : visit[s] \in {"reading", "done"}

\* rangeIt's callback, which may look the key up again, or Clear's Remove.
Process(p) ==
  /\ p \in todo /\ Handed /\ MayRead(GetShard[p[1]])
  /\ entries' = IF iter = "clear" THEN [entries EXCEPT ![p[1]] = Absent] ELSE entries
  /\ todo' = todo \ {p}
  /\ Remembers
  /\ UNCHANGED <<waiting, iter, visit, taken>>

\* fanIn closes the channel, or the loop ends.
Ends ==
  /\ iter # "none" /\ Collected /\ todo = {}
  /\ iter' = "none" /\ taken' = {} /\ steady' = {} /\ sometime' = {}
  /\ visit' = [s \in Shards |-> "done"]
  /\ UNCHANGED <<entries, waiting, todo>>

Iterates == Ends \/ \E s \in Shards : RLock(s) \/ Collect(s)

MapNext ==
  \/ \E k \in Keys : Lock(k) \/ Write(k)
  \/ \E kind \in {"range", "buffered", "clear"} : Begin(kind)
  \/ Iterates
  \/ \E p \in Keys \X Values : Process(p)

\* The iterating goroutines and the writer run. SF: a reader that waits in a callback's lookup is
\* let in when the writer unlocks, before the next one. Nobody need begin anything.
MapFairness ==
  /\ WF_mapVars(\E k \in Keys : Write(k))
  /\ WF_mapVars(Iterates)
  /\ SF_mapVars(\E p \in Keys \X Values : Process(p))

MapSpec == MapInit /\ [][MapNext]_mapVars /\ MapFairness

-----------------------------------------------------------------------------
(***************************************************************************)
(* "a per-shard snapshot, not a whole-map one" (concurrentmap.go): an      *)
(* iteration that ends has handed over every entry that was there all along*)
(* and none that was at no time there, however the writers move entries    *)
(* between shards it has and has not visited. Shutdown counts the actors   *)
(* left and wakes the waiting Asks from such a snapshot.                   *)
(***************************************************************************)
SnapshotExact ==
  [][iter # "none" /\ iter' = "none" => steady \subseteq taken /\ taken \subseteq sometime]_mapVars

(***************************************************************************)
(* "a nested lookup on the same shard would wedge it" (registry.go): every *)
(* iteration ends, and every queued writer gets its lock, because callbacks*)
(* run on the copy, outside the shard locks.                               *)
(***************************************************************************)
IterationEnds == (iter # "none" ~> iter = "none") /\ \A k \in Keys : k \in waiting ~> k \notin waiting
=============================================================================
