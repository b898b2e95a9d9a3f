------------------------------ MODULE Routing ------------------------------
(***************************************************************************)
(* Where a message to a cluster actor goes: the provider's versioned node  *)
(* set (provider_etcd.go), the resolver's generation of it, the route that *)
(* a reference caches (routing_resolver.go) and the rendezvous choice among*)
(* the nodes (addr_hash.go). One reference, senders that share it, and the *)
(* watch goroutine that changes the node set; each lock-free access is a   *)
(* step. A node's score for the reference is given, the hash is not        *)
(* modelled. The reference may also be used by another system.             *)
(***************************************************************************)
EXTENDS AddrHash

CONSTANTS
  Routable,    \* nodes that come and go: [addr, score, hosts]
  Senders,     \* goroutines that resolve the reference
  MaxVersion,  \* bound: versions of the node set
  None

VARIABLES
  nodes,       \* nodeMap
  version,     \* localProviderVersion
  snap,        \* the published snapshot
  dirty,       \* the watch goroutine has changed nodeMap and not yet published it
  generation,  \* the resolver's generation, or None
  refreshMu,   \* who holds refreshMu
  entry,       \* the reference's cached route, or None
  at,          \* per sender: where its resolution stands
  hint, gen,   \* per sender: the version it read; its generation or a snapshot read for one
  route,       \* per sender: the last resolution's result, [version, addr], or None
  began,       \* history: the published version when the resolution began
  history      \* history: the node set of every published version

provider == <<nodes, version, snap, dirty, history>>
senderVars == <<at, hint, gen, route, began>>
routingVars == <<provider, generation, refreshMu, entry, senderVars>>

-----------------------------------------------------------------------------
RoutingInit ==
  /\ nodes = {} /\ version = 1 /\ dirty = FALSE
  /\ snap = [version |-> 1, nodes |-> {}]
  /\ history = [v \in {1} |-> {}]
  /\ generation = None /\ refreshMu = None /\ entry = None
  /\ at = [g \in Senders |-> "idle"]
  /\ hint = [g \in Senders |-> 0]
  /\ gen = [g \in Senders |-> None]
  /\ route = [g \in Senders |-> None]
  /\ began = [g \in Senders |-> 0]

(* The provider *)

\* applyMemberLocked, once or (loadMembers) for several nodes.
ApplyMember(n) ==
  /\ version < MaxVersion
  /\ nodes' = IF n \in nodes THEN nodes \ {n} ELSE nodes \cup {n}
  /\ version' = version + 1
  /\ dirty' = TRUE
  /\ UNCHANGED <<snap, history, generation, refreshMu, entry, senderVars>>

PublishNodes ==
  /\ dirty
  /\ snap' = [version |-> version, nodes |-> nodes]
  /\ history' = [v \in DOMAIN history \cup {version} |-> IF v = version THEN nodes ELSE history[v]]
  /\ dirty' = FALSE
  /\ UNCHANGED <<nodes, version, generation, refreshMu, entry, senderVars>>

-----------------------------------------------------------------------------
(* currentGeneration *)

Current(g) == generation # None /\ generation.version >= hint[g]

ReadVersion(g) ==
  /\ at[g] = "idle"
  /\ at' = [at EXCEPT ![g] = "load"]
  /\ hint' = [hint EXCEPT ![g] = version]
  /\ began' = [began EXCEPT ![g] = snap.version]
  /\ route' = [route EXCEPT ![g] = None]
  /\ UNCHANGED <<provider, generation, refreshMu, entry, gen>>

LoadGeneration(g) ==
  /\ at[g] = "load"
  /\ at' = [at EXCEPT ![g] = IF Current(g) THEN "cache" ELSE "lock"]
  /\ gen' = [gen EXCEPT ![g] = IF Current(g) THEN generation ELSE None]
  /\ UNCHANGED <<provider, generation, refreshMu, entry, hint, route, began>>

\* With refreshMu: another sender may have refreshed it in the meantime.
LockRefresh(g) ==
  /\ at[g] = "lock" /\ refreshMu = None
  /\ IF Current(g)
     THEN /\ at' = [at EXCEPT ![g] = "cache"]
          /\ gen' = [gen EXCEPT ![g] = generation]
          /\ UNCHANGED refreshMu
     ELSE /\ at' = [at EXCEPT ![g] = "nodes"]
          /\ refreshMu' = g
          /\ UNCHANGED gen
  /\ UNCHANGED <<provider, generation, entry, hint, route, began>>

GetNodes(g) ==
  /\ at[g] = "nodes"
  /\ gen' = [gen EXCEPT ![g] = snap]
  /\ at' = [at EXCEPT ![g] = "store"]
  /\ UNCHANGED <<provider, generation, refreshMu, entry, hint, route, began>>

StoreGeneration(g) ==
  /\ at[g] = "store"
  /\ IF generation # None /\ generation.version >= gen[g].version
     THEN gen' = [gen EXCEPT ![g] = generation] /\ UNCHANGED generation
     ELSE generation' = gen[g] /\ UNCHANGED gen
  /\ refreshMu' = None
  /\ at' = [at EXCEPT ![g] = "cache"]
  /\ UNCHANGED <<provider, entry, hint, route, began>>

-----------------------------------------------------------------------------
(* resolve *)

\* Mutant: an entry is good if this system wrote it.
HitAnyVersion(g) == entry # None /\ entry.mine

Hit(g) == entry # None /\ entry.mine /\ entry.version = gen[g].version

Done(g, r) ==
  /\ route' = [route EXCEPT ![g] = r]
  /\ at' = [at EXCEPT ![g] = "idle"]
  /\ gen' = [gen EXCEPT ![g] = None]
  /\ hint' = [hint EXCEPT ![g] = 0]
  /\ UNCHANGED <<provider, generation, refreshMu, began>>

Lookup(g) ==
  /\ at[g] = "cache"
  /\ IF Hit(g)
     THEN Done(g, [version |-> entry.version, addr |-> entry.addr])
     ELSE /\ at' = [at EXCEPT ![g] = "miss"]
          /\ UNCHANGED <<provider, generation, refreshMu, hint, gen, route, began>>
  /\ UNCHANGED entry

\* Mutant: whoever comes last stores its route.
MayStoreAlways(g) == TRUE

MayStore(g) == entry = None \/ ~entry.mine \/ entry.version <= gen[g].version

\* resolveMiss, under the cache's lock.
ResolveMiss(g) ==
  /\ at[g] = "miss"
  /\ IF Hit(g)
     THEN Done(g, [version |-> entry.version, addr |-> entry.addr]) /\ UNCHANGED entry
     ELSE \E a \in Owners(gen[g].nodes) :
            /\ Done(g, [version |-> gen[g].version, addr |-> a])
            /\ entry' = IF MayStore(g) THEN [mine |-> TRUE, version |-> gen[g].version, addr |-> a]
                        ELSE entry

\* Another system resolves the reference and stores its own route.
OtherSystem ==
  /\ entry # None /\ entry.mine
  /\ entry' = [mine |-> FALSE, version |-> 0, addr |-> NoAddr]
  /\ UNCHANGED <<provider, generation, refreshMu, senderVars>>

RoutingNext ==
  \/ PublishNodes \/ OtherSystem
  \/ \E n \in Routable : ApplyMember(n)
  \/ \E g \in Senders : \/ ReadVersion(g) \/ LoadGeneration(g) \/ LockRefresh(g) \/ GetNodes(g)
                        \/ StoreGeneration(g) \/ Lookup(g) \/ ResolveMiss(g)

RoutingSpec == RoutingInit /\ [][RoutingNext]_routingVars

-----------------------------------------------------------------------------
(***************************************************************************)
(* A route is the owner in the very node set its version names ("version   *)
(* and nodes are mutually consistent", provider_etcd.go), and that set is  *)
(* no older than the one published when the resolution began, although it  *)
(* reads version, generation, snapshot and cache at different times.       *)
(***************************************************************************)
RouteIsFresh ==
  \A g \in Senders : route[g] # None =>
    /\ route[g].version \in DOMAIN history /\ route[g].version >= began[g]
    /\ route[g].addr \in Owners(history[route[g].version])

(***************************************************************************)
(* "An older in-flight resolution must not roll the shared route back"     *)
(* (routing_resolver.go), and no refresh rolls the generation back.        *)
(***************************************************************************)
NoRollback ==
  [][ /\ entry # None /\ entry.mine /\ entry'.mine => entry'.version >= entry.version
      /\ generation # None => generation'.version >= generation.version ]_routingVars
=============================================================================
