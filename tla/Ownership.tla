----------------------------- MODULE Ownership -----------------------------
(***************************************************************************)
(* The owner of a cluster actor over a cluster whose nodes come and go, one*)
(* at a time.                                                              *)
(***************************************************************************)
EXTENDS AddrHash

CONSTANT Members  \* nodes that may join

\* Addresses and scores are numbers, for their order.
ASSUME MembersAssumption == Members \subseteq [addr : Nat, score : Nat, hosts : BOOLEAN]

VARIABLE cluster

OwnershipInit == cluster = {}
Join(n) == n \notin cluster /\ cluster' = cluster \cup {n}
Leave(n) == n \in cluster /\ cluster' = cluster \ {n}
OwnershipNext == \E n \in Members : Join(n) \/ Leave(n)
OwnershipSpec == OwnershipInit /\ [][OwnershipNext]_cluster

(***************************************************************************)
(* "every node agrees regardless of iteration order" (addr_hash.go): there *)
(* is one owner over all orders of the snapshot, and there is an owner     *)
(* whenever some node with an address hosts the kind, its score zero or not*)
(***************************************************************************)
OwnerAgreed ==
  \E a \in Owners(cluster) :
    /\ Owners(cluster) = {a}
    /\ a = NoAddr <=> ~\E n \in cluster : n.hosts /\ n.addr # NoAddr

(***************************************************************************)
(* "a membership change only moves the departed node's keys"               *)
(* (addr_hash.go): the owner changes only from the node that left or to the*)
(* node that joined.                                                       *)
(***************************************************************************)
LeastDisruption ==
  [][\A a \in Owners(cluster), b \in Owners(cluster') :
       a # b => \/ \E n \in cluster \ cluster' : n.addr = a
                \/ \E n \in cluster' \ cluster : n.addr = b]_cluster
=============================================================================
