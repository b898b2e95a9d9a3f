------------------------------ MODULE MCCluster ------------------------------
(***************************************************************************)
(* Runs for the parts of the cluster layer. They are checked side by side, *)
(* as in MCPrimitives: in a behaviour one of Parts runs and the others     *)
(* stand still.                                                            *)
(***************************************************************************)
EXTENDS Membership, Ownership, Routing, EventStream, Delivery, SystemLife, TLC

CONSTANT Parts
VARIABLE part

Init ==
  /\ part \in Parts
  /\ MemberInit /\ OwnershipInit /\ RoutingInit /\ EsInit /\ DeliveryInit /\ LifeInit

Next ==
  /\ UNCHANGED part
  /\ \/ part = "member" /\ MemberNext
     \/ part # "member" /\ UNCHANGED memberVars
  /\ \/ part = "owner" /\ OwnershipNext
     \/ part # "owner" /\ UNCHANGED cluster
  /\ \/ part = "routing" /\ RoutingNext
     \/ part # "routing" /\ UNCHANGED routingVars
  /\ \/ part = "events" /\ EsNext
     \/ part # "events" /\ UNCHANGED esVars
  /\ \/ part = "delivery" /\ DeliveryNext
     \/ part # "delivery" /\ UNCHANGED deliveryVars
  /\ \/ part = "life" /\ LifeNext
     \/ part # "life" /\ UNCHANGED lifeVars

vars == <<part, memberVars, cluster, routingVars, esVars, deliveryVars, lifeVars>>

\* Each part's fairness, where that part runs.
FairMembers == WF_memberVars(part = "member" /\ StopsForced)

FairDelivery ==
  /\ WF_deliveryVars(part = "delivery" /\ GoesOn)
  /\ WF_deliveryVars(part = "delivery" /\ WatchDelivers)

FairLife ==
  /\ WF_lifeVars(part = "life" /\ LifeGoesOn)
  /\ WF_lifeVars(part = "life" /\ Report)

Spec == Init /\ [][Next]_vars /\ FairMembers /\ FairDelivery /\ FairLife

-----------------------------------------------------------------------------
\* Values of the constants.
Node(a, s, h) == [addr |-> a, score |-> s, hosts |-> h]
MCMembers == {Node(1, 0, TRUE), Node(2, 3, TRUE), Node(3, 3, TRUE), Node(4, 9, FALSE), Node(0, 9, TRUE)}
MCRoutable == {Node(1, 0, TRUE), Node(2, 3, TRUE)}
MCSubscribers == 1 :> {1, 2} @@ 2 :> {}
MCSrc == "ask" :> "n1" @@ "poison" :> "n2"
MCKind == "ask" :> "ask" @@ "poison" :> "poison"
=============================================================================
