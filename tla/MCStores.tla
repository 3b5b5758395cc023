------------------------------- MODULE MCStores -------------------------------
(* What host chats are told of runs, of persona memory and of a run's answer,  *)
(* and what their monitoring does: stores that share no state, one of them at  *)
(* work in each behaviour.                                                     *)
EXTENDS FollowSessions, MemoryReads, PresentationDeliveries, HostAutomation, TLC

VARIABLE atWork

Follow == atWork = "follow"
Memory == atWork = "memory"
Delivery == atWork = "deliveries"
Automation == atWork = "automation"

MemoryBounds == [reads |-> 2, disturbances |-> 1]

Init ==
  /\ atWork \in {"follow", "memory", "deliveries", "automation"}
  /\ FollowInit /\ (Follow \/ \A h \in Chats, r \in Runs : native[h][r] = Unfollowed)
  /\ MemoryInit /\ (Memory \/ pageStore = EmptyStore)
  /\ DeliveryInit /\ (Delivery \/ \A d \in Deliveries : former[d] = {})
  /\ HostInit /\ (Automation \/ ledger.ops = {})

Next ==
  /\ UNCHANGED atWork
  /\ \/ Follow /\ FollowNext /\ UNCHANGED <<memoryVars, deliveryVars, hostVars>>
     \/ Memory /\ MemoryNext /\ UNCHANGED <<followVars, deliveryVars, hostVars>>
     \/ Delivery /\ DeliveryNext /\ UNCHANGED <<followVars, memoryVars, hostVars>>
     \/ Automation /\ HostNext /\ UNCHANGED <<followVars, memoryVars, deliveryVars>>

Spec == Init /\ [][Next]_<<atWork, followVars, memoryVars, deliveryVars, hostVars>>

TypeOK == FollowTypeOK /\ MemoryTypeOK /\ DeliveryTypeOK /\ HostTypeOK

Symmetry ==
  UNION {Permutations(S) : S \in {Chats, Readers, Scopes, Cards}}
=============================================================================
