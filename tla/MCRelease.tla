------------------------------ MODULE MCRelease ------------------------------
(* An installation is exchanged and pruned, or it is removed: a removal refuses *)
(* to begin while an exchange is pending and then fences every other operation, *)
(* so one of the two is at work in a behaviour.  One event of each kind, and no *)
(* more than two that go wrong.                                                *)
EXTENDS ReleasePrune, Uninstall

VARIABLE atWork

Exchanging == atWork = "exchange"
Uninstalling == atWork = "removal"

OneOfEach == [activations |-> 1, prunes |-> 1, crashes |-> 1, deaths |-> 1, strays |-> 1,
              jobs |-> 1, lost |-> 1, refusals |-> 1, abandons |-> 1, faults |-> 2]
OneOfEachRemoval == [jobs |-> 1, signins |-> 1, adoptions |-> 1, drains |-> 1, crashes |-> 1,
                     deaths |-> 1, sessions |-> 1, lost |-> 1, late |-> 1, faults |-> 2]

LifecycleInit ==
  /\ atWork \in {"exchange", "removal"}
  /\ PruneInit /\ RemovalInit /\ (Uninstalling \/ credential = "none")

LifecycleNext ==
  /\ UNCHANGED atWork
  /\ \/ Exchanging /\ PruneNext /\ UNCHANGED removalVars
     \/ Uninstalling /\ RemovalNext /\ UNCHANGED allVars

LifecycleSpec ==
  /\ LifecycleInit /\ [][LifecycleNext]_<<atWork, allVars, removalVars>>
  /\ PruneFairness /\ RemovalFairness

TypesOK == TypeOK /\ RemovalTypeOK

\* A pending exchange, prune or removal that somebody keeps resuming comes to an end,
\* unless it reaches a state that needs a person and stays in it.
LifecycleEnds == Settles /\ UninstallEnds
=============================================================================
