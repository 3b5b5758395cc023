---------------------------- MODULE MCAdmission ----------------------------
(* What the daemon admits: the work and the control calls it takes on while *)
(* it is drained, signed out or stopped, or the mutations it takes on for   *)
(* presentation views; either is at work.                                   *)
EXTENDS MCSupervisor, PresentationViews, TLC

VARIABLE atWork

Control == atWork = "control"
Presentation == atWork = "views"

AdmissionInit ==
  /\ atWork \in {"control", "views"}
  /\ Init /\ (Control \/ (~drainFile /\ \A j \in Jobs : work[j] = "new"))
  /\ ViewInit /\ (Presentation \/ \A v \in Views : ~Live(v))

AdmissionNext ==
  /\ UNCHANGED atWork
  /\ \/ Control /\ Next /\ UNCHANGED viewVars
     \/ Presentation /\ ViewNext /\ UNCHANGED vars

AdmissionSpec == AdmissionInit /\ [][AdmissionNext]_<<atWork, vars, viewVars>>

TypesOK == TypeOK /\ ViewTypeOK

\* The two views and the two logouts may be exchanged.
Alike == Permutations(Views) \cup Permutations({logout, relogout})
=============================================================================
