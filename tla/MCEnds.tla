------------------------------- MODULE MCEnds -------------------------------
(* What has to end: the daemon's work under a drain, a logout or a shutdown, *)
(* or the drain of the output of an exited job; either is at work.           *)
EXTENDS MCSupervisor, OutputEvents

VARIABLE atWork

Control == atWork = "control"
Output == atWork = "output"

OutputBounds == [crash |-> 1, loss |-> 1, disk |-> 1]

EndsInit ==
  /\ atWork \in {"control", "output"}
  /\ Init /\ (Control \/ (~drainFile /\ \A j \in Jobs : work[j] = "new"))
  /\ OutputInit /\ (Output \/ phase = "lost")

EndsNext ==
  /\ UNCHANGED atWork
  /\ \/ Control /\ Next /\ UNCHANGED outputVars
     \/ Output /\ OutputNext /\ UNCHANGED vars

EndsSpec ==
  /\ EndsInit /\ [][EndsNext]_<<atWork, vars, outputVars>>
  /\ Fairness /\ OutputFairness

\* A drained, stopped or signed-out daemon comes to rest, and so does the output of a
\* job whose process has exited: its terminal result waits for that.
WorkEnds == DrainsEnd /\ DrainEnds

\* Every value is of its kind, whichever of the two is at work.
TypesOK == TypeOK /\ OutputTypeOK
=============================================================================
