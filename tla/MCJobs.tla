------------------------------- MODULE MCJobs -------------------------------
(* A job and what its journal says of it, or the command of a job and the    *)
(* processes it owns; one of them is at work, the other jobs stay queued.    *)
EXTENDS MCJobLifecycle, CommandGroup

VARIABLE atWork

Journaled == atWork \in Jobs
Command == atWork = "command"

JobsInit == atWork \in Jobs \cup {"command"} /\ Init /\ GroupInit

JobsNext ==
  /\ UNCHANGED atWork
  /\ \/ /\ Journaled /\ Next /\ UNCHANGED groupVars
        /\ \A j \in Jobs \ {atWork} : be'[j] = be[j]
     \/ Command /\ GroupNext /\ UNCHANGED vars

JobsSpec == JobsInit /\ [][JobsNext]_<<atWork, vars, groupVars>>
JobsFairSpec ==
  /\ JobsSpec
  /\ (Journaled /\ Fairness) \/ (Command /\ GroupFairness)

\* The evidence of a job reaches the backend, and a command that was canceled or left
\* alone does not run on.
JobsSettle == EvidenceSettles /\ CommandEnds
=============================================================================
