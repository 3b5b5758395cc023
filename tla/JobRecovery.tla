---------------------------- MODULE JobRecovery ----------------------------
(***************************************************************************)
(* recover() (src/src/jobs/recovery.rs) reads the record of a job and then *)
(* claims the job, with no lock over the two.  JobLifecycle!OpenSession    *)
(* takes both in one step; here a recovery task of an earlier session may  *)
(* still write the record, and give the job up, in between.                *)
(***************************************************************************)
EXTENDS JobLifecycle

VARIABLE seen       \* what recover() has read of a job it has not claimed yet

NothingSeen == [j \in Jobs |-> NoJournal]

ScanInit == Init /\ seen = NothingSeen

\* The record is read while a task of an earlier session owns the job.
ReadRecord(j) ==
    /\ sst = "none" /\ ~draining /\ owner[j] = "recovery" /\ onDisk[j]
    /\ journal[j].phase \notin Settled
    /\ seen' = [seen EXCEPT ![j] = journal[j]]
    /\ UNCHANGED vars

\* The claim succeeds if that task has ended, and the record that was read is written.
ClaimRead(j) ==
    /\ seen[j] # NoJournal /\ owner[j] = "none"
    /\ Persist(j, Recovered(seen[j], sid + 1))
    /\ pc' = [pc EXCEPT ![j] = "deliver"]
    /\ owner' = [owner EXCEPT ![j] = "recovery"]
    /\ sid' = sid + 1 /\ sst' = "open" /\ seen' = NothingSeen
    /\ UNCHANGED <<cancel, history, reconnect, draining, deleted, backend, left>>

\* A job that is still owned is left alone; a crash ends the scan.
ScanNext ==
    \/ \E j \in Jobs : ReadRecord(j) \/ ClaimRead(j)
    \/ (\E j \in Jobs : JobStep(j)) /\ UNCHANGED seen
    \/ seen = NothingSeen /\ Next /\ UNCHANGED seen
    \/ /\ \A j \in Jobs : seen[j] = NoJournal \/ owner[j] # "none"
       /\ OpenSession /\ seen' = NothingSeen
    \/ Crash /\ seen' = NothingSeen

ScanSpec == ScanInit /\ [][ScanNext]_<<vars, seen>>
=============================================================================
