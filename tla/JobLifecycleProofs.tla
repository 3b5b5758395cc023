------------------------- MODULE JobLifecycleProofs -------------------------
(***************************************************************************)
(* Theorems about a job and its commands: about JobLifecycle for every set *)
(* of jobs and fault budget - its types, the ledger of what was launched and *)
(* published, and what follows from the journal being evidence of a launch - *)
(* and about CommandGroup for every set of tasks that may find the lease   *)
(* expired and every number of faults.                                     *)
(***************************************************************************)
EXTENDS JobLifecycle, CommandGroup, FiniteSetTheorems, TLAPS

(***************************************************************************)
(* Records: the values the actions build have the types they claim.        *)
(***************************************************************************)
LEMMA RecordFields ==
    ASSUME NEW r \in Record
    PROVE  /\ r.phase \in Phases \cup {Absent} /\ r.sess \in Nat /\ r.rec \in Nat
           /\ r.ver \in Nat /\ r.live \in BOOLEAN /\ r.err \in Errors
           /\ r.res \in BOOLEAN /\ r.ident \in BOOLEAN /\ r.canceling \in BOOLEAN
BY DEF Record

\* The absent record is a record.
LEMMA NoJournalType == NoJournal \in Record
BY DEF NoJournal, Record, Errors

\* A fresh lease is a record.
LEMMA LeasedType == \A s, v \in Nat : Leased(s, v) \in Record
BY DEF Leased, NoJournal, Record, Errors, Phases

\* Setting the phase keeps the record's type.
LEMMA SetPhase ==
    \A r \in Record, p \in Phases : [r EXCEPT !.phase = p] \in Record
BY DEF Record

\* So does recording an outcome.
LEMMA SetOutcome ==
    \A r \in Record, p \in Phases, e \in Errors, b \in BOOLEAN :
        [r EXCEPT !.phase = p, !.err = e, !.res = b] \in Record
BY DEF Record

\* So does recording a result.
LEMMA SetRes == \A r \in Record, b \in BOOLEAN : [r EXCEPT !.res = b] \in Record
BY DEF Record

\* So does settling with or without one.
LEMMA SetPhaseRes ==
    \A r \in Record, p \in Phases, b \in BOOLEAN :
        [r EXCEPT !.phase = p, !.res = b] \in Record
BY DEF Record

\* So does recording a guardian.
LEMMA SetPhaseIdent ==
    \A r \in Record, p \in Phases, b \in BOOLEAN :
        [r EXCEPT !.phase = p, !.ident = b] \in Record
BY DEF Record

\* So does noting a cancellation.
LEMMA SetPhaseCanceling ==
    \A r \in Record, p \in Phases, b \in BOOLEAN :
        [r EXCEPT !.phase = p, !.canceling = b] \in Record
BY DEF Record

\* So does a renewal.
LEMMA SetVerCanceling ==
    \A r \in Record, b \in BOOLEAN :
        [r EXCEPT !.ver = @ + 1, !.canceling = b] \in Record
<1>1. \A r \in Record, v \in Nat, b \in BOOLEAN :
        [r EXCEPT !.ver = v, !.canceling = b] \in Record
  BY DEF Record
<1>2. \A r \in Record : r.ver + 1 \in Nat
  BY DEF Record
<1> QED
  BY <1>1, <1>2

\* So does a change of liveness.
LEMMA SetLive == \A r \in Record, b \in BOOLEAN : [r EXCEPT !.live = b] \in Record
BY DEF Record

\* So does a reclaim.
LEMMA SetRec == \A r \in Record, s \in Nat : [r EXCEPT !.rec = s] \in Record
BY DEF Record

\* So does a recovery claim.
LEMMA SetFence ==
    \A r \in Record, s \in Nat :
        [r EXCEPT !.sess = s, !.rec = 0, !.live = TRUE, !.ver = @ + 1] \in Record
<1>1. \A r \in Record, s, v \in Nat :
        [r EXCEPT !.sess = s, !.rec = 0, !.live = TRUE, !.ver = v] \in Record
  BY DEF Record
<1>2. \A r \in Record : r.ver + 1 \in Nat
  BY DEF Record
<1> QED
  BY <1>1, <1>2

\* A recorded error is a record.
LEMMA WithErrorType ==
    ASSUME NEW j \in Jobs, journal[j] \in Record, NEW e \in Errors
    PROVE  WithError(j, e) \in Record
BY SetOutcome DEF WithError, Phases

\* A recovered record is a record.
LEMMA RecoveredType == \A r \in Record, s \in Nat : Recovered(r, s) \in Record
<1> SUFFICES ASSUME NEW r \in Record, NEW s \in Nat
             PROVE  Recovered(r, s) \in Record
  OBVIOUS
<1>1. [r EXCEPT !.phase = "terminal_pending", !.err = "indeterminate",
                !.res = FALSE] \in Record
  BY SetOutcome DEF Phases, Errors
<1> QED
  BY <1>1, SetRec DEF Recovered

\* What a record says is an outcome.
LEMMA OutcomeType == \A r \in Record : Outcome(r) \in Outcomes
BY DEF Record, Outcome, Outcomes, Errors
-----------------------------------------------------------------------------
(***************************************************************************)
(* The backend's jobs and requests.                                        *)
(***************************************************************************)
LEMMA CallType ==
    ASSUME TypeOK, NEW j \in Jobs, NEW op \in {"start", "renew", "reclaim", "submit"}
    PROVE  Call(j, op) \in Request
<1>1. journal[j] \in Record
  BY DEF TypeOK
<1>2. journal[j].ver \in Nat /\ journal[j].sess \in Nat /\ journal[j].rec \in Nat
  BY <1>1, RecordFields
<1>3. Outcome(journal[j]) \in Outcomes /\ "none" \in Outcomes
  BY <1>1, OutcomeType DEF Outcomes
<1> QED
  BY <1>2, <1>3 DEF Call, Request

\* The backend's job keeps its type when its state is set,
LEMMA SetSt ==
    \A b \in Job, s \in {"queued", "leased", "running", "done", "gone"} :
        [b EXCEPT !.st = s] \in Job
BY DEF Job

\* when it is done,
LEMMA SetDone == \A b \in Job, o \in Outcomes :
                    [b EXCEPT !.st = "done", !.out = o] \in Job
BY DEF Job

\* when it is renewed,
LEMMA SetVer == \A b \in Job : [b EXCEPT !.ver = @ + 1] \in Job
BY DEF Job

\* when it is claimed again,
LEMMA SetClaim ==
    \A b \in Job, s \in Nat :
        [b EXCEPT !.ver = @ + 1, !.sess = s, !.live = TRUE] \in Job
<1>1. \A b \in Job, v, s \in Nat :
        [b EXCEPT !.ver = v, !.sess = s, !.live = TRUE] \in Job
  BY DEF Job
<1>2. \A b \in Job : b.ver + 1 \in Nat
  BY DEF Job
<1> QED
  BY <1>1, <1>2

\* when it is handed out,
LEMMA SetHanded ==
    \A b \in Job, s \in Nat :
        [b EXCEPT !.st = "leased", !.ver = @ + 1, !.sess = s, !.live = TRUE] \in Job
<1>1. \A b \in Job, v, s \in Nat :
        [b EXCEPT !.st = "leased", !.ver = v, !.sess = s, !.live = TRUE] \in Job
  BY DEF Job
<1>2. \A b \in Job : b.ver + 1 \in Nat
  BY DEF Job
<1> QED
  BY <1>1, <1>2

\* and when a call is granted.
LEMMA GrantedType ==
    ASSUME NEW b \in Job, NEW r \in Request
    PROVE  Granted(b, r) \in Job
<1>1. r.sess \in Nat /\ r.body \in Outcomes
  BY DEF Request
<1>2. [b EXCEPT !.st = "running"] \in Job
  BY SetSt
<1>3. [b EXCEPT !.ver = @ + 1] \in Job
  BY SetVer
<1>4. [b EXCEPT !.ver = @ + 1, !.sess = r.sess, !.live = TRUE] \in Job
  BY <1>1, SetClaim
<1>5. [b EXCEPT !.st = "done", !.out = r.body] \in Job
  BY <1>1, SetDone
<1> QED
  BY <1>2, <1>3, <1>4, <1>5 DEF Granted
-----------------------------------------------------------------------------
(***************************************************************************)
(* TypeOK by groups of variables, and what every step of a task's          *)
(* vocabulary (Persist, Goto, Release, Grant...) does to a group.          *)
(***************************************************************************)
RecordsOK == journal \in [Jobs -> Record] /\ onDisk \in [Jobs -> BOOLEAN]
TasksOK == /\ pc \in [Jobs -> PCs]
           /\ owner \in [Jobs -> {"none", "worker", "panicked", "recovery"}]
           /\ cancel \in [Jobs -> BOOLEAN]
HistoryOK == /\ launched \in [Jobs -> Nat]
             /\ alive \in [Jobs -> BOOLEAN]
             /\ sent \in [Jobs -> SUBSET Outcomes]
SessionOK == /\ sid \in Nat /\ sst \in {"none", "open", "closing"}
             /\ reconnect \in BOOLEAN /\ draining \in BOOLEAN
DeletedOK == deleted \in [Jobs -> {"no", "marked", "swept"}]
BeOK == be \in [Jobs -> Job]
LateOK == late \in [Jobs -> Request]
LeftOK == left \in [FaultKinds -> Nat]

\* The type invariant by groups of variables.
LEMMA Groups ==
    TypeOK <=> /\ RecordsOK /\ TasksOK /\ HistoryOK /\ SessionOK
               /\ DeletedOK /\ BeOK /\ LateOK /\ LeftOK
BY DEF TypeOK, RecordsOK, TasksOK, HistoryOK, SessionOK, DeletedOK, BeOK,
       LateOK, LeftOK

\* The same after a step.
LEMMA GroupsPrime ==
    TypeOK' <=> /\ RecordsOK' /\ TasksOK' /\ HistoryOK' /\ SessionOK'
                /\ DeletedOK' /\ BeOK' /\ LateOK' /\ LeftOK'
BY DEF TypeOK, RecordsOK, TasksOK, HistoryOK, SessionOK, DeletedOK, BeOK,
       LateOK, LeftOK

\* Groups that a step leaves unchanged keep their types: records,
LEMMA SameRecords == RecordsOK /\ UNCHANGED <<journal, onDisk>> => RecordsOK'
BY DEF RecordsOK

\* tasks,
LEMMA SameTasks == TasksOK /\ UNCHANGED <<pc, owner, cancel>> => TasksOK'
BY DEF TasksOK

\* history,
LEMMA SameHistory == HistoryOK /\ UNCHANGED history => HistoryOK'
BY DEF HistoryOK, history

\* session,
LEMMA SameSession == SessionOK /\ UNCHANGED session => SessionOK'
BY DEF SessionOK, session

\* deletions,
LEMMA SameDeleted == DeletedOK /\ UNCHANGED deleted => DeletedOK'
BY DEF DeletedOK

\* backend jobs,
LEMMA SameBe == BeOK /\ UNCHANGED be => BeOK'
BY DEF BeOK

\* late calls,
LEMMA SameLate == LateOK /\ UNCHANGED late => LateOK'
BY DEF LateOK

\* the whole backend,
LEMMA SameBackend == BeOK /\ LateOK /\ UNCHANGED backend => BeOK' /\ LateOK'
BY DEF BeOK, LateOK, backend

\* and fault budgets.
LEMMA SameLeft == LeftOK /\ UNCHANGED left => LeftOK'
BY DEF LeftOK

\* Each job's record is a record.
LEMMA RecordOf == ASSUME RecordsOK, NEW j \in Jobs PROVE journal[j] \in Record
BY DEF RecordsOK

\* A write keeps the records' type.
LEMMA PersistType ==
    ASSUME RecordsOK, NEW j \in Jobs, NEW r \in Record, Persist(j, r)
    PROVE  RecordsOK'
BY DEF RecordsOK, Persist

\* Moving a task keeps the tasks' type.
LEMMA GotoType ==
    ASSUME TasksOK, NEW j \in Jobs, NEW label \in PCs, Goto(j, label)
    PROVE  TasksOK'
BY DEF TasksOK, Goto

\* Ending a task keeps it.
LEMMA ReleaseType ==
    ASSUME TasksOK, NEW j \in Jobs, Release(j) PROVE TasksOK'
BY DEF TasksOK, Release, PCs

\* Abandoning keeps both.
LEMMA AbandonType ==
    ASSUME RecordsOK, TasksOK, NEW j \in Jobs, Abandon(j)
    PROVE  RecordsOK' /\ TasksOK'
<1>1. TasksOK'
  BY ReleaseType DEF Abandon
<1>2. RecordsOK'
  BY NoJournalType DEF Abandon, RecordsOK
<1> QED
  BY <1>1, <1>2

\* Finishing keeps both.
LEMMA FinishType ==
    ASSUME RecordsOK, TasksOK, NEW j \in Jobs, NEW p \in Phases, Finish(j, p)
    PROVE  RecordsOK' /\ TasksOK'
<1>1. TasksOK'
  BY ReleaseType DEF Finish
<1>2. [journal[j] EXCEPT !.phase = p] \in Record
  BY RecordOf, SetPhase
<1>3. RecordsOK'
  BY <1>2, PersistType DEF Finish
<1> QED
  BY <1>1, <1>3

\* Failing keeps both.
LEMMA FailType ==
    ASSUME RecordsOK, TasksOK, NEW j \in Jobs, NEW e \in Errors, Fail(j, e)
    PROVE  RecordsOK' /\ TasksOK'
<1>1. WithError(j, e) \in Record
  BY RecordOf, WithErrorType
<1>2. RecordsOK'
  BY <1>1, PersistType DEF Fail
<1>3. TasksOK'
  BY GotoType DEF Fail, PCs
<1> QED
  BY <1>2, <1>3

\* Losing the session keeps them and the session's type.
LEMMA NeedsSessionType ==
    ASSUME RecordsOK, TasksOK, SessionOK, NEW j \in Jobs, NeedsSession(j)
    PROVE  RecordsOK' /\ TasksOK' /\ SessionOK'
<1>1. RecordsOK' /\ TasksOK'
  BY AbandonType DEF NeedsSession
<1>2. SessionOK'
  BY DEF NeedsSession, SessionOK
<1> QED
  BY <1>1, <1>2

\* A fault uses up its budget.
LEMMA StrikeType ==
    ASSUME LeftOK, NEW k \in FaultKinds, Strike(k) PROVE LeftOK'
BY DEF LeftOK, Strike

Ops == {"start", "renew", "reclaim", "submit"}

\* A granted call keeps the backend's type.
LEMMA GrantType ==
    ASSUME TypeOK, NEW j \in Jobs, NEW op \in Ops, Grant(j, op)
    PROVE  BeOK' /\ LateOK'
<1>1. Call(j, op) \in Request
  BY CallType DEF Ops
<1>2. be[j] \in Job
  BY DEF TypeOK
<1>3. Granted(be[j], Call(j, op)) \in Job
  BY <1>1, <1>2, GrantedType
<1>4. be' = [be EXCEPT ![j] = Granted(be[j], Call(j, op))] /\ UNCHANGED late
  BY DEF Grant
<1> QED
  BY <1>3, <1>4, Groups DEF BeOK, LateOK

\* So does a call without an answer.
LEMMA TimeOutType ==
    ASSUME TypeOK, NEW j \in Jobs, NEW op \in Ops, TimeOut(j, op)
    PROVE  BeOK' /\ LateOK' /\ LeftOK'
<1>1. Call(j, op) \in Request
  BY CallType DEF Ops
<1>2. LeftOK'
  BY Groups, StrikeType DEF TimeOut, FaultKinds
<1> QED
  BY <1>1, <1>2, Groups DEF TimeOut, BeOK, LateOK

\* So does a refused call.
LEMMA RefusedType ==
    ASSUME BeOK, LateOK, NEW j \in Jobs, NEW op \in Ops, Refused(j, op)
    PROVE  BeOK' /\ LateOK'
BY SameBackend DEF Refused

\* A launch keeps the history's type.
LEMMA LaunchType ==
    ASSUME HistoryOK, NEW j \in Jobs, Launch(j) PROVE HistoryOK'
BY DEF HistoryOK, Launch

\* So does stopping a group.
LEMMA StoppedType ==
    ASSUME HistoryOK, NEW j \in Jobs, NEW S \in SUBSET BOOLEAN, Stopped(j, S)
    PROVE  HistoryOK'
BY DEF HistoryOK, Stopped
-----------------------------------------------------------------------------
(***************************************************************************)
(* Every action preserves TypeOK.                                          *)
(***************************************************************************)
LEMMA InitType == Init => TypeOK
<1> SUFFICES ASSUME Init PROVE TypeOK
  OBVIOUS
<1>1. NoRequest \in Request
  BY DEF NoRequest, Request, Outcomes
<1>2. [st |-> "queued", sess |-> 0, ver |-> 0, live |-> FALSE,
       cancel |-> FALSE, out |-> "none"] \in Job
  BY DEF Job, Outcomes
<1>3. RecordsOK /\ TasksOK
  BY NoJournalType DEF Init, RecordsOK, TasksOK, PCs
<1>4. HistoryOK /\ SessionOK /\ DeletedOK
  BY DEF Init, HistoryOK, SessionOK, DeletedOK
<1>5. BeOK /\ LateOK /\ LeftOK
  BY <1>1, <1>2, FaultsAssumption DEF Init, BeOK, LateOK, LeftOK
<1> QED
  BY <1>3, <1>4, <1>5, Groups

\* Registering, authorizing and committing to start.
LEMMA PreStartType ==
    ASSUME TypeOK, NEW j \in Jobs,
           Register(j) \/ Authorize(j) \/ CommitStart(j)
    PROVE  TypeOK'
<1> USE Groups
<1>1. HistoryOK' /\ SessionOK' /\ DeletedOK' /\ BeOK' /\ LateOK' /\ LeftOK'
  BY SameHistory, SameSession, SameDeleted, SameBackend, SameLeft
     DEF Register, Authorize, CommitStart
<1>2. CASE Register(j)
  <2>1. RecordsOK' /\ TasksOK'
    BY <1>2, GotoType, SameRecords DEF Register, PCs
  <2> QED
    BY <1>1, <2>1, GroupsPrime
<1>3. CASE Authorize(j)
  <2>1. CASE Fail(j, "not_launched")
    BY <1>1, <2>1, FailType, GroupsPrime DEF Errors
  <2>2. CASE Goto(j, "admitted") /\ UNCHANGED <<journal, onDisk>>
    BY <1>1, <2>2, GotoType, SameRecords, GroupsPrime DEF PCs
  <2> QED
    BY <1>3, <2>1, <2>2 DEF Authorize
<1>4. CASE CommitStart(j)
  <2>1. CASE Fail(j, "not_launched")
    BY <1>1, <2>1, FailType, GroupsPrime DEF Errors
  <2>2. CASE /\ Persist(j, [journal[j] EXCEPT !.phase = "start_pending"])
             /\ Goto(j, "start")
    <3>1. [journal[j] EXCEPT !.phase = "start_pending"] \in Record
      BY RecordOf, SetPhase DEF Phases
    <3>2. RecordsOK' /\ TasksOK'
      BY <2>2, <3>1, PersistType, GotoType DEF PCs
    <3> QED
      BY <1>1, <3>2, GroupsPrime
  <2> QED
    BY <1>4, <2>1, <2>2 DEF CommitStart
<1> QED
  BY <1>2, <1>3, <1>4

\* Asking the backend to start.
LEMMA StartType == ASSUME TypeOK, NEW j \in Jobs, Start(j) PROVE TypeOK'
<1> USE Groups
<1>1. HistoryOK' /\ SessionOK' /\ DeletedOK'
  BY SameHistory, SameSession, SameDeleted DEF Start
<1>2. CASE /\ Grant(j, "start") /\ UNCHANGED left
           /\ Persist(j, [journal[j] EXCEPT !.phase = "started",
                                            !.canceling = be[j].cancel])
           /\ Goto(j, "started")
  <2>1. be[j].cancel \in BOOLEAN
    BY DEF BeOK, Job
  <2>2. [journal[j] EXCEPT !.phase = "started", !.canceling = be[j].cancel]
          \in Record
    BY <2>1, RecordOf, SetPhaseCanceling DEF Phases
  <2>3. RecordsOK' /\ TasksOK'
    BY <1>2, <2>2, PersistType, GotoType DEF PCs
  <2>4. BeOK' /\ LateOK' /\ LeftOK'
    BY <1>2, GrantType, SameLeft DEF Ops
  <2> QED
    BY <1>1, <2>3, <2>4, GroupsPrime
<1>3. CASE UNCHANGED <<backend, left>> /\ Fail(j, "not_launched")
  BY <1>1, <1>3, SameBackend, SameLeft, FailType, GroupsPrime DEF Errors
<1>4. CASE TimeOut(j, "start") /\ Fail(j, "not_launched")
  BY <1>1, <1>4, TimeOutType, FailType, GroupsPrime DEF Errors, Ops
<1> QED
  BY <1>2, <1>3, <1>4 DEF Start

\* An untyped failure is an error.
LEMMA UntypedType == ASSUME NEW j \in Jobs PROVE Untyped(j) \in Errors
BY DEF Untyped, Errors

\* Recording the spawn intent and spawning the guardian.
LEMMA SpawnType ==
    ASSUME TypeOK, NEW j \in Jobs, RecordIntent(j) \/ SpawnGuardian(j)
    PROVE  TypeOK'
<1> USE Groups
<1>1. HistoryOK' /\ SessionOK' /\ DeletedOK' /\ BeOK' /\ LateOK' /\ LeftOK'
  BY SameHistory, SameSession, SameDeleted, SameBackend, SameLeft
     DEF RecordIntent, SpawnGuardian
<1>2. CASE RecordIntent(j)
  <2>1. \A p \in {"spawn_intent", "running"} :
          [journal[j] EXCEPT !.phase = p] \in Record
    BY RecordOf, SetPhase DEF Phases
  <2>2. CASE j \in Commands
    BY <1>1, <1>2, <2>1, <2>2, PersistType, GotoType, GroupsPrime
       DEF RecordIntent, PCs
  <2>3. CASE j \notin Commands
    BY <1>1, <1>2, <2>1, <2>3, PersistType, GotoType, GroupsPrime
       DEF RecordIntent, PCs
  <2> QED
    BY <2>2, <2>3
<1>3. CASE SpawnGuardian(j)
  <2>1. [journal[j] EXCEPT !.phase = "running", !.ident = TRUE] \in Record
    BY RecordOf, SetPhaseIdent DEF Phases
  <2>2. CASE LaunchAllowed(j)
    BY <1>1, <1>3, <2>1, <2>2, PersistType, GotoType, GroupsPrime
       DEF SpawnGuardian, PCs
  <2>3. CASE ~LaunchAllowed(j)
    BY <1>1, <1>3, <2>3, FailType, UntypedType, GroupsPrime DEF SpawnGuardian
  <2> QED
    BY <2>2, <2>3
<1> QED
  BY <1>2, <1>3

\* Releasing the target, and dispatching an in-process job.
LEMMA LaunchingType ==
    ASSUME TypeOK, NEW j \in Jobs, ReleaseTarget(j) \/ Dispatch(j)
    PROVE  TypeOK'
<1> USE Groups
<1>1. SessionOK' /\ DeletedOK' /\ BeOK' /\ LateOK' /\ LeftOK'
  BY SameSession, SameDeleted, SameBackend, SameLeft DEF ReleaseTarget, Dispatch
<1>2. HistoryOK'
  BY LaunchType, SameHistory DEF ReleaseTarget, Dispatch
<1>3. RecordsOK' /\ TasksOK'
  <2>1. CASE Goto(j, "running") /\ UNCHANGED <<journal, onDisk>>
    BY <2>1, GotoType, SameRecords DEF PCs
  <2>2. CASE Fail(j, Untyped(j))
    BY <2>2, FailType, UntypedType
  <2>3. CASE Fail(j, "not_launched")
    BY <2>3, FailType DEF Errors
  <2> QED
    BY <2>1, <2>2, <2>3 DEF ReleaseTarget, Dispatch
<1> QED
  BY <1>1, <1>2, <1>3, GroupsPrime

\* The work ends, or a write fails.
LEMMA ExitType ==
    ASSUME TypeOK, NEW j \in Jobs, Exit(j) \/ DiskFails(j)
    PROVE  TypeOK'
<1> USE Groups
<1>1. SessionOK' /\ DeletedOK' /\ BeOK' /\ LateOK'
  BY SameSession, SameDeleted, SameBackend DEF Exit, DiskFails
<1>2. LeftOK'
  BY SameLeft, StrikeType DEF Exit, DiskFails, FaultKinds
<1>3. HistoryOK'
  <2>1. {FALSE} \in SUBSET BOOLEAN /\ {FALSE, alive[j]} \in SUBSET BOOLEAN
    BY DEF HistoryOK
  <2> QED
    BY <2>1, StoppedType DEF Exit, DiskFails
<1>4. RecordsOK' /\ TasksOK'
  <2>1. CASE /\ Persist(j, [journal[j] EXCEPT !.phase = "exited", !.res = TRUE])
             /\ Goto(j, "finalize")
    <3>1. [journal[j] EXCEPT !.phase = "exited", !.res = TRUE] \in Record
      BY RecordOf, SetPhaseRes DEF Phases
    <3> QED
      BY <2>1, <3>1, PersistType, GotoType DEF PCs
  <2>2. CASE Fail(j, "indeterminate")
    BY <2>2, FailType DEF Errors
  <2>3. CASE Fail(j, Untyped(j))
    BY <2>3, FailType, UntypedType
  <2>4. CASE Abandon(j)
    BY <2>4, AbandonType
  <2> QED
    BY <2>1, <2>2, <2>3, <2>4 DEF Exit, DiskFails
<1> QED
  BY <1>1, <1>2, <1>3, <1>4, GroupsPrime

\* The outcome is recorded.
LEMMA FinalizeType == ASSUME TypeOK, NEW j \in Jobs, Finalize(j) PROVE TypeOK'
<1> USE Groups
<1> DEFINE next == IF pc[j] = "finalize" THEN "deliver" ELSE "submit"
<1>1. HistoryOK' /\ DeletedOK' /\ BeOK' /\ LateOK'
  BY SameHistory, SameDeleted, SameBackend DEF Finalize
<1>2. next \in PCs /\ "deliver" \in PCs
  BY DEF PCs
<1>3. CASE /\ Persist(j, [journal[j] EXCEPT !.phase = "terminal_pending"])
           /\ Goto(j, next) /\ UNCHANGED <<session, left>>
  <2>1. [journal[j] EXCEPT !.phase = "terminal_pending"] \in Record
    BY RecordOf, SetPhase DEF Phases
  <2> QED
    BY <1>1, <1>2, <1>3, <2>1, PersistType, GotoType, SameSession, SameLeft,
       GroupsPrime
<1>4. CASE /\ Persist(j, [WithError(j, "artifact") EXCEPT !.res = TRUE])
           /\ Goto(j, next) /\ UNCHANGED <<session, left>>
  <2>1. WithError(j, "artifact") \in Record
    BY RecordOf, WithErrorType DEF Errors
  <2>2. [WithError(j, "artifact") EXCEPT !.res = TRUE] \in Record
    BY <2>1, SetRes
  <2> QED
    BY <1>1, <1>2, <1>4, <2>2, PersistType, GotoType, SameSession, SameLeft,
       GroupsPrime
<1>5. CASE NeedsSession(j) /\ UNCHANGED left
  BY <1>1, <1>5, NeedsSessionType, SameLeft, GroupsPrime
<1>6. CASE /\ Strike("loss") /\ UNCHANGED <<session, journal, onDisk>>
           /\ Goto(j, "deliver")
  BY <1>1, <1>2, <1>6, StrikeType, SameSession, SameRecords, GotoType,
     GroupsPrime DEF FaultKinds
<1>7. CASE /\ Strike("refuse") /\ Finish(j, "delivery_blocked")
           /\ UNCHANGED session
  BY <1>1, <1>7, StrikeType, SameSession, FinishType, GroupsPrime
     DEF FaultKinds, Phases
<1> QED
  BY <1>3, <1>4, <1>5, <1>6, <1>7 DEF Finalize

\* Delivery begins.
LEMMA DeliverType ==
    ASSUME TypeOK, NEW j \in Jobs,
           PurgeAtDelivery(j) \/ SendReclaim(j) \/ SendSubmission(j)
    PROVE  TypeOK'
<1> USE Groups
<1>1. DeletedOK' /\ BeOK' /\ LateOK' /\ LeftOK'
  BY SameDeleted, SameBackend, SameLeft
     DEF PurgeAtDelivery, SendReclaim, SendSubmission
<1>2. CASE PurgeAtDelivery(j)
  <2>1. RecordsOK'
    BY <1>2, NoJournalType DEF PurgeAtDelivery, RecordsOK
  <2> QED
    BY <1>1, <1>2, <2>1, ReleaseType, SameHistory, SameSession, GroupsPrime
       DEF PurgeAtDelivery
<1>3. CASE SendReclaim(j)
  BY <1>1, <1>3, GotoType, SameRecords, SameHistory, SameSession, GroupsPrime
     DEF SendReclaim, PCs
<1>4. CASE SendSubmission(j)
  <2>1. HistoryOK'
    <3>1. Outcome(journal[j]) \in Outcomes
      BY RecordOf, OutcomeType
    <3> QED
      BY <1>4, <3>1 DEF SendSubmission, HistoryOK
  <2>2. CASE Goto(j, "submitting") /\ UNCHANGED <<journal, onDisk, session>>
    BY <1>1, <2>1, <2>2, GotoType, SameRecords, SameSession, GroupsPrime DEF PCs
  <2>3. CASE NeedsSession(j)
    BY <1>1, <2>1, <2>3, NeedsSessionType, GroupsPrime
  <2> QED
    BY <1>4, <2>2, <2>3 DEF SendSubmission
<1> QED
  BY <1>2, <1>3, <1>4

\* The reclaim is answered.
LEMMA ReclaimType == ASSUME TypeOK, NEW j \in Jobs, Reclaim(j) PROVE TypeOK'
<1> USE Groups
<1>1. HistoryOK' /\ SessionOK' /\ DeletedOK'
  BY SameHistory, SameSession, SameDeleted DEF Reclaim
<1>2. "reclaim" \in Ops /\ "deliver" \in PCs /\ "delivery_blocked" \in Phases
  BY DEF Ops, PCs, Phases
<1>3. CASE /\ Grant(j, "reclaim") /\ UNCHANGED left
           /\ Persist(j, Reclaimed(j)) /\ Goto(j, "deliver")
  <2>1. Reclaimed(j) \in Record
    <3>1. journal[j] \in Record /\ journal[j].rec \in Nat
      BY RecordOf, RecordFields
    <3> QED
      BY <3>1, SetFence DEF Reclaimed
  <2> QED
    BY <1>1, <1>2, <1>3, <2>1, GrantType, SameLeft, PersistType, GotoType,
       GroupsPrime
<1>4. CASE /\ Grant(j, "reclaim") /\ Strike("disk")
           /\ Finish(j, "delivery_blocked")
  BY <1>1, <1>2, <1>4, GrantType, StrikeType, FinishType, GroupsPrime
     DEF FaultKinds
<1>5. CASE Goto(j, "deliver") /\ UNCHANGED <<journal, onDisk, backend, left>>
  BY <1>1, <1>2, <1>5, GotoType, SameRecords, SameBackend, SameLeft, GroupsPrime
<1>6. CASE /\ Refused(j, "reclaim") /\ Finish(j, "delivery_blocked")
           /\ UNCHANGED left
  BY <1>1, <1>2, <1>6, RefusedType, FinishType, SameLeft, GroupsPrime
<1>7. CASE /\ TimeOut(j, "reclaim")
           /\ Goto(j, "deliver") /\ UNCHANGED <<journal, onDisk>>
  BY <1>1, <1>2, <1>7, TimeOutType, GotoType, SameRecords, GroupsPrime
<1> QED
  BY <1>3, <1>4, <1>5, <1>6, <1>7 DEF Reclaim

\* The submission is answered.
LEMMA SubmitType == ASSUME TypeOK, NEW j \in Jobs, Submit(j) PROVE TypeOK'
<1> USE Groups
<1>1. HistoryOK' /\ DeletedOK'
  BY SameHistory, SameDeleted DEF Submit
<1>2. "submit" \in Ops /\ "deliver" \in PCs
      /\ {"acknowledged", "delivery_blocked"} \subseteq Phases
  BY DEF Ops, PCs, Phases
<1>3. CASE /\ Grant(j, "submit") /\ UNCHANGED <<session, left>>
           /\ Finish(j, "acknowledged")
  BY <1>1, <1>2, <1>3, GrantType, SameSession, SameLeft, FinishType, GroupsPrime
<1>4. CASE /\ Grant(j, "submit") /\ Strike("disk")
           /\ Abandon(j) /\ UNCHANGED session
  BY <1>1, <1>2, <1>4, GrantType, StrikeType, AbandonType, SameSession,
     GroupsPrime DEF FaultKinds
<1>5. CASE Refused(j, "submit") /\ NeedsSession(j) /\ UNCHANGED left
  BY <1>1, <1>2, <1>5, RefusedType, NeedsSessionType, SameLeft, GroupsPrime
<1>6. CASE /\ Strike("refuse") /\ UNCHANGED <<session, backend>>
           /\ Finish(j, "delivery_blocked")
  BY <1>1, <1>2, <1>6, StrikeType, SameSession, SameBackend, FinishType,
     GroupsPrime DEF FaultKinds
<1>7. CASE /\ TimeOut(j, "submit") /\ UNCHANGED session
           /\ Goto(j, "deliver") /\ UNCHANGED <<journal, onDisk>>
  BY <1>1, <1>2, <1>7, TimeOutType, SameSession, GotoType, SameRecords,
     GroupsPrime
<1> QED
  BY <1>3, <1>4, <1>5, <1>6, <1>7 DEF Submit

\* The task panics.
LEMMA PanicType == ASSUME TypeOK, NEW j \in Jobs, Panic(j) PROVE TypeOK'
<1> USE Groups
<1>1. SessionOK' /\ DeletedOK' /\ BeOK' /\ LateOK' /\ LeftOK' /\ HistoryOK'
  BY SameSession, SameDeleted, SameBackend, StrikeType, StoppedType
     DEF Panic, FaultKinds
<1>2. RecordsOK' /\ TasksOK'
  <2>1. CASE owner[j] = "worker" /\ onDisk[j]
    <3> DEFINE r == IF journal[j].phase \in Unfinished
                    THEN WithError(j, "indeterminate") ELSE journal[j]
    <3>1. r \in Record
      BY RecordOf, WithErrorType DEF Errors
    <3>2. Persist(j, r)
      BY <2>1 DEF Panic
    <3>3. RecordsOK'
      BY <3>1, <3>2, PersistType
    <3>4. TasksOK'
      BY <2>1 DEF Panic, TasksOK, PCs
    <3> QED
      BY <3>3, <3>4
  <2>2. CASE ~(owner[j] = "worker" /\ onDisk[j])
    BY <2>2, AbandonType DEF Panic
  <2> QED
    BY <2>1, <2>2
<1> QED
  BY <1>1, <1>2, GroupsPrime

\* The helpers of a running task.
LEMMA HelpersType ==
    ASSUME TypeOK, NEW j \in Jobs,
           Renew(j) \/ WatchAuthority(j) \/ GuardianStops(j)
    PROVE  TypeOK'
<1> USE Groups
<1>1. SessionOK' /\ DeletedOK'
  BY SameSession, SameDeleted DEF Renew, WatchAuthority, GuardianStops
<1>2. be[j].cancel \in BOOLEAN
  BY DEF BeOK, Job
<1>3. CASE Renew(j)
  <2>1. HistoryOK' /\ UNCHANGED <<pc, owner>>
    BY <1>3, SameHistory DEF Renew
  <2>2. CASE /\ Strike("renew") /\ Grant(j, "renew")
             /\ cancel' = [cancel EXCEPT ![j] = @ \/ be[j].cancel]
             /\ Persist(j, [journal[j] EXCEPT !.ver = @ + 1,
                                              !.canceling = be[j].cancel])
    <3>1. [journal[j] EXCEPT !.ver = @ + 1, !.canceling = be[j].cancel]
            \in Record
      BY <1>2, RecordOf, SetVerCanceling
    <3>2. RecordsOK'
      BY <2>2, <3>1, PersistType
    <3>3. TasksOK'
      BY <1>2, <2>1, <2>2 DEF TasksOK
    <3>4. BeOK' /\ LateOK' /\ LeftOK'
      BY <2>2, GrantType, StrikeType DEF Ops, FaultKinds
    <3> QED
      BY <1>1, <2>1, <3>2, <3>3, <3>4, GroupsPrime
  <2>3. CASE TimeOut(j, "renew") /\ UNCHANGED <<journal, onDisk, cancel>>
    BY <1>1, <2>1, <2>3, TimeOutType, SameRecords, SameTasks, GroupsPrime DEF Ops
  <2> QED
    BY <1>3, <2>2, <2>3 DEF Renew
<1>4. CASE WatchAuthority(j)
  <2>1. TasksOK'
    BY <1>4 DEF WatchAuthority, TasksOK
  <2> QED
    BY <1>1, <1>4, <2>1, SameRecords, SameHistory, SameBackend, SameLeft,
       GroupsPrime DEF WatchAuthority
<1>5. CASE GuardianStops(j)
  <2>1. HistoryOK'
    BY <1>5, StoppedType DEF GuardianStops
  <2>2. RecordsOK' /\ TasksOK'
    BY <1>5, SameRecords, SameTasks DEF GuardianStops, runner
  <2> QED
    BY <1>1, <1>5, <2>1, <2>2, SameBackend, SameLeft, GroupsPrime
       DEF GuardianStops
<1> QED
  BY <1>3, <1>4, <1>5

\* The backend moves on its own.
LEMMA BackendType ==
    ASSUME TypeOK, NEW j \in Jobs,
           LateArrives(j) \/ BackendExpires(j) \/ RequestsCancel(j)
    PROVE  TypeOK'
<1> USE Groups
<1>1. RecordsOK' /\ TasksOK' /\ HistoryOK' /\ SessionOK' /\ DeletedOK'
  BY SameRecords, SameTasks, SameHistory, SameSession, SameDeleted
     DEF LateArrives, BackendExpires, RequestsCancel, runner
<1>2. CASE LateArrives(j)
  <2>1. be[j] \in Job /\ late[j] \in Request
    BY DEF BeOK, LateOK
  <2>2. Granted(be[j], late[j]) \in Job
    BY <2>1, GrantedType
  <2>3. NoRequest \in Request
    BY DEF NoRequest, Request, Outcomes
  <2>4. BeOK' /\ LateOK'
    BY <1>2, <2>1, <2>2, <2>3 DEF LateArrives, BeOK, LateOK
  <2> QED
    BY <1>1, <1>2, <2>4, SameLeft, GroupsPrime DEF LateArrives
<1>3. CASE BackendExpires(j)
  <2>1. \A b \in Job : [b EXCEPT !.live = FALSE] \in Job
    BY DEF Job
  <2>2. [be[j] EXCEPT !.live = FALSE] \in Job
    BY <2>1 DEF BeOK
  <2>3. BeOK'
    BY <1>3, <2>2 DEF BackendExpires, BeOK
  <2> QED
    BY <1>1, <1>3, <2>3, SameLate, SameLeft, StrikeType, GroupsPrime
       DEF BackendExpires, FaultKinds
<1>4. CASE RequestsCancel(j)
  <2>1. \A b \in Job : [b EXCEPT !.cancel = TRUE] \in Job
    BY DEF Job
  <2>2. [be[j] EXCEPT !.cancel = TRUE] \in Job
    BY <2>1 DEF BeOK
  <2>3. BeOK'
    BY <1>4, <2>2 DEF RequestsCancel, BeOK
  <2> QED
    BY <1>1, <1>4, <2>3, SameLate, StrikeType, GroupsPrime
       DEF RequestsCancel, FaultKinds
<1> QED
  BY <1>2, <1>3, <1>4

\* The local lease clock runs out.
LEMMA LocalExpiresType ==
    ASSUME TypeOK, NEW j \in Jobs, LocalExpires(j) PROVE TypeOK'
<1> USE Groups
<1>1. [journal[j] EXCEPT !.live = FALSE] \in Record
  BY RecordOf, SetLive
<1>2. RecordsOK' /\ TasksOK'
  BY <1>1, SameTasks DEF LocalExpires, RecordsOK
<1> QED
  BY <1>2, SameHistory, SameSession, SameDeleted, SameBackend, StrikeType,
     GroupsPrime DEF LocalExpires, FaultKinds

\* The backend hands out a job.
LEMMA HandType ==
    ASSUME TypeOK, NEW j \in Jobs, Hand(j) PROVE BeOK' /\ LeftOK'
<1> USE Groups
<1>1. be[j] \in Job /\ sid \in Nat
  BY DEF BeOK, SessionOK
<1>2. [be[j] EXCEPT !.st = "leased", !.ver = @ + 1, !.sess = sid,
                   !.live = TRUE] \in Job
  BY <1>1, SetHanded
<1>3. BeOK'
  BY <1>2 DEF Hand, BeOK
<1> QED
  BY <1>3, SameLeft, StrikeType DEF Hand, FaultKinds

\* A job is leased.
LEMMA LeaseType == ASSUME TypeOK, NEW j \in Jobs, Lease(j) PROVE TypeOK'
<1> USE Groups
<1>1. BeOK' /\ LeftOK' /\ LateOK' /\ HistoryOK' /\ SessionOK' /\ DeletedOK'
  BY HandType, SameLate, SameHistory, SameSession, SameDeleted DEF Lease
<1>2. be[j].ver + 1 \in Nat /\ sid \in Nat
  BY DEF BeOK, Job, SessionOK
<1>3. Leased(sid, be[j].ver + 1) \in Record
  BY <1>2, LeasedType
<1>4. RecordsOK'
  BY <1>3, PersistType, SameRecords DEF Lease
<1>5. TasksOK'
  BY DEF Lease, TasksOK, PCs
<1> QED
  BY <1>1, <1>4, <1>5, GroupsPrime

\* A heartbeat cancels, a run is deleted, its jobs are purged.
LEMMA ControlType ==
    ASSUME TypeOK, NEW j \in Jobs,
           HeartbeatCancels(j) \/ DeleteRun(j) \/ PurgeDeleted(j)
    PROVE  TypeOK'
<1> USE Groups
<1>1. HistoryOK' /\ SessionOK' /\ LateOK'
  BY SameHistory, SameSession, SameLate
     DEF HeartbeatCancels, DeleteRun, PurgeDeleted, backend
<1>2. CASE HeartbeatCancels(j)
  <2>1. TasksOK'
    BY <1>2 DEF HeartbeatCancels, TasksOK
  <2> QED
    BY <1>1, <1>2, <2>1, SameRecords, SameDeleted, SameBackend, SameLeft,
       GroupsPrime DEF HeartbeatCancels
<1>3. CASE DeleteRun(j)
  <2>1. [be[j] EXCEPT !.st = "gone"] \in Job
    BY SetSt DEF BeOK
  <2>2. BeOK' /\ DeletedOK'
    BY <1>3, <2>1 DEF DeleteRun, BeOK, DeletedOK
  <2>3. LeftOK' /\ RecordsOK' /\ TasksOK'
    BY <1>3, StrikeType, SameRecords, SameTasks DEF DeleteRun, FaultKinds, runner
  <2> QED
    BY <1>1, <2>2, <2>3, GroupsPrime
<1>4. CASE PurgeDeleted(j)
  <2>1. RecordsOK'
    BY <1>4, NoJournalType DEF PurgeDeleted, RecordsOK
  <2>2. TasksOK' /\ DeletedOK'
    BY <1>4 DEF PurgeDeleted, TasksOK, DeletedOK
  <2> QED
    BY <1>1, <1>4, <2>1, <2>2, SameBackend, SameLeft, GroupsPrime
       DEF PurgeDeleted
<1> QED
  BY <1>2, <1>3, <1>4

\* The session moves.
LEMMA SessionType ==
    ASSUME TypeOK, SessionStep \/ LeaseFails \/ Drain \/ Resume
    PROVE  TypeOK'
<1> USE Groups
<1>1. CASE OpenSession
  <2>1. sid + 1 \in Nat
    BY DEF SessionOK
  <2>2. \A j \in Jobs : Recovered(journal[j], sid + 1) \in Record
    BY <2>1, RecordOf, RecoveredType
  <2>3. RecordsOK'
    BY <1>1, <2>2 DEF OpenSession, RecordsOK
  <2>4. TasksOK' /\ SessionOK'
    BY <1>1, <2>1 DEF OpenSession, TasksOK, SessionOK, PCs
  <2> QED
    BY <1>1, <2>3, <2>4, SameHistory, SameDeleted, SameBackend, SameLeft,
       GroupsPrime DEF OpenSession
<1>2. CASE StopLeasing \/ CloseSession
  <2>1. SessionOK'
    BY <1>2 DEF StopLeasing, CloseSession, SessionOK
  <2>2. RecordsOK' /\ TasksOK'
    BY <1>2, SameRecords, SameTasks DEF StopLeasing, CloseSession, runner
  <2> QED
    BY <1>2, <2>1, <2>2, SameHistory, SameDeleted, SameBackend, SameLeft,
       GroupsPrime DEF StopLeasing, CloseSession
<1>3. CASE LeaseFails
  <2>1. sid \in Nat
    BY DEF SessionOK
  <2>2. \A j \in Jobs : [be[j] EXCEPT !.st = "leased", !.ver = @ + 1,
                                      !.sess = sid, !.live = TRUE] \in Job
    BY <2>1, SetHanded DEF BeOK
  <2>3. BeOK'
    <3>1. CASE UNCHANGED be
      BY <3>1, SameBe
    <3>2. ASSUME NEW j \in Jobs,
                 be' = [be EXCEPT ![j].st = "leased", ![j].ver = @ + 1,
                                  ![j].sess = sid, ![j].live = TRUE]
          PROVE  BeOK'
      BY <2>2, <3>2 DEF BeOK
    <3> QED
      BY <1>3, <3>1, <3>2 DEF LeaseFails
  <2>4. SessionOK' /\ LeftOK'
    BY <1>3, StrikeType DEF LeaseFails, SessionOK, FaultKinds
  <2>5. RecordsOK' /\ TasksOK'
    BY <1>3, SameRecords, SameTasks DEF LeaseFails, runner
  <2> QED
    BY <1>3, <2>3, <2>4, <2>5, SameHistory, SameDeleted, SameLate, GroupsPrime
       DEF LeaseFails
<1>4. CASE Drain \/ Resume
  <2>1. SessionOK' /\ LeftOK'
    BY <1>4, StrikeType, SameLeft DEF Drain, Resume, SessionOK, FaultKinds
  <2>2. RecordsOK' /\ TasksOK'
    BY <1>4, SameRecords, SameTasks DEF Drain, Resume, runner
  <2> QED
    BY <1>4, <2>1, <2>2, SameHistory, SameDeleted, SameBackend, GroupsPrime
       DEF Drain, Resume
<1> QED
  BY <1>1, <1>2, <1>3, <1>4 DEF SessionStep

\* A call under way is a request.
LEMMA InFlightType == ASSUME TypeOK, NEW j \in Jobs PROVE InFlight(j) \in Request
<1>1. \A op \in Ops : Call(j, op) \in Request
  BY CallType DEF Ops
<1>2. late[j] \in Request
  BY DEF TypeOK
<1> QED
  BY <1>1, <1>2 DEF InFlight, Ops

\* The daemon crashes.
LEMMA CrashType == ASSUME TypeOK, Crash PROVE TypeOK'
<1> USE Groups
<1>1. RecordsOK'
  BY NoJournalType DEF Crash, RecordsOK
<1>2. TasksOK' /\ SessionOK'
  BY DEF Crash, TasksOK, SessionOK, PCs
<1>3. LateOK'
  BY InFlightType DEF Crash, LateOK
<1>4. LeftOK'
  BY StrikeType DEF Crash, FaultKinds
<1> QED
  BY <1>1, <1>2, <1>3, <1>4, SameHistory, SameDeleted, SameBe, GroupsPrime
     DEF Crash

\* Every step keeps the type invariant.
LEMMA NextType == TypeOK /\ [Next]_vars => TypeOK'
<1> SUFFICES ASSUME TypeOK, [Next]_vars PROVE TypeOK'
  OBVIOUS
<1>1. ASSUME NEW j \in Jobs, JobStep(j) PROVE TypeOK'
  <2>1. CASE TaskStep(j)
    BY <2>1, PreStartType, StartType, SpawnType, LaunchingType, ExitType,
       FinalizeType, DeliverType, ReclaimType, SubmitType DEF TaskStep
  <2> QED
    BY <1>1, <2>1, ExitType, PanicType, HelpersType, LeaseType, ControlType,
       BackendType, LocalExpiresType DEF JobStep
<1>2. CASE UNCHANGED vars
  BY <1>2 DEF vars, runner, history, session, backend, TypeOK
<1> QED
  BY <1>1, <1>2, SessionType, CrashType DEF Next

(***************************************************************************)
(* Every reachable state is well typed: whatever the interleaving, a       *)
(* journal holds a phase the code knows, a fence of naturals and an error  *)
(* object of one of the three kinds.                                       *)
(***************************************************************************)
THEOREM TypeCorrect == Spec => []TypeOK
<1>1. Init => TypeOK
  BY InitType
<1>2. TypeOK /\ [Next]_vars => TypeOK'
  BY NextType
<1> QED
  BY <1>1, <1>2, PTL DEF Spec
-----------------------------------------------------------------------------
(***************************************************************************)
(* No job is launched twice, no command is falsely reported as not         *)
(* launched, and no terminal key carries two bodies: for every set of jobs *)
(* and every number of crashes, expiries, lost replies, failed writes,     *)
(* panics, deletions and repeated leases.                                  *)
(*                                                                         *)
(* The three properties are not inductive.  They follow from what the      *)
(* journal file stands for: while it exists no lease is accepted, and it   *)
(* goes away only with the run (then the backend hands the job to nobody). *)
(***************************************************************************)
GoneRecord(j) == be[j].st = "gone"

\* The file is the evidence of a launch; before a launch there is none.
LaunchLedger(j) ==
    /\ deleted[j] # "no" => GoneRecord(j)
    /\ ~onDisk[j] => \/ GoneRecord(j)
                     \/ launched[j] = 0 /\ sent[j] = {} /\ pc[j] = "none"
    /\ owner[j] = "none" => pc[j] = "none"
    /\ pc[j] \in PreLaunch => launched[j] = 0 /\ journal[j].err = "none"
    /\ launched[j] <= 1

\* A command may be running only once its identity is recorded, and a claim
\* of no effect is only made before the launch.
HonestyLedger(j) ==
    j \in Commands =>
      /\ pc[j] # "dispatch"
      /\ pc[j] \in {"gated", "running"} => journal[j].ident
      /\ (journal[j].err = "not_launched" \/ "not_launched" \in sent[j])
            => launched[j] = 0

OneBody(bodies) == \E o \in Outcomes : bodies = {o}

\* Nothing is sent before the outcome is recorded, nothing else afterwards.
KeyLedger(j) ==
    /\ pc[j] \in Executing => sent[j] = {}
    /\ pc[j] # "none" => journal[j].phase # Absent
    /\ journal[j].phase = Absent => ~onDisk[j]
    /\ pc[j] = "submit" => journal[j].phase = "terminal_pending"
    /\ sent[j] # {} =>
         /\ OneBody(sent[j])
         /\ \/ journal[j].phase = Absent
            \/ /\ sent[j] = {Outcome(journal[j])}
               /\ journal[j].phase \in {"terminal_pending"} \cup Settled

Ledger(j) == LaunchLedger(j) /\ HonestyLedger(j) /\ KeyLedger(j)
-----------------------------------------------------------------------------
(***************************************************************************)
(* What a step leaves at the job it is about, and at every other job.      *)
(***************************************************************************)
LEMMA Typed == ASSUME TypeOK, NEW j \in Jobs
               PROVE  /\ journal[j] \in Record /\ onDisk[j] \in BOOLEAN
                      /\ pc[j] \in PCs /\ launched[j] \in Nat
                      /\ sent[j] \in SUBSET Outcomes /\ be[j] \in Job
BY DEF TypeOK

\* A write changes one job's record and puts it on disk.
LEMMA AfterPersist ==
    ASSUME TypeOK, NEW j \in Jobs, NEW r, Persist(j, r)
    PROVE  /\ journal'[j] = r /\ onDisk'[j]
           /\ \A k \in Jobs \ {j} : journal'[k] = journal[k] /\ onDisk'[k] = onDisk[k]
BY DEF TypeOK, Persist

\* Moving a task changes only its own place.
LEMMA AfterGoto ==
    ASSUME TypeOK, NEW j \in Jobs, NEW label, Goto(j, label)
    PROVE  /\ pc'[j] = label /\ owner' = owner
           /\ \A k \in Jobs \ {j} : pc'[k] = pc[k]
BY DEF TypeOK, Goto

\* Ending a task frees its job and no other.
LEMMA AfterRelease ==
    ASSUME TypeOK, NEW j \in Jobs, Release(j)
    PROVE  /\ pc'[j] = "none" /\ owner'[j] = "none"
           /\ \A k \in Jobs \ {j} : pc'[k] = pc[k] /\ owner'[k] = owner[k]
BY DEF TypeOK, Release

\* Abandoning keeps what is on disk and forgets what is not.
LEMMA AfterAbandon ==
    ASSUME TypeOK, NEW j \in Jobs, Abandon(j)
    PROVE  /\ pc'[j] = "none" /\ owner'[j] = "none" /\ onDisk' = onDisk
           /\ onDisk[j] => journal'[j] = journal[j]
           /\ ~onDisk[j] => journal'[j] = NoJournal
           /\ \A k \in Jobs \ {j} : /\ pc'[k] = pc[k] /\ owner'[k] = owner[k]
                                    /\ journal'[k] = journal[k]
<1>1. Release(j)
  BY DEF Abandon
<1>2. journal' = [journal EXCEPT ![j] = IF onDisk[j] THEN journal[j] ELSE NoJournal]
      /\ onDisk' = onDisk
  BY DEF Abandon
<1> QED
  BY <1>1, <1>2, AfterRelease DEF TypeOK

\* Finishing settles the record on disk and frees the job.
LEMMA AfterFinish ==
    ASSUME TypeOK, NEW j \in Jobs, NEW p \in Phases, Finish(j, p)
    PROVE  /\ pc'[j] = "none" /\ owner'[j] = "none" /\ onDisk'[j]
           /\ journal'[j] = [journal[j] EXCEPT !.phase = p]
           /\ \A k \in Jobs \ {j} : /\ pc'[k] = pc[k] /\ owner'[k] = owner[k]
                                    /\ journal'[k] = journal[k]
                                    /\ onDisk'[k] = onDisk[k]
BY AfterRelease, AfterPersist DEF Finish

\* Failing records the error and turns the task to delivery.
LEMMA AfterFail ==
    ASSUME TypeOK, NEW j \in Jobs, NEW e \in Errors, Fail(j, e)
    PROVE  /\ pc'[j] = "deliver" /\ owner' = owner /\ onDisk'[j]
           /\ journal'[j].phase = "terminal_pending"
           /\ journal'[j].err = e
           /\ journal'[j].ident = journal[j].ident
           /\ \A k \in Jobs \ {j} : /\ pc'[k] = pc[k]
                                    /\ journal'[k] = journal[k]
                                    /\ onDisk'[k] = onDisk[k]
<1>1. journal'[j] = WithError(j, e) /\ onDisk'[j] /\ pc'[j] = "deliver"
      /\ owner' = owner
      /\ \A k \in Jobs \ {j} : /\ pc'[k] = pc[k] /\ journal'[k] = journal[k]
                               /\ onDisk'[k] = onDisk[k]
  BY AfterPersist, AfterGoto DEF Fail
<1>2. /\ WithError(j, e).phase = "terminal_pending"
      /\ WithError(j, e).err = e
      /\ WithError(j, e).ident = journal[j].ident
  BY Typed DEF WithError, Record
<1> QED
  BY <1>1, <1>2

\* Losing the session is an abandonment for the job's own state.
LEMMA AfterNeedsSession ==
    ASSUME TypeOK, NEW j \in Jobs, NeedsSession(j) PROVE Abandon(j)
BY DEF NeedsSession

\* The backend never revives a deleted job.
LEMMA GoneStays ==
    ASSUME NEW b \in Job, NEW r \in Request, b.st = "gone" PROVE ~Accepts(b, r)
BY DEF Accepts, InProgress

\* A granted call belongs to a job that is not deleted.
LEMMA GrantGone ==
    ASSUME TypeOK, NEW j \in Jobs, NEW op \in Ops, Grant(j, op)
    PROVE  /\ ~GoneRecord(j)
           /\ \A k \in Jobs \ {j} : be'[k] = be[k]
<1>1. Call(j, op) \in Request /\ be[j] \in Job
  BY CallType, Typed DEF Ops
<1>2. ~GoneRecord(j)
  BY <1>1, GoneStays DEF Grant, GoneRecord
<1> QED
  BY <1>2 DEF Grant, TypeOK
-----------------------------------------------------------------------------
(***************************************************************************)
(* The kinds of step a task takes, each preserving its job's ledger.       *)
(***************************************************************************)
Kept(j) == /\ launched'[j] = launched[j] /\ sent'[j] = sent[j]
           /\ deleted'[j] = deleted[j]
           /\ GoneRecord(j) => GoneRecord(j)'

\* The body sent depends on the recorded error and result only.
LEMMA OutcomeOf ==
    \A r, s \in Record : r.err = s.err /\ r.res = s.res => Outcome(r) = Outcome(s)
BY DEF Outcome

\* Execution fails: an error object is recorded and nothing was sent before.
LEMMA FailStep ==
    ASSUME TypeOK, NEW j \in Jobs, Ledger(j), Kept(j), NEW e \in Errors,
           Fail(j, e), pc[j] \in PreLaunch \cup {"running", "finalize"},
           j \in Commands /\ e = "not_launched" => launched[j] = 0
    PROVE  Ledger(j)'
<1>1. /\ pc'[j] = "deliver" /\ owner'[j] = owner[j] /\ onDisk'[j]
      /\ journal'[j].phase = "terminal_pending" /\ journal'[j].err = e
  BY AfterFail
<1>2. sent[j] = {} /\ owner[j] # "none"
  BY DEF Ledger, LaunchLedger, KeyLedger, Executing, PreLaunch
<1>3. LaunchLedger(j)'
  BY <1>1, <1>2 DEF Ledger, LaunchLedger, Kept, PreLaunch
<1>4. HonestyLedger(j)'
  BY <1>1, <1>2 DEF HonestyLedger, Kept
<1>5. KeyLedger(j)'
  BY <1>1, <1>2 DEF KeyLedger, Kept, Executing, PreLaunch, Absent
<1> QED
  BY <1>3, <1>4, <1>5 DEF Ledger

\* The task ends; its record stays if the file does.
LEMMA AbandonStep ==
    ASSUME TypeOK, NEW j \in Jobs, Ledger(j), Kept(j), Abandon(j)
    PROVE  Ledger(j)'
<1>1. /\ pc'[j] = "none" /\ owner'[j] = "none" /\ onDisk'[j] = onDisk[j]
      /\ onDisk[j] => journal'[j] = journal[j]
      /\ ~onDisk[j] => journal'[j] = NoJournal
  BY AfterAbandon
<1>2. NoJournal.phase = Absent /\ NoJournal.err = "none"
  BY DEF NoJournal
<1>3. LaunchLedger(j)'
  BY <1>1 DEF Ledger, LaunchLedger, Kept, PreLaunch
<1>4. HonestyLedger(j)'
  BY <1>1, <1>2 DEF Ledger, HonestyLedger, Kept
<1>5. KeyLedger(j)'
  <2>1. CASE onDisk[j]
    BY <1>1, <2>1 DEF Ledger, KeyLedger, Kept, Executing, PreLaunch, Absent
  <2>2. CASE ~onDisk[j]
    BY <1>1, <1>2, <2>2 DEF Ledger, KeyLedger, Kept, Executing, PreLaunch, Absent
  <2> QED
    BY <2>1, <2>2
<1> QED
  BY <1>3, <1>4, <1>5 DEF Ledger

\* The task settles the record: acknowledged or delivery_blocked.
LEMMA FinishStep ==
    ASSUME TypeOK, NEW j \in Jobs, Ledger(j), Kept(j), NEW p \in Settled,
           Finish(j, p), pc[j] # "none"
    PROVE  Ledger(j)'
<1>1. p \in Phases
  BY DEF Settled, Phases
<1>2. /\ pc'[j] = "none" /\ owner'[j] = "none" /\ onDisk'[j]
      /\ journal'[j] = [journal[j] EXCEPT !.phase = p]
  BY <1>1, AfterFinish
<1>3. journal[j] \in Record /\ journal'[j] \in Record
  BY <1>1, <1>2, Typed, SetPhase
<1>4. journal'[j].phase = p /\ journal'[j].err = journal[j].err
      /\ journal'[j].res = journal[j].res
  BY <1>2, <1>3 DEF Record
<1>5. Outcome(journal'[j]) = Outcome(journal[j])
  BY <1>3, <1>4, OutcomeOf
<1>6. LaunchLedger(j)'
  BY <1>2 DEF Ledger, LaunchLedger, Kept, PreLaunch
<1>7. HonestyLedger(j)'
  BY <1>2, <1>4 DEF Ledger, HonestyLedger, Kept
<1>8. KeyLedger(j)'
  BY <1>2, <1>4, <1>5 DEF Ledger, KeyLedger, Kept, Executing, PreLaunch, Absent, Settled
<1> QED
  BY <1>6, <1>7, <1>8 DEF Ledger

\* A step towards the launch, with or without a write.
LEMMA AdvanceStep ==
    ASSUME TypeOK, NEW j \in Jobs, Ledger(j), Kept(j),
           pc[j] \in PreLaunch, pc'[j] \in PreLaunch, owner'[j] = owner[j],
           onDisk'[j] \/ onDisk'[j] = onDisk[j],
           journal'[j].phase # Absent, journal'[j].err = journal[j].err,
           j \in Commands => /\ pc'[j] # "dispatch"
                             /\ pc'[j] = "gated" => journal'[j].ident
    PROVE  Ledger(j)'
<1>1. sent[j] = {} /\ launched[j] = 0 /\ journal[j].err = "none" /\ pc[j] # "none"
      /\ pc'[j] # "running" /\ pc'[j] # "submit" /\ pc'[j] # "none"
  BY DEF Ledger, LaunchLedger, KeyLedger, Executing, PreLaunch
<1>2. LaunchLedger(j)'
  BY <1>1 DEF Ledger, LaunchLedger, Kept
<1>3. HonestyLedger(j)'
  BY <1>1 DEF HonestyLedger, Kept
<1>4. KeyLedger(j)'
  BY <1>1 DEF KeyLedger, Kept
<1> QED
  BY <1>2, <1>3, <1>4 DEF Ledger

\* A step of delivery that keeps the recorded outcome.
LEMMA DeliveryStep ==
    ASSUME TypeOK, NEW j \in Jobs, Ledger(j), Kept(j), pc[j] # "none",
           pc'[j] \in {"deliver", "reclaiming", "submitting"},
           owner'[j] = owner[j], onDisk'[j] \/ onDisk'[j] = onDisk[j],
           journal'[j].phase = journal[j].phase,
           journal'[j].err = journal[j].err,
           Outcome(journal'[j]) = Outcome(journal[j])
    PROVE  Ledger(j)'
<1>1. LaunchLedger(j)'
  BY DEF Ledger, LaunchLedger, Kept, PreLaunch
<1>2. HonestyLedger(j)'
  BY DEF Ledger, HonestyLedger, Kept
<1>3. KeyLedger(j)'
  BY DEF Ledger, KeyLedger, Kept, Executing, PreLaunch
<1> QED
  BY <1>1, <1>2, <1>3 DEF Ledger

\* Nothing that the ledger reads changes, except what a running job renews.
LEMMA StutterStep ==
    ASSUME TypeOK, NEW j \in Jobs, Ledger(j), Kept(j),
           pc'[j] = pc[j], owner'[j] = owner[j],
           onDisk'[j] \/ onDisk'[j] = onDisk[j],
           onDisk'[j] => journal[j].phase # Absent,
           journal'[j].phase = journal[j].phase,
           journal'[j].err = journal[j].err,
           journal'[j].ident = journal[j].ident,
           Outcome(journal'[j]) = Outcome(journal[j])
    PROVE  Ledger(j)'
<1>1. LaunchLedger(j)'
  BY DEF Ledger, LaunchLedger, Kept
<1>2. HonestyLedger(j)'
  BY DEF Ledger, HonestyLedger, Kept
<1>3. KeyLedger(j)'
  BY DEF Ledger, KeyLedger, Kept
<1> QED
  BY <1>1, <1>2, <1>3 DEF Ledger

\* A job whose task, record and history stay keeps its ledger.
LEMMA Same ==
    ASSUME TypeOK, NEW j \in Jobs, Ledger(j), Kept(j),
           pc'[j] = pc[j], owner'[j] = owner[j], onDisk'[j] = onDisk[j],
           journal'[j] = journal[j]
    PROVE  Ledger(j)'
<1>1. onDisk'[j] => journal[j].phase # Absent
  BY DEF Ledger, KeyLedger
<1> QED
  BY <1>1, StutterStep
-----------------------------------------------------------------------------
(***************************************************************************)
(* A step of one job leaves every other job's ledger alone.                *)
(***************************************************************************)
RecordsApart(k) == journal'[k] = journal[k] /\ onDisk'[k] = onDisk[k]
TasksApart(k) == pc'[k] = pc[k] /\ owner'[k] = owner[k]
HistoryApart(k) == launched'[k] = launched[k] /\ sent'[k] = sent[k]
OutsideApart(k) == deleted'[k] = deleted[k] /\ be'[k] = be[k]
Apart(k) == RecordsApart(k) /\ TasksApart(k) /\ HistoryApart(k) /\ OutsideApart(k)

\* A job that a step leaves alone keeps its ledger.
LEMMA ApartKeeps ==
    ASSUME TypeOK, NEW k \in Jobs, Ledger(k), Apart(k) PROVE Ledger(k)'
<1>1. Kept(k)
  BY DEF Apart, HistoryApart, OutsideApart, Kept, GoneRecord
<1> QED
  BY <1>1, Same DEF Apart, RecordsApart, TasksApart

\* Stopping a process group launches and sends nothing.
LEMMA StoppedApart ==
    ASSUME NEW j \in Jobs, NEW k \in Jobs, NEW S, Stopped(j, S)
    PROVE  HistoryApart(k)
BY DEF Stopped, HistoryApart

\* A launch is counted for its own job.
LEMMA LaunchApart ==
    ASSUME TypeOK, NEW j \in Jobs, NEW k \in Jobs \ {j}, Launch(j)
    PROVE  HistoryApart(k)
BY DEF TypeOK, Launch, HistoryApart

\* The building blocks of a task's step touch no other job.
LEMMA StepsApart ==
    ASSUME TypeOK, NEW j \in Jobs, NEW k \in Jobs \ {j}
    PROVE  /\ \A r : Persist(j, r) => RecordsApart(k)
           /\ \A l : Goto(j, l) => TasksApart(k)
           /\ Release(j) => TasksApart(k)
           /\ Abandon(j) => RecordsApart(k) /\ TasksApart(k)
           /\ NeedsSession(j) => RecordsApart(k) /\ TasksApart(k)
           /\ \A p \in Phases : Finish(j, p) => RecordsApart(k) /\ TasksApart(k)
           /\ \A e \in Errors : Fail(j, e) => RecordsApart(k) /\ TasksApart(k)
           /\ \A op : TimeOut(j, op) => be'[k] = be[k]
           /\ \A op : Refused(j, op) => be'[k] = be[k]
           /\ \A op : Grant(j, op) => be'[k] = be[k]
<1> USE DEF RecordsApart, TasksApart
<1>1. \A r : Persist(j, r) => RecordsApart(k)
  BY AfterPersist
<1>2. \A l : Goto(j, l) => TasksApart(k)
  BY AfterGoto
<1>3. Release(j) => TasksApart(k)
  BY AfterRelease
<1>4. Abandon(j) => RecordsApart(k) /\ TasksApart(k)
  BY AfterAbandon
<1>5. NeedsSession(j) => RecordsApart(k) /\ TasksApart(k)
  BY <1>4 DEF NeedsSession
<1>6. \A p \in Phases : Finish(j, p) => RecordsApart(k) /\ TasksApart(k)
  BY AfterFinish
<1>7. \A e \in Errors : Fail(j, e) => RecordsApart(k) /\ TasksApart(k)
  BY <1>1, <1>2 DEF Fail
<1>8. \A op : TimeOut(j, op) => be'[k] = be[k]
  BY DEF TimeOut
<1>9. \A op : Refused(j, op) => be'[k] = be[k]
  BY DEF Refused, backend
<1>10. \A op : Grant(j, op) => be'[k] = be[k]
  BY DEF Grant, TypeOK
<1> QED
  BY <1>1, <1>2, <1>3, <1>4, <1>5, <1>6, <1>7, <1>8, <1>9, <1>10

\* So a step of one task leaves every other job alone.
LEMMA TaskApart ==
    ASSUME TypeOK, NEW j \in Jobs, NEW k \in Jobs \ {j}, TaskStep(j)
    PROVE  Apart(k)
<1> USE StepsApart
<1>1. CASE Register(j) \/ Authorize(j) \/ CommitStart(j) \/ RecordIntent(j)
           \/ SpawnGuardian(j)
  <2>1. HistoryApart(k) /\ OutsideApart(k)
    BY <1>1 DEF Register, Authorize, CommitStart, RecordIntent, SpawnGuardian,
       HistoryApart, OutsideApart, history, backend
  <2>2. RecordsApart(k) /\ TasksApart(k)
    BY <1>1, UntypedType DEF Register, Authorize, CommitStart, RecordIntent,
       SpawnGuardian, RecordsApart, Errors
  <2> QED
    BY <2>1, <2>2 DEF Apart
<1>2. CASE Start(j)
  <2>1. HistoryApart(k) /\ OutsideApart(k)
    BY <1>2 DEF Start, HistoryApart, OutsideApart, history, backend
  <2>2. RecordsApart(k) /\ TasksApart(k)
    BY <1>2 DEF Start, Errors
  <2> QED
    BY <2>1, <2>2 DEF Apart
<1>3. CASE ReleaseTarget(j) \/ Dispatch(j)
  <2>1. HistoryApart(k) /\ OutsideApart(k)
    BY <1>3, LaunchApart DEF ReleaseTarget, Dispatch, HistoryApart, OutsideApart,
       history, backend
  <2>2. RecordsApart(k) /\ TasksApart(k)
    BY <1>3, UntypedType DEF ReleaseTarget, Dispatch, RecordsApart, Errors
  <2> QED
    BY <2>1, <2>2 DEF Apart
<1>4. CASE Exit(j)
  <2>1. HistoryApart(k) /\ OutsideApart(k)
    BY <1>4, StoppedApart DEF Exit, OutsideApart, backend
  <2>2. RecordsApart(k) /\ TasksApart(k)
    BY <1>4 DEF Exit, Errors
  <2> QED
    BY <2>1, <2>2 DEF Apart
<1>5. CASE Finalize(j)
  <2>1. HistoryApart(k) /\ OutsideApart(k)
    BY <1>5 DEF Finalize, HistoryApart, OutsideApart, history, backend
  <2>2. RecordsApart(k) /\ TasksApart(k)
    BY <1>5 DEF Finalize, RecordsApart, Phases
  <2> QED
    BY <2>1, <2>2 DEF Apart
<1>6. CASE PurgeAtDelivery(j)
  <2>1. HistoryApart(k) /\ OutsideApart(k)
    BY <1>6 DEF PurgeAtDelivery, HistoryApart, OutsideApart, history, backend
  <2>2. RecordsApart(k) /\ TasksApart(k)
    BY <1>6 DEF PurgeAtDelivery, RecordsApart, TypeOK
  <2> QED
    BY <2>1, <2>2 DEF Apart
<1>7. CASE SendReclaim(j)
  <2>1. HistoryApart(k) /\ OutsideApart(k) /\ RecordsApart(k)
    BY <1>7 DEF SendReclaim, HistoryApart, OutsideApart, RecordsApart, history, backend
  <2> QED
    BY <1>7, <2>1 DEF SendReclaim, Apart
<1>8. CASE SendSubmission(j)
  <2>1. HistoryApart(k) /\ OutsideApart(k)
    BY <1>8 DEF SendSubmission, HistoryApart, OutsideApart, backend, TypeOK
  <2>2. RecordsApart(k) /\ TasksApart(k)
    BY <1>8 DEF SendSubmission, RecordsApart
  <2> QED
    BY <2>1, <2>2 DEF Apart
<1>9. CASE Reclaim(j) \/ Submit(j)
  <2>1. HistoryApart(k) /\ OutsideApart(k)
    BY <1>9 DEF Reclaim, Submit, HistoryApart, OutsideApart, history, backend
  <2>2. RecordsApart(k) /\ TasksApart(k)
    BY <1>9 DEF Reclaim, Submit, RecordsApart, Phases
  <2> QED
    BY <2>1, <2>2 DEF Apart
<1> QED
  BY <1>1, <1>2, <1>3, <1>4, <1>5, <1>6, <1>7, <1>8, <1>9 DEF TaskStep

\* And so does every other step taken on behalf of one job.
LEMMA JobApart ==
    ASSUME TypeOK, NEW j \in Jobs, NEW k \in Jobs \ {j}, JobStep(j)
    PROVE  Apart(k)
<1> USE StepsApart
<1>1. CASE TaskStep(j)
  BY <1>1, TaskApart
<1>2. CASE DiskFails(j)
  <2>1. HistoryApart(k) /\ OutsideApart(k)
    BY <1>2, StoppedApart DEF DiskFails, OutsideApart, backend
  <2> QED
    BY <1>2, <2>1, UntypedType DEF DiskFails, Apart
<1>3. CASE Panic(j)
  <2>1. HistoryApart(k) /\ OutsideApart(k)
    BY <1>3, StoppedApart DEF Panic, OutsideApart, backend
  <2>2. RecordsApart(k) /\ TasksApart(k)
    BY <1>3 DEF Panic, TasksApart, TypeOK
  <2> QED
    BY <2>1, <2>2 DEF Apart
<1>4. CASE Renew(j) \/ WatchAuthority(j) \/ HeartbeatCancels(j)
  <2>1. HistoryApart(k) /\ OutsideApart(k)
    BY <1>4 DEF Renew, WatchAuthority, HeartbeatCancels, HistoryApart,
       OutsideApart, history, backend
  <2>2. RecordsApart(k) /\ TasksApart(k)
    BY <1>4 DEF Renew, WatchAuthority, HeartbeatCancels, RecordsApart, TasksApart
  <2> QED
    BY <2>1, <2>2 DEF Apart
<1>5. CASE GuardianStops(j)
  BY <1>5, StoppedApart DEF GuardianStops, Apart, RecordsApart, TasksApart,
     OutsideApart, runner, backend
<1>6. CASE Lease(j)
  <2>1. HistoryApart(k) /\ OutsideApart(k)
    BY <1>6 DEF Lease, Hand, HistoryApart, OutsideApart, history, TypeOK
  <2>2. RecordsApart(k) /\ TasksApart(k)
    BY <1>6 DEF Lease, RecordsApart, TasksApart, TypeOK
  <2> QED
    BY <2>1, <2>2 DEF Apart
<1>7. CASE DeleteRun(j) \/ LateArrives(j) \/ BackendExpires(j) \/ RequestsCancel(j)
  <2>1. RecordsApart(k) /\ TasksApart(k) /\ HistoryApart(k)
    BY <1>7 DEF DeleteRun, LateArrives, BackendExpires, RequestsCancel,
       RecordsApart, TasksApart, HistoryApart, runner, history
  <2>2. OutsideApart(k)
    BY <1>7 DEF DeleteRun, LateArrives, BackendExpires, RequestsCancel,
       OutsideApart, TypeOK
  <2> QED
    BY <2>1, <2>2 DEF Apart
<1>8. CASE PurgeDeleted(j)
  BY <1>8 DEF PurgeDeleted, Apart, RecordsApart, TasksApart, HistoryApart,
     OutsideApart, history, backend, TypeOK
<1>9. CASE LocalExpires(j)
  BY <1>9 DEF LocalExpires, Apart, RecordsApart, TasksApart, HistoryApart,
     OutsideApart, history, backend, TypeOK
<1> QED
  BY <1>1, <1>2, <1>3, <1>4, <1>5, <1>6, <1>7, <1>8, <1>9 DEF JobStep
-----------------------------------------------------------------------------
(***************************************************************************)
(* Every step of a job preserves its own ledger.                           *)
(***************************************************************************)
LEMMA SteadyKeeps ==
    ASSUME NEW j \in Jobs, launched'[j] = launched[j], sent'[j] = sent[j],
           UNCHANGED deleted, UNCHANGED be
    PROVE  Kept(j)
BY DEF Kept, GoneRecord

\* The same, for steps that leave the whole backend alone.
LEMMA HistoryKeeps ==
    ASSUME NEW j \in Jobs, UNCHANGED <<history, deleted, backend>>
    PROVE  Kept(j)
BY SteadyKeeps DEF history, backend

\* Setting the phase keeps the other fields the ledger reads.
LEMMA PhaseOf ==
    \A r \in Record, p \in Phases :
        LET s == [r EXCEPT !.phase = p]
        IN s.phase = p /\ s.err = r.err /\ s.ident = r.ident /\ s.res = r.res
BY DEF Record

\* No recorded phase is the absent one.
LEMMA LivePhases == Absent \notin Phases
BY DEF Absent, Phases

\* Registering, authorizing and committing to start.
LEMMA PreStartLedger ==
    ASSUME TypeOK, NEW j \in Jobs, Ledger(j),
           Register(j) \/ Authorize(j) \/ CommitStart(j)
    PROVE  Ledger(j)'
<1>1. Kept(j) /\ pc[j] \in PreLaunch
  BY HistoryKeeps DEF Register, Authorize, CommitStart, PreLaunch
<1>2. journal[j].phase # Absent /\ launched[j] = 0
  BY <1>1 DEF Ledger, KeyLedger, LaunchLedger, PreLaunch
<1>3. CASE Fail(j, "not_launched")
  BY <1>1, <1>2, <1>3, FailStep DEF Errors
<1>4. CASE \E l \in {"authorize", "admitted"} :
             Goto(j, l) /\ UNCHANGED <<journal, onDisk>>
  <2>1. /\ pc'[j] \in {"authorize", "admitted"} /\ owner'[j] = owner[j]
        /\ journal'[j] = journal[j] /\ onDisk'[j] = onDisk[j]
    BY <1>4, AfterGoto
  <2> QED
    BY <1>1, <1>2, <2>1, AdvanceStep DEF PreLaunch
<1>5. CASE /\ Persist(j, [journal[j] EXCEPT !.phase = "start_pending"])
           /\ Goto(j, "start")
  <2>1. /\ pc'[j] = "start" /\ owner'[j] = owner[j] /\ onDisk'[j]
        /\ journal'[j] = [journal[j] EXCEPT !.phase = "start_pending"]
    BY <1>5, AfterGoto, AfterPersist
  <2>2. journal'[j].phase = "start_pending" /\ journal'[j].err = journal[j].err
    BY <2>1, PhaseOf, Typed DEF Phases
  <2> QED
    BY <1>1, <2>1, <2>2, AdvanceStep DEF PreLaunch, Absent
<1> QED
  BY <1>3, <1>4, <1>5 DEF Register, Authorize, CommitStart

\* A granted call neither launches nor revives a deleted job.
LEMMA GrantKeeps ==
    ASSUME TypeOK, NEW j \in Jobs, NEW op \in Ops, Grant(j, op),
           UNCHANGED <<history, deleted>>
    PROVE  Kept(j)
BY GrantGone DEF Kept, history

\* Neither does a call without an answer.
LEMMA TimeOutKeeps ==
    ASSUME TypeOK, NEW j \in Jobs, NEW op, TimeOut(j, op),
           UNCHANGED <<history, deleted>>
    PROVE  Kept(j)
BY SteadyKeeps DEF TimeOut, history

\* Asking the backend to start.
LEMMA StartLedger ==
    ASSUME TypeOK, NEW j \in Jobs, Ledger(j), Start(j) PROVE Ledger(j)'
<1>1. pc[j] \in PreLaunch /\ UNCHANGED <<history, deleted>>
  BY DEF Start, PreLaunch
<1>2. journal[j].phase # Absent /\ launched[j] = 0
  BY <1>1 DEF Ledger, KeyLedger, LaunchLedger, PreLaunch
<1>3. CASE /\ Grant(j, "start")
           /\ Persist(j, [journal[j] EXCEPT !.phase = "started",
                                            !.canceling = be[j].cancel])
           /\ Goto(j, "started")
  <2>1. Kept(j)
    BY <1>1, <1>3, GrantKeeps DEF Ops
  <2>2. /\ pc'[j] = "started" /\ owner'[j] = owner[j] /\ onDisk'[j]
        /\ journal'[j] = [journal[j] EXCEPT !.phase = "started",
                                            !.canceling = be[j].cancel]
    BY <1>3, AfterGoto, AfterPersist
  <2>3. journal'[j].phase = "started" /\ journal'[j].err = journal[j].err
    BY <2>2, Typed DEF Record
  <2> QED
    BY <1>1, <2>1, <2>2, <2>3, AdvanceStep DEF PreLaunch, Absent
<1>4. CASE UNCHANGED backend /\ Fail(j, "not_launched")
  BY <1>1, <1>2, <1>4, HistoryKeeps, FailStep DEF Errors
<1>5. CASE TimeOut(j, "start") /\ Fail(j, "not_launched")
  BY <1>1, <1>2, <1>5, TimeOutKeeps, FailStep DEF Errors
<1> QED
  BY <1>3, <1>4, <1>5 DEF Start

\* Recording the spawn intent and spawning the guardian.
LEMMA SpawnLedger ==
    ASSUME TypeOK, NEW j \in Jobs, Ledger(j), RecordIntent(j) \/ SpawnGuardian(j)
    PROVE  Ledger(j)'
<1>1. pc[j] \in PreLaunch /\ Kept(j)
  BY HistoryKeeps DEF RecordIntent, SpawnGuardian, PreLaunch
<1>2. launched[j] = 0
  BY <1>1 DEF Ledger, LaunchLedger
<1>3. CASE RecordIntent(j)
  <2>1. /\ pc'[j] = IF j \in Commands THEN "intent" ELSE "dispatch"
        /\ owner'[j] = owner[j] /\ onDisk'[j]
        /\ journal'[j] = [journal[j] EXCEPT
                            !.phase = IF j \in Commands THEN "spawn_intent"
                                                        ELSE "running"]
    BY <1>3, AfterGoto, AfterPersist DEF RecordIntent
  <2>2. journal'[j].phase # Absent /\ journal'[j].err = journal[j].err
    BY <2>1, PhaseOf, Typed, LivePhases DEF Phases
  <2> QED
    BY <1>1, <2>1, <2>2, AdvanceStep DEF PreLaunch
<1>4. CASE SpawnGuardian(j) /\ LaunchAllowed(j)
  <2>1. /\ pc'[j] = "gated" /\ owner'[j] = owner[j] /\ onDisk'[j]
        /\ journal'[j] = [journal[j] EXCEPT !.phase = "running", !.ident = TRUE]
    BY <1>4, AfterGoto, AfterPersist DEF SpawnGuardian
  <2>2. /\ journal'[j].phase = "running" /\ journal'[j].err = journal[j].err
        /\ journal'[j].ident
    BY <2>1, Typed DEF Record
  <2> QED
    BY <1>1, <2>1, <2>2, AdvanceStep DEF PreLaunch, Absent
<1>5. CASE Fail(j, Untyped(j))
  BY <1>1, <1>2, <1>5, UntypedType, FailStep
<1> QED
  BY <1>3, <1>4, <1>5 DEF SpawnGuardian

\* The launch itself: nothing was launched, claimed or sent before it.
LEMMA LaunchStep ==
    ASSUME TypeOK, NEW j \in Jobs, Ledger(j), pc[j] \in PreLaunch, Launch(j),
           Goto(j, "running"), UNCHANGED <<journal, onDisk, deleted, be>>,
           j \in Commands => pc[j] = "gated"
    PROVE  Ledger(j)'
<1>1. /\ pc[j] # "none" /\ launched[j] = 0 /\ journal[j].err = "none"
      /\ sent[j] = {}
  BY DEF Ledger, LaunchLedger, KeyLedger, PreLaunch, Executing
<1>2. launched'[j] = 1 /\ sent'[j] = {} /\ pc'[j] = "running" /\ owner'[j] = owner[j]
  BY <1>1, AfterGoto DEF Launch, TypeOK
<1>3. LaunchLedger(j)'
  BY <1>1, <1>2 DEF Ledger, LaunchLedger, PreLaunch, GoneRecord
<1>4. HonestyLedger(j)'
  BY <1>1, <1>2 DEF Ledger, HonestyLedger
<1>5. KeyLedger(j)'
  BY <1>1, <1>2 DEF Ledger, KeyLedger
<1> QED
  BY <1>3, <1>4, <1>5 DEF Ledger

\* A canceled target is never released; its task waits for the guardian.
LEMMA HeldBackStep ==
    ASSUME TypeOK, NEW j \in Jobs, Ledger(j), pc[j] = "gated", Kept(j),
           Goto(j, "running"), UNCHANGED <<journal, onDisk>>
    PROVE  Ledger(j)'
<1>1. pc'[j] = "running" /\ owner'[j] = owner[j]
  BY AfterGoto
<1>2. sent[j] = {} /\ journal[j].err = "none"
  BY DEF Ledger, LaunchLedger, KeyLedger, PreLaunch, Executing
<1>3. LaunchLedger(j)'
  BY <1>1 DEF Ledger, LaunchLedger, PreLaunch, Kept
<1>4. HonestyLedger(j)'
  BY <1>1 DEF Ledger, HonestyLedger, Kept
<1>5. KeyLedger(j)'
  BY <1>1, <1>2 DEF Ledger, KeyLedger, Kept
<1> QED
  BY <1>3, <1>4, <1>5 DEF Ledger

\* Releasing the target, and dispatching an in-process job.
LEMMA LaunchingLedger ==
    ASSUME TypeOK, NEW j \in Jobs, Ledger(j), ReleaseTarget(j) \/ Dispatch(j)
    PROVE  Ledger(j)'
<1>1. pc[j] \in PreLaunch /\ UNCHANGED <<deleted, backend>> /\ UNCHANGED be
  BY DEF ReleaseTarget, Dispatch, PreLaunch, backend
<1>2. launched[j] = 0
  BY <1>1 DEF Ledger, LaunchLedger
<1>3. CASE Launch(j) /\ Goto(j, "running") /\ UNCHANGED <<journal, onDisk>>
  <2>1. j \in Commands => pc[j] = "gated"
    BY DEF ReleaseTarget, Dispatch, Ledger, HonestyLedger
  <2> QED
    BY <1>1, <1>3, <2>1, LaunchStep
<1>4. CASE /\ UNCHANGED history /\ pc[j] = "gated"
           /\ Goto(j, "running") /\ UNCHANGED <<journal, onDisk>>
  BY <1>1, <1>4, HistoryKeeps, HeldBackStep
<1>5. CASE UNCHANGED history /\ Fail(j, Untyped(j))
  BY <1>1, <1>2, <1>5, HistoryKeeps, FailStep, UntypedType
<1>6. CASE UNCHANGED history /\ Fail(j, "not_launched")
  BY <1>1, <1>2, <1>6, HistoryKeeps, FailStep DEF Errors
<1> QED
  BY <1>3, <1>4, <1>5, <1>6 DEF ReleaseTarget, Dispatch

\* Stopping a group keeps the history.
LEMMA StoppedKeeps ==
    ASSUME NEW j \in Jobs, NEW S, Stopped(j, S), UNCHANGED <<deleted, backend>>
    PROVE  Kept(j)
BY DEF Stopped, Kept, GoneRecord, backend

\* The work ends.
LEMMA ExitLedger ==
    ASSUME TypeOK, NEW j \in Jobs, Ledger(j), Exit(j) PROVE Ledger(j)'
<1>1. pc[j] = "running" /\ Kept(j)
  BY StoppedKeeps DEF Exit
<1>2. sent[j] = {} /\ owner[j] # "none"
  BY <1>1 DEF Ledger, LaunchLedger, KeyLedger, Executing
<1>3. CASE /\ Persist(j, [journal[j] EXCEPT !.phase = "exited", !.res = TRUE])
           /\ Goto(j, "finalize")
  <2>1. /\ pc'[j] = "finalize" /\ owner'[j] = owner[j] /\ onDisk'[j]
        /\ journal'[j] = [journal[j] EXCEPT !.phase = "exited", !.res = TRUE]
    BY <1>3, AfterGoto, AfterPersist
  <2>2. journal'[j].phase = "exited" /\ journal'[j].err = journal[j].err
    BY <2>1, Typed DEF Record
  <2>3. LaunchLedger(j)'
    BY <1>1, <1>2, <2>1 DEF Ledger, LaunchLedger, Kept, PreLaunch
  <2>4. HonestyLedger(j)'
    BY <1>1, <2>1, <2>2 DEF Ledger, HonestyLedger, Kept
  <2>5. KeyLedger(j)'
    BY <1>1, <1>2, <2>1, <2>2 DEF KeyLedger, Kept, Absent
  <2> QED
    BY <2>3, <2>4, <2>5 DEF Ledger
<1>4. CASE Fail(j, "indeterminate")
  BY <1>1, <1>4, FailStep DEF Errors
<1> QED
  BY <1>3, <1>4 DEF Exit

\* A write fails.
LEMMA DiskLedger ==
    ASSUME TypeOK, NEW j \in Jobs, Ledger(j), DiskFails(j) PROVE Ledger(j)'
<1>1. pc[j] \in PreLaunch \cup {"running"} /\ Kept(j)
  BY StoppedKeeps DEF DiskFails
<1>2. CASE Fail(j, Untyped(j))
  <2>1. j \in Commands /\ Untyped(j) = "not_launched" => launched[j] = 0
    BY <1>1 DEF Ledger, LaunchLedger, HonestyLedger, Untyped
  <2> QED
    BY <1>1, <1>2, <2>1, FailStep, UntypedType
<1>3. CASE Abandon(j)
  BY <1>1, <1>3, AbandonStep
<1> QED
  BY <1>2, <1>3 DEF DiskFails

\* A task may materialize an outcome only while nothing has been sent.
LEMMA FinalizeLedger ==
    ASSUME TypeOK, NEW j \in Jobs, Ledger(j), Finalize(j) PROVE Ledger(j)'
<1> DEFINE next == IF pc[j] = "finalize" THEN "deliver" ELSE "submit"
<1>1. Kept(j) /\ pc[j] \in {"finalize", "deliver"}
      /\ (pc[j] = "deliver" => journal[j].phase = "exited")
  BY HistoryKeeps DEF Finalize, AtFinalization
<1>2. sent[j] = {} /\ owner[j] # "none"
  BY <1>1 DEF Ledger, LaunchLedger, KeyLedger, Executing, Settled, Absent
<1>3. ASSUME NEW r \in Record, r.phase = "terminal_pending",
             r.err \in {journal[j].err, "artifact"},
             Persist(j, r), Goto(j, next)
      PROVE  Ledger(j)'
  <2>1. /\ pc'[j] \in {"deliver", "submit"} /\ owner'[j] = owner[j]
        /\ onDisk'[j] /\ journal'[j] = r
    BY <1>3, AfterGoto, AfterPersist
  <2>2. LaunchLedger(j)'
    BY <1>1, <1>2, <2>1 DEF Ledger, LaunchLedger, Kept, PreLaunch
  <2>3. HonestyLedger(j)'
    BY <1>1, <1>2, <1>3, <2>1 DEF Ledger, HonestyLedger, Kept
  <2>4. KeyLedger(j)'
    BY <1>1, <1>2, <1>3, <2>1 DEF KeyLedger, Kept, Absent, Executing, PreLaunch
  <2> QED
    BY <2>2, <2>3, <2>4 DEF Ledger
<1>4. CASE /\ Persist(j, [journal[j] EXCEPT !.phase = "terminal_pending"])
           /\ Goto(j, next)
  <2>1. LET r == [journal[j] EXCEPT !.phase = "terminal_pending"]
        IN r \in Record /\ r.phase = "terminal_pending" /\ r.err = journal[j].err
    BY Typed, SetPhase, PhaseOf DEF Phases
  <2> QED
    BY <1>3, <1>4, <2>1
<1>5. CASE /\ Persist(j, [WithError(j, "artifact") EXCEPT !.res = TRUE])
           /\ Goto(j, next)
  <2>1. WithError(j, "artifact") \in Record
    BY Typed, WithErrorType DEF Errors
  <2>2. /\ WithError(j, "artifact").phase = "terminal_pending"
        /\ WithError(j, "artifact").err = "artifact"
    BY Typed DEF WithError, Record
  <2>3. LET r == [WithError(j, "artifact") EXCEPT !.res = TRUE]
        IN r \in Record /\ r.phase = "terminal_pending" /\ r.err = "artifact"
    BY <2>1, <2>2, SetRes DEF Record
  <2> QED
    BY <1>3, <1>5, <2>3
<1>6. CASE NeedsSession(j)
  BY <1>1, <1>6, AfterNeedsSession, AbandonStep
<1>7. CASE UNCHANGED <<journal, onDisk>> /\ Goto(j, "deliver")
  <2>1. pc'[j] = "deliver" /\ owner'[j] = owner[j] /\ pc[j] # "none"
    BY <1>1, <1>7, AfterGoto
  <2> QED
    BY <1>1, <1>7, <2>1, DeliveryStep
<1>8. CASE Finish(j, "delivery_blocked")
  BY <1>1, <1>8, FinishStep DEF Settled
<1> QED
  BY <1>4, <1>5, <1>6, <1>7, <1>8 DEF Finalize

\* A purged job holds nothing the ledger could contradict.
LEMMA PurgedStep ==
    ASSUME TypeOK, NEW j \in Jobs, Ledger(j), pc'[j] = "none", owner'[j] = "none",
           journal'[j] = NoJournal, ~onDisk'[j], GoneRecord(j)',
           launched'[j] = launched[j], sent'[j] = sent[j]
    PROVE  Ledger(j)'
<1>1. NoJournal.phase = Absent /\ NoJournal.err = "none"
  BY DEF NoJournal
<1>2. LaunchLedger(j)'
  BY DEF Ledger, LaunchLedger, PreLaunch
<1>3. HonestyLedger(j)'
  BY <1>1 DEF Ledger, HonestyLedger
<1>4. KeyLedger(j)'
  BY <1>1 DEF Ledger, KeyLedger, Executing, PreLaunch
<1> QED
  BY <1>2, <1>3, <1>4 DEF Ledger

\* Delivery notices a purge, or sends its reclaim.
LEMMA DeliverLedger ==
    ASSUME TypeOK, NEW j \in Jobs, Ledger(j), PurgeAtDelivery(j) \/ SendReclaim(j)
    PROVE  Ledger(j)'
<1>1. Kept(j) /\ pc[j] = "deliver"
  BY HistoryKeeps DEF PurgeAtDelivery, SendReclaim
<1>2. CASE PurgeAtDelivery(j)
  <2>1. GoneRecord(j) /\ launched'[j] = launched[j] /\ sent'[j] = sent[j]
    BY <1>2 DEF PurgeAtDelivery, Ledger, LaunchLedger, history
  <2>2. /\ pc'[j] = "none" /\ owner'[j] = "none"
        /\ journal'[j] = NoJournal /\ ~onDisk'[j]
    BY <1>2, AfterRelease DEF PurgeAtDelivery, TypeOK
  <2> QED
    BY <1>1, <2>1, <2>2, PurgedStep DEF Kept
<1>3. CASE SendReclaim(j)
  <2>1. pc'[j] = "reclaiming" /\ owner'[j] = owner[j]
        /\ UNCHANGED <<journal, onDisk>>
    BY <1>3, AfterGoto DEF SendReclaim
  <2> QED
    BY <1>1, <2>1, DeliveryStep
<1> QED
  BY <1>2, <1>3

\* The first submission fixes the body; a later one repeats it.
LEMMA SubmissionLedger ==
    ASSUME TypeOK, NEW j \in Jobs, Ledger(j), SendSubmission(j) PROVE Ledger(j)'
<1>1. /\ pc[j] \in {"submit", "deliver"} /\ journal[j].phase = "terminal_pending"
      /\ UNCHANGED <<deleted, backend, launched>>
  BY DEF SendSubmission, AtSubmission, Ledger, KeyLedger
<1>2. CASE NeedsSession(j) /\ UNCHANGED sent
  <2>1. Kept(j)
    BY <1>1, <1>2, SteadyKeeps DEF backend
  <2> QED
    BY <1>2, <2>1, AfterNeedsSession, AbandonStep
<1>3. CASE /\ sent' = [sent EXCEPT ![j] = @ \cup {Outcome(journal[j])}]
           /\ Goto(j, "submitting") /\ UNCHANGED <<journal, onDisk>>
  <2>1. sent'[j] = {Outcome(journal[j])}
    BY <1>1, <1>3 DEF Ledger, KeyLedger, Absent, TypeOK
  <2>2. pc'[j] = "submitting" /\ owner'[j] = owner[j] /\ be' = be
    BY <1>1, <1>3, AfterGoto DEF backend
  <2>3. LaunchLedger(j)'
    <3>1. onDisk[j] \/ GoneRecord(j)
      BY <1>1 DEF Ledger, LaunchLedger
    <3> QED
      BY <1>1, <1>3, <2>2, <3>1 DEF Ledger, LaunchLedger, PreLaunch, GoneRecord
  <2>4. HonestyLedger(j)'
    <3>1. Outcome(journal[j]) = "not_launched" => journal[j].err = "not_launched"
      BY DEF Outcome
    <3> QED
      BY <1>1, <1>3, <2>1, <2>2, <3>1 DEF Ledger, HonestyLedger
  <2>5. KeyLedger(j)'
    <3>1. OneBody(sent'[j])
      BY <2>1, Typed, OutcomeType DEF OneBody
    <3> QED
      BY <1>1, <1>3, <2>1, <2>2, <3>1 DEF Ledger, KeyLedger, Executing, PreLaunch
  <2> QED
    BY <2>3, <2>4, <2>5 DEF Ledger
<1> QED
  BY <1>2, <1>3 DEF SendSubmission

\* The reclaim is answered.
LEMMA ReclaimLedger ==
    ASSUME TypeOK, NEW j \in Jobs, Ledger(j), Reclaim(j) PROVE Ledger(j)'
<1>1. pc[j] = "reclaiming" /\ UNCHANGED <<history, deleted>>
  BY DEF Reclaim
<1>2. CASE Grant(j, "reclaim") /\ Persist(j, Reclaimed(j)) /\ Goto(j, "deliver")
  <2>1. Kept(j)
    BY <1>1, <1>2, GrantKeeps DEF Ops
  <2>2. pc'[j] = "deliver" /\ owner'[j] = owner[j] /\ onDisk'[j]
        /\ journal'[j] = Reclaimed(j)
    BY <1>2, AfterGoto, AfterPersist
  <2>3. /\ Reclaimed(j).phase = journal[j].phase
        /\ Reclaimed(j).err = journal[j].err
        /\ Reclaimed(j).res = journal[j].res
    BY Typed DEF Reclaimed, Record
  <2>4. Outcome(Reclaimed(j)) = Outcome(journal[j])
    BY <2>3 DEF Outcome
  <2> QED
    BY <1>1, <2>1, <2>2, <2>3, <2>4, DeliveryStep
<1>3. CASE Grant(j, "reclaim") /\ Finish(j, "delivery_blocked")
  BY <1>1, <1>3, GrantKeeps, FinishStep DEF Ops, Settled
<1>4. CASE Goto(j, "deliver") /\ UNCHANGED <<journal, onDisk, backend>>
  <2>1. Kept(j) /\ pc'[j] = "deliver" /\ owner'[j] = owner[j]
    BY <1>1, <1>4, HistoryKeeps, AfterGoto
  <2> QED
    BY <1>1, <1>4, <2>1, DeliveryStep
<1>5. CASE Refused(j, "reclaim") /\ Finish(j, "delivery_blocked")
  BY <1>1, <1>5, HistoryKeeps, FinishStep DEF Refused, Settled
<1>6. CASE /\ TimeOut(j, "reclaim")
           /\ Goto(j, "deliver") /\ UNCHANGED <<journal, onDisk>>
  <2>1. Kept(j) /\ pc'[j] = "deliver" /\ owner'[j] = owner[j]
    BY <1>1, <1>6, TimeOutKeeps, AfterGoto
  <2> QED
    BY <1>1, <1>6, <2>1, DeliveryStep
<1> QED
  BY <1>2, <1>3, <1>4, <1>5, <1>6 DEF Reclaim

\* The submission is answered.
LEMMA SubmitLedger ==
    ASSUME TypeOK, NEW j \in Jobs, Ledger(j), Submit(j) PROVE Ledger(j)'
<1>1. pc[j] = "submitting" /\ UNCHANGED <<history, deleted>>
  BY DEF Submit
<1>2. CASE Grant(j, "submit") /\ Finish(j, "acknowledged")
  BY <1>1, <1>2, GrantKeeps, FinishStep DEF Ops, Settled
<1>3. CASE Grant(j, "submit") /\ Abandon(j)
  BY <1>1, <1>3, GrantKeeps, AbandonStep DEF Ops
<1>4. CASE Refused(j, "submit") /\ NeedsSession(j)
  BY <1>1, <1>4, HistoryKeeps, AfterNeedsSession, AbandonStep DEF Refused
<1>5. CASE UNCHANGED backend /\ Finish(j, "delivery_blocked")
  BY <1>1, <1>5, HistoryKeeps, FinishStep DEF Settled
<1>6. CASE /\ TimeOut(j, "submit")
           /\ Goto(j, "deliver") /\ UNCHANGED <<journal, onDisk>>
  <2>1. Kept(j) /\ pc'[j] = "deliver" /\ owner'[j] = owner[j]
    BY <1>1, <1>6, TimeOutKeeps, AfterGoto
  <2> QED
    BY <1>1, <1>6, <2>1, DeliveryStep
<1> QED
  BY <1>2, <1>3, <1>4, <1>5, <1>6 DEF Submit

\* The task panics.
LEMMA PanicLedger ==
    ASSUME TypeOK, NEW j \in Jobs, Ledger(j), Panic(j) PROVE Ledger(j)'
<1>1. Kept(j)
  BY StoppedKeeps DEF Panic
<1>2. CASE owner[j] = "worker" /\ onDisk[j]
  <2> DEFINE r == IF journal[j].phase \in Unfinished
                  THEN WithError(j, "indeterminate") ELSE journal[j]
  <2>1. /\ journal'[j] = r /\ onDisk'[j]
        /\ pc'[j] = "deliver" /\ owner'[j] = "panicked"
    BY <1>2, AfterPersist DEF Panic, TypeOK
  <2>2. journal[j].phase # Absent
    BY <1>2 DEF Ledger, KeyLedger
  <2>3. sent[j] # {} => journal[j].phase \notin Unfinished
    BY <2>2 DEF Ledger, KeyLedger, Unfinished, Undelivered
  <2>4. CASE journal[j].phase \in Unfinished
    <3>1. /\ WithError(j, "indeterminate").phase = "terminal_pending"
          /\ WithError(j, "indeterminate").err = "indeterminate"
      BY Typed DEF WithError, Record
    <3>2. LaunchLedger(j)' /\ HonestyLedger(j)' /\ KeyLedger(j)'
      BY <1>1, <2>1, <2>3, <2>4, <3>1 DEF Ledger, LaunchLedger, HonestyLedger,
         KeyLedger, Kept, PreLaunch, Executing, Absent
    <3> QED
      BY <3>2 DEF Ledger
  <2>5. CASE journal[j].phase \notin Unfinished
    <3>1. LaunchLedger(j)' /\ HonestyLedger(j)' /\ KeyLedger(j)'
      BY <1>1, <2>1, <2>2, <2>5 DEF Ledger, LaunchLedger, HonestyLedger,
         KeyLedger, Kept, PreLaunch, Executing
    <3> QED
      BY <3>1 DEF Ledger
  <2> QED
    BY <2>4, <2>5
<1>3. CASE Abandon(j)
  BY <1>1, <1>3, AbandonStep
<1> QED
  BY <1>2, <1>3 DEF Panic

\* The helpers of a running task.
LEMMA HelpersLedger ==
    ASSUME TypeOK, NEW j \in Jobs, Ledger(j),
           Renew(j) \/ WatchAuthority(j) \/ HeartbeatCancels(j) \/ LocalExpires(j)
             \/ GuardianStops(j)
    PROVE  Ledger(j)'
<1>1. CASE Renew(j)
  <2>1. pc[j] # "none" /\ UNCHANGED <<pc, owner, history, deleted>>
    BY <1>1 DEF Renew, Attended
  <2>2. journal[j].phase # Absent
    BY <2>1 DEF Ledger, KeyLedger
  <2>3. CASE /\ Grant(j, "renew")
             /\ Persist(j, [journal[j] EXCEPT !.ver = @ + 1,
                                              !.canceling = be[j].cancel])
    <3>1. Kept(j)
      BY <2>1, <2>3, GrantKeeps DEF Ops
    <3>2. /\ onDisk'[j]
          /\ journal'[j] = [journal[j] EXCEPT !.ver = @ + 1,
                                              !.canceling = be[j].cancel]
      BY <2>3, AfterPersist
    <3>3. /\ journal'[j].phase = journal[j].phase
          /\ journal'[j].err = journal[j].err
          /\ journal'[j].res = journal[j].res
          /\ journal'[j].ident = journal[j].ident
      BY <3>2, Typed DEF Record
    <3>4. Outcome(journal'[j]) = Outcome(journal[j])
      BY <3>3 DEF Outcome
    <3> QED
      BY <2>1, <2>2, <3>1, <3>2, <3>3, <3>4, StutterStep
  <2>4. CASE TimeOut(j, "renew") /\ UNCHANGED <<journal, onDisk>>
    BY <2>1, <2>4, TimeOutKeeps, Same
  <2> QED
    BY <1>1, <2>3, <2>4 DEF Renew
<1>2. CASE WatchAuthority(j) \/ HeartbeatCancels(j)
  BY <1>2, HistoryKeeps, Same DEF WatchAuthority, HeartbeatCancels
<1>3. CASE LocalExpires(j)
  <2>1. Kept(j) /\ UNCHANGED <<pc, owner, onDisk>>
    BY <1>3, HistoryKeeps DEF LocalExpires
  <2>2. journal'[j] = [journal[j] EXCEPT !.live = FALSE]
    BY <1>3 DEF LocalExpires, TypeOK
  <2>3. /\ journal'[j].phase = journal[j].phase
        /\ journal'[j].err = journal[j].err
        /\ journal'[j].res = journal[j].res
        /\ journal'[j].ident = journal[j].ident
    BY <2>2, Typed DEF Record
  <2>4. Outcome(journal'[j]) = Outcome(journal[j])
    BY <2>3 DEF Outcome
  <2>5. onDisk'[j] => journal[j].phase # Absent
    BY <2>1 DEF Ledger, KeyLedger
  <2> QED
    BY <2>1, <2>3, <2>4, <2>5, StutterStep
<1>4. CASE GuardianStops(j)
  BY <1>4, StoppedKeeps, Same DEF GuardianStops, runner
<1> QED
  BY <1>1, <1>2, <1>3, <1>4

\* The backend moves on its own.
LEMMA BackendLedger ==
    ASSUME TypeOK, NEW j \in Jobs, Ledger(j),
           LateArrives(j) \/ BackendExpires(j) \/ RequestsCancel(j)
    PROVE  Ledger(j)'
<1>1. UNCHANGED <<journal, onDisk, pc, owner, launched, sent, deleted>>
  BY DEF LateArrives, BackendExpires, RequestsCancel, runner, history
<1>2. GoneRecord(j) => GoneRecord(j)'
  <2>1. CASE LateArrives(j)
    <3>1. be[j] \in Job /\ late[j] \in Request
      BY DEF TypeOK
    <3> QED
      BY <2>1, <3>1, GoneStays DEF LateArrives, GoneRecord, TypeOK
  <2>2. CASE BackendExpires(j)
    <3>1. \A b \in Job : [b EXCEPT !.live = FALSE].st = b.st
      BY DEF Job
    <3> QED
      BY <2>2, <3>1, Typed DEF BackendExpires, GoneRecord, TypeOK
  <2>3. CASE RequestsCancel(j)
    BY <2>3 DEF RequestsCancel, GoneRecord, InProgress
  <2> QED
    BY <2>1, <2>2, <2>3
<1>3. Kept(j)
  BY <1>1, <1>2 DEF Kept
<1> QED
  BY <1>1, <1>3, Same

\* The heart of the argument: a lease is accepted only without evidence, and
\* without evidence nothing was launched.
LEMMA LeaseLedger ==
    ASSUME TypeOK, NEW j \in Jobs, Ledger(j), Lease(j) PROVE Ledger(j)'
<1>1. ~GoneRecord(j) /\ UNCHANGED <<launched, sent, deleted>>
  BY DEF Lease, Hand, GoneRecord, InProgress, history
<1>2. Kept(j)
  BY <1>1 DEF Kept
<1>3. CASE onDisk[j] \/ owner[j] # "none"
  BY <1>2, <1>3, Same DEF Lease
<1>4. CASE ~onDisk[j] /\ owner[j] = "none"
  <2>1. launched[j] = 0 /\ sent[j] = {} /\ deleted[j] = "no"
    BY <1>1, <1>4, Typed DEF Ledger, LaunchLedger
  <2>2. /\ pc'[j] = "register" /\ owner'[j] = "worker" /\ onDisk'[j]
        /\ journal'[j] = Leased(sid, be[j].ver + 1)
    BY <1>4, AfterPersist DEF Lease, TypeOK
  <2>3. journal'[j].phase = "leased" /\ journal'[j].err = "none"
    BY <2>2 DEF Leased, NoJournal
  <2>4. LaunchLedger(j)' /\ HonestyLedger(j)' /\ KeyLedger(j)'
    BY <1>1, <2>1, <2>2, <2>3 DEF LaunchLedger, HonestyLedger, KeyLedger, Absent
  <2> QED
    BY <2>4 DEF Ledger
<1> QED
  BY <1>3, <1>4

\* A run is deleted, and its jobs are purged.
LEMMA DeletionLedger ==
    ASSUME TypeOK, NEW j \in Jobs, Ledger(j), DeleteRun(j) \/ PurgeDeleted(j)
    PROVE  Ledger(j)'
<1>1. UNCHANGED <<pc, owner, launched, sent>>
  BY DEF DeleteRun, PurgeDeleted, runner, history
<1>2. CASE DeleteRun(j)
  <2>1. \A b \in Job : [b EXCEPT !.st = "gone"].st = "gone"
    BY DEF Job
  <2>2. GoneRecord(j)'
    BY <1>2, <2>1, Typed DEF DeleteRun, GoneRecord, TypeOK
  <2>3. UNCHANGED <<journal, onDisk>>
    BY <1>2 DEF DeleteRun, runner
  <2>4. LaunchLedger(j)' /\ HonestyLedger(j)' /\ KeyLedger(j)'
    BY <1>1, <2>2, <2>3 DEF Ledger, LaunchLedger, HonestyLedger, KeyLedger
  <2> QED
    BY <2>4 DEF Ledger
<1>3. CASE PurgeDeleted(j)
  <2>1. GoneRecord(j) /\ GoneRecord(j)'
    BY <1>3 DEF PurgeDeleted, Ledger, LaunchLedger, GoneRecord, backend
  <2>2. CASE UNCHANGED <<journal, onDisk>>
    <3>1. LaunchLedger(j)' /\ HonestyLedger(j)' /\ KeyLedger(j)'
      BY <1>1, <2>1, <2>2 DEF Ledger, LaunchLedger, HonestyLedger, KeyLedger
    <3> QED
      BY <3>1 DEF Ledger
  <2>3. CASE /\ onDisk' = [onDisk EXCEPT ![j] = FALSE]
             /\ journal' = [journal EXCEPT
                              ![j] = IF owner[j] = "none" THEN NoJournal ELSE @]
    <3>1. ~onDisk'[j]
      BY <2>3 DEF TypeOK
    <3>2. CASE owner[j] = "none"
      <4>1. journal'[j] = NoJournal /\ pc[j] = "none"
        BY <2>3, <3>2 DEF TypeOK, Ledger, LaunchLedger
      <4> QED
        BY <1>1, <2>1, <3>1, <3>2, <4>1, PurgedStep
    <3>3. CASE owner[j] # "none"
      <4>1. journal'[j] = journal[j]
        BY <2>3, <3>3 DEF TypeOK
      <4>2. LaunchLedger(j)' /\ HonestyLedger(j)' /\ KeyLedger(j)'
        BY <1>1, <2>1, <3>1, <4>1 DEF Ledger, LaunchLedger, HonestyLedger, KeyLedger
      <4> QED
        BY <4>2 DEF Ledger
    <3> QED
      BY <3>2, <3>3
  <2> QED
    BY <1>3, <2>2, <2>3 DEF PurgeDeleted
<1> QED
  BY <1>2, <1>3
-----------------------------------------------------------------------------
(***************************************************************************)
(* Steps of the session, of the operator and of the daemon as a whole.     *)
(***************************************************************************)
LEMMA RecoveryLedger ==
    ASSUME TypeOK, NEW j \in Jobs, Ledger(j), OpenSession PROVE Ledger(j)'
<1>1. Kept(j) /\ UNCHANGED onDisk
  BY HistoryKeeps DEF OpenSession
<1>2. CASE ~Recoverable(j)
  BY <1>1, <1>2, Same DEF OpenSession
<1>3. CASE Recoverable(j)
  <2> DEFINE r == journal[j]
             s == Recovered(r, sid + 1)
  <2>1. /\ onDisk[j] /\ r \in Record /\ r.phase # Absent
        /\ r.phase \notin Settled
    BY <1>3, Typed DEF Recoverable, Ledger, KeyLedger
  <2>2. pc'[j] = "deliver" /\ owner'[j] = "recovery" /\ journal'[j] = s
    BY <1>3 DEF OpenSession
  <2>3. CASE r.phase \in Undelivered
    <3>1. s.phase = r.phase /\ s.err = r.err /\ s.res = r.res
      BY <2>1, <2>3 DEF Recovered, Record
    <3>2. Outcome(s) = Outcome(r)
      BY <3>1 DEF Outcome
    <3>3. LaunchLedger(j)' /\ HonestyLedger(j)' /\ KeyLedger(j)'
      BY <1>1, <2>1, <2>2, <3>1, <3>2 DEF Ledger, LaunchLedger, HonestyLedger,
         KeyLedger, Kept, PreLaunch, Executing
    <3> QED
      BY <3>3 DEF Ledger
  <2>4. CASE r.phase \notin Undelivered
    <3>1. sent[j] = {}
      BY <2>1, <2>4 DEF Ledger, KeyLedger, Undelivered
    <3>2. s.phase = "terminal_pending" /\ s.err = "indeterminate"
      BY <2>1, <2>4 DEF Recovered, Record
    <3>3. LaunchLedger(j)' /\ HonestyLedger(j)' /\ KeyLedger(j)'
      BY <1>1, <2>1, <2>2, <3>1, <3>2 DEF Ledger, LaunchLedger, HonestyLedger,
         KeyLedger, Kept, PreLaunch, Executing, Absent
    <3> QED
      BY <3>3 DEF Ledger
  <2> QED
    BY <2>3, <2>4
<1> QED
  BY <1>2, <1>3

\* The session ends, or the daemon drains or resumes.
LEMMA SessionLedger ==
    ASSUME TypeOK, NEW j \in Jobs, Ledger(j),
           SessionStep \/ LeaseFails \/ Drain \/ Resume
    PROVE  Ledger(j)'
<1>1. CASE OpenSession
  BY <1>1, RecoveryLedger
<1>2. CASE StopLeasing \/ CloseSession \/ Drain \/ Resume
  <2>1. Kept(j)
    BY <1>2, HistoryKeeps DEF StopLeasing, CloseSession, Drain, Resume
  <2> QED
    BY <1>2, <2>1, Same DEF StopLeasing, CloseSession, Drain, Resume, runner
<1>3. CASE LeaseFails
  <2>1. GoneRecord(j) => GoneRecord(j)'
    <3>1. ASSUME NEW k \in Jobs, be[k].st = "queued",
                 be' = [be EXCEPT ![k].st = "leased", ![k].ver = @ + 1,
                                  ![k].sess = sid, ![k].live = TRUE],
                 GoneRecord(j)
          PROVE  GoneRecord(j)'
      BY <3>1 DEF GoneRecord, TypeOK
    <3> QED
      BY <1>3, <3>1 DEF LeaseFails, GoneRecord
  <2>2. Kept(j)
    BY <1>3, <2>1 DEF LeaseFails, Kept, history
  <2> QED
    BY <1>3, <2>2, Same DEF LeaseFails, runner
<1> QED
  BY <1>1, <1>2, <1>3 DEF SessionStep

\* The daemon crashes.
LEMMA CrashLedger ==
    ASSUME TypeOK, NEW j \in Jobs, Ledger(j), Crash PROVE Ledger(j)'
<1>1. Kept(j) /\ onDisk'[j] = onDisk[j] /\ pc'[j] = "none" /\ owner'[j] = "none"
      /\ journal'[j] = IF onDisk[j] THEN journal[j] ELSE NoJournal
  BY SteadyKeeps DEF Crash, history
<1>2. NoJournal.phase = Absent /\ NoJournal.err = "none"
  BY DEF NoJournal
<1>3. CASE onDisk[j]
  <2>1. LaunchLedger(j)' /\ HonestyLedger(j)' /\ KeyLedger(j)'
    BY <1>1, <1>3 DEF Ledger, LaunchLedger, HonestyLedger, KeyLedger, Kept,
       PreLaunch, Executing
  <2> QED
    BY <2>1 DEF Ledger
<1>4. CASE ~onDisk[j]
  <2>1. LaunchLedger(j)' /\ HonestyLedger(j)' /\ KeyLedger(j)'
    BY <1>1, <1>2, <1>4 DEF Ledger, LaunchLedger, HonestyLedger, KeyLedger,
       Kept, PreLaunch, Executing
  <2> QED
    BY <2>1 DEF Ledger
<1> QED
  BY <1>3, <1>4
-----------------------------------------------------------------------------
LedgerInv == TypeOK /\ \A j \in Jobs : Ledger(j)

\* The ledger holds at first.
LEMMA InitLedger == Init => LedgerInv
<1> SUFFICES ASSUME Init, NEW j \in Jobs PROVE Ledger(j)
  BY InitType DEF LedgerInv
<1>1. NoJournal.phase = Absent /\ NoJournal.err = "none"
  BY DEF NoJournal
<1>2. LaunchLedger(j) /\ HonestyLedger(j) /\ KeyLedger(j)
  BY <1>1 DEF Init, LaunchLedger, HonestyLedger, KeyLedger, PreLaunch, Executing
<1> QED
  BY <1>2 DEF Ledger

\* Every step keeps it.
LEMMA NextLedger == LedgerInv /\ [Next]_vars => LedgerInv'
<1> SUFFICES ASSUME LedgerInv, [Next]_vars PROVE LedgerInv'
  OBVIOUS
<1>1. TypeOK'
  BY NextType DEF LedgerInv
<1>2. ASSUME NEW k \in Jobs PROVE Ledger(k)'
  <2> USE DEF LedgerInv
  <2>1. ASSUME NEW j \in Jobs, JobStep(j) PROVE Ledger(k)'
    <3>1. CASE j # k
      BY <2>1, <3>1, JobApart, ApartKeeps
    <3>2. ASSUME TaskStep(k) PROVE Ledger(k)'
      BY <3>2, PreStartLedger, StartLedger, SpawnLedger, LaunchingLedger,
         ExitLedger, FinalizeLedger, DeliverLedger, ReclaimLedger,
         SubmissionLedger, SubmitLedger DEF TaskStep
    <3>3. CASE j = k
      BY <2>1, <3>2, <3>3, DiskLedger, PanicLedger, HelpersLedger,
         BackendLedger, LeaseLedger, DeletionLedger DEF JobStep
    <3> QED
      BY <3>1, <3>3
  <2>2. CASE UNCHANGED vars
    <3>1. Kept(k) /\ UNCHANGED <<journal, onDisk, pc, owner>>
      BY <2>2, HistoryKeeps DEF vars, runner
    <3> QED
      BY <3>1, Same
  <2> QED
    BY <2>1, <2>2, SessionLedger, CrashLedger DEF Next
<1> QED
  BY <1>1, <1>2 DEF LedgerInv

\* The ledger of every job holds in every reachable state: what is recorded
\* about a launch, an error and the bodies sent agrees with what happened.
THEOREM LedgerCorrect == Spec => []LedgerInv
<1>1. Init => LedgerInv
  BY InitLedger
<1>2. LedgerInv /\ [Next]_vars => LedgerInv'
  BY NextLedger
<1> QED
  BY <1>1, <1>2, PTL DEF Spec

(***************************************************************************)
(* A target is authorized, or a request first polled, at most once.        *)
(***************************************************************************)
THEOREM LaunchedOnce == Spec => []AtMostOneLaunch
<1>1. LedgerInv => AtMostOneLaunch
  BY DEF LedgerInv, Ledger, LaunchLedger, AtMostOneLaunch
<1> QED
  BY <1>1, LedgerCorrect, PTL

(***************************************************************************)
(* The terminal idempotency key of a job is used for one body.             *)
(***************************************************************************)
THEOREM KeyUsedForOneBody == Spec => []OneBodyPerTerminalKey
<1>1. LedgerInv => OneBodyPerTerminalKey
  <2> SUFFICES ASSUME LedgerInv, NEW j \in Jobs PROVE Cardinality(sent[j]) <= 1
    BY DEF OneBodyPerTerminalKey
  <2>1. sent[j] = {} \/ \E o \in Outcomes : sent[j] = {o}
    BY DEF LedgerInv, Ledger, KeyLedger, OneBody
  <2>2. CASE sent[j] = {}
    <3>1. Cardinality({}) = 0
      BY FS_EmptySet
    <3> QED
      BY <2>2, <3>1
  <2>3. ASSUME NEW o \in Outcomes, sent[j] = {o} PROVE Cardinality(sent[j]) <= 1
    <3>1. Cardinality({o}) = 1
      BY FS_Singleton
    <3> QED
      BY <2>3, <3>1
  <2> QED
    BY <2>1, <2>2, <2>3
<1> QED
  BY <1>1, LedgerCorrect, PTL
-----------------------------------------------------------------------------
(***************************************************************************)
(* What a failed write costs an HTTP request.  A request has no guardian   *)
(* identity to look at, so that its untyped error is taken for a           *)
(* non-dispatch, also after its first poll.  No other step makes such a    *)
(* claim of a job that was launched.                                       *)
(***************************************************************************)
\* A step claims nothing new once its job may have been launched.
ClaimsNothing(j) ==
    /\ launched'[j] = launched[j] /\ sent'[j] = sent[j]
    /\ journal'[j].err \in {journal[j].err} \cup (Errors \ {"not_launched"})

\* The write of a running exchange's record fails.
WriteFails(j) == pc[j] = "running" /\ left'["disk"] < left["disk"]

\* On the way to the launch a claim is made only if there is none.
LEMMA LaunchClaims ==
    ASSUME LedgerInv, NEW j \in Jobs, pc[j] \in PreLaunch, TaskStep(j)
    PROVE  Misreported(j)' => Misreported(j)
<1>1. TypeOK /\ launched[j] = 0 /\ journal[j].err = "none" /\ sent[j] = {}
  BY DEF LedgerInv, Ledger, LaunchLedger, KeyLedger, Executing
<1>2. CASE UNCHANGED history
  BY <1>1, <1>2 DEF history, Misreported
<1>3. CASE Launch(j) /\ UNCHANGED journal
  BY <1>1, <1>3 DEF Launch, Misreported
<1>4. UNCHANGED history \/ (Launch(j) /\ UNCHANGED journal)
  BY <1>1 DEF TaskStep, PreLaunch, Register, Authorize, CommitStart, Start, RecordIntent,
       SpawnGuardian, ReleaseTarget, Dispatch, Exit, Finalize, AtFinalization, PurgeAtDelivery,
       SendReclaim, Reclaim, SendSubmission, AtSubmission, Submit
<1> QED
  BY <1>2, <1>3, <1>4

\* The writes of a task that is past its launch.
LEMMA WritesClaimNothing ==
    ASSUME TypeOK, NEW j \in Jobs, launched'[j] = launched[j], sent'[j] = sent[j],
           \/ journal'[j] = journal[j]
           \/ Abandon(j)
           \/ \E p \in Phases : Finish(j, p) \/ Persist(j, [journal[j] EXCEPT !.phase = p])
           \/ \E e \in Errors \ {"not_launched"} :
                \/ Fail(j, e)
                \/ Persist(j, WithError(j, e))
                \/ Persist(j, [WithError(j, e) EXCEPT !.res = TRUE])
           \/ Persist(j, [journal[j] EXCEPT !.phase = "exited", !.res = TRUE])
           \/ Persist(j, Reclaimed(j))
    PROVE  ClaimsNothing(j)
<1>1. journal[j] \in Record /\ NoJournal.err = "none"
  BY Typed DEF NoJournal
<1>2. CASE journal'[j] = journal[j]
  BY <1>2 DEF ClaimsNothing
<1>3. CASE Abandon(j)
  BY <1>1, <1>3, AfterAbandon DEF ClaimsNothing, Errors
<1>4. ASSUME NEW p \in Phases, Finish(j, p) \/ Persist(j, [journal[j] EXCEPT !.phase = p])
      PROVE  ClaimsNothing(j)
  <2>1. journal'[j] = [journal[j] EXCEPT !.phase = p]
    BY <1>4, AfterFinish, AfterPersist
  <2> QED
    BY <1>1, <2>1 DEF ClaimsNothing, Record
<1>5. ASSUME NEW e \in Errors \ {"not_launched"},
             \/ Fail(j, e)
             \/ Persist(j, WithError(j, e))
             \/ Persist(j, [WithError(j, e) EXCEPT !.res = TRUE])
      PROVE  ClaimsNothing(j)
  <2>1. WithError(j, e) \in Record /\ WithError(j, e).err = e
    BY <1>1, WithErrorType DEF WithError, Record
  <2>2. journal'[j].err = e
    BY <1>5, <2>1, AfterFail, AfterPersist DEF Record
  <2> QED
    BY <2>2 DEF ClaimsNothing
<1>6. CASE Persist(j, [journal[j] EXCEPT !.phase = "exited", !.res = TRUE])
  <2>1. journal'[j] = [journal[j] EXCEPT !.phase = "exited", !.res = TRUE]
    BY <1>6, AfterPersist
  <2> QED
    BY <1>1, <2>1 DEF ClaimsNothing, Record
<1>7. CASE Persist(j, Reclaimed(j))
  <2>1. journal'[j] = Reclaimed(j)
    BY <1>7, AfterPersist
  <2> QED
    BY <1>1, <2>1 DEF ClaimsNothing, Record, Reclaimed
<1> QED
  BY <1>2, <1>3, <1>4, <1>5, <1>6, <1>7

\* What a task does after its launch claims no non-launch; a submission
\* repeats the recorded outcome.
LEMMA DeliveryClaims ==
    ASSUME TypeOK, NEW j \in Jobs, TaskStep(j), pc[j] \notin PreLaunch
    PROVE  Misreported(j)' => Misreported(j)
<1>1. ASSUME ClaimsNothing(j) PROVE Misreported(j)' => Misreported(j)
  BY <1>1 DEF ClaimsNothing, Misreported
<1>2. CASE Exit(j)
  <2>1. launched'[j] = launched[j] /\ sent'[j] = sent[j]
    BY <1>2 DEF Exit, Stopped
  <2> QED
    BY <1>1, <1>2, <2>1, WritesClaimNothing DEF Exit, Errors
<1>3. CASE Finalize(j)
  <2>1. launched'[j] = launched[j] /\ sent'[j] = sent[j]
    BY <1>3 DEF Finalize, history
  <2> QED
    BY <1>1, <1>3, <2>1, WritesClaimNothing, AfterNeedsSession DEF Finalize, Errors, Phases
<1>4. CASE PurgeAtDelivery(j) \/ SendReclaim(j)
  <2>1. /\ launched'[j] = launched[j] /\ sent'[j] = sent[j]
        /\ journal'[j] \in {journal[j], NoJournal}
    BY <1>4 DEF PurgeAtDelivery, SendReclaim, history, TypeOK
  <2> QED
    BY <1>1, <2>1 DEF ClaimsNothing, NoJournal, Errors
<1>5. CASE Reclaim(j)
  <2>1. launched'[j] = launched[j] /\ sent'[j] = sent[j]
    BY <1>5 DEF Reclaim, history
  <2> QED
    BY <1>1, <1>5, <2>1, WritesClaimNothing DEF Reclaim, Phases
<1>6. CASE Submit(j)
  <2>1. launched'[j] = launched[j] /\ sent'[j] = sent[j]
    BY <1>6 DEF Submit, history
  <2> QED
    BY <1>1, <1>6, <2>1, WritesClaimNothing, AfterNeedsSession DEF Submit, Phases
<1>7. CASE SendSubmission(j)
  <2>1. launched' = launched
    BY <1>7 DEF SendSubmission
  <2>2. CASE NeedsSession(j) /\ UNCHANGED sent
    BY <1>1, <2>1, <2>2, WritesClaimNothing, AfterNeedsSession
  <2>3. CASE /\ sent' = [sent EXCEPT ![j] = @ \cup {Outcome(journal[j])}]
             /\ UNCHANGED journal
    <3>1. Outcome(journal[j]) = "not_launched" => journal[j].err = "not_launched"
      BY DEF Outcome
    <3>2. Misreported(j)' => Misreported(j)
      BY <2>1, <2>3, <3>1 DEF Misreported, TypeOK
    <3> QED
      BY <3>2
  <2> QED
    BY <1>7, <2>2, <2>3 DEF SendSubmission
<1> QED
  BY <1>2, <1>3, <1>4, <1>5, <1>6, <1>7 DEF TaskStep, PreLaunch, Register, Authorize, CommitStart,
       Start, RecordIntent, SpawnGuardian, ReleaseTarget, Dispatch

\* Nor does anything that happens to the job from outside its task.
LEMMA OutsideClaims ==
    ASSUME LedgerInv, NEW j \in Jobs, JobStep(j), ~TaskStep(j)
    PROVE  Misreported(j)' => Misreported(j) \/ WriteFails(j)
<1> USE DEF LedgerInv
<1>1. ASSUME ClaimsNothing(j) PROVE Misreported(j)' => Misreported(j)
  BY <1>1 DEF ClaimsNothing, Misreported
<1>2. CASE DiskFails(j)
  <2>1. pc[j] \in PreLaunch => launched[j] = 0
    BY DEF Ledger, LaunchLedger
  <2>2. launched' = launched /\ left'["disk"] < left["disk"]
    BY <1>2, Groups DEF DiskFails, Stopped, Strike, LeftOK, FaultKinds
  <2> QED
    BY <1>2, <2>1, <2>2 DEF DiskFails, Misreported, WriteFails
<1>3. CASE Panic(j)
  <2>1. launched'[j] = launched[j] /\ sent'[j] = sent[j]
    BY <1>3 DEF Panic, Stopped
  <2>2. CASE Abandon(j)
    BY <1>1, <2>1, <2>2, WritesClaimNothing
  <2>3. CASE Persist(j, WithError(j, "indeterminate"))
    BY <1>1, <2>1, <2>3, WritesClaimNothing DEF Errors
  <2>4. CASE Persist(j, journal[j])
    BY <1>1, <2>1, <2>4, AfterPersist, WritesClaimNothing
  <2> QED
    BY <1>3, <2>2, <2>3, <2>4 DEF Panic
<1>4. CASE Renew(j) \/ LocalExpires(j)
  <2>1. launched'[j] = launched[j] /\ sent'[j] = sent[j] /\ journal[j] \in Record
    BY <1>4, Typed DEF Renew, LocalExpires, history
  <2>2. journal'[j].err = journal[j].err
    <3>1. CASE UNCHANGED journal
      BY <3>1
    <3>2. CASE Persist(j, [journal[j] EXCEPT !.ver = @ + 1, !.canceling = be[j].cancel])
      <4>1. journal'[j] = [journal[j] EXCEPT !.ver = @ + 1, !.canceling = be[j].cancel]
        BY <3>2, AfterPersist
      <4> QED
        BY <2>1, <4>1 DEF Record
    <3>3. CASE journal' = [journal EXCEPT ![j].live = FALSE]
      BY <2>1, <3>3 DEF TypeOK, Record
    <3> QED
      BY <1>4, <3>1, <3>2, <3>3 DEF Renew, LocalExpires
  <2> QED
    BY <1>1, <2>1, <2>2 DEF ClaimsNothing
<1>5. CASE Lease(j)
  <2>1. launched' = launched /\ sent' = sent
    BY <1>5 DEF Lease, history
  <2>2. CASE UNCHANGED journal
    BY <1>1, <2>1, <2>2 DEF ClaimsNothing
  <2>3. CASE Persist(j, Leased(sid, be[j].ver + 1))
    <3>1. Leased(sid, be[j].ver + 1).err = "none"
      BY DEF Leased, NoJournal
    <3> QED
      BY <1>1, <2>1, <2>3, <3>1, AfterPersist DEF ClaimsNothing, Errors
  <2> QED
    BY <1>5, <2>2, <2>3 DEF Lease
<1>6. CASE PurgeDeleted(j)
  <2>1. /\ launched'[j] = launched[j] /\ sent'[j] = sent[j]
        /\ journal'[j] \in {journal[j], NoJournal}
    BY <1>6 DEF PurgeDeleted, history, TypeOK
  <2> QED
    BY <1>1, <2>1 DEF ClaimsNothing, NoJournal, Errors
<1>7. CASE WatchAuthority(j) \/ GuardianStops(j) \/ HeartbeatCancels(j) \/ DeleteRun(j)
           \/ LateArrives(j) \/ BackendExpires(j) \/ RequestsCancel(j)
  <2>1. launched' = launched /\ sent' = sent /\ journal' = journal
    BY <1>7 DEF WatchAuthority, GuardianStops, HeartbeatCancels, DeleteRun, LateArrives,
         BackendExpires, RequestsCancel, Stopped, history, runner
  <2> QED
    BY <1>1, <2>1 DEF ClaimsNothing
<1> QED
  BY <1>2, <1>3, <1>4, <1>5, <1>6, <1>7 DEF JobStep

\* The session, the operator and a crash claim nothing either.
LEMMA SessionClaims ==
    ASSUME TypeOK, NEW j \in Jobs, SessionStep \/ LeaseFails \/ Drain \/ Resume \/ Crash
    PROVE  ClaimsNothing(j)
<1>1. launched' = launched /\ sent' = sent /\ journal[j] \in Record /\ NoJournal.err = "none"
  BY Typed DEF SessionStep, OpenSession, StopLeasing, CloseSession, LeaseFails, Drain, Resume,
       Crash, history, NoJournal
<1>2. journal'[j] \in {journal[j], NoJournal, Recovered(journal[j], sid + 1)}
  BY DEF SessionStep, OpenSession, StopLeasing, CloseSession, LeaseFails, Drain, Resume, Crash,
       runner, TypeOK
<1>3. Recovered(journal[j], sid + 1).err \in {journal[j].err, "indeterminate"}
  BY <1>1 DEF Recovered, Record
<1> QED
  BY <1>1, <1>2, <1>3 DEF ClaimsNothing, Errors

\* So no step of the system misreports a launched job but a failed write.
LEMMA NextClaims ==
    ASSUME LedgerInv, [Next]_vars, NEW k \in Jobs
    PROVE  Misreported(k)' => Misreported(k) \/ WriteFails(k)
<1>1. ASSUME ClaimsNothing(k) PROVE Misreported(k)' => Misreported(k)
  BY <1>1 DEF ClaimsNothing, Misreported
<1>2. ASSUME NEW j \in Jobs, JobStep(j) PROVE Misreported(k)' => Misreported(k) \/ WriteFails(k)
  <2>1. CASE j # k
    <3>1. Apart(k)
      BY <1>2, <2>1, JobApart DEF LedgerInv
    <3> QED
      BY <1>1, <3>1 DEF Apart, RecordsApart, HistoryApart, ClaimsNothing
  <2>2. CASE j = k
    BY <1>2, <2>2, LaunchClaims, DeliveryClaims, OutsideClaims DEF LedgerInv
  <2> QED
    BY <2>1, <2>2
<1>3. CASE SessionStep \/ LeaseFails \/ Drain \/ Resume \/ Crash
  BY <1>1, <1>3, SessionClaims DEF LedgerInv
<1>4. CASE UNCHANGED vars
  BY <1>1, <1>4 DEF vars, runner, history, ClaimsNothing
<1> QED
  BY <1>2, <1>3, <1>4 DEF Next

(***************************************************************************)
(* A launched command is never reported as one that had no effect, and a   *)
(* launched request only by the step in which the write of its record      *)
(* fails: over any number of crashes, panics, lost replies, expired        *)
(* leases, drains, deletions and failed writes.                            *)
(***************************************************************************)
THEOREM NonLaunchHonest == Spec => HonestNonLaunch
<1>1. LedgerInv /\ LedgerInv' /\ [Next]_vars =>
        [\A j \in Jobs : Misreported(j)' /\ ~Misreported(j) =>
           j \in Requests /\ pc[j] = "running" /\ left'["disk"] < left["disk"]]_vars
  <2> SUFFICES ASSUME LedgerInv, LedgerInv', [Next]_vars,
                      NEW j \in Jobs, Misreported(j)', ~Misreported(j)
               PROVE  j \in Requests /\ WriteFails(j)
    BY DEF WriteFails
  <2>1. \A k \in Commands : ~Misreported(k)'
    BY DEF LedgerInv, Ledger, HonestyLedger, Misreported, Jobs
  <2> QED
    BY <2>1, NextClaims DEF Jobs
<1> QED
  BY <1>1, LedgerCorrect, PTL DEF Spec, HonestNonLaunch
-----------------------------------------------------------------------------
(***************************************************************************)
(* What the journal says is so, no write of it asks for an edge the        *)
(* journal lacks, and a launch is one the backend has started: for every   *)
(* set of jobs and every number of faults of every kind.                   *)
(*                                                                         *)
(* The ledger of launches says that at most one body was sent.  To it the  *)
(* invariant adds where the task stands when its record is in a phase,     *)
(* that whatever the backend holds, or is still on its way to it, was sent *)
(* by the runner, and that the fence of a record is never newer than the   *)
(* backend's.                                                              *)
(***************************************************************************)
\* Between the accepted start and the launch.
Launching == {"started", "intent", "gated", "dispatch"}

\* The phase the record of a job is in while its task stands there.
PhaseAt == [register |-> "leased", authorize |-> "leased", admitted |-> "leased",
            start |-> "start_pending", started |-> "started", intent |-> "spawn_intent",
            gated |-> "running", dispatch |-> "running", running |-> "running",
            finalize |-> "exited", submit |-> "terminal_pending",
            submitting |-> "terminal_pending"]

Delivering == {"deliver", "reclaiming"}

\* Where a task stands and what its record says go together.
PhaseLedger(j) ==
    /\ pc[j] \in DOMAIN PhaseAt => journal[j].phase = PhaseAt[pc[j]]
    /\ pc[j] \in Delivering => journal[j].phase \in Undelivered
    /\ pc[j] = "none" <=> owner[j] = "none"
    /\ pc[j] \in PreLaunch => owner[j] = "worker"
    /\ ~onDisk[j] /\ owner[j] = "none" => journal[j] = NoJournal

\* A result is recorded of a group that has ended; a live group is on record.
GroupLedger(j) ==
    /\ journal[j].phase \in Unfinished \cup {Absent} => ~journal[j].res
    /\ journal[j].phase = "exited" => journal[j].res
    /\ journal[j].res => ~alive[j]
    /\ j \in Commands /\ alive[j] /\ deleted[j] = "no" => onDisk[j] /\ journal[j].ident

\* What the backend holds of a job, or is still sent, comes from its runner.
Heard(j) ==
    /\ GoneRecord(j) => deleted[j] # "no"
    /\ be[j].st = "done" => be[j].out \in sent[j]
    /\ late[j].op = "submit" => late[j].body \in sent[j]
WireLedger(j) == Heard(j) /\ (pc[j] = "submitting" => Outcome(journal[j]) \in sent[j])

\* A job on its way to its launch is the one the backend started, and is stopped
\* when its run has been swept.
Fenced(j) ==
    /\ journal[j].ver <= be[j].ver
    /\ pc[j] \in Launching =>
         /\ be[j].st \in {"running", "gone"} \/ journal[j].ver < be[j].ver
         /\ deleted[j] = "swept" => cancel[j]

Evidence(j) == PhaseLedger(j) /\ GroupLedger(j) /\ WireLedger(j) /\ Fenced(j)

\* TransitionsAreLegal and LaunchIsAuthorized, for one job and one step.
Legal(j) ==
    journal[j].phase # Absent /\ journal'[j].phase # Absent
      => CanTransition(journal[j].phase, journal'[j].phase)
Authorized(j) ==
    launched'[j] # launched[j] =>
      /\ deleted[j] # "swept"
      /\ be[j].st \in {"running", "gone"} \/ be[j].ver # journal[j].ver
Proper(j) == Evidence(j)' /\ Legal(j) /\ Authorized(j)
-----------------------------------------------------------------------------
(***************************************************************************)
(* The backend's answers.                                                  *)
(***************************************************************************)
Calm(j) ==
    /\ alive'[j] => alive[j]
    /\ sent'[j] = sent[j] /\ deleted'[j] = deleted[j] /\ launched'[j] = launched[j]

\* Calls of a step that leave the history alone: the backend hears nothing new.
Answered(j) == Calm(j) /\ Heard(j)' /\ be'[j].ver \in Nat /\ journal[j].ver <= be'[j].ver

\* A granted call.
LEMMA GrantAnswers ==
    ASSUME TypeOK, NEW j \in Jobs, Evidence(j), NEW op \in Ops, Grant(j, op), Calm(j),
           op = "submit" => pc[j] = "submitting"
    PROVE  /\ Answered(j) /\ be[j].st # "gone"
           /\ op = "start" => be'[j].st = "running" /\ be'[j].ver = be[j].ver
           /\ op \in {"renew", "reclaim"} =>
                /\ be[j].ver = journal[j].ver /\ be'[j].ver = be[j].ver + 1
                /\ be'[j].st = be[j].st
<1>1. be[j] \in Job /\ be'[j] = Granted(be[j], Call(j, op)) /\ late' = late
  BY Typed DEF Grant, TypeOK
<1>2. Call(j, op).op = op
      /\ (op \in {"renew", "reclaim"} => Call(j, op).ver = journal[j].ver)
      /\ (op = "submit" => Call(j, op).body = Outcome(journal[j]))
  BY DEF Call
<1>3. Accepts(be[j], Call(j, op))
  BY DEF Grant
<1>4. /\ be[j].st # "gone" /\ be[j].ver \in Nat /\ journal[j].ver \in Nat
      /\ journal[j].ver <= be[j].ver
  BY <1>1, <1>3, GrantGone, Typed DEF GoneRecord, Job, Record, Evidence, Fenced
<1>5. CASE op = "start"
  <2>1. be'[j] = [be[j] EXCEPT !.st = "running"]
    BY <1>1, <1>2, <1>5 DEF Granted
  <2> QED
    BY <1>1, <1>4, <1>5, <2>1 DEF Job, Answered, Heard, Evidence, WireLedger, Calm, GoneRecord
<1>6. CASE op = "renew"
  <2>1. be'[j] = [be[j] EXCEPT !.ver = @ + 1] /\ be[j].ver = journal[j].ver
    BY <1>1, <1>2, <1>3, <1>6 DEF Granted, Accepts, Held
  <2> QED
    BY <1>1, <1>4, <1>6, <2>1 DEF Job, Answered, Heard, Evidence, WireLedger, Calm, GoneRecord
<1>7. CASE op = "reclaim"
  <2>1. /\ be'[j] = [be[j] EXCEPT !.ver = @ + 1, !.sess = Call(j, op).sess, !.live = TRUE]
        /\ be[j].ver = journal[j].ver
    BY <1>1, <1>2, <1>3, <1>7 DEF Granted, Accepts
  <2>2. be'[j].ver = be[j].ver + 1 /\ be'[j].st = be[j].st /\ be'[j].out = be[j].out
    BY <1>1, <2>1 DEF Job
  <2> QED
    BY <1>1, <1>4, <1>7, <2>1, <2>2 DEF Answered, Heard, Evidence, WireLedger, Calm, GoneRecord
<1>8. CASE op = "submit"
  <2>1. be'[j] = IF be[j].st = "done" THEN be[j]
                 ELSE [be[j] EXCEPT !.st = "done", !.out = Outcome(journal[j])]
    BY <1>1, <1>2, <1>8 DEF Granted
  <2>2. Outcome(journal[j]) \in sent[j]
    BY <1>8 DEF Evidence, WireLedger
  <2> QED
    BY <1>1, <1>4, <1>8, <2>1, <2>2 DEF Job, Answered, Heard, Evidence, WireLedger,
       Calm, GoneRecord
<1> QED
  BY <1>5, <1>6, <1>7, <1>8 DEF Ops

\* A call whose answer is lost.
LEMMA TimeOutAnswers ==
    ASSUME TypeOK, NEW j \in Jobs, Evidence(j), NEW op \in Ops, TimeOut(j, op), Calm(j),
           op = "submit" => pc[j] = "submitting"
    PROVE  Answered(j) /\ be' = be
<1>1. late'[j] = Call(j, op) /\ be' = be /\ be[j].ver \in Nat
      /\ journal[j].ver <= be[j].ver
  BY Typed DEF TimeOut, TypeOK, Job, Evidence, Fenced
<1>2. Call(j, op).op = op /\ (op = "submit" => Call(j, op).body = Outcome(journal[j]))
  BY DEF Call
<1> QED
  BY <1>1, <1>2 DEF Answered, Heard, Evidence, WireLedger, Calm, GoneRecord

\* No call, or a refused one.
LEMMA SilenceAnswers ==
    ASSUME TypeOK, NEW j \in Jobs, Evidence(j), UNCHANGED backend, Calm(j)
    PROVE  Answered(j)
<1>1. be[j].ver \in Nat /\ journal[j].ver <= be[j].ver
  BY Typed DEF Job, Evidence, Fenced
<1> QED
  BY <1>1 DEF backend, Answered, Heard, Evidence, WireLedger, Calm, GoneRecord
-----------------------------------------------------------------------------
(***************************************************************************)
(* The kinds of step a task takes.                                         *)
(***************************************************************************)

\* The execution fails.
LEMMA FailProper ==
    ASSUME TypeOK, NEW j \in Jobs, Evidence(j), Ledger(j), Answered(j), NEW e \in Errors,
           Fail(j, e), pc[j] \in PreLaunch \cup {"running"}
    PROVE  Proper(j)
<1>1. /\ pc'[j] = "deliver" /\ owner' = owner /\ onDisk'[j]
      /\ journal'[j].phase = "terminal_pending" /\ journal'[j].ident = journal[j].ident
  BY AfterFail
<1>2. journal'[j].ver = journal[j].ver /\ ~journal'[j].res
  <2>1. journal'[j] = WithError(j, e) /\ journal[j] \in Record
    BY AfterPersist, Typed DEF Fail
  <2> QED
    BY <2>1 DEF WithError, Record
<1>3. owner[j] # "none"
  BY DEF Evidence, PhaseLedger, PreLaunch
<1>4. journal[j].phase \in Unfinished
  BY DEF Evidence, PhaseLedger, PhaseAt, PreLaunch, Unfinished, Phases, Undelivered,
     Settled
<1>5. PhaseLedger(j)'
  BY <1>1, <1>3 DEF PhaseLedger, PhaseAt, Delivering, Undelivered, PreLaunch
<1>6. GroupLedger(j)'
  BY <1>1, <1>2 DEF Evidence, GroupLedger, Unfinished, Absent, Undelivered, Answered, Calm
<1>7. WireLedger(j)' /\ Fenced(j)'
  BY <1>1, <1>2, <1>3 DEF WireLedger, Fenced, Launching, Answered
<1>8. Legal(j)
  BY <1>1, <1>4 DEF Legal, CanTransition, Edges
<1> QED
  BY <1>5, <1>6, <1>7, <1>8 DEF Proper, Evidence, Authorized, Answered, Calm

\* The task ends; its record stays if the file does.
LEMMA AbandonProper ==
    ASSUME TypeOK, NEW j \in Jobs, Evidence(j), Answered(j), Abandon(j)
    PROVE  Proper(j)
<1>1. /\ pc'[j] = "none" /\ owner'[j] = "none" /\ onDisk' = onDisk
      /\ onDisk[j] => journal'[j] = journal[j]
      /\ ~onDisk[j] => journal'[j] = NoJournal
  BY AfterAbandon
<1>2. NoJournal.phase = Absent /\ ~NoJournal.res /\ NoJournal.ver = 0
  BY DEF NoJournal
<1>3. be'[j].ver >= 0
  BY DEF Answered
<1>4. PhaseLedger(j)'
  BY <1>1 DEF PhaseLedger, PhaseAt, Delivering, PreLaunch
<1>5. GroupLedger(j)'
  BY <1>1, <1>2 DEF Evidence, GroupLedger, Absent, Answered, Calm
<1>6. WireLedger(j)' /\ Fenced(j)'
  BY <1>1, <1>2, <1>3 DEF WireLedger, Fenced, Launching, Answered
<1>7. Legal(j)
  BY <1>1, <1>2 DEF Legal, CanTransition
<1> QED
  BY <1>4, <1>5, <1>6, <1>7 DEF Proper, Evidence, Authorized, Answered, Calm

\* The record is settled.
LEMMA FinishProper ==
    ASSUME TypeOK, NEW j \in Jobs, Evidence(j), Answered(j), NEW p \in Settled,
           Finish(j, p), journal[j].phase \in Undelivered,
           p = "acknowledged" => journal[j].phase = "terminal_pending"
    PROVE  Proper(j)
<1>1. p \in Phases
  BY DEF Settled, Phases
<1>2. /\ pc'[j] = "none" /\ owner'[j] = "none" /\ onDisk'[j]
      /\ journal'[j] = [journal[j] EXCEPT !.phase = p]
  BY <1>1, AfterFinish
<1>3. /\ journal'[j].phase = p /\ journal'[j].res = journal[j].res
      /\ journal'[j].ver = journal[j].ver /\ journal'[j].ident = journal[j].ident
  BY <1>2, Typed DEF Record
<1>4. journal[j].ver <= be'[j].ver
  BY DEF Answered
<1>5. PhaseLedger(j)'
  BY <1>2 DEF PhaseLedger, PhaseAt, Delivering, PreLaunch
<1>6. GroupLedger(j)'
  BY <1>2, <1>3 DEF Evidence, GroupLedger, Settled, Unfinished, Absent, Answered, Calm
<1>7. WireLedger(j)' /\ Fenced(j)'
  BY <1>2, <1>3, <1>4 DEF WireLedger, Fenced, Launching, Answered
<1>8. Legal(j)
  BY <1>3 DEF Legal, CanTransition, Edges, Settled, Undelivered
<1> QED
  BY <1>5, <1>6, <1>7, <1>8 DEF Proper, Evidence, Authorized, Answered, Calm

\* A task waits for its next attempt to deliver.
LEMMA WaitProper ==
    ASSUME TypeOK, NEW j \in Jobs, Evidence(j), Answered(j), NEW l \in Delivering,
           Goto(j, l), UNCHANGED <<journal, onDisk>>, journal[j].phase \in Undelivered,
           pc[j] # "none"
    PROVE  Proper(j)
<1>1. pc'[j] = l /\ owner' = owner
  BY AfterGoto
<1>2. journal[j].ver <= be'[j].ver
  BY DEF Answered
<1>3. PhaseLedger(j)'
  BY <1>1 DEF Evidence, PhaseLedger, PhaseAt, Delivering, PreLaunch
<1>4. GroupLedger(j)'
  BY DEF Evidence, GroupLedger, Answered, Calm
<1>5. WireLedger(j)' /\ Fenced(j)'
  BY <1>1, <1>2 DEF WireLedger, Fenced, Launching, Answered, Delivering
<1> QED
  BY <1>3, <1>4, <1>5 DEF Proper, Evidence, Authorized, Answered, Calm, Legal,
     CanTransition

\* A step towards the launch.
LEMMA AdvanceProper ==
    ASSUME TypeOK, NEW j \in Jobs, Evidence(j), Answered(j),
           pc[j] \in PreLaunch, pc'[j] \in PreLaunch, owner'[j] = owner[j],
           onDisk'[j] \/ onDisk'[j] = onDisk[j],
           journal'[j].phase = PhaseAt[pc'[j]],
           CanTransition(journal[j].phase, journal'[j].phase),
           ~journal'[j].res, journal[j].ident => journal'[j].ident,
           journal'[j].ver = journal[j].ver,
           pc'[j] \in Launching =>
             /\ be'[j].st \in {"running", "gone"} \/ journal[j].ver < be'[j].ver
             /\ deleted[j] = "swept" => cancel'[j]
    PROVE  Proper(j)
<1>1. journal[j].ver <= be'[j].ver
  BY DEF Answered
<1>2. PhaseLedger(j)'
  BY DEF Evidence, PhaseLedger, PreLaunch, Delivering
<1>3. GroupLedger(j)'
  BY DEF Evidence, GroupLedger, Answered, Calm, PhaseAt, PreLaunch
<1>4. WireLedger(j)' /\ Fenced(j)'
  BY <1>1 DEF WireLedger, Fenced, Answered, Calm, PreLaunch
<1> QED
  BY <1>2, <1>3, <1>4 DEF Proper, Evidence, Authorized, Answered, Calm, Legal
-----------------------------------------------------------------------------
(***************************************************************************)
(* The steps of a job, each proper for its own job.                        *)
(***************************************************************************)
LEMMA QuietAnswers ==
    ASSUME TypeOK, NEW j \in Jobs, Evidence(j), UNCHANGED <<history, deleted, backend>>
    PROVE  Answered(j)
BY SilenceAnswers DEF Calm, history, backend

\* Registering, authorizing and committing to start.
LEMMA PreStartProper ==
    ASSUME TypeOK, NEW j \in Jobs, Evidence(j), Ledger(j),
           Register(j) \/ Authorize(j) \/ CommitStart(j)
    PROVE  Proper(j)
<1>1. Answered(j) /\ pc[j] \in {"register", "authorize", "admitted"}
  BY QuietAnswers DEF Register, Authorize, CommitStart
<1>2. journal[j].phase = "leased" /\ ~journal[j].res
  BY <1>1 DEF Evidence, PhaseLedger, GroupLedger, PhaseAt, Unfinished, Phases,
     Undelivered,
     Settled
<1>3. CASE Fail(j, "not_launched")
  BY <1>1, <1>3, FailProper DEF Errors, PreLaunch
<1>4. CASE \E l \in {"authorize", "admitted"} :
             Goto(j, l) /\ UNCHANGED <<journal, onDisk>>
  <2>1. pc'[j] \in {"authorize", "admitted"} /\ owner' = owner
        /\ journal' = journal /\ onDisk' = onDisk
    BY <1>4, AfterGoto
  <2> QED
    BY <1>1, <1>2, <2>1, AdvanceProper DEF PreLaunch, Launching, PhaseAt, CanTransition
<1>5. CASE /\ Persist(j, [journal[j] EXCEPT !.phase = "start_pending"])
           /\ Goto(j, "start")
  <2>1. /\ pc'[j] = "start" /\ owner' = owner /\ onDisk'[j]
        /\ journal'[j] = [journal[j] EXCEPT !.phase = "start_pending"]
    BY <1>5, AfterGoto, AfterPersist
  <2>2. /\ journal'[j].phase = "start_pending" /\ journal'[j].res = journal[j].res
        /\ journal'[j].ident = journal[j].ident /\ journal'[j].ver = journal[j].ver
    BY <2>1, Typed DEF Record
  <2>3. CanTransition(journal[j].phase, journal'[j].phase)
    BY <1>2, <2>2 DEF CanTransition, Edges
  <2>4. journal'[j].phase = PhaseAt[pc'[j]]
    BY <2>1, <2>2 DEF PhaseAt
  <2> QED
    BY <1>1, <1>2, <2>1, <2>2, <2>3, <2>4, AdvanceProper DEF PreLaunch, Launching
<1> QED
  BY <1>3, <1>4, <1>5 DEF Register, Authorize, CommitStart

\* Asking the backend to start: only a job that is not deleted is started.
LEMMA StartProper ==
    ASSUME TypeOK, NEW j \in Jobs, Evidence(j), Ledger(j), Start(j) PROVE Proper(j)
<1>1. pc[j] = "start" /\ UNCHANGED <<history, deleted>> /\ Calm(j)
  BY DEF Start, Calm, history
<1>2. journal[j].phase = "start_pending" /\ ~journal[j].res
  BY <1>1 DEF Evidence, PhaseLedger, GroupLedger, PhaseAt, Unfinished, Phases,
     Undelivered,
     Settled
<1>3. CASE /\ Grant(j, "start")
           /\ Persist(j, [journal[j] EXCEPT !.phase = "started",
                                            !.canceling = be[j].cancel])
           /\ Goto(j, "started")
  <2>1. Answered(j) /\ be[j].st # "gone" /\ be'[j].st = "running"
    BY <1>1, <1>3, GrantAnswers DEF Ops
  <2>2. deleted[j] = "no"
    BY <2>1, Typed DEF Ledger, LaunchLedger, GoneRecord
  <2>3. /\ pc'[j] = "started" /\ owner' = owner /\ onDisk'[j]
        /\ journal'[j] = [journal[j] EXCEPT !.phase = "started",
                                            !.canceling = be[j].cancel]
    BY <1>3, AfterGoto, AfterPersist
  <2>4. /\ journal'[j].phase = "started" /\ journal'[j].res = journal[j].res
        /\ journal'[j].ident = journal[j].ident /\ journal'[j].ver = journal[j].ver
    BY <2>3, Typed DEF Record
  <2>5. CanTransition(journal[j].phase, journal'[j].phase)
    BY <1>2, <2>4 DEF CanTransition, Edges
  <2>6. journal'[j].phase = PhaseAt[pc'[j]]
    BY <2>3, <2>4 DEF PhaseAt
  <2> QED
    BY <1>1, <1>2, <2>1, <2>2, <2>3, <2>4, <2>5, <2>6, AdvanceProper DEF PreLaunch
<1>4. CASE UNCHANGED backend /\ Fail(j, "not_launched")
  BY <1>1, <1>4, SilenceAnswers, FailProper DEF Errors, PreLaunch
<1>5. CASE TimeOut(j, "start") /\ Fail(j, "not_launched")
  BY <1>1, <1>5, TimeOutAnswers, FailProper DEF Errors, PreLaunch, Ops
<1> QED
  BY <1>3, <1>4, <1>5 DEF Start

\* Recording the spawn intent and spawning the guardian.
LEMMA SpawnProper ==
    ASSUME TypeOK, NEW j \in Jobs, Evidence(j), Ledger(j),
           RecordIntent(j) \/ SpawnGuardian(j)
    PROVE  Proper(j)
<1>1. Answered(j) /\ pc[j] \in {"started", "intent"}
      /\ UNCHANGED <<cancel, be>>
  BY QuietAnswers DEF RecordIntent, SpawnGuardian, Goto, Fail, backend
<1>2. /\ pc[j] = "started" => journal[j].phase = "started"
      /\ pc[j] = "intent" => journal[j].phase = "spawn_intent"
      /\ ~journal[j].res
  BY <1>1 DEF Evidence, PhaseLedger, GroupLedger, PhaseAt, Unfinished, Phases,
     Undelivered,
     Settled
<1>3. /\ be'[j].st \in {"running", "gone"} \/ journal[j].ver < be'[j].ver
      /\ deleted[j] = "swept" => cancel'[j]
  BY <1>1 DEF Evidence, Fenced, Launching
<1>4. ASSUME NEW p \in Phases, NEW b \in BOOLEAN, NEW l \in Launching, PhaseAt[l] = p,
             CanTransition(journal[j].phase, p), journal[j].ident => b, Goto(j, l),
             Persist(j, [journal[j] EXCEPT !.phase = p, !.ident = b])
      PROVE  Proper(j)
  <2>1. /\ pc'[j] = l /\ owner' = owner /\ onDisk'[j]
        /\ journal'[j] = [journal[j] EXCEPT !.phase = p, !.ident = b]
    BY <1>4, AfterGoto, AfterPersist
  <2>2. /\ journal'[j].phase = p /\ journal'[j].res = journal[j].res
        /\ journal'[j].ident = b /\ journal'[j].ver = journal[j].ver
    BY <2>1, Typed DEF Record
  <2> QED
    BY <1>1, <1>2, <1>3, <1>4, <2>1, <2>2, AdvanceProper DEF PreLaunch, Launching
<1>5. CASE RecordIntent(j)
  <2>1. \A p : [journal[j] EXCEPT !.phase = p]
                 = [journal[j] EXCEPT !.phase = p, !.ident = journal[j].ident]
    BY Typed DEF Record
  <2>2. CASE j \in Commands
    BY <1>2, <1>4, <1>5, <2>1, <2>2, Typed DEF RecordIntent, CanTransition, Edges,
       PhaseAt,
       Launching, Phases, Record
  <2>3. CASE j \notin Commands
    BY <1>2, <1>4, <1>5, <2>1, <2>3, Typed DEF RecordIntent, CanTransition, Edges,
       PhaseAt,
       Launching, Phases, Record
  <2> QED
    BY <2>2, <2>3
<1>6. CASE SpawnGuardian(j) /\ LaunchAllowed(j)
  BY <1>2, <1>4, <1>6 DEF SpawnGuardian, CanTransition, Edges, PhaseAt, Launching, Phases
<1>7. CASE Fail(j, Untyped(j))
  BY <1>1, <1>7, UntypedType, FailProper DEF PreLaunch
<1> QED
  BY <1>5, <1>6, <1>7 DEF SpawnGuardian

\* The launch: the start was accepted, and the run was not swept since.
LEMMA LaunchingProper ==
    ASSUME TypeOK, NEW j \in Jobs, Evidence(j), Ledger(j), ReleaseTarget(j) \/ Dispatch(j)
    PROVE  Proper(j)
<1>1. pc[j] \in {"gated", "dispatch"} /\ UNCHANGED <<deleted, backend>> /\ be' = be
  BY DEF ReleaseTarget, Dispatch, backend
<1>2. journal[j].phase = "running" /\ ~journal[j].res /\ owner[j] = "worker"
  BY <1>1 DEF Evidence, PhaseLedger, GroupLedger, PhaseAt, Unfinished, Phases,
     Undelivered,
     Settled, PreLaunch
<1>3. CASE ~cancel[j] /\ Launch(j) /\ Goto(j, "running") /\ UNCHANGED <<journal, onDisk>>
  <2>1. pc'[j] = "running" /\ owner' = owner /\ alive'[j] /\ UNCHANGED sent
    BY <1>3, AfterGoto DEF Launch, TypeOK
  <2>2. /\ deleted[j] # "swept"
        /\ be[j].st \in {"running", "gone"} \/ be[j].ver # journal[j].ver
    BY <1>1, <1>3, Typed DEF Evidence, Fenced, Launching, Record, Job
  <2>3. j \in Commands /\ deleted[j] = "no" => onDisk[j] /\ journal[j].ident
    BY <1>1 DEF Ledger, LaunchLedger, HonestyLedger, Evidence, WireLedger, Heard
  <2>4. PhaseLedger(j)' /\ GroupLedger(j)'
    BY <1>1, <1>2, <1>3, <2>1, <2>3 DEF Evidence, PhaseLedger, GroupLedger, PhaseAt,
       PreLaunch,
       Delivering, Unfinished, Phases, Undelivered, Settled
  <2>5. WireLedger(j)' /\ Fenced(j)'
    BY <1>1, <1>3, <2>1 DEF Evidence, WireLedger, Heard, GoneRecord, Fenced, Launching, backend
  <2> QED
    BY <1>3, <2>2, <2>4, <2>5 DEF Proper, Evidence, Authorized, Legal, CanTransition
<1>4. CASE UNCHANGED history /\ Goto(j, "running") /\ UNCHANGED <<journal, onDisk>>
  <2>1. pc'[j] = "running" /\ owner' = owner
    BY <1>4, AfterGoto
  <2>2. PhaseLedger(j)' /\ GroupLedger(j)'
    BY <1>1, <1>2, <1>4, <2>1 DEF Evidence, PhaseLedger, GroupLedger, PhaseAt, PreLaunch,
       Delivering, history
  <2>3. WireLedger(j)' /\ Fenced(j)'
    BY <1>1, <1>4, <2>1 DEF Evidence, WireLedger, Heard, GoneRecord, Fenced, Launching,
       backend, history
  <2> QED
    BY <1>4, <2>2, <2>3 DEF Proper, Evidence, Authorized, Legal, CanTransition, history
<1>5. CASE UNCHANGED history /\ \E e \in Errors : Fail(j, e)
  BY <1>1, <1>5, QuietAnswers, FailProper DEF PreLaunch
<1> QED
  BY <1>3, <1>4, <1>5, UntypedType DEF ReleaseTarget, Dispatch, Errors

\* Stopping a group tells the backend nothing.
LEMMA StoppedAnswers ==
    ASSUME TypeOK, NEW j \in Jobs, Evidence(j), NEW S, Stopped(j, S),
           S \subseteq {FALSE, alive[j]},
           UNCHANGED <<deleted, backend>>
    PROVE  Answered(j)
<1>1. Calm(j)
  BY DEF Stopped, Calm, TypeOK
<1> QED
  BY <1>1, SilenceAnswers

\* The work ends, and the group with it.
LEMMA ExitProper ==
    ASSUME TypeOK, NEW j \in Jobs, Evidence(j), Ledger(j), Exit(j) PROVE Proper(j)
<1>1. pc[j] = "running" /\ Answered(j)
  BY StoppedAnswers DEF Exit
<1>2. journal[j].phase = "running" /\ owner[j] # "none"
  BY <1>1 DEF Evidence, PhaseLedger, PhaseAt
<1>3. CASE /\ Stopped(j, {FALSE})
           /\ Persist(j, [journal[j] EXCEPT !.phase = "exited", !.res = TRUE])
           /\ Goto(j, "finalize")
  <2>1. /\ pc'[j] = "finalize" /\ owner' = owner /\ onDisk'[j] /\ ~alive'[j]
        /\ journal'[j] = [journal[j] EXCEPT !.phase = "exited", !.res = TRUE]
    BY <1>3, AfterGoto, AfterPersist DEF Stopped, TypeOK
  <2>2. /\ journal'[j].phase = "exited" /\ journal'[j].res /\ journal'[j].ver = journal[j].ver
    BY <2>1, Typed DEF Record
  <2>3. PhaseLedger(j)' /\ GroupLedger(j)'
    BY <1>2, <2>1, <2>2 DEF PhaseLedger, GroupLedger, PhaseAt, PreLaunch, Delivering,
       Unfinished, Undelivered, Absent
  <2>4. WireLedger(j)' /\ Fenced(j)'
    BY <1>1, <2>1, <2>2 DEF WireLedger, Fenced, Launching, Answered
  <2>5. Legal(j)
    BY <1>2, <2>2 DEF Legal, CanTransition, Edges
  <2> QED
    BY <1>1, <2>3, <2>4, <2>5 DEF Proper, Evidence, Authorized, Answered, Calm
<1>4. CASE Fail(j, "indeterminate")
  BY <1>1, <1>4, FailProper DEF Errors
<1> QED
  BY <1>3, <1>4 DEF Exit

\* A write fails.
LEMMA DiskProper ==
    ASSUME TypeOK, NEW j \in Jobs, Evidence(j), Ledger(j), DiskFails(j) PROVE Proper(j)
<1>1. pc[j] \in PreLaunch \cup {"running"} /\ Answered(j)
  BY StoppedAnswers DEF DiskFails
<1> QED
  BY <1>1, FailProper, AbandonProper, UntypedType DEF DiskFails

\* Materializing the outcome of work that has ended.
LEMMA FinalizeProper ==
    ASSUME TypeOK, NEW j \in Jobs, Evidence(j), Finalize(j) PROVE Proper(j)
<1> DEFINE next == IF pc[j] = "finalize" THEN "deliver" ELSE "submit"
<1>1. Answered(j) /\ pc[j] \in {"finalize", "deliver"}
  BY QuietAnswers DEF Finalize, AtFinalization
<1>2. journal[j].phase = "exited" /\ owner[j] # "none" /\ journal[j].res /\ ~alive[j]
  BY DEF Finalize, AtFinalization, Evidence, PhaseLedger, GroupLedger, PhaseAt
<1>3. ASSUME NEW r \in Record, r.phase = "terminal_pending", r.ver = journal[j].ver,
             Persist(j, r), Goto(j, next)
      PROVE  Proper(j)
  <2>1. /\ pc'[j] \in {"deliver", "submit"} /\ owner' = owner
        /\ onDisk'[j] /\ journal'[j] = r
    BY <1>3, AfterGoto, AfterPersist
  <2>2. PhaseLedger(j)' /\ GroupLedger(j)'
    BY <1>1, <1>2, <1>3, <2>1 DEF PhaseLedger, GroupLedger, PhaseAt, PreLaunch,
       Delivering,
       Unfinished, Undelivered, Absent, Answered, Calm
  <2>3. WireLedger(j)' /\ Fenced(j)'
    BY <1>1, <1>3, <2>1 DEF WireLedger, Fenced, Launching, Answered
  <2>4. Legal(j)
    BY <1>2, <1>3, <2>1 DEF Legal, CanTransition, Edges
  <2> QED
    BY <1>1, <2>2, <2>3, <2>4 DEF Proper, Evidence, Authorized, Answered, Calm
<1>4. CASE /\ Persist(j, [journal[j] EXCEPT !.phase = "terminal_pending"])
           /\ Goto(j, next)
  <2>1. LET r == [journal[j] EXCEPT !.phase = "terminal_pending"]
        IN r \in Record /\ r.phase = "terminal_pending" /\ r.ver = journal[j].ver
    BY Typed DEF Record, Phases
  <2> QED
    BY <1>3, <1>4, <2>1
<1>5. CASE /\ Persist(j, [WithError(j, "artifact") EXCEPT !.res = TRUE])
           /\ Goto(j, next)
  <2>1. WithError(j, "artifact") \in Record
    BY Typed, WithErrorType DEF Errors
  <2>2. /\ WithError(j, "artifact").phase = "terminal_pending"
        /\ WithError(j, "artifact").ver = journal[j].ver
    BY Typed DEF WithError, Record
  <2>3. LET r == [WithError(j, "artifact") EXCEPT !.res = TRUE]
        IN r \in Record /\ r.phase = "terminal_pending" /\ r.ver = journal[j].ver
    BY <2>1, <2>2, SetRes DEF Record
  <2> QED
    BY <1>3, <1>5, <2>3
<1>6. CASE NeedsSession(j)
  BY <1>1, <1>6, AfterNeedsSession, AbandonProper
<1>7. CASE UNCHANGED <<journal, onDisk>> /\ Goto(j, "deliver")
  BY <1>1, <1>2, <1>7, WaitProper DEF Delivering, Undelivered
<1>8. CASE Finish(j, "delivery_blocked")
  BY <1>1, <1>2, <1>8, FinishProper DEF Settled, Undelivered
<1> QED
  BY <1>4, <1>5, <1>6, <1>7, <1>8 DEF Finalize

\* A job without a record and without a task is as it was before its lease.
LEMMA PurgedProper ==
    ASSUME TypeOK, NEW j \in Jobs, Answered(j), pc'[j] = "none", owner'[j] = "none",
           journal'[j] = NoJournal, deleted[j] # "no"
    PROVE  Proper(j)
<1>1. NoJournal.phase = Absent /\ ~NoJournal.res /\ NoJournal.ver = 0
  BY DEF NoJournal
<1>2. PhaseLedger(j)' /\ GroupLedger(j)'
  BY <1>1 DEF PhaseLedger, GroupLedger, PhaseAt, Delivering, PreLaunch, Answered, Calm,
     Absent
<1>3. WireLedger(j)' /\ Fenced(j)'
  BY <1>1 DEF WireLedger, Fenced, Launching, Answered
<1> QED
  BY <1>1, <1>2, <1>3 DEF Proper, Evidence, Authorized, Legal, Answered, Calm

\* Delivery notices a purge, or sends its reclaim.
LEMMA DeliverProper ==
    ASSUME TypeOK, NEW j \in Jobs, Evidence(j), PurgeAtDelivery(j) \/ SendReclaim(j)
    PROVE  Proper(j)
<1>1. Answered(j) /\ pc[j] = "deliver" /\ journal[j].phase \in Undelivered
  BY QuietAnswers DEF PurgeAtDelivery, SendReclaim, Evidence, PhaseLedger, Delivering
<1>2. CASE PurgeAtDelivery(j)
  <2>1. pc'[j] = "none" /\ owner'[j] = "none" /\ journal'[j] = NoJournal
    BY <1>2, AfterRelease DEF PurgeAtDelivery, TypeOK
  <2> QED
    BY <1>1, <1>2, <2>1, PurgedProper DEF PurgeAtDelivery
<1>3. CASE SendReclaim(j)
  BY <1>1, <1>3, WaitProper DEF SendReclaim, Delivering
<1> QED
  BY <1>2, <1>3

\* The reclaim is answered.
LEMMA ReclaimProper ==
    ASSUME TypeOK, NEW j \in Jobs, Evidence(j), Reclaim(j) PROVE Proper(j)
<1>1. /\ pc[j] = "reclaiming" /\ Calm(j) /\ journal[j].phase \in Undelivered
      /\ owner[j] # "none"
  BY DEF Reclaim, Calm, history, Evidence, PhaseLedger, Delivering
<1>2. CASE Grant(j, "reclaim") /\ Persist(j, Reclaimed(j)) /\ Goto(j, "deliver")
  <2>1. Answered(j) /\ be[j].ver = journal[j].ver /\ be'[j].ver = be[j].ver + 1
    BY <1>1, <1>2, GrantAnswers DEF Ops
  <2>2. pc'[j] = "deliver" /\ owner' = owner /\ onDisk'[j] /\ journal'[j] = Reclaimed(j)
    BY <1>2, AfterGoto, AfterPersist
  <2>3. /\ Reclaimed(j).phase = journal[j].phase /\ Reclaimed(j).res = journal[j].res
        /\ Reclaimed(j).ident = journal[j].ident /\ Reclaimed(j).ver = journal[j].ver + 1
    BY Typed DEF Reclaimed, Record
  <2>4. PhaseLedger(j)' /\ GroupLedger(j)'
    BY <1>1, <2>1, <2>2, <2>3 DEF Evidence, PhaseLedger, GroupLedger, PhaseAt, PreLaunch,
       Delivering, Answered, Calm
  <2>5. WireLedger(j)' /\ Fenced(j)'
    BY <2>1, <2>2, <2>3 DEF WireLedger, Fenced, Launching, Answered
  <2> QED
    BY <2>1, <2>2, <2>3, <2>4, <2>5 DEF Proper, Evidence, Authorized, Answered, Calm,
       Legal,
       CanTransition
<1>3. CASE Grant(j, "reclaim") /\ Finish(j, "delivery_blocked")
  BY <1>1, <1>3, GrantAnswers, FinishProper DEF Ops, Settled
<1>4. CASE Goto(j, "deliver") /\ UNCHANGED <<journal, onDisk, backend>>
  BY <1>1, <1>4, SilenceAnswers, WaitProper DEF Delivering
<1>5. CASE Refused(j, "reclaim") /\ Finish(j, "delivery_blocked")
  BY <1>1, <1>5, SilenceAnswers, FinishProper DEF Refused, Settled
<1>6. CASE /\ TimeOut(j, "reclaim")
           /\ Goto(j, "deliver") /\ UNCHANGED <<journal, onDisk>>
  BY <1>1, <1>6, TimeOutAnswers, WaitProper DEF Ops, Delivering
<1> QED
  BY <1>2, <1>3, <1>4, <1>5, <1>6 DEF Reclaim

\* The submission leaves: from now on the backend may hold this body.
LEMMA SubmissionProper ==
    ASSUME TypeOK, NEW j \in Jobs, Evidence(j), SendSubmission(j) PROVE Proper(j)
<1>1. /\ pc[j] \in {"submit", "deliver"} /\ journal[j].phase = "terminal_pending"
      /\ owner[j] # "none" /\ UNCHANGED <<deleted, backend, launched, alive>>
  BY DEF SendSubmission, AtSubmission, Evidence, PhaseLedger, PhaseAt
<1>2. CASE NeedsSession(j) /\ UNCHANGED sent
  <2>1. Answered(j)
    BY <1>1, <1>2, SilenceAnswers DEF Calm
  <2> QED
    BY <1>2, <2>1, AfterNeedsSession, AbandonProper
<1>3. CASE /\ sent' = [sent EXCEPT ![j] = @ \cup {Outcome(journal[j])}]
           /\ Goto(j, "submitting") /\ UNCHANGED <<journal, onDisk>>
  <2>1. pc'[j] = "submitting" /\ owner' = owner /\ be' = be /\ late' = late
    BY <1>1, <1>3, AfterGoto DEF backend
  <2>2. Outcome(journal[j]) \in sent'[j] /\ sent[j] \subseteq sent'[j]
    BY <1>3 DEF TypeOK
  <2>3. PhaseLedger(j)' /\ GroupLedger(j)'
    BY <1>1, <1>3, <2>1 DEF Evidence, PhaseLedger, GroupLedger, PhaseAt, PreLaunch,
       Delivering
  <2>4. WireLedger(j)' /\ Fenced(j)'
    BY <1>1, <1>3, <2>1, <2>2 DEF Evidence, WireLedger, Heard, GoneRecord, Fenced, Launching
  <2> QED
    BY <1>1, <1>3, <2>3, <2>4 DEF Proper, Evidence, Authorized, Legal, CanTransition
<1> QED
  BY <1>2, <1>3 DEF SendSubmission

\* The submission is answered.
LEMMA SubmitProper ==
    ASSUME TypeOK, NEW j \in Jobs, Evidence(j), Submit(j) PROVE Proper(j)
<1>1. pc[j] = "submitting" /\ Calm(j) /\ journal[j].phase = "terminal_pending"
  BY DEF Submit, Calm, history, Evidence, PhaseLedger, PhaseAt
<1>2. CASE Grant(j, "submit") /\ Finish(j, "acknowledged")
  BY <1>1, <1>2, GrantAnswers, FinishProper DEF Ops, Settled, Undelivered
<1>3. CASE Grant(j, "submit") /\ Abandon(j)
  BY <1>1, <1>3, GrantAnswers, AbandonProper DEF Ops
<1>4. CASE Refused(j, "submit") /\ NeedsSession(j)
  BY <1>1, <1>4, SilenceAnswers, AfterNeedsSession, AbandonProper DEF Refused
<1>5. CASE UNCHANGED backend /\ Finish(j, "delivery_blocked")
  BY <1>1, <1>5, SilenceAnswers, FinishProper DEF Settled, Undelivered
<1>6. CASE /\ TimeOut(j, "submit")
           /\ Goto(j, "deliver") /\ UNCHANGED <<journal, onDisk>>
  BY <1>1, <1>6, TimeOutAnswers, WaitProper DEF Ops, Delivering, Undelivered
<1> QED
  BY <1>2, <1>3, <1>4, <1>5, <1>6 DEF Submit

\* The task panics.
LEMMA PanicProper ==
    ASSUME TypeOK, NEW j \in Jobs, Evidence(j), Ledger(j), Panic(j) PROVE Proper(j)
<1>1. Answered(j)
  BY StoppedAnswers DEF Panic
<1>2. CASE owner[j] = "worker" /\ onDisk[j]
  <2> DEFINE r == IF journal[j].phase \in Unfinished
                  THEN WithError(j, "indeterminate") ELSE journal[j]
  <2>1. /\ journal'[j] = r /\ onDisk'[j] /\ ~alive'[j]
        /\ pc'[j] = "deliver" /\ owner'[j] = "panicked"
    BY <1>2, AfterPersist DEF Panic, Stopped, TypeOK
  <2>2. journal[j].phase \in Unfinished \cup Undelivered
    BY <1>2, Typed DEF Evidence, PhaseLedger, PhaseAt, Delivering, Unfinished, Phases,
       Undelivered,
       Settled, PCs
  <2>3. /\ r.phase \in Undelivered /\ r.ver = journal[j].ver
        /\ CanTransition(journal[j].phase, r.phase)
        /\ r.phase = "exited" => r.res
    BY <2>2, Typed DEF WithError, Record, Undelivered, CanTransition, Edges, Evidence,
       GroupLedger
  <2>4. PhaseLedger(j)' /\ GroupLedger(j)'
    BY <2>1, <2>3 DEF PhaseLedger, GroupLedger, PhaseAt, PreLaunch, Delivering,
       Unfinished, Undelivered, Absent
  <2>5. WireLedger(j)' /\ Fenced(j)'
    BY <1>1, <2>1, <2>3 DEF WireLedger, Fenced, Launching, Answered
  <2> QED
    BY <1>1, <2>1, <2>3, <2>4, <2>5 DEF Proper, Evidence, Authorized, Legal, Answered,
       Calm
<1>3. CASE Abandon(j)
  BY <1>1, <1>3, AbandonProper
<1> QED
  BY <1>2, <1>3 DEF Panic

\* A record or a cancellation changes under a task that stays where it is.
LEMMA HelperProper ==
    ASSUME TypeOK, NEW j \in Jobs, Evidence(j), Answered(j), pc'[j] = pc[j],
           owner'[j] = owner[j],
           onDisk'[j] \/ (onDisk'[j] = onDisk[j] /\ (~onDisk[j] => journal'[j] = journal[j])),
           journal'[j].phase = journal[j].phase, journal'[j].res = journal[j].res,
           journal'[j].err = journal[j].err,
           journal'[j].ident = journal[j].ident, journal'[j].ver <= be'[j].ver,
           cancel[j] => cancel'[j],
           pc[j] \in Launching =>
              be'[j].st \in {"running", "gone"} \/ journal'[j].ver < be'[j].ver
    PROVE  Proper(j)
<1>1. Outcome(journal'[j]) = Outcome(journal[j])
  BY DEF Outcome
<1>2. PhaseLedger(j)' /\ GroupLedger(j)'
  BY DEF Evidence, PhaseLedger, GroupLedger, Answered, Calm, PreLaunch, Delivering
<1>3. WireLedger(j)' /\ Fenced(j)'
  BY <1>1 DEF Evidence, WireLedger, Fenced, Answered, Calm
<1> QED
  BY <1>2, <1>3 DEF Proper, Evidence, Authorized, Answered, Calm, Legal, CanTransition

\* The helpers of a running task, and who cancels it.
LEMMA HelpersProper ==
    ASSUME TypeOK, NEW j \in Jobs, Evidence(j),
           Renew(j) \/ WatchAuthority(j) \/ HeartbeatCancels(j) \/ LocalExpires(j)
             \/ GuardianStops(j)
    PROVE  Proper(j)
<1>1. journal[j] \in Record /\ be[j] \in Job /\ journal[j].ver <= be[j].ver
      /\ journal[j].ver \in Nat
  BY Typed DEF Evidence, Fenced, Record
<1>2. pc[j] \in Launching => be[j].st \in {"running",
   "gone"} \/ journal[j].ver < be[j].ver
  BY DEF Evidence, Fenced
<1>3. CASE Renew(j)
  <2>1. Calm(j) /\ UNCHANGED <<pc, owner>>
    BY <1>3 DEF Renew, Calm, history
  <2>2. CASE /\ Grant(j, "renew")
             /\ cancel' = [cancel EXCEPT ![j] = @ \/ be[j].cancel]
             /\ Persist(j, [journal[j] EXCEPT !.ver = @ + 1,
                                              !.canceling = be[j].cancel])
    <3>1. /\ Answered(j) /\ be[j].ver = journal[j].ver
          /\ be'[j].ver = be[j].ver + 1 /\ be'[j].st = be[j].st
      BY <2>1, <2>2, GrantAnswers DEF Ops
    <3>2. /\ onDisk'[j]
          /\ journal'[j] = [journal[j] EXCEPT !.ver = @ + 1, !.canceling = be[j].cancel]
      BY <2>2, AfterPersist
    <3>3. /\ journal'[j].phase = journal[j].phase /\ journal'[j].res = journal[j].res
          /\ journal'[j].err = journal[j].err /\ journal'[j].ident = journal[j].ident
      BY <1>1, <3>2 DEF Record
    <3>4. journal'[j].ver = journal[j].ver + 1
      BY <1>1, <3>2 DEF Record
    <3>5. journal'[j].ver <= be'[j].ver
      BY <1>1, <3>1, <3>4
    <3>6. pc[j] \in Launching =>
            be'[j].st \in {"running", "gone"} \/ journal'[j].ver < be'[j].ver
      BY <1>1, <1>2, <3>1, <3>4
    <3>7. cancel[j] => cancel'[j]
      BY <2>2 DEF TypeOK
    <3>8. onDisk'[j] \/ (onDisk'[j] = onDisk[j] /\ (~onDisk[j] => journal'[j] = journal[j]))
      BY <3>2
    <3>9. pc'[j] = pc[j] /\ owner'[j] = owner[j]
      BY <2>1
    <3> QED
      BY <3>1, <3>3, <3>5, <3>6, <3>7, <3>8, <3>9, HelperProper
  <2>3. CASE TimeOut(j, "renew") /\ UNCHANGED <<journal, onDisk, cancel>>
    BY <1>1, <1>2, <2>1, <2>3, TimeOutAnswers, HelperProper DEF Ops
  <2> QED
    BY <1>3, <2>2, <2>3 DEF Renew
<1>4. CASE WatchAuthority(j) \/ HeartbeatCancels(j)
  <2>1. Answered(j) /\ UNCHANGED <<journal, onDisk, pc, owner, be>>
    BY <1>4, QuietAnswers DEF WatchAuthority, HeartbeatCancels, backend
  <2>2. cancel'[j]
    BY <1>4 DEF WatchAuthority, HeartbeatCancels, TypeOK
  <2> QED
    BY <1>1, <1>2, <2>1, <2>2, HelperProper
<1>5. CASE LocalExpires(j)
  <2>1. Answered(j) /\ UNCHANGED <<onDisk, pc, owner, cancel, be>>
    BY <1>5, QuietAnswers DEF LocalExpires, backend
  <2>2. journal'[j] = [journal[j] EXCEPT !.live = FALSE] /\ journal[j] # NoJournal
    BY <1>5 DEF LocalExpires, TypeOK, NoJournal
  <2>3. /\ journal'[j].phase = journal[j].phase /\ journal'[j].res = journal[j].res
        /\ journal'[j].err = journal[j].err
        /\ journal'[j].ident = journal[j].ident /\ journal'[j].ver = journal[j].ver
    BY <1>1, <2>2 DEF Record
  <2>4. owner[j] # "none"
    BY <1>5 DEF LocalExpires, Unheld
  <2>5. Outcome(journal'[j]) = Outcome(journal[j])
    BY <2>3 DEF Outcome
  <2>6. PhaseLedger(j)' /\ GroupLedger(j)'
    BY <2>1, <2>3, <2>4 DEF Evidence, PhaseLedger, GroupLedger, Answered, Calm,
       PreLaunch, Delivering
  <2>7. WireLedger(j)' /\ Fenced(j)'
    BY <1>1, <1>2, <2>1, <2>3, <2>5 DEF Evidence, WireLedger, Fenced, Answered, Calm
  <2> QED
    BY <2>1, <2>3, <2>6, <2>7 DEF Proper, Evidence, Authorized, Answered, Calm, Legal,
       CanTransition
<1>6. CASE GuardianStops(j)
  <2>1. Answered(j) /\ UNCHANGED <<journal, onDisk, pc, owner, cancel, be>>
    BY <1>6, StoppedAnswers DEF GuardianStops, runner, backend
  <2> QED
    BY <1>1, <1>2, <2>1, HelperProper
<1> QED
  BY <1>3, <1>4, <1>5, <1>6

\* The backend moves on its own; a late request is one the runner has sent.
LEMMA BackendProper ==
    ASSUME TypeOK, NEW j \in Jobs, Evidence(j), Ledger(j),
           LateArrives(j) \/ BackendExpires(j) \/ RequestsCancel(j)
    PROVE  Proper(j)
<1>1. /\ UNCHANGED <<journal, onDisk, pc, owner, cancel>> /\ Calm(j)
      /\ be[j] \in Job /\ late[j] \in Request /\ journal[j] \in Record
  BY Typed DEF LateArrives, BackendExpires, RequestsCancel, runner, history, Calm, TypeOK
<1>2. ASSUME be'[j].st = be[j].st, be'[j].ver = be[j].ver, be'[j].out = be[j].out,
             late'[j] \in {late[j], NoRequest}
      PROVE  Proper(j)
  <2>1. NoRequest.op = "none"
    BY DEF NoRequest
  <2>2. Answered(j)
    BY <1>1, <1>2, <2>1 DEF Answered, Heard, GoneRecord, Calm, Evidence, WireLedger, Fenced, Job
  <2> QED
    BY <1>1, <1>2, <2>2, HelperProper DEF Evidence, Fenced
<1>3. CASE BackendExpires(j) \/ RequestsCancel(j)
  <2>1. /\ be'[j].st = be[j].st /\ be'[j].ver = be[j].ver /\ be'[j].out = be[j].out
        /\ late' = late
    BY <1>1, <1>3 DEF BackendExpires, RequestsCancel, Job, TypeOK
  <2> QED
    BY <1>2, <2>1
<1>4. CASE LateArrives(j)
  <2>1. /\ be'[j] = IF Accepts(be[j], late[j]) THEN Granted(be[j], late[j]) ELSE be[j]
        /\ late'[j] = NoRequest /\ NoRequest.op = "none"
    BY <1>4 DEF LateArrives, TypeOK, NoRequest
  <2>2. CASE ~Accepts(be[j], late[j])
    BY <1>2, <2>1, <2>2
  <2>3. CASE Accepts(be[j], late[j])
    <3>1. be'[j] = Granted(be[j], late[j]) /\ be[j].st # "gone"
      BY <2>1, <2>3, GoneStays, <1>1
    <3>2. CASE late[j].op = "start"
      <4>1. be'[j].st = "running" /\ be'[j].ver = be[j].ver
        BY <1>1, <3>1, <3>2 DEF Granted, Job
      <4>2. Answered(j)
        BY <1>1, <2>1, <4>1 DEF Answered, Heard, GoneRecord, Calm, Evidence, WireLedger,
           Fenced, Job
      <4> QED
        BY <1>1, <4>1, <4>2, HelperProper DEF Evidence, Fenced
    <3>3. CASE late[j].op \in {"renew", "reclaim"}
      <4>1. be'[j].ver = be[j].ver + 1 /\ be'[j].st = be[j].st /\ be'[j].out = be[j].out
        BY <1>1, <3>1, <3>3 DEF Granted, Job
      <4>2. journal[j].ver < be'[j].ver /\ be'[j].ver \in Nat
        BY <1>1, <4>1 DEF Evidence, Fenced, Job, Record
      <4>3. Answered(j)
        BY <1>1, <2>1, <4>1, <4>2 DEF Answered, Heard, GoneRecord, Calm, Evidence,
           WireLedger, Record
      <4> QED
        BY <1>1, <4>2, <4>3, HelperProper DEF Answered
    <3>4. CASE late[j].op = "submit"
      <4>1. late[j].body \in sent[j] /\ pc[j] \notin Launching
        BY <3>4 DEF Evidence, WireLedger, Heard, Ledger, KeyLedger, Executing,
           PreLaunch, Launching
      <4>2. /\ be'[j].st = "done" /\ be'[j].ver = be[j].ver
            /\ be'[j].out \in {be[j].out, late[j].body}
            /\ be'[j].out = be[j].out => be[j].st = "done" \/ be[j].out = late[j].body
        BY <1>1, <3>1, <3>4 DEF Granted, Job
      <4>3. Answered(j)
        BY <1>1, <2>1, <4>1, <4>2 DEF Answered, Heard, GoneRecord, Calm, Evidence,
           WireLedger, Fenced, Job
      <4> QED
        BY <1>1, <4>1, <4>2, <4>3, HelperProper DEF Answered
    <3> QED
      BY <2>3, <3>2, <3>3, <3>4 DEF Accepts
  <2> QED
    BY <2>2, <2>3
<1> QED
  BY <1>3, <1>4

\* A lease is accepted only without a record and without a live group.
LEMMA LeaseProper ==
    ASSUME TypeOK, TypeOK', NEW j \in Jobs, Evidence(j), Ledger(j),
           Lease(j) PROVE Proper(j)
<1>1. /\ be[j].st \in {"queued", "leased", "running"} /\ UNCHANGED <<cancel, late>>
      /\ Calm(j)
      /\ be[j] \in Job /\ journal[j] \in Record /\ sid \in Nat /\ deleted[j] = "no"
  BY Typed DEF Lease, Hand, InProgress, history, Calm, TypeOK, Ledger, LaunchLedger, GoneRecord
<1>2. be'[j] = [be[j] EXCEPT !.st = "leased", !.ver = @ + 1, !.sess = sid, !.live = TRUE]
  BY <1>1 DEF Lease, Hand, TypeOK
<1>3. be'[j].st = "leased" /\ be'[j].ver = be[j].ver + 1 /\ be'[j].out = be[j].out
  BY <1>1, <1>2 DEF Job
<1>4. be[j].ver \in Nat /\ journal[j].ver \in Nat /\ journal[j].ver < be'[j].ver
  BY <1>1, <1>3 DEF Evidence, Fenced, Job, Record
<1>5. Answered(j)
  BY <1>1, <1>3, <1>4 DEF Answered, Heard, GoneRecord, Calm, Evidence, WireLedger
<1>6. CASE onDisk[j] \/ owner[j] # "none"
  BY <1>1, <1>4, <1>5, <1>6, HelperProper DEF Lease, Answered
<1>7. CASE ~onDisk[j] /\ owner[j] = "none"
  <2>1. /\ pc'[j] = "register" /\ owner'[j] = "worker" /\ onDisk'[j]
        /\ journal'[j] = Leased(sid, be[j].ver + 1)
    BY <1>7, AfterPersist DEF Lease, TypeOK
  <2>2. /\ journal'[j].phase = "leased" /\ ~journal'[j].res /\ journal'[j].ver = be'[j].ver
        /\ journal[j].phase = Absent
    BY <1>3, <1>7, <2>1 DEF Leased, NoJournal, Evidence, PhaseLedger
  <2>3. PhaseLedger(j)'
    BY <2>1, <2>2 DEF PhaseLedger, PhaseAt, Delivering, PreLaunch
  <2>4. GroupLedger(j)'
    BY <1>1, <1>7, <2>1, <2>2 DEF Evidence, GroupLedger, Calm
  <2>5. WireLedger(j)' /\ Fenced(j)'
    BY <1>3, <1>4, <1>5, <2>1, <2>2 DEF WireLedger, Fenced, Launching, Answered
  <2> QED
    BY <1>1, <2>2, <2>3, <2>4, <2>5 DEF Proper, Evidence, Authorized, Legal, Calm
<1> QED
  BY <1>6, <1>7

\* A run is deleted, and its jobs are purged: one that may still launch is canceled.
LEMMA DeletionProper ==
    ASSUME TypeOK, NEW j \in Jobs, Evidence(j), Ledger(j), DeleteRun(j) \/ PurgeDeleted(j)
    PROVE  Proper(j)
<1>1. /\ UNCHANGED <<pc, owner, launched, alive, sent, late>>
      /\ be[j] \in Job /\ journal[j] \in Record
  BY Typed DEF DeleteRun, PurgeDeleted, runner, history, backend
<1>2. CASE DeleteRun(j)
  <2>1. /\ be'[j] = [be[j] EXCEPT !.st = "gone"] /\ deleted'[j] = "marked"
        /\ UNCHANGED <<journal, onDisk, cancel>> /\ deleted[j] = "no"
    BY <1>2 DEF DeleteRun, runner, TypeOK
  <2>2. be'[j].st = "gone" /\ be'[j].ver = be[j].ver
    BY <1>1, <2>1 DEF Job
  <2>3. PhaseLedger(j)' /\ GroupLedger(j)'
    BY <1>1, <2>1 DEF Evidence, PhaseLedger, GroupLedger
  <2>4. WireLedger(j)' /\ Fenced(j)'
    BY <1>1, <2>1, <2>2 DEF Evidence, WireLedger, Heard, GoneRecord, Fenced
  <2> QED
    BY <1>1, <2>1, <2>3, <2>4 DEF Proper, Evidence, Authorized, Legal, CanTransition
<1>3. CASE PurgeDeleted(j)
  <2>1. deleted[j] = "marked" /\ deleted'[j] = "swept" /\ UNCHANGED be
    BY <1>3 DEF PurgeDeleted, backend, TypeOK
  <2>2. pc[j] \in Launching => owner[j] = "worker" /\ HasToken(j)
    BY DEF Evidence, PhaseLedger, Launching, PreLaunch, HasToken
  <2>3. CASE HasToken(j)
    <3>1. cancel'[j] /\ UNCHANGED <<journal, onDisk>>
      BY <1>3, <2>3 DEF PurgeDeleted, TypeOK
    <3>2. PhaseLedger(j)' /\ GroupLedger(j)'
      BY <1>1, <2>1, <3>1 DEF Evidence, PhaseLedger, GroupLedger
    <3>3. WireLedger(j)' /\ Fenced(j)'
      BY <1>1, <2>1, <3>1 DEF Evidence, WireLedger, Heard, GoneRecord, Fenced
    <3> QED
      BY <1>1, <3>1, <3>2, <3>3 DEF Proper, Evidence, Authorized, Legal, CanTransition
  <2>4. CASE ~HasToken(j)
    <3>1. /\ ~onDisk'[j]
          /\ journal'[j] = IF owner[j] = "none" THEN NoJournal ELSE journal[j]
      BY <1>3, <2>4 DEF PurgeDeleted, TypeOK
    <3>2. NoJournal.phase = Absent /\ ~NoJournal.res /\ NoJournal.ver = 0 /\ be[j].ver \in Nat
      BY <1>1 DEF NoJournal, Job
    <3>3. PhaseLedger(j)'
      BY <1>1, <3>1 DEF Evidence, PhaseLedger, PreLaunch, Delivering, PhaseAt
    <3>4. GroupLedger(j)'
      BY <1>1, <2>1, <3>1, <3>2 DEF Evidence, GroupLedger, Absent
    <3>5. WireLedger(j)' /\ Fenced(j)'
      BY <1>1, <2>1, <2>2, <2>4, <3>1, <3>2 DEF Evidence, WireLedger, Heard, GoneRecord, Fenced,
         PhaseLedger
    <3> QED
      BY <1>1, <3>1, <3>2, <3>3, <3>4, <3>5 DEF Proper, Evidence, Authorized, Legal,
         CanTransition
  <2> QED
    BY <2>3, <2>4
<1> QED
  BY <1>2, <1>3
-----------------------------------------------------------------------------
(***************************************************************************)
(* Steps of the session, of the operator and of the daemon as a whole.     *)
(***************************************************************************)

\* Nothing of the job moves.
LEMMA IdleProper ==
    ASSUME TypeOK, NEW j \in Jobs, Evidence(j),
           UNCHANGED <<runner, history, deleted, backend>>
    PROVE  Proper(j)
<1>1. Answered(j)
  BY QuietAnswers
<1> QED
  BY <1>1, HelperProper DEF runner, backend, Evidence, Fenced

\* Recovery moves a record to its outcome, unless it has one already.
LEMMA RecoveryProper ==
    ASSUME TypeOK, NEW j \in Jobs, Evidence(j), OpenSession PROVE Proper(j)
<1>1. Answered(j) /\ UNCHANGED <<onDisk, cancel, be>>
  BY QuietAnswers DEF OpenSession, backend
<1>2. CASE ~Recoverable(j)
  <2>1. journal'[j] = journal[j] /\ pc'[j] = pc[j] /\ owner'[j] = owner[j]
    BY <1>2 DEF OpenSession
  <2> QED
    BY <1>1, <2>1, HelperProper DEF Evidence, Fenced
<1>3. CASE Recoverable(j)
  <2> DEFINE r == journal[j]
             s == Recovered(r, sid + 1)
  <2>1. /\ onDisk[j] /\ r \in Record /\ r.phase \notin Settled
        /\ pc'[j] = "deliver" /\ owner'[j] = "recovery" /\ journal'[j] = s
    BY <1>3, Typed DEF Recoverable, OpenSession
  <2>2. /\ s.ver = r.ver /\ s.ident = r.ident
        /\ r.phase \in Undelivered => s.phase = r.phase /\ s.res = r.res
        /\ r.phase \notin Undelivered => s.phase = "terminal_pending" /\ ~s.res
    BY <2>1 DEF Recovered, Record
  <2>3. PhaseLedger(j)' /\ GroupLedger(j)'
    BY <1>1, <2>1, <2>2 DEF Evidence, PhaseLedger, GroupLedger, PhaseAt, PreLaunch,
       Delivering,
       Unfinished, Undelivered, Absent, Answered, Calm
  <2>4. WireLedger(j)' /\ Fenced(j)'
    BY <1>1, <2>1, <2>2 DEF WireLedger, Fenced, Launching, Answered
  <2>5. Legal(j)
    BY <2>1, <2>2 DEF Legal, CanTransition, Edges, Record, Undelivered, Settled,
       Unfinished, Phases
  <2> QED
    BY <1>1, <2>3, <2>4, <2>5 DEF Proper, Evidence, Authorized, Answered, Calm
<1> QED
  BY <1>2, <1>3

\* The session ends, or the daemon drains or resumes.
LEMMA SessionProper ==
    ASSUME TypeOK, NEW j \in Jobs, Evidence(j),
           SessionStep \/ LeaseFails \/ Drain \/ Resume
    PROVE  Proper(j)
<1>1. CASE OpenSession
  BY <1>1, RecoveryProper
<1>2. CASE StopLeasing \/ CloseSession \/ Drain \/ Resume
  BY <1>2, IdleProper DEF StopLeasing, CloseSession, Drain, Resume
<1>3. CASE LeaseFails
  <2>1. /\ UNCHANGED <<journal, onDisk, pc, owner, cancel, late>> /\ Calm(j)
        /\ be[j] \in Job /\ journal[j] \in Record
    BY <1>3, Typed DEF LeaseFails, runner, history, Calm
  <2>2. CASE be'[j] = be[j]
    <3>1. Answered(j)
      BY <2>1, <2>2 DEF Answered, Heard, GoneRecord, Calm, Evidence, WireLedger, Fenced, Job
    <3> QED
      BY <2>1, <2>2, <3>1, HelperProper DEF Evidence, Fenced
  <2>3. CASE /\ be[j].st = "queued"
             /\ be'[j] = [be[j] EXCEPT !.st = "leased", !.ver = @ + 1, !.sess = sid,
                !.live = TRUE]
    <3>1. be'[j].st = "leased" /\ be'[j].ver = be[j].ver + 1
      BY <2>1, <2>3 DEF Job
    <3>2. be'[j].ver \in Nat /\ journal[j].ver < be'[j].ver
      BY <2>1, <3>1 DEF Evidence, Fenced, Job, Record
    <3>3. Answered(j)
      BY <2>1, <3>1, <3>2 DEF Answered, Heard, GoneRecord, Calm, Evidence, WireLedger,
         Fenced, Record
    <3> QED
      BY <2>1, <3>2, <3>3, HelperProper DEF Answered
  <2>4. CASE be' # be
    <3>1. PICK k \in Jobs :
             /\ be[k].st = "queued"
             /\ be' = [be EXCEPT ![k].st = "leased", ![k].ver = @ + 1,
                                 ![k].sess = sid, ![k].live = TRUE]
      BY <1>3, <2>4 DEF LeaseFails
    <3>2. CASE k = j
      BY <2>3, <3>1, <3>2 DEF TypeOK
    <3>3. CASE k # j
      BY <2>2, <3>1, <3>3 DEF TypeOK
    <3> QED
      BY <3>2, <3>3
  <2> QED
    BY <2>2, <2>4
<1> QED
  BY <1>1, <1>2, <1>3 DEF SessionStep

\* The daemon crashes; what it was sending may still arrive.
LEMMA CrashProper ==
    ASSUME TypeOK, NEW j \in Jobs, Evidence(j), Crash PROVE Proper(j)
<1>1. /\ pc'[j] = "none" /\ owner'[j] = "none" /\ UNCHANGED <<onDisk, be>> /\ Calm(j)
      /\ journal'[j] = IF onDisk[j] THEN journal[j] ELSE NoJournal
      /\ late'[j] \in {late[j], InFlight(j)}
  BY DEF Crash, history, Calm
<1>2. NoJournal.phase = Absent /\ ~NoJournal.res /\ NoJournal.ver = 0
  BY DEF NoJournal
<1>3. InFlight(j).op = "submit" => InFlight(j).body \in sent[j]
  BY DEF InFlight, Call, Evidence, WireLedger, Heard
<1>4. Answered(j)
  BY <1>1, <1>3, Typed DEF Answered, Heard, GoneRecord, Calm, Evidence, WireLedger, Fenced, Job
<1>5. PhaseLedger(j)' /\ GroupLedger(j)'
  BY <1>1, <1>2 DEF Evidence, PhaseLedger, GroupLedger, PhaseAt, PreLaunch, Delivering,
     Absent, Calm
<1>6. WireLedger(j)' /\ Fenced(j)'
  BY <1>1, <1>2, <1>4 DEF WireLedger, Fenced, Launching, Answered
<1>7. Legal(j)
  BY <1>1, <1>2 DEF Legal, CanTransition
<1> QED
  BY <1>4, <1>5, <1>6, <1>7 DEF Proper, Evidence, Authorized, Answered, Calm
-----------------------------------------------------------------------------
(***************************************************************************)
(* A step of one job leaves the evidence of every other job alone.         *)
(***************************************************************************)
Beside(k) == alive'[k] = alive[k] /\ late'[k] = late[k] /\ cancel'[k] = cancel[k]

\* The building blocks of a step leave alone what JobApart does not speak of.
LEMMA StepsBeside ==
    ASSUME TypeOK, NEW j \in Jobs, NEW k \in Jobs \ {j}
    PROVE  /\ \A l : Goto(j, l) => cancel'[k] = cancel[k]
           /\ Release(j) => cancel'[k] = cancel[k]
           /\ Abandon(j) => cancel'[k] = cancel[k]
           /\ NeedsSession(j) => cancel'[k] = cancel[k]
           /\ \A p : Finish(j, p) => cancel'[k] = cancel[k]
           /\ \A e : Fail(j, e) => cancel'[k] = cancel[k]
           /\ \A op : TimeOut(j, op) => late'[k] = late[k]
           /\ \A op : Refused(j, op) => late'[k] = late[k]
           /\ \A op : Grant(j, op) => late'[k] = late[k]
           /\ \A S : Stopped(j, S) => alive'[k] = alive[k]
           /\ Launch(j) => alive'[k] = alive[k]
<1>1. \A l : Goto(j, l) => cancel'[k] = cancel[k]
  BY DEF Goto
<1>2. Release(j) => cancel'[k] = cancel[k]
  BY DEF Release, TypeOK
<1>3. \A op : TimeOut(j, op) => late'[k] = late[k]
  BY DEF TimeOut, TypeOK
<1>4. \A op : (Refused(j, op) => late'[k] = late[k]) /\ (Grant(j,
   op) => late'[k] = late[k])
  BY DEF Refused, Grant, backend
<1>5. \A S : Stopped(j, S) => alive'[k] = alive[k]
  BY DEF Stopped, TypeOK
<1>6. Launch(j) => alive'[k] = alive[k]
  BY DEF Launch, TypeOK
<1> QED
  BY <1>1, <1>2, <1>3, <1>4, <1>5, <1>6 DEF Abandon, NeedsSession, Finish, Fail

\* So does every step.
LEMMA JobBeside ==
    ASSUME TypeOK, NEW j \in Jobs, NEW k \in Jobs \ {j}, JobStep(j)
    PROVE  Beside(k)
<1> USE StepsBeside DEF Beside
<1>1. CASE Register(j) \/ Authorize(j) \/ CommitStart(j) \/ RecordIntent(j) \/ SpawnGuardian(j)
           \/ SendReclaim(j) \/ Finalize(j) \/ PurgeAtDelivery(j)
  <2>1. alive'[k] = alive[k] /\ late'[k] = late[k]
    BY <1>1 DEF Register, Authorize, CommitStart, RecordIntent, SpawnGuardian,
       SendReclaim,
       Finalize, PurgeAtDelivery, history, backend
  <2>2. cancel'[k] = cancel[k]
    BY <1>1 DEF Register, Authorize, CommitStart, RecordIntent, SpawnGuardian,
       SendReclaim,
       Finalize, PurgeAtDelivery
  <2> QED
    BY <2>1, <2>2
<1>2. CASE Start(j) \/ Reclaim(j) \/ Submit(j)
  <2>1. alive'[k] = alive[k] /\ late'[k] = late[k]
    BY <1>2 DEF Start, Reclaim, Submit, history, backend
  <2>2. cancel'[k] = cancel[k]
    BY <1>2 DEF Start, Reclaim, Submit
  <2> QED
    BY <2>1, <2>2
<1>3. CASE ReleaseTarget(j) \/ Dispatch(j) \/ Exit(j) \/ DiskFails(j) \/ SendSubmission(j)
           \/ GuardianStops(j)
  <2>1. alive'[k] = alive[k] /\ late'[k] = late[k]
    BY <1>3 DEF ReleaseTarget, Dispatch, Exit, DiskFails, SendSubmission, GuardianStops,
       history, backend
  <2>2. cancel'[k] = cancel[k]
    BY <1>3 DEF ReleaseTarget, Dispatch, Exit, DiskFails, SendSubmission,
       GuardianStops, runner
  <2> QED
    BY <2>1, <2>2
<1>4. CASE Panic(j)
  BY <1>4 DEF Panic, backend
<1>5. CASE Renew(j)
  <2>1. alive'[k] = alive[k] /\ late'[k] = late[k]
    BY <1>5 DEF Renew, history
  <2>2. cancel'[k] = cancel[k]
    BY <1>5 DEF Renew, TypeOK
  <2> QED
    BY <2>1, <2>2
<1>6. CASE WatchAuthority(j) \/ HeartbeatCancels(j) \/ Lease(j) \/ DeleteRun(j) \/ PurgeDeleted(j)
           \/ LateArrives(j) \/ BackendExpires(j) \/ LocalExpires(j) \/ RequestsCancel(j)
  <2>1. alive'[k] = alive[k]
    BY <1>6 DEF WatchAuthority, HeartbeatCancels, Lease, DeleteRun, PurgeDeleted,
       LateArrives,
       BackendExpires, LocalExpires, RequestsCancel, history
  <2>2. late'[k] = late[k]
    BY <1>6 DEF WatchAuthority, HeartbeatCancels, Lease, DeleteRun, PurgeDeleted,
       LateArrives,
       BackendExpires, LocalExpires, RequestsCancel, backend, TypeOK
  <2>3. cancel'[k] = cancel[k]
    BY <1>6 DEF WatchAuthority, HeartbeatCancels, Lease, DeleteRun, PurgeDeleted,
       LateArrives,
       BackendExpires, LocalExpires, RequestsCancel, runner, TypeOK
  <2> QED
    BY <2>1, <2>2, <2>3
<1> QED
  BY <1>1, <1>2, <1>3, <1>4, <1>5, <1>6 DEF JobStep, TaskStep

\* The evidence of a job that a step leaves alone.
LEMMA ApartProper ==
    ASSUME TypeOK, NEW k \in Jobs, Evidence(k), Apart(k), Beside(k) PROVE Proper(k)
<1>1. Answered(k)
  BY Typed DEF Apart, Beside, HistoryApart, OutsideApart, Answered, Calm, Heard, GoneRecord,
     Evidence,
     WireLedger, Fenced, Job
<1> QED
  BY <1>1, HelperProper DEF Apart, Beside, RecordsApart, TasksApart, OutsideApart,
     Evidence, Fenced
-----------------------------------------------------------------------------
EvidenceInv == LedgerInv /\ \A j \in Jobs : Evidence(j)

\* The evidence agrees at first.
LEMMA InitEvidence == Init => EvidenceInv
<1> SUFFICES ASSUME Init, NEW j \in Jobs PROVE Evidence(j)
  BY InitLedger DEF EvidenceInv
<1>1. /\ NoJournal.phase = Absent /\ ~NoJournal.res /\ NoJournal.ver = 0
      /\ NoRequest.op = "none"
  BY DEF NoJournal, NoRequest
<1>2. /\ pc[j] = "none" /\ owner[j] = "none" /\ journal[j] = NoJournal
      /\ ~onDisk[j] /\ ~alive[j]
  BY DEF Init
<1>3. pc[j] \notin DOMAIN PhaseAt /\ pc[j] \notin PreLaunch \cup Delivering
  BY <1>2 DEF PhaseAt, Delivering, PreLaunch
<1>4. PhaseLedger(j) /\ GroupLedger(j)
  BY <1>1, <1>2, <1>3 DEF PhaseLedger, GroupLedger, Absent
<1>5. WireLedger(j) /\ Fenced(j)
  BY <1>1 DEF Init, WireLedger, Heard, GoneRecord, Fenced, Launching
<1> QED
  BY <1>4, <1>5 DEF Evidence

\* Every step keeps it, and is a proper one for every job.
LEMMA NextEvidence ==
    ASSUME EvidenceInv, [Next]_vars
    PROVE  EvidenceInv' /\ \A k \in Jobs : Legal(k) /\ Authorized(k)
<1>1. LedgerInv'
  BY NextLedger DEF EvidenceInv
<1>2. ASSUME NEW k \in Jobs PROVE Proper(k)
  <2>1. TypeOK /\ TypeOK' /\ Ledger(k) /\ Evidence(k)
    BY <1>1 DEF EvidenceInv, LedgerInv
  <2>2. ASSUME NEW j \in Jobs \ {k}, JobStep(j) PROVE Proper(k)
    BY <2>1, <2>2, JobApart, JobBeside, ApartProper
  <2>3. ASSUME TaskStep(k) PROVE Proper(k)
    BY <2>1, <2>3, PreStartProper, StartProper, SpawnProper, LaunchingProper,
       ExitProper, FinalizeProper, DeliverProper, ReclaimProper, SubmissionProper,
       SubmitProper DEF TaskStep
  <2>4. CASE JobStep(k)
    BY <2>1, <2>3, <2>4, DiskProper, PanicProper, HelpersProper, BackendProper,
       LeaseProper, DeletionProper DEF JobStep
  <2>5. CASE UNCHANGED vars
    BY <2>1, <2>5, IdleProper DEF vars
  <2> QED
    BY <2>1, <2>2, <2>4, <2>5, SessionProper, CrashProper DEF Next
<1> QED
  BY <1>1, <1>2 DEF Proper, EvidenceInv

\* In every reachable state the evidence of every job agrees with what happened.
THEOREM EvidenceCorrect == Spec => []EvidenceInv
<1>1. EvidenceInv /\ [Next]_vars => EvidenceInv'
  BY NextEvidence
<1> QED
  BY <1>1, InitEvidence, PTL DEF Spec

(***************************************************************************)
(* A recorded result has no live group, a live group is on record, and an  *)
(* acknowledged outcome is the one the backend holds.                      *)
(***************************************************************************)
THEOREM RecordsTrue == Spec => []RecordsAreTrue
<1>1. EvidenceInv => RecordsAreTrue
  <2> SUFFICES ASSUME EvidenceInv, NEW j \in Jobs
               PROVE  /\ journal[j].res => ~alive[j]
                      /\ j \in Commands /\ alive[j] /\ deleted[j] = "no"
                           => onDisk[j] /\ journal[j].ident
                      /\ journal[j].phase = "acknowledged" /\ be[j].st = "done"
                           => be[j].out = Outcome(journal[j])
    BY DEF RecordsAreTrue
  <2>1. Evidence(j) /\ Ledger(j)
    BY DEF EvidenceInv, LedgerInv
  <2>2. ASSUME journal[j].phase = "acknowledged", be[j].st = "done"
        PROVE  be[j].out = Outcome(journal[j])
    BY <2>1, <2>2 DEF Evidence, WireLedger, Heard, Ledger, KeyLedger, Absent
  <2> QED
    BY <2>1, <2>2 DEF Evidence, GroupLedger
<1> QED
  BY <1>1, EvidenceCorrect, PTL

\* Journal::transition is never asked for an edge it lacks.
THEOREM TransitionsLegal == Spec => TransitionsAreLegal
<1>1. EvidenceInv /\ [Next]_vars =>
        [\A j \in Jobs : LET from == journal[j].phase
                             to == journal'[j].phase
                         IN from # Absent /\ to # Absent => CanTransition(from, to)]_vars
  BY NextEvidence DEF Legal
<1> QED
  BY <1>1, EvidenceCorrect, PTL DEF Spec, TransitionsAreLegal

\* A launch was started by the backend under the record's fence, and is not one of a
\* run whose deletion has swept its jobs.
THEOREM LaunchAuthorized == Spec => LaunchIsAuthorized
<1>1. EvidenceInv /\ [Next]_vars =>
        [\A j \in Jobs : launched'[j] # launched[j] =>
           /\ deleted[j] # "swept"
           /\ \/ be[j].st \in {"running", "gone"}
              \/ be[j].ver # journal[j].ver]_vars
  BY NextEvidence DEF Authorized
<1> QED
  BY <1>1, EvidenceCorrect, PTL DEF Spec, LaunchIsAuthorized

-----------------------------------------------------------------------------
(***************************************************************************)
(* What the result of a managed command says of its processes is true, and *)
(* no signal reaches a group that is no longer its own.  The executor acts *)
(* on old observations.  The invariant says which of them cannot have become *)
(* false meanwhile: that the guardian is gone, that a reported status is the *)
(* target's last, and, together with either, that nobody else is left in the *)
(* group.                                                                  *)
(***************************************************************************)

\* The guardian, hence the identity of the group, is kept until it is waited for.
GuardianKept ==
    /\ exec.at = "new" => guardian.at = "none"
    /\ exec.at \in {"spawned", "recorded", "look", "read", "sample", "decide", "reap"}
         => guardian.at \notin {"none", "reaped"}
    /\ exec.at \in {"capture", "done"} => guardian.at = "reaped"

\* A target starts only behind the open gate, and its status is written after its end.
Begun == guardian.at \notin {"none", "gated", "starting"}
TargetFollows ==
    /\ target.main # "none" => Begun
    /\ target.main = "zombie" => target.code # "none"
    /\ statusFile \notin {"empty", "torn"} => target.main = "gone"
    /\ statusFile \in {"own", "signal"} => target.code = statusFile
    /\ exec.code # "none" => exec.code = statusFile

\* Nobody is left in the group, and nobody can join it any more.
Quiet == ~OthersLive /\ Begun

\* What an observation still tells when it is acted on.
ObservationHolds ==
    exec.at = "decide" =>
      /\ ~exec.seen.known => exec.error
      /\ exec.seen.known /\ ~exec.seen.guardian => ~GuardianLives
      /\ exec.seen.known /\ ~exec.seen.others /\ (~exec.seen.guardian \/ exec.code # "none")
           => Quiet

\* The loop is left without an error only when the group is empty.
EndsQuietly ==
    /\ exec.at \in {"new", "spawned", "recorded"} => ~exec.error /\ ~exec.canceled
    /\ exec.at \in {"reap", "capture", "done"} /\ ~exec.error =>
         exec.stopped /\ Quiet /\ (exec.canceled \/ exec.code # "none")
    /\ exec.at \in {"capture", "done"} /\ ~exec.error => exec.code # "unspawned"

\* Nobody signals a target whose command is neither canceled nor broken.
Undisturbed ==
    /\ exec.at \notin {"failed", "dead"} /\ ~exec.canceled /\ ~exec.error =>
         ~target.termed /\ target.code # "signal" /\ guardian.shutting = "no"
    /\ exec.at \notin {"failed", "dead", "capture", "done"} /\ guardian.closed =>
         /\ exec.at = "reap" /\ target.main = "gone"
         /\ guardian.pipe = "Q" \/ ~GuardianLives

\* The expiry flag and its gate tell who canceled first.
CauseAgrees ==
    /\ exec.canceled => token.set
    /\ token.set <=> token.first # "none"
    /\ \A w \in Watchers : watchers[w] = "marked" <=> token.gate = w
    /\ token.first = "expiry" <=> token.expired \/ token.gate # "free"
    /\ ~(token.expired /\ token.gate # "free")

\* The result repeats what the executor knew.
OutcomeAgrees ==
    outcome # NoOutcome =>
      /\ exec.at = "done" /\ ~exec.error
      /\ outcome.canceled = exec.canceled /\ outcome.code = exec.code
      /\ outcome.stopped = exec.stopped
      /\ outcome.cause = "expired" <=> outcome.canceled /\ token.first = "expiry"

GroupInv ==
    /\ GroupTypeOK /\ GuardianKept /\ TargetFollows /\ ObservationHolds /\ EndsQuietly
    /\ Undisturbed /\ CauseAgrees /\ OutcomeAgrees /\ ~stray
-----------------------------------------------------------------------------
(***************************************************************************)
(* Signals to the group.                                                   *)
(***************************************************************************)
LEMMA KilledTarget ==
    ASSUME target \in TargetState
    PROVE  /\ Killed \in TargetState
           /\ Killed.main \notin {"live", "zombie"} /\ Killed.kin # "live"
           /\ Killed.main = "none" <=> target.main = "none"
           /\ target.main # "live" => Killed.code = target.code
           /\ target.main # "none" => Killed.main = "gone"
           /\ Killed.termed = target.termed
BY DEF Killed, TargetState

LEMMA KilledGuard ==
    ASSUME guardian \in GuardianState
    PROVE  /\ KilledGuardian \in GuardianState
           /\ KilledGuardian.at = IF GuardianLives THEN "zombie" ELSE guardian.at
           /\ KilledGuardian.pipe = guardian.pipe /\ KilledGuardian.closed = guardian.closed
           /\ KilledGuardian.shutting = guardian.shutting
BY DEF KilledGuardian, GuardianState
-----------------------------------------------------------------------------
\* The guardian is spawned behind its gate.
LEMMA SpawnKeeps ==
    ASSUME GroupInv, Spawn
    PROVE  GroupInv'
<1> USE DEF GroupInv, GroupTypeOK, Spawn, Goes
<1>1. exec' \in ExecState
  BY DEF ExecState, Points
<1>2. guardian' \in GuardianState
  BY DEF GuardianState
<1>3. TargetFollows'
  BY DEF GuardianKept, TargetFollows, Begun
<1>4. /\ GuardianKept' /\ ObservationHolds' /\ EndsQuietly'
      /\ Undisturbed' /\ CauseAgrees' /\ OutcomeAgrees'
  BY DEF GuardianKept, ObservationHolds, EndsQuietly, Undisturbed, CauseAgrees,
     OutcomeAgrees
<1> QED
  BY <1>1, <1>2, <1>3, <1>4

\* The identity of the group is recorded.
LEMMA RecordIdentityKeeps ==
    ASSUME GroupInv, RecordIdentity
    PROVE  GroupInv'
<1> USE DEF GroupInv, GroupTypeOK, RecordIdentity, Goes
<1>1. exec' \in ExecState
  BY DEF ExecState, Points
<1>2. /\ GuardianKept' /\ TargetFollows' /\ ObservationHolds' /\ EndsQuietly'
      /\ Undisturbed' /\ CauseAgrees' /\ OutcomeAgrees'
  BY DEF GuardianKept, TargetFollows, Begun, ObservationHolds, EndsQuietly,
     Undisturbed, CauseAgrees, OutcomeAgrees
<1> QED
  BY <1>1, <1>2

\* The record fails: the guardian is killed and waited for.
LEMMA IdentityRefusedKeeps ==
    ASSUME GroupInv, IdentityRefused
    PROVE  GroupInv'
<1> USE DEF GroupInv, GroupTypeOK, IdentityRefused, Goes
<1>1. exec' \in ExecState
  BY DEF ExecState, Points
<1>2. guardian' \in GuardianState
  BY DEF GuardianState
<1>3. target' \in TargetState
  BY DEF TargetState, Killed
<1>4. stray' \in BOOLEAN
  BY DEF Signals
<1>5. mishapsLeft' \in 0..Mishaps
  BY GroupAssumption DEF Mishap
<1>6. TargetFollows'
  BY DEF TargetFollows, Begun, Killed
<1>7. ~stray'
  BY DEF GuardianKept, Signals
<1>8. /\ GuardianKept' /\ ObservationHolds' /\ EndsQuietly'
      /\ Undisturbed' /\ CauseAgrees' /\ OutcomeAgrees'
  BY DEF GuardianKept, ObservationHolds, EndsQuietly, Undisturbed, CauseAgrees,
     OutcomeAgrees
<1> QED
  BY <1>1, <1>2, <1>3, <1>4, <1>5, <1>6, <1>7, <1>8

\* The target may start.
LEMMA OpenGateKeeps ==
    ASSUME GroupInv, OpenGate
    PROVE  GroupInv'
<1> USE DEF GroupInv, GroupTypeOK, OpenGate, Goes
<1>1. exec' \in ExecState
  BY DEF ExecState, Points, TokenState
<1>2. guardian' \in GuardianState
  BY DEF GuardianState
<1>3. Undisturbed'
  BY DEF EndsQuietly, Undisturbed
<1>4. /\ GuardianKept' /\ TargetFollows' /\ ObservationHolds'
      /\ EndsQuietly' /\ CauseAgrees' /\ OutcomeAgrees'
  BY DEF GuardianKept, TargetFollows, Begun, ObservationHolds, EndsQuietly,
     CauseAgrees, OutcomeAgrees
<1> QED
  BY <1>1, <1>2, <1>3, <1>4

\* The token is read; a spool task may fail.
LEMMA CheckTokenKeeps ==
    ASSUME GroupInv, CheckToken
    PROVE  GroupInv'
<1> USE DEF GroupInv, GroupTypeOK, CheckToken, Goes
<1>1. exec' \in ExecState
  BY DEF ExecState, Points
<1>2. mishapsLeft' \in 0..Mishaps
  BY GroupAssumption DEF Mishap
<1>3. GuardianKept'
  BY DEF GuardianKept, ExecState
<1>4. TargetFollows'
  BY DEF TargetFollows, Begun, ExecState
<1>5. ObservationHolds'
  BY DEF ObservationHolds, ExecState
<1>6. EndsQuietly'
  BY DEF EndsQuietly, ExecState
<1>7. Undisturbed'
  BY DEF Undisturbed, ExecState
<1>8. CauseAgrees'
  BY DEF CauseAgrees, ExecState
<1>9. OutcomeAgrees'
  BY DEF OutcomeAgrees
<1> QED
  BY <1>1, <1>2, <1>3, <1>4, <1>5, <1>6, <1>7, <1>8, <1>9

\* The status file is read.
LEMMA ReadStatusKeeps ==
    ASSUME GroupInv, ReadStatus
    PROVE  GroupInv'
<1> USE DEF GroupInv, GroupTypeOK, ReadStatus, Goes
<1>1. exec' \in ExecState
  BY DEF ExecState, Points, Codes
<1>2. /\ GuardianKept' /\ TargetFollows' /\ ObservationHolds' /\ EndsQuietly'
      /\ Undisturbed' /\ CauseAgrees' /\ OutcomeAgrees'
  BY DEF GuardianKept, TargetFollows, Begun, ObservationHolds, EndsQuietly,
     Undisturbed, CauseAgrees, OutcomeAgrees
<1> QED
  BY <1>1, <1>2

\* The group is observed: what is seen to be gone is gone for good.
LEMMA SampleKeeps ==
    ASSUME GroupInv, Sample
    PROVE  GroupInv'
<1> USE DEF GroupInv, GroupTypeOK, Sample, Goes
<1>1. exec' \in ExecState
  BY DEF ExecState, Sights, Points
<1>2. mishapsLeft' \in 0..Mishaps
  BY GroupAssumption DEF Mishap
<1>3. ObservationHolds'
  BY DEF GuardianKept, TargetFollows, ObservationHolds, Quiet, Begun, GuardianLives,
     OthersLive, ExecState, Sights, Codes
<1>4. Undisturbed'
  BY DEF Undisturbed, ExecState
<1>5. /\ GuardianKept' /\ TargetFollows' /\ EndsQuietly'
      /\ CauseAgrees' /\ OutcomeAgrees'
  BY DEF GuardianKept, TargetFollows, Begun, EndsQuietly, CauseAgrees, OutcomeAgrees
<1> QED
  BY <1>1, <1>2, <1>3, <1>4, <1>5

\* A group that was to be stopped is empty.
LEMMA FindsItGoneKeeps ==
    ASSUME GroupInv, FindsItGone
    PROVE  GroupInv'
<1> USE DEF GroupInv, GroupTypeOK, FindsItGone, Goes
<1>1. exec' \in ExecState
  BY DEF ExecState, Sights, Points, Broken
<1>2. EndsQuietly'
  BY DEF ObservationHolds, EndsQuietly, Quiet, Begun, OthersLive, ExecState, Broken,
     Deserted
<1>3. Undisturbed'
  BY DEF Undisturbed, ExecState, Broken
<1>4. /\ GuardianKept' /\ TargetFollows' /\ ObservationHolds'
      /\ CauseAgrees' /\ OutcomeAgrees'
  BY DEF GuardianKept, TargetFollows, Begun, ObservationHolds, CauseAgrees,
     OutcomeAgrees
<1> QED
  BY <1>1, <1>2, <1>3, <1>4

\* The group is signaled, which its guardian still keeps its own.
LEMMA StopKeeps ==
    ASSUME GroupInv, Stop
    PROVE  GroupInv'
<1> USE DEF GroupInv, GroupTypeOK, Stop, Goes
<1>1. exec' \in ExecState
  BY DEF ExecState, Points, Broken
<1>2. guardian' \in GuardianState
  BY DEF GuardianState, KilledGuardian
<1>3. target' \in TargetState
  BY DEF TargetState, Killed, Termed
<1>4. stray' \in BOOLEAN
  BY DEF Signals
<1>5. GuardianKept'
  BY DEF GuardianKept, KilledGuardian
<1>6. TargetFollows'
  BY DEF TargetFollows, Begun, KilledGuardian, Killed, Termed
<1>7. ~stray'
  BY DEF GuardianKept, Signals
<1>8. Undisturbed'
  BY DEF Undisturbed, ExecState, GuardianState, KilledGuardian, Stopping
<1>9. ObservationHolds' /\ EndsQuietly' /\ CauseAgrees' /\ OutcomeAgrees'
  BY DEF ObservationHolds, EndsQuietly, CauseAgrees, OutcomeAgrees
<1> QED
  BY <1>1, <1>2, <1>3, <1>4, <1>5, <1>6, <1>7, <1>8, <1>9

\* The signal fails.
LEMMA StopFailsKeeps ==
    ASSUME GroupInv, StopFails
    PROVE  GroupInv'
<1> USE DEF GroupInv, GroupTypeOK, StopFails, Goes
<1>1. exec' \in ExecState
  BY DEF ExecState, Points
<1>2. guardian' \in GuardianState
  BY DEF GuardianState
<1>3. stray' \in BOOLEAN
  BY DEF Signals
<1>4. ~stray'
  BY DEF GuardianKept, Signals
<1>5. /\ GuardianKept' /\ TargetFollows' /\ ObservationHolds' /\ EndsQuietly'
      /\ Undisturbed' /\ CauseAgrees' /\ OutcomeAgrees'
  BY DEF GuardianKept, TargetFollows, Begun, ObservationHolds, EndsQuietly,
     Undisturbed, CauseAgrees, OutcomeAgrees
<1> QED
  BY <1>1, <1>2, <1>3, <1>4, <1>5

\* The grace passes.
LEMMA GracePassesKeeps ==
    ASSUME GroupInv, GracePasses
    PROVE  GroupInv'
<1> USE DEF GroupInv, GroupTypeOK, GracePasses, Goes
<1>1. exec' \in ExecState
  BY DEF ExecState
<1>2. ObservationHolds'
  BY DEF ObservationHolds, Quiet, Begun, GuardianLives, OthersLive
<1>3. EndsQuietly'
  BY DEF EndsQuietly, Quiet, Begun, OthersLive
<1>4. Undisturbed'
  BY DEF Undisturbed, GuardianLives
<1>5. GuardianKept' /\ TargetFollows' /\ CauseAgrees' /\ OutcomeAgrees'
  BY DEF GuardianKept, TargetFollows, Begun, CauseAgrees, OutcomeAgrees
<1> QED
  BY <1>1, <1>2, <1>3, <1>4, <1>5

\* The guardian is let go of an empty group.
LEMMA ReleaseGuardianKeeps ==
    ASSUME GroupInv, ReleaseGuardian
    PROVE  GroupInv'
<1> USE DEF GroupInv, GroupTypeOK, ReleaseGuardian, Goes
<1>1. exec' \in ExecState
  BY DEF ExecState, Points
<1>2. guardian' \in GuardianState
  BY DEF GuardianState
<1>3. EndsQuietly'
  BY DEF ObservationHolds, EndsQuietly, Quiet, Begun, OthersLive
<1>4. Undisturbed'
  BY DEF TargetFollows, Undisturbed, ExecState, Codes
<1>5. /\ GuardianKept' /\ TargetFollows' /\ ObservationHolds'
      /\ CauseAgrees' /\ OutcomeAgrees'
  BY DEF GuardianKept, TargetFollows, Begun, ObservationHolds, CauseAgrees,
     OutcomeAgrees
<1> QED
  BY <1>1, <1>2, <1>3, <1>4, <1>5

\* The guardian is already gone.
LEMMA ReleaseFailsKeeps ==
    ASSUME GroupInv, ReleaseFails
    PROVE  GroupInv'
<1> USE DEF GroupInv, GroupTypeOK, ReleaseFails, Goes
<1>1. exec' \in ExecState
  BY DEF ExecState, Points
<1>2. guardian' \in GuardianState
  BY DEF GuardianState
<1>3. target' \in TargetState
  BY DEF TargetState, Killed
<1>4. stray' \in BOOLEAN
  BY DEF Signals
<1>5. TargetFollows'
  BY DEF TargetFollows, Begun, Killed
<1>6. ~stray'
  BY DEF GuardianKept, Signals
<1>7. /\ GuardianKept' /\ ObservationHolds' /\ EndsQuietly'
      /\ Undisturbed' /\ CauseAgrees' /\ OutcomeAgrees'
  BY DEF GuardianKept, ObservationHolds, EndsQuietly, Undisturbed, CauseAgrees,
     OutcomeAgrees
<1> QED
  BY <1>1, <1>2, <1>3, <1>4, <1>5, <1>6, <1>7

\* The group goes on.
LEMMA KeepWaitingKeeps ==
    ASSUME GroupInv, KeepWaiting
    PROVE  GroupInv'
<1> USE DEF GroupInv, GroupTypeOK, KeepWaiting, Goes
<1>1. exec' \in ExecState
  BY DEF ExecState, Points
<1>2. /\ GuardianKept' /\ TargetFollows' /\ ObservationHolds' /\ EndsQuietly'
      /\ Undisturbed' /\ CauseAgrees' /\ OutcomeAgrees'
  BY DEF GuardianKept, TargetFollows, Begun, ObservationHolds, EndsQuietly,
     Undisturbed, CauseAgrees, OutcomeAgrees
<1> QED
  BY <1>1, <1>2

\* The guardian is waited for.
LEMMA ReapKeeps ==
    ASSUME GroupInv, Reap
    PROVE  GroupInv'
<1> USE DEF GroupInv, GroupTypeOK, Reap, Goes
<1>1. exec' \in ExecState
  BY DEF ExecState, Points
<1>2. guardian' \in GuardianState
  BY DEF GuardianState
<1>3. EndsQuietly'
  BY DEF EndsQuietly, Quiet, Begun, OthersLive, ExecState
<1>4. Undisturbed'
  BY DEF Undisturbed, ExecState
<1>5. /\ GuardianKept' /\ TargetFollows' /\ ObservationHolds'
      /\ CauseAgrees' /\ OutcomeAgrees'
  BY DEF GuardianKept, TargetFollows, Begun, ObservationHolds, CauseAgrees,
     OutcomeAgrees
<1> QED
  BY <1>1, <1>2, <1>3, <1>4, <1>5

\* The result is made.
LEMMA CaptureKeeps ==
    ASSUME GroupInv, Capture
    PROVE  GroupInv'
<1> USE DEF GroupInv, GroupTypeOK, Capture, Goes
<1>1. exec' \in ExecState
  BY DEF ExecState, Points
<1>2. outcome' \in {NoOutcome} \cup Result
  BY DEF Result, ExecState, Codes, Cause, EndsQuietly
<1>3. GuardianKept'
  BY DEF GuardianKept, ExecState
<1>4. TargetFollows'
  BY DEF TargetFollows, Begun, ExecState
<1>5. ObservationHolds'
  BY DEF ObservationHolds, ExecState
<1>6. EndsQuietly'
  BY DEF EndsQuietly, Quiet, Begun, OthersLive, ExecState
<1>7. Undisturbed'
  BY DEF Undisturbed, ExecState
<1>8. CauseAgrees'
  BY DEF CauseAgrees, ExecState
<1>9. OutcomeAgrees'
  BY DEF OutcomeAgrees, CauseAgrees, ExecState, Cause, CauseKnown
<1> QED
  BY <1>1, <1>2, <1>3, <1>4, <1>5, <1>6, <1>7, <1>8, <1>9

\* The task is aborted.
LEMMA AbortKeeps ==
    ASSUME GroupInv, Abort
    PROVE  GroupInv'
<1> USE DEF GroupInv, GroupTypeOK, Abort, Goes
<1>1. exec' \in ExecState
  BY DEF ExecState, Points
<1>2. guardian' \in GuardianState
  BY DEF GuardianState, KilledGuardian
<1>3. target' \in TargetState
  BY DEF TargetState, Killed
<1>4. stray' \in BOOLEAN
  BY DEF Signals
<1>5. mishapsLeft' \in 0..Mishaps
  BY GroupAssumption DEF Mishap
<1>6. TargetFollows'
  <2>1. CASE guardian.at = "reaped"
    BY <2>1 DEF TargetFollows, Begun, ExecState
  <2>2. CASE guardian.at # "reaped"
    <3>1. target' = Killed /\ exec'.code = exec.code /\ statusFile' = statusFile
      BY <2>2 DEF ExecState
    <3>2. guardian'.at = KilledGuardian.at
      BY <2>2, KilledGuard DEF GuardianState
    <3>3. Begun' \/ target.main = "none"
      BY <3>2, KilledGuard DEF TargetFollows, Begun, GuardianLives
    <3>4. target.main = "gone" => target'.main = "gone" /\ target'.code = target.code
      BY <3>1, KilledTarget
    <3> QED
      BY <3>1, <3>3, <3>4, KilledTarget DEF TargetFollows, Begun
  <2> QED
    BY <2>1, <2>2
<1>7. ~stray'
  BY DEF Signals
<1>8. OutcomeAgrees'
  BY DEF OutcomeAgrees, Running
<1>9. /\ GuardianKept' /\ ObservationHolds' /\ EndsQuietly'
      /\ Undisturbed' /\ CauseAgrees'
  BY DEF GuardianKept, ObservationHolds, EndsQuietly, Undisturbed, CauseAgrees
<1> QED
  BY <1>1, <1>2, <1>3, <1>4, <1>5, <1>6, <1>7, <1>8, <1>9

\* The guardian is reaped by whoever is left.
LEMMA ReapOrphanKeeps ==
    ASSUME GroupInv, ReapOrphan
    PROVE  GroupInv'
<1> USE DEF GroupInv, GroupTypeOK, ReapOrphan
<1>1. guardian' \in GuardianState
  BY DEF GuardianState
<1>2. /\ GuardianKept' /\ TargetFollows' /\ ObservationHolds' /\ EndsQuietly'
      /\ Undisturbed' /\ CauseAgrees' /\ OutcomeAgrees'
  BY DEF GuardianKept, TargetFollows, Begun, ObservationHolds, EndsQuietly,
     Undisturbed, CauseAgrees, OutcomeAgrees
<1> QED
  BY <1>1, <1>2

\* The daemon dies.
LEMMA DaemonDiesKeeps ==
    ASSUME GroupInv, DaemonDies
    PROVE  GroupInv'
<1> USE DEF GroupInv, GroupTypeOK, DaemonDies, Goes
<1>1. exec' \in ExecState
  BY DEF ExecState, Points
<1>2. guardian' \in GuardianState
  BY DEF GuardianState
<1>3. mishapsLeft' \in 0..Mishaps
  BY GroupAssumption DEF Mishap
<1>4. OutcomeAgrees'
  BY DEF OutcomeAgrees, Running
<1>5. /\ GuardianKept' /\ TargetFollows' /\ ObservationHolds'
      /\ EndsQuietly' /\ Undisturbed' /\ CauseAgrees'
  BY DEF GuardianKept, TargetFollows, Begun, ObservationHolds, EndsQuietly,
     Undisturbed, CauseAgrees
<1> QED
  BY <1>1, <1>2, <1>3, <1>4, <1>5

\* The guardian reads its first byte.
LEMMA ReadStartKeeps ==
    ASSUME GroupInv, ReadStart
    PROVE  GroupInv'
<1> USE DEF GroupInv, GroupTypeOK, ReadStart
<1>1. guardian' \in GuardianState
  BY DEF GuardianState, Exits
<1>2. GuardianKept'
  BY DEF GuardianKept, GuardianState, Exits
<1>3. ObservationHolds'
  BY DEF ObservationHolds, Quiet, Begun, GuardianLives
<1>4. EndsQuietly'
  BY DEF EndsQuietly, Quiet, Begun
<1>5. Undisturbed'
  BY DEF TargetFollows, Undisturbed, Begun, Exits, GuardianState, GuardianLives
<1>6. TargetFollows' /\ CauseAgrees' /\ OutcomeAgrees'
  BY DEF TargetFollows, Begun, CauseAgrees, OutcomeAgrees
<1> QED
  BY <1>1, <1>2, <1>3, <1>4, <1>5, <1>6

\* The target starts.
LEMMA StartTargetKeeps ==
    ASSUME GroupInv, StartTarget
    PROVE  GroupInv'
<1> USE DEF GroupInv, GroupTypeOK, StartTarget
<1>1. guardian' \in GuardianState
  BY DEF GuardianState
<1>2. target' \in TargetState
  BY DEF TargetState
<1>3. statusFile' \in {"empty", "torn", "own", "signal", "unspawned"}
  OBVIOUS
<1>4. mishapsLeft' \in 0..Mishaps
  BY GroupAssumption DEF Mishap
<1>5. TargetFollows'
  BY DEF TargetFollows, Begun, ExecState, Codes, TargetState
<1>6. ObservationHolds'
  BY DEF ObservationHolds, Quiet, Begun, GuardianLives
<1>7. EndsQuietly'
  BY DEF EndsQuietly, Quiet, Begun
<1>8. Undisturbed'
  BY DEF TargetFollows, Undisturbed, Begun, TargetState
<1>9. GuardianKept' /\ CauseAgrees' /\ OutcomeAgrees'
  BY DEF GuardianKept, CauseAgrees, OutcomeAgrees
<1> QED
  BY <1>1, <1>2, <1>3, <1>4, <1>5, <1>6, <1>7, <1>8, <1>9

\* The guardian writes how the target ended.
LEMMA WriteStatusKeeps ==
    ASSUME GroupInv, WriteStatus
    PROVE  GroupInv'
<1> USE DEF GroupInv, GroupTypeOK, WriteStatus
<1>1. guardian' \in GuardianState
  BY DEF GuardianState, Exits
<1>2. target' \in TargetState
  BY DEF TargetState
<1>3. statusFile' \in {"empty", "torn", "own", "signal", "unspawned"}
  BY DEF TargetState, TargetFollows
<1>4. mishapsLeft' \in 0..Mishaps
  BY GroupAssumption DEF Mishap, Exits
<1>5. GuardianKept'
  BY DEF GuardianKept, GuardianState, Exits
<1>6. TargetFollows'
  BY DEF TargetFollows, Begun, ExecState, Codes, GuardianState, Exits, TargetState
<1>7. ObservationHolds'
  BY DEF TargetFollows, ObservationHolds, GuardianLives, ExecState, Codes
<1>8. EndsQuietly'
  BY DEF EndsQuietly, Quiet, Begun, OthersLive, Exits, TargetState, GuardianState
<1>9. Undisturbed'
  BY DEF Undisturbed, Exits, TargetState, GuardianState, GuardianLives
<1>10. CauseAgrees' /\ OutcomeAgrees'
  BY DEF CauseAgrees, OutcomeAgrees
<1> QED
  BY <1>1, <1>2, <1>3, <1>4, <1>5, <1>6, <1>7, <1>8, <1>9, <1>10

\* The guardian reads its release, or the end of the pipe.
LEMMA ReadControlKeeps ==
    ASSUME GroupInv, ReadControl
    PROVE  GroupInv'
<1> USE DEF GroupInv, GroupTypeOK, ReadControl
<1>1. guardian' \in GuardianState
  BY DEF GuardianState, Exits
<1>2. target' \in TargetState
  BY DEF TargetState, Termed
<1>3. GuardianKept'
  BY DEF GuardianKept, GuardianState, Exits
<1>4. TargetFollows'
  BY DEF TargetFollows, Begun, Exits, Termed, TargetState, GuardianState
<1>5. ObservationHolds'
  BY DEF ObservationHolds, Quiet, Begun, GuardianLives, OthersLive, Exits, Termed,
     TargetState, GuardianState
<1>6. EndsQuietly'
  BY DEF EndsQuietly, Quiet, Begun, OthersLive, Exits, Termed, TargetState,
     GuardianState
<1>7. Undisturbed'
  BY DEF GuardianKept, Undisturbed, Exits, GuardianState, GuardianLives
<1>8. CauseAgrees' /\ OutcomeAgrees'
  BY DEF CauseAgrees, OutcomeAgrees
<1> QED
  BY <1>1, <1>2, <1>3, <1>4, <1>5, <1>6, <1>7, <1>8

\* The guardian kills its group.
LEMMA GuardianKillsKeeps ==
    ASSUME GroupInv, GuardianKills
    PROVE  GroupInv'
<1> USE DEF GroupInv, GroupTypeOK, GuardianKills
<1>1. guardian' \in GuardianState
  BY DEF GuardianState, KilledGuardian
<1>2. target' \in TargetState
  BY DEF TargetState, Killed
<1>3. GuardianKept'
  BY DEF GuardianKept, KilledGuardian
<1>4. TargetFollows'
  BY DEF TargetFollows, Begun, KilledGuardian, Killed
<1>5. ObservationHolds'
  BY DEF ObservationHolds, Quiet, Begun, GuardianLives, OthersLive, KilledGuardian,
     Killed
<1>6. EndsQuietly'
  BY DEF EndsQuietly, Quiet, Begun, OthersLive, KilledGuardian, Killed
<1>7. Undisturbed'
  BY DEF Undisturbed, GuardianLives, KilledGuardian, Killed
<1>8. CauseAgrees' /\ OutcomeAgrees'
  BY DEF CauseAgrees, OutcomeAgrees
<1> QED
  BY <1>1, <1>2, <1>3, <1>4, <1>5, <1>6, <1>7, <1>8

\* The guardian is killed from outside.
LEMMA GuardianDiesKeeps ==
    ASSUME GroupInv, GuardianDies
    PROVE  GroupInv'
<1> USE DEF GroupInv, GroupTypeOK, GuardianDies
<1>1. guardian' \in GuardianState
  BY DEF GuardianState, Exits
<1>2. target' \in TargetState
  BY DEF TargetState
<1>3. mishapsLeft' \in 0..Mishaps
  BY GroupAssumption DEF Mishap
<1>4. GuardianKept'
  BY DEF GuardianKept, GuardianLives, Exits
<1>5. TargetFollows'
  BY DEF TargetFollows, Begun, Exits
<1>6. ObservationHolds'
  BY DEF ObservationHolds, Quiet, Begun, OthersLive, Exits
<1>7. EndsQuietly'
  BY DEF EndsQuietly, Quiet, Begun, OthersLive, Exits
<1>8. Undisturbed'
  BY DEF Undisturbed, Exits
<1>9. CauseAgrees' /\ OutcomeAgrees'
  BY DEF CauseAgrees, OutcomeAgrees
<1> QED
  BY <1>1, <1>2, <1>3, <1>4, <1>5, <1>6, <1>7, <1>8, <1>9

\* The target starts a process.
LEMMA TargetForksKeeps ==
    ASSUME GroupInv, TargetForks
    PROVE  GroupInv'
<1> USE DEF GroupInv, GroupTypeOK, TargetForks
<1>1. target' \in TargetState
  BY DEF TargetState
<1>2. ObservationHolds'
  BY DEF ObservationHolds, Quiet, GuardianLives, OthersLive
<1>3. EndsQuietly'
  BY DEF EndsQuietly, Quiet, OthersLive
<1>4. /\ GuardianKept' /\ TargetFollows' /\ Undisturbed'
      /\ CauseAgrees' /\ OutcomeAgrees'
  BY DEF GuardianKept, TargetFollows, Begun, Undisturbed, CauseAgrees, OutcomeAgrees
<1> QED
  BY <1>1, <1>2, <1>3, <1>4

\* The target, or its process, ends.
LEMMA TargetEndsKeeps ==
    ASSUME GroupInv, TargetEnds
    PROVE  GroupInv'
<1> USE DEF GroupInv, GroupTypeOK, TargetEnds
<1>1. target' \in TargetState
  BY DEF TargetState
<1>2. TargetFollows'
  BY DEF TargetFollows, Begun, TargetState
<1>3. ObservationHolds'
  BY DEF ObservationHolds, Quiet, GuardianLives, OthersLive
<1>4. EndsQuietly'
  BY DEF EndsQuietly, Quiet, OthersLive
<1>5. Undisturbed'
  <2>1. target'.termed = target.termed /\ UNCHANGED <<exec, guardian>>
    BY DEF TargetState
  <2>2. ~target.termed /\ target.code # "signal" => target'.code # "signal"
    BY DEF TargetState
  <2>3. target.main = "gone" => target'.main = "gone"
    BY DEF TargetState
  <2> QED
    BY <2>1, <2>2, <2>3 DEF Undisturbed, GuardianLives
<1>6. GuardianKept' /\ CauseAgrees' /\ OutcomeAgrees'
  BY DEF GuardianKept, CauseAgrees, OutcomeAgrees
<1> QED
  BY <1>1, <1>2, <1>3, <1>4, <1>5, <1>6

\* The backend cancels.
LEMMA BackendCancelsKeeps ==
    ASSUME GroupInv, BackendCancels
    PROVE  GroupInv'
<1> USE DEF GroupInv, GroupTypeOK, BackendCancels
<1>1. token' \in TokenState
  BY DEF TokenState
<1>2. ObservationHolds'
  BY DEF ObservationHolds, Quiet, Begun, GuardianLives, OthersLive
<1>3. EndsQuietly'
  BY DEF EndsQuietly, Quiet, Begun, OthersLive
<1>4. Undisturbed'
  BY DEF Undisturbed, GuardianLives
<1>5. OutcomeAgrees'
  BY DEF OutcomeAgrees, Running
<1>6. GuardianKept' /\ TargetFollows' /\ CauseAgrees'
  BY DEF GuardianKept, TargetFollows, Begun, CauseAgrees
<1> QED
  BY <1>1, <1>2, <1>3, <1>4, <1>5, <1>6

\* A watcher finds the lease expired.
LEMMA FindExpiredKeeps ==
    ASSUME GroupInv, NEW w \in Watchers, FindExpired(w)
    PROVE  GroupInv'
<1> USE DEF GroupInv, GroupTypeOK, FindExpired
<1>1. watchers' \in [Watchers -> {"waiting", "trigger", "marked", "over"}]
  OBVIOUS
<1>2. ObservationHolds'
  BY DEF ObservationHolds, Quiet, Begun, GuardianLives, OthersLive
<1>3. EndsQuietly'
  BY DEF EndsQuietly, Quiet, Begun, OthersLive
<1>4. Undisturbed'
  BY DEF Undisturbed, GuardianLives
<1>5. CauseAgrees'
  BY GroupAssumption DEF CauseAgrees
<1>6. GuardianKept' /\ TargetFollows' /\ OutcomeAgrees'
  BY DEF GuardianKept, TargetFollows, Begun, OutcomeAgrees
<1> QED
  BY <1>1, <1>2, <1>3, <1>4, <1>5, <1>6

\* It triggers the cancellation, under the gate.
LEMMA TriggerKeeps ==
    ASSUME GroupInv, NEW w \in Watchers, Trigger(w)
    PROVE  GroupInv'
<1> USE DEF GroupInv, GroupTypeOK, Trigger
<1>1. watchers' \in [Watchers -> {"waiting", "trigger", "marked", "over"}]
  OBVIOUS
<1>2. token' \in TokenState
  BY DEF TokenState
<1>3. ObservationHolds'
  BY DEF ObservationHolds, Quiet, Begun, GuardianLives, OthersLive
<1>4. EndsQuietly'
  BY DEF EndsQuietly, Quiet, Begun, OthersLive
<1>5. Undisturbed'
  BY DEF Undisturbed, GuardianLives
<1>6. CauseAgrees'
  <2>1. CASE token.set
    BY <2>1, GroupAssumption DEF CauseAgrees
  <2>2. CASE ~token.set
    <3>1. /\ token'.set /\ token'.first = "expiry" /\ token'.gate = w
          /\ token'.expired = token.expired
      BY <2>2 DEF TokenState
    <3>2. watchers'[w] = "marked" /\ \A v \in Watchers \ {w} : watchers'[v] = watchers[v]
      BY <2>2
    <3>3. w # "free" /\ ~token.expired
      BY <2>2, GroupAssumption DEF CauseAgrees
    <3>4. \A v \in Watchers : watchers[v] # "marked"
      BY GroupAssumption DEF CauseAgrees
    <3> QED
      BY <3>1, <3>2, <3>3, <3>4 DEF CauseAgrees
  <2> QED
    BY <2>1, <2>2
<1>7. OutcomeAgrees'
  BY DEF OutcomeAgrees, CauseAgrees
<1>8. GuardianKept' /\ TargetFollows'
  BY DEF GuardianKept, TargetFollows, Begun
<1> QED
  BY <1>1, <1>2, <1>3, <1>4, <1>5, <1>6, <1>7, <1>8

\* It sets the cause.
LEMMA SetCauseKeeps ==
    ASSUME GroupInv, NEW w \in Watchers, SetCause(w)
    PROVE  GroupInv'
<1> USE DEF GroupInv, GroupTypeOK, SetCause
<1>1. watchers' \in [Watchers -> {"waiting", "trigger", "marked", "over"}]
  OBVIOUS
<1>2. token' \in TokenState
  BY DEF TokenState
<1>3. ObservationHolds'
  BY DEF ObservationHolds, Quiet, Begun, GuardianLives, OthersLive
<1>4. EndsQuietly'
  BY DEF EndsQuietly, Quiet, Begun, OthersLive
<1>5. Undisturbed'
  BY DEF Undisturbed, GuardianLives
<1>6. CauseAgrees'
  BY GroupAssumption DEF CauseAgrees
<1>7. GuardianKept' /\ TargetFollows' /\ OutcomeAgrees'
  BY DEF GuardianKept, TargetFollows, Begun, OutcomeAgrees
<1> QED
  BY <1>1, <1>2, <1>3, <1>4, <1>5, <1>6, <1>7

-----------------------------------------------------------------------------
\* The command has not begun.
LEMMA InitGroup == GroupInit => GroupInv
<1> SUFFICES ASSUME GroupInit PROVE GroupInv
  OBVIOUS
<1> USE DEF GroupInit
<1>1. exec \in ExecState /\ token \in TokenState
  BY DEF ExecState, Sights, Points, Codes, TokenState
<1>2. guardian \in GuardianState /\ target \in TargetState
  BY DEF GuardianState, TargetState
<1>3. /\ watchers \in [Watchers -> {"waiting", "trigger", "marked", "over"}]
      /\ mishapsLeft \in 0..Mishaps /\ outcome \in {NoOutcome} \cup Result
  BY GroupAssumption
<1>4. GroupTypeOK
  BY <1>1, <1>2, <1>3 DEF GroupTypeOK
<1>5. GuardianKept /\ TargetFollows /\ ObservationHolds
  BY DEF GuardianKept, TargetFollows, ObservationHolds
<1>6. EndsQuietly /\ Undisturbed
  BY DEF EndsQuietly, Undisturbed
<1>7. CauseAgrees /\ OutcomeAgrees
  BY GroupAssumption DEF CauseAgrees, OutcomeAgrees
<1> QED
  BY <1>4, <1>5, <1>6, <1>7 DEF GroupInv

\* Every step keeps what the executor relies on.
LEMMA NextGroup == GroupInv /\ [GroupNext]_groupVars => GroupInv'
<1> SUFFICES ASSUME GroupInv, [GroupNext]_groupVars PROVE GroupInv'
  OBVIOUS
<1>1. CASE UNCHANGED groupVars
  BY <1>1 DEF groupVars, GroupInv, GroupTypeOK, GuardianKept, TargetFollows, ObservationHolds,
     EndsQuietly, Undisturbed, CauseAgrees, OutcomeAgrees, Quiet, Begun, GuardianLives, OthersLive
<1>2. CASE ExecStep
  BY <1>2, SpawnKeeps, RecordIdentityKeeps, OpenGateKeeps, CheckTokenKeeps, ReadStatusKeeps,
     SampleKeeps, FindsItGoneKeeps, StopKeeps, StopFailsKeeps, ReleaseGuardianKeeps,
     ReleaseFailsKeeps, KeepWaitingKeeps, ReapKeeps, CaptureKeeps DEF ExecStep
<1>3. CASE IdentityRefused \/ GracePasses \/ Abort \/ DaemonDies \/ ReapOrphan
  BY <1>3, IdentityRefusedKeeps, GracePassesKeeps, AbortKeeps, DaemonDiesKeeps, ReapOrphanKeeps
<1>4. CASE GuardianStep \/ GuardianDies
  BY <1>4, ReadStartKeeps, StartTargetKeeps, WriteStatusKeeps, ReadControlKeeps,
     GuardianKillsKeeps, GuardianDiesKeeps DEF GuardianStep
<1>5. CASE TargetForks \/ TargetEnds \/ BackendCancels
  BY <1>5, TargetForksKeeps, TargetEndsKeeps, BackendCancelsKeeps
<1>6. ASSUME NEW w \in Watchers, FindExpired(w) \/ Trigger(w) \/ SetCause(w) PROVE GroupInv'
  BY <1>6, FindExpiredKeeps, TriggerKeeps, SetCauseKeeps
<1> QED
  BY <1>1, <1>2, <1>3, <1>4, <1>5, <1>6 DEF GroupNext

(***************************************************************************)
(* In every reachable state the group stays the command's own, an old      *)
(* observation still tells what it is acted on for, and the expiry flag    *)
(* tells who canceled first.                                               *)
(***************************************************************************)
THEOREM GroupCorrect == GroupSpec => []GroupInv
<1> QED
  BY InitGroup, NextGroup, PTL DEF GroupSpec

(***************************************************************************)
(* The result of a command is true when it is given and stays true: its    *)
(* group is stopped and empty, its code the target's own unless it was     *)
(* canceled, and an expired lease is its cause exactly when it was first.  *)
(* No signal went to a group that was no longer the command's.             *)
(***************************************************************************)
THEOREM CommandTrue == GroupSpec => []CommandIsTrue
<1>1. ASSUME GroupInv PROVE CommandIsTrue
  <2> USE <1>1 DEF GroupInv
  <2>1. ASSUME outcome.is = "result" PROVE OutcomeIsTrue
    <3>1. outcome # NoOutcome
      BY <2>1 DEF NoOutcome
    <3>2. /\ exec.at = "done" /\ ~exec.error /\ exec \in ExecState /\ target \in TargetState
          /\ outcome.canceled = exec.canceled /\ outcome.code = exec.code
          /\ outcome.stopped = exec.stopped
          /\ outcome.cause = "expired" <=> outcome.canceled /\ token.first = "expiry"
      BY <3>1 DEF OutcomeAgrees, GroupTypeOK
    <3>3. exec.stopped /\ Quiet /\ guardian.at = "reaped"
      BY <3>2 DEF EndsQuietly, GuardianKept
    <3>4. ~exec.canceled => exec.code \in {"own", "signal"} /\ target.code # "signal"
      BY <3>2 DEF EndsQuietly, Undisturbed, ExecState, Codes
    <3>5. ~exec.canceled => exec.code = "own" /\ target.code = "own"
      BY <3>2, <3>4 DEF TargetFollows
    <3> QED
      BY <3>2, <3>3, <3>5 DEF OutcomeIsTrue, Quiet, GuardianLives
  <2> QED
    BY <2>1 DEF CommandIsTrue, OutcomeIsTrue
<1> QED
  BY <1>1, GroupCorrect, PTL

=============================================================================
