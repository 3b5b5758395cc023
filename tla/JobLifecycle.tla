---------------------------- MODULE JobLifecycle ----------------------------
(***************************************************************************)
(* One organization's session loop, the workers and recovery tasks it owns *)
(* (src/src/jobs), their durable journals, and the backend fences they see.*)
(*                                                                         *)
(* Updates persist a record before publishing it in memory, so `journal'   *)
(* is both while a task runs; onDisk says whether the file is there, since *)
(* a purge removes it under a running task.  A crash drops every task and  *)
(* restarts the daemon.  The backend (be, late) is external and modelled   *)
(* from the answers the code handles.                                      *)
(***************************************************************************)
EXTENDS JobJournal, FiniteSets

CONSTANTS Commands,   \* shell.exec and command.run jobs
          Requests,   \* http.request jobs
          Faults      \* how often each kind of fault may strike

Jobs == Commands \cup Requests

FaultKinds == {"crash", "expiry", "loss", "refuse", "disk", "panic", "delete",
               "cancel", "drain", "renew", "relet"}

ASSUME JobsAssumption == Commands \cap Requests = {}
ASSUME FaultsAssumption == Faults \in [FaultKinds -> Nat]

VARIABLES
    journal,    \* the record of each job (JobJournal!Record)
    onDisk,     \* journal.json exists
    pc,         \* where the task that owns the job stands
    owner,      \* "none", "worker", "panicked" (its panic handler), "recovery"
    cancel,     \* the live cancellation token
    launched,   \* history: targets authorized, or HTTP sends first polled
    alive,      \* the managed process group, or the HTTP exchange, is running
    sent,       \* history: bodies submitted under the job's terminal key
    sid, sst,   \* last session, and whether it leases, drains or is gone
    reconnect,  \* reconnect_requested of the session
    draining,   \* drain.json, survives restarts
    deleted,    \* run deletion: "no", tombstone "marked", evidence "swept"
    be,         \* external: the backend's job
    late,       \* external: a timed out request that may still arrive
    left        \* faults that may still strike

runner == <<journal, onDisk, pc, owner, cancel>>
history == <<launched, alive, sent>>
session == <<sid, sst, reconnect, draining>>
backend == <<be, late>>
vars == <<runner, history, session, deleted, backend, left>>

PCs == {"none", "register", "authorize", "admitted", "start", "started",
        "intent", "gated", "dispatch", "running", "finalize", "deliver",
        "submit", "reclaiming", "submitting"}

\* Points of execute_job before the target may start.
PreLaunch == {"register", "authorize", "admitted", "start", "started",
              "intent", "gated", "dispatch"}

NoRequest == [op |-> "none", sess |-> 0, ver |-> 0, body |-> "none"]
Request == [op : {"none", "start", "renew", "reclaim", "submit"},
            sess : Nat, ver : Nat, body : Outcomes]
Job == [st : {"queued", "leased", "running", "done", "gone"}, sess : Nat,
        ver : Nat, live : BOOLEAN, cancel : BOOLEAN, out : Outcomes]

TypeOK ==
    /\ journal \in [Jobs -> Record]
    /\ onDisk \in [Jobs -> BOOLEAN]
    /\ pc \in [Jobs -> PCs]
    /\ owner \in [Jobs -> {"none", "worker", "panicked", "recovery"}]
    /\ cancel \in [Jobs -> BOOLEAN]
    /\ launched \in [Jobs -> Nat]
    /\ alive \in [Jobs -> BOOLEAN]
    /\ sent \in [Jobs -> SUBSET Outcomes]
    /\ sid \in Nat
    /\ sst \in {"none", "open", "closing"}
    /\ reconnect \in BOOLEAN
    /\ draining \in BOOLEAN
    /\ deleted \in [Jobs -> {"no", "marked", "swept"}]
    /\ be \in [Jobs -> Job]
    /\ late \in [Jobs -> Request]
    /\ left \in [FaultKinds -> Nat]

Init ==
    /\ journal = [j \in Jobs |-> NoJournal]
    /\ onDisk = [j \in Jobs |-> FALSE]
    /\ pc = [j \in Jobs |-> "none"]
    /\ owner = [j \in Jobs |-> "none"]
    /\ cancel = [j \in Jobs |-> FALSE]
    /\ launched = [j \in Jobs |-> 0]
    /\ alive = [j \in Jobs |-> FALSE]
    /\ sent = [j \in Jobs |-> {}]
    /\ sid = 0 /\ sst = "none" /\ reconnect = FALSE /\ draining = FALSE
    /\ deleted = [j \in Jobs |-> "no"]
    /\ be = [j \in Jobs |-> [st |-> "queued", sess |-> 0, ver |-> 0,
                             live |-> FALSE, cancel |-> FALSE, out |-> "none"]]
    /\ late = [j \in Jobs |-> NoRequest]
    /\ left = Faults

Strike(kind) == /\ left[kind] > 0
                /\ left' = [left EXCEPT ![kind] = @ - 1]
-----------------------------------------------------------------------------
(***************************************************************************)
(* The backend's answers (external).                                       *)
(***************************************************************************)
InProgress(b) == b.st \in {"leased", "running"}

Held(b, r) == b.live /\ b.sess = r.sess /\ b.ver = r.ver

\* A submission is replayed by its key; reclaim needs an expired lease.
Accepts(b, r) ==
    \/ r.op = "start" /\ b.st = "leased" /\ Held(b, r)
    \/ r.op = "renew" /\ b.st = "running" /\ Held(b, r)
    \/ r.op = "submit" /\ (b.st = "done" \/ (InProgress(b) /\ Held(b, r)))
    \/ r.op = "reclaim" /\ InProgress(b) /\ ~b.live /\ b.ver = r.ver

Granted(b, r) ==
    CASE r.op = "start" -> [b EXCEPT !.st = "running"]
      [] r.op = "renew" -> [b EXCEPT !.ver = @ + 1]
      [] r.op = "reclaim" -> [b EXCEPT !.ver = @ + 1, !.sess = r.sess,
                                       !.live = TRUE]
      [] r.op = "submit" -> IF b.st = "done" THEN b
                            ELSE [b EXCEPT !.st = "done", !.out = r.body]
      [] OTHER -> b

\* fence(j) and the bodies built on it; a reclaim names the new session.
Call(j, op) ==
    [op |-> op, ver |-> journal[j].ver,
     sess |-> IF op = "reclaim" THEN journal[j].rec ELSE journal[j].sess,
     body |-> IF op = "submit" THEN Outcome(journal[j]) ELSE "none"]

Grant(j, op) == /\ Accepts(be[j], Call(j, op))
                /\ be' = [be EXCEPT ![j] = Granted(@, Call(j, op))]
                /\ UNCHANGED late

\* The reply never comes; the request itself may still arrive.
TimeOut(j, op) == /\ Strike("loss")
                  /\ late' = [late EXCEPT ![j] = Call(j, op)]
                  /\ UNCHANGED be

Refused(j, op) == ~Accepts(be[j], Call(j, op)) /\ UNCHANGED backend

LateArrives(j) ==
    /\ late[j] # NoRequest
    /\ be' = [be EXCEPT ![j] = IF Accepts(@, late[j])
                               THEN Granted(@, late[j]) ELSE @]
    /\ late' = [late EXCEPT ![j] = NoRequest]
    /\ UNCHANGED <<runner, history, session, deleted, left>>

\* Nobody renews: no task, or one that waits for a reclaim.
Unheld(j) == owner[j] = "none" \/ journal[j].rec # 0

BackendExpires(j) ==
    /\ be[j].live
    /\ be' = [be EXCEPT ![j].live = FALSE]
    /\ \/ (Unheld(j) \/ ~journal[j].live) /\ UNCHANGED left
       \/ Strike("expiry")
    /\ UNCHANGED <<runner, history, session, deleted, late>>

\* leasedUntilEpochMs passes by the runner's clock.
LocalExpires(j) ==
    /\ journal[j].live /\ ~Unheld(j)
    /\ Strike("expiry")
    /\ journal' = [journal EXCEPT ![j].live = FALSE]
    /\ UNCHANGED <<onDisk, pc, owner, cancel, history, session, deleted,
                   backend>>

RequestsCancel(j) ==
    /\ InProgress(be[j]) /\ ~be[j].cancel
    /\ Strike("cancel")
    /\ be' = [be EXCEPT ![j].cancel = TRUE]
    /\ UNCHANGED <<runner, history, session, deleted, late>>
-----------------------------------------------------------------------------
(***************************************************************************)
(* Steps of the task that owns a job.  Every one of them names the record  *)
(* it persists and where the task stands next.                             *)
(***************************************************************************)
Persist(j, record) == /\ journal' = [journal EXCEPT ![j] = record]
                      /\ onDisk' = [onDisk EXCEPT ![j] = TRUE]

Goto(j, label) == pc' = [pc EXCEPT ![j] = label] /\ UNCHANGED <<owner, cancel>>

\* Registration drops: ownership and the token go with the task.
Release(j) == /\ pc' = [pc EXCEPT ![j] = "none"]
              /\ owner' = [owner EXCEPT ![j] = "none"]
              /\ cancel' = [cancel EXCEPT ![j] = FALSE]

\* The task ends without another write; a purged record is gone with it.
Abandon(j) ==
    /\ Release(j)
    /\ journal' = [journal EXCEPT ![j] = IF onDisk[j] THEN @ ELSE NoJournal]
    /\ UNCHANGED onDisk

Finish(j, phase) == /\ Release(j)
                    /\ Persist(j, [journal[j] EXCEPT !.phase = phase])

\* RUNNER_JOB_RECOVERY_SESSION_REQUIRED: only a worker's parent looks at it.
NeedsSession(j) == /\ Abandon(j)
                   /\ reconnect' = (reconnect \/ owner[j] = "worker")
                   /\ UNCHANGED <<sid, sst, draining>>

\* Mutant of WithError: a phase the journal does not know.
WithErrorFailed(j, claim) == [journal[j] EXCEPT !.phase = "failed",
                                                !.err = claim, !.res = FALSE]


WithError(j, claim) == [journal[j] EXCEPT !.phase = "terminal_pending",
                                          !.err = claim, !.res = FALSE]

\* Mutant of Untyped: a recorded guardian identity is not looked at.
UntypedIgnoringIdentity(j) == "not_launched"

\* The error object work() builds for an untyped error.
Untyped(j) == IF j \in Commands /\ journal[j].ident THEN "indeterminate"
              ELSE "not_launched"

\* work() after execute_job failed without a result.
Fail(j, claim) == Persist(j, WithError(j, claim)) /\ Goto(j, "deliver")

AuthorityLive(j) == journal[j].live /\ ~cancel[j] /\ ~draining

\* session() registers the token after the first record is on disk.
Register(j) ==
    /\ pc[j] = "register" /\ Goto(j, "authorize")
    /\ UNCHANGED <<journal, onDisk, history, session, deleted, backend, left>>

HasToken(j) == owner[j] \in {"worker", "panicked"} /\ pc[j] # "register"

Authorize(j) ==
    /\ pc[j] = "authorize"
    /\ \/ AuthorityLive(j) /\ Goto(j, "admitted") /\ UNCHANGED <<journal, onDisk>>
       \/ Fail(j, "not_launched")
    /\ UNCHANGED <<history, session, deleted, backend, left>>

\* Mutant of CommitStart: the start is sent without its record.
CommitStartUnrecorded(j) ==
    /\ pc[j] = "admitted" /\ AuthorityLive(j)
    /\ Goto(j, "start")
    /\ UNCHANGED <<journal, onDisk, history, session, deleted, backend, left>>

\* authorized.revalidate, the second require_job_admission, and the record.
CommitStart(j) ==
    /\ pc[j] = "admitted"
    /\ \/ /\ AuthorityLive(j)
          /\ Persist(j, [journal[j] EXCEPT !.phase = "start_pending"])
          /\ Goto(j, "start")
       \/ Fail(j, "not_launched")
    /\ UNCHANGED <<history, session, deleted, backend, left>>

Start(j) ==
    /\ pc[j] = "start"
    /\ \/ /\ journal[j].live /\ Grant(j, "start") /\ UNCHANGED left
          /\ Persist(j, [journal[j] EXCEPT !.phase = "started",
                                           !.canceling = be[j].cancel])
          /\ Goto(j, "started")
       \/ /\ journal[j].live => Refused(j, "start")
          /\ UNCHANGED <<backend, left>>
          /\ Fail(j, "not_launched")
       \/ (journal[j].live /\ TimeOut(j, "start") /\ Fail(j, "not_launched"))
    /\ UNCHANGED <<history, session, deleted>>

\* Observer::before_spawn for a command, the Running record for a request.
RecordIntent(j) ==
    /\ pc[j] = "started"
    /\ IF j \in Commands
       THEN /\ Persist(j, [journal[j] EXCEPT !.phase = "spawn_intent"])
            /\ Goto(j, "intent")
       ELSE /\ Persist(j, [journal[j] EXCEPT !.phase = "running"])
            /\ Goto(j, "dispatch")
    /\ UNCHANGED <<history, session, deleted, backend, left>>

\* Observer::after_blocking.
LaunchAllowed(j) == /\ journal[j].live /\ journal[j].rec = 0
                    /\ ~journal[j].canceling /\ ~draining

\* Mutant of SpawnGuardian: the identity is not part of the record.
SpawnUnidentified(j) ==
    /\ pc[j] = "intent" /\ LaunchAllowed(j)
    /\ Persist(j, [journal[j] EXCEPT !.phase = "running"])
    /\ Goto(j, "gated")
    /\ UNCHANGED <<history, session, deleted, backend, left>>

\* The guardian is spawned; its identity is durable before it may go on.
SpawnGuardian(j) ==
    /\ pc[j] = "intent"
    /\ IF LaunchAllowed(j)
       THEN /\ Persist(j, [journal[j] EXCEPT !.phase = "running",
                                             !.ident = TRUE])
            /\ Goto(j, "gated")
       ELSE Fail(j, Untyped(j))
    /\ UNCHANGED <<history, session, deleted, backend, left>>

Launch(j) == /\ launched' = [launched EXCEPT ![j] = @ + 1]
             /\ alive' = [alive EXCEPT ![j] = TRUE]
             /\ UNCHANGED sent

\* "S" goes down the private pipe unless the job is already canceled.
ReleaseTarget(j) ==
    /\ pc[j] = "gated"
    /\ IF LaunchAllowed(j)
       THEN /\ Goto(j, "running") /\ UNCHANGED <<journal, onDisk>>
            /\ IF cancel[j] THEN UNCHANGED history ELSE Launch(j)
       ELSE Fail(j, Untyped(j)) /\ UNCHANGED history
    /\ UNCHANGED <<session, deleted, backend, left>>

\* Everything before the send future's first poll is a typed non-dispatch.
Dispatch(j) ==
    /\ pc[j] = "dispatch"
    /\ \/ /\ ~cancel[j] /\ Launch(j)
          /\ Goto(j, "running") /\ UNCHANGED <<journal, onDisk>>
       \/ Fail(j, "not_launched") /\ UNCHANGED history
    /\ UNCHANGED <<session, deleted, backend, left>>

Stopped(j, states) == /\ \E s \in states : alive' = [alive EXCEPT ![j] = s]
                      /\ UNCHANGED <<launched, sent>>

\* Mutant of Exit: a failed send is reported as never dispatched.
ExitNotDispatched(j) ==
    /\ pc[j] = "running"
    /\ Stopped(j, {FALSE}) /\ Fail(j, "not_launched")
    /\ UNCHANGED <<session, deleted, backend, left>>

\* A confirmed end has no live group; an execution error may leave one.
Exit(j) ==
    /\ pc[j] = "running"
    /\ \/ /\ j \in Requests => ~cancel[j]
          /\ Stopped(j, {FALSE})
          /\ Persist(j, [journal[j] EXCEPT !.phase = "exited", !.res = TRUE])
          /\ Goto(j, "finalize")
       \/ Stopped(j, {FALSE, alive[j]}) /\ Fail(j, "indeterminate")
    /\ UNCHANGED <<session, deleted, backend, left>>

Executing == PreLaunch \cup {"running", "finalize"}

(***************************************************************************)
(* A failed write of the journal while executing: the process is stopped,  *)
(* and work() reports an untyped error, or cannot write that either.       *)
(***************************************************************************)
DiskFails(j) ==
    /\ pc[j] \in (PreLaunch \cup {"running"}) \ {"register", "authorize", "dispatch"}
    /\ Strike("disk")
    /\ \/ Fail(j, Untyped(j))
       \/ Abandon(j)
    /\ Stopped(j, {FALSE})
    /\ UNCHANGED <<session, deleted, backend>>

AtFinalization(j) ==
    \/ pc[j] = "finalize"
    \/ /\ pc[j] = "deliver" /\ deleted[j] = "no"
       /\ journal[j].rec = 0 /\ journal[j].phase = "exited"

\* Transfers carry the fence and are refused when it does not hold; an
\* inline HTTP body needs none.
Transferable(j) == journal[j].live /\ InProgress(be[j])
                   /\ Held(be[j], Call(j, "events"))

\* drain_events, materialize_terminal and handle_finalization_error.
Finalize(j) ==
    /\ AtFinalization(j)
    /\ LET next == IF pc[j] = "finalize" THEN "deliver" ELSE "submit" IN
       \/ /\ deleted[j] = "no" /\ (Transferable(j) \/ j \in Requests)
          /\ Persist(j, [journal[j] EXCEPT !.phase = "terminal_pending"])
          /\ Goto(j, next) /\ UNCHANGED <<session, left>>
       \/ /\ Persist(j, [WithError(j, "artifact") EXCEPT !.res = TRUE])
          /\ Goto(j, next) /\ UNCHANGED <<session, left>>
       \/ ~Transferable(j) /\ NeedsSession(j) /\ UNCHANGED left
       \/ /\ Strike("loss") /\ UNCHANGED <<session, journal, onDisk>>
          /\ Goto(j, "deliver")
       \/ Strike("refuse") /\ Finish(j, "delivery_blocked") /\ UNCHANGED session
    /\ UNCHANGED <<history, deleted, backend>>

PurgeAtDelivery(j) ==
    /\ pc[j] = "deliver" /\ deleted[j] # "no"
    /\ Release(j)
    /\ journal' = [journal EXCEPT ![j] = NoJournal]
    /\ onDisk' = [onDisk EXCEPT ![j] = FALSE]
    /\ UNCHANGED <<history, session, deleted, backend, left>>

SendReclaim(j) ==
    /\ pc[j] = "deliver" /\ deleted[j] = "no" /\ journal[j].rec # 0
    /\ Goto(j, "reclaiming")
    /\ UNCHANGED <<journal, onDisk, history, session, deleted, backend, left>>

Reclaimed(j) == [journal[j] EXCEPT !.sess = journal[j].rec, !.rec = 0,
                                   !.live = TRUE, !.ver = @ + 1]

\* reclaim_terminal and the retry_delivery(LeaseReclaim) that follows it.
Reclaim(j) ==
    /\ pc[j] = "reclaiming"
    /\ \/ /\ Grant(j, "reclaim") /\ UNCHANGED left
          /\ Persist(j, Reclaimed(j))
          /\ Goto(j, "deliver")
       \/ /\ Grant(j, "reclaim") /\ Strike("disk")
          /\ Finish(j, "delivery_blocked")
       \/ /\ InProgress(be[j]) /\ be[j].live        \* RUNNER_JOB_LEASE_ACTIVE
          /\ Goto(j, "deliver") /\ UNCHANGED <<journal, onDisk, backend, left>>
       \/ /\ ~(InProgress(be[j]) /\ be[j].live) /\ Refused(j, "reclaim")
          /\ Finish(j, "delivery_blocked") /\ UNCHANGED left
       \/ /\ TimeOut(j, "reclaim")
          /\ Goto(j, "deliver") /\ UNCHANGED <<journal, onDisk>>
    /\ UNCHANGED <<history, session, deleted>>

AtSubmission(j) ==
    \/ pc[j] = "submit"
    \/ /\ pc[j] = "deliver" /\ deleted[j] = "no"
       /\ journal[j].rec = 0 /\ journal[j].phase = "terminal_pending"

\* backend_job sends nothing once the local lease is over.
SendSubmission(j) ==
    /\ AtSubmission(j)
    /\ IF journal[j].live
       THEN /\ sent' = [sent EXCEPT ![j] = @ \cup {Outcome(journal[j])}]
            /\ Goto(j, "submitting")
            /\ UNCHANGED <<journal, onDisk, session>>
       ELSE NeedsSession(j) /\ UNCHANGED sent
    /\ UNCHANGED <<launched, alive, deleted, backend, left>>

\* Mutant of Submit: a submission whose reply is lost becomes indeterminate.
SubmitRewrites(j) ==
    /\ pc[j] = "submitting" /\ UNCHANGED session
    /\ \/ Grant(j, "submit") /\ Finish(j, "acknowledged") /\ UNCHANGED left
       \/ /\ TimeOut(j, "submit") /\ Goto(j, "deliver")
          /\ Persist(j, WithError(j, "indeterminate"))
    /\ UNCHANGED <<history, deleted>>

\* The answer, and the retry_delivery(TerminalSubmission) that follows it.
Submit(j) ==
    /\ pc[j] = "submitting"
    /\ \/ /\ Grant(j, "submit") /\ UNCHANGED <<session, left>>
          /\ Finish(j, "acknowledged")
       \/ /\ Grant(j, "submit") /\ Strike("disk")
          /\ Abandon(j) /\ UNCHANGED session
       \/ Refused(j, "submit") /\ NeedsSession(j) /\ UNCHANGED left
       \/ /\ Strike("refuse") /\ UNCHANGED <<session, backend>>
          /\ Finish(j, "delivery_blocked")
       \/ /\ TimeOut(j, "submit") /\ UNCHANGED session
          /\ Goto(j, "deliver") /\ UNCHANGED <<journal, onDisk>>
    /\ UNCHANGED <<history, deleted>>

\* A panic: helpers are joined, the owned group is killed by its guard.
Panic(j) ==
    /\ owner[j] \in {"worker", "panicked", "recovery"}
    /\ pc[j] # "register"
    /\ Strike("panic")
    /\ IF owner[j] = "worker" /\ onDisk[j]
       THEN /\ Persist(j, IF journal[j].phase \in Unfinished
                          THEN WithError(j, "indeterminate") ELSE journal[j])
            /\ pc' = [pc EXCEPT ![j] = "deliver"]
            /\ owner' = [owner EXCEPT ![j] = "panicked"]
            /\ UNCHANGED cancel
       ELSE Abandon(j)
    /\ Stopped(j, {FALSE})
    /\ UNCHANGED <<session, deleted, backend>>
-----------------------------------------------------------------------------
(***************************************************************************)
(* The helpers of an executing job: lease renewal and the authority watch. *)
(***************************************************************************)
Attended(j) == /\ owner[j] = "worker"
               /\ pc[j] \in {"started", "intent", "gated", "dispatch",
                             "running", "finalize"}

Renew(j) ==
    /\ Attended(j) /\ journal[j].live
    /\ \/ /\ Strike("renew") /\ Grant(j, "renew")
          /\ cancel' = [cancel EXCEPT ![j] = @ \/ be[j].cancel]
          /\ Persist(j, [journal[j] EXCEPT !.ver = @ + 1,
                                           !.canceling = be[j].cancel])
       \/ TimeOut(j, "renew") /\ UNCHANGED <<journal, onDisk, cancel>>
    /\ UNCHANGED <<pc, owner, history, session, deleted>>

WatchAuthority(j) ==
    /\ Attended(j) /\ ~journal[j].live /\ ~cancel[j]
    /\ cancel' = [cancel EXCEPT ![j] = TRUE]
    /\ UNCHANGED <<journal, onDisk, pc, owner, history, session, deleted,
                   backend, left>>

\* The guardian of a dead daemon sees its pipe close and ends the group.
GuardianStops(j) ==
    /\ alive[j] /\ pc[j] # "running"
    /\ Stopped(j, {FALSE})
    /\ UNCHANGED <<runner, session, deleted, backend, left>>
-----------------------------------------------------------------------------
\* Mutant of Recoverable: records with an outcome are left alone.
RecoverableUnfinished(j) == onDisk[j] /\ journal[j].phase \in Unfinished
                            /\ owner[j] = "none"

(***************************************************************************)
(* The session: recovery first, then leases until it has to reconnect.     *)
(***************************************************************************)
Recoverable(j) == onDisk[j] /\ journal[j].phase \notin Settled
                  /\ owner[j] = "none"

\* Mutant of Recovered: a pending terminal body is replaced too.
RecoveredAnyPhase(r, s) == [r EXCEPT !.phase = "terminal_pending", !.res = FALSE,
                                     !.err = "indeterminate", !.rec = s]

Recovered(r, s) ==
    [(IF r.phase \in Undelivered THEN r
      ELSE [r EXCEPT !.phase = "terminal_pending", !.err = "indeterminate",
                     !.res = FALSE]) EXCEPT !.rec = s]

\* recover() at the start of a session: each record is read and its job claimed
\* in one step (JobRecovery has a task of an earlier session act in between).
OpenSession ==
    /\ sst = "none" /\ ~draining
    /\ sid' = sid + 1 /\ sst' = "open"
    /\ journal' = [j \in Jobs |-> IF Recoverable(j)
                                  THEN Recovered(journal[j], sid + 1)
                                  ELSE journal[j]]
    /\ pc' = [j \in Jobs |-> IF Recoverable(j) THEN "deliver" ELSE pc[j]]
    /\ owner' = [j \in Jobs |-> IF Recoverable(j) THEN "recovery" ELSE owner[j]]
    /\ UNCHANGED <<onDisk, cancel, history, reconnect, draining, deleted,
                   backend, left>>

Leasing == sst = "open" /\ ~reconnect /\ ~draining

\* The backend hands out a queued job, or retries one whose lease ran out.
Hand(j) ==
    /\ \/ be[j].st = "queued" /\ UNCHANGED left
       \/ InProgress(be[j]) /\ ~be[j].live /\ Strike("relet")
    /\ be' = [be EXCEPT ![j].st = "leased", ![j].ver = @ + 1,
                        ![j].sess = sid, ![j].live = TRUE]

\* Mutant of Lease: the journal path is not looked at.
LeaseAgain(j) ==
    /\ Leasing /\ Hand(j) /\ owner[j] = "none"
    /\ Persist(j, Leased(sid, be[j].ver + 1))
    /\ pc' = [pc EXCEPT ![j] = "register"]
    /\ owner' = [owner EXCEPT ![j] = "worker"]
    /\ UNCHANGED <<cancel, history, session, deleted, late>>

\* A server retry never authorizes a second local spawn.
Lease(j) ==
    /\ Leasing /\ Hand(j)
    /\ IF onDisk[j] \/ owner[j] # "none"
       THEN UNCHANGED <<journal, onDisk, pc, owner>>
       ELSE /\ Persist(j, Leased(sid, be[j].ver + 1))
            /\ pc' = [pc EXCEPT ![j] = "register"]
            /\ owner' = [owner EXCEPT ![j] = "worker"]
    /\ UNCHANGED <<cancel, history, session, deleted, late>>

\* Any error of the lease request ends the session's loop.
LeaseFails ==
    /\ Leasing /\ Strike("loss")
    /\ sst' = "closing"
    /\ \/ UNCHANGED be
       \/ \E j \in Jobs : /\ be[j].st = "queued"
                          /\ be' = [be EXCEPT ![j].st = "leased",
                                              ![j].ver = @ + 1,
                                              ![j].sess = sid,
                                              ![j].live = TRUE]
    /\ UNCHANGED <<runner, history, sid, reconnect, draining, deleted, late>>

StopLeasing ==
    /\ sst = "open" /\ (reconnect \/ draining)
    /\ sst' = "closing"
    /\ UNCHANGED <<runner, history, sid, reconnect, draining, deleted, backend,
                   left>>

\* Only the session's own workers are joined, recovery tasks live on.
CloseSession ==
    /\ sst = "closing" /\ \A j \in Jobs : owner[j] \in {"none", "recovery"}
    /\ sst' = "none" /\ reconnect' = FALSE
    /\ UNCHANGED <<runner, history, sid, draining, deleted, backend, left>>

\* apply_cancellations; recovery tasks have no token.
HeartbeatCancels(j) ==
    /\ sst # "none" /\ be[j].cancel /\ ~cancel[j] /\ HasToken(j)
    /\ cancel' = [cancel EXCEPT ![j] = TRUE]
    /\ UNCHANGED <<journal, onDisk, pc, owner, history, session, deleted,
                   backend, left>>

Drain == /\ ~draining /\ Strike("drain") /\ draining' = TRUE
         /\ UNCHANGED <<runner, history, sid, sst, reconnect, deleted, backend>>

Resume == /\ draining /\ draining' = FALSE
          /\ UNCHANGED <<runner, history, sid, sst, reconnect, deleted, backend,
                         left>>

\* runs.delete: the backend's policy first, then the tombstone.
DeleteRun(j) ==
    /\ deleted[j] = "no" /\ Strike("delete")
    /\ deleted' = [deleted EXCEPT ![j] = "marked"]
    /\ be' = [be EXCEPT ![j].st = "gone"]
    /\ UNCHANGED <<runner, history, session, late>>

\* Mutant of PurgeDeleted: evidence is removed, live jobs are not canceled.
PurgeWithoutCancel(j) ==
    /\ deleted[j] = "marked"
    /\ deleted' = [deleted EXCEPT ![j] = "swept"]
    /\ onDisk' = [onDisk EXCEPT ![j] = FALSE]
    /\ UNCHANGED <<journal, pc, owner, cancel, history, session, backend, left>>

\* purge_deleted_jobs: cancel a live matching job, else remove its evidence.
PurgeDeleted(j) ==
    /\ deleted[j] = "marked"
    /\ deleted' = [deleted EXCEPT ![j] = "swept"]
    /\ IF HasToken(j)
       THEN /\ cancel' = [cancel EXCEPT ![j] = TRUE]
            /\ UNCHANGED <<journal, onDisk>>
       ELSE /\ onDisk' = [onDisk EXCEPT ![j] = FALSE]
            /\ journal' = [journal EXCEPT
                             ![j] = IF owner[j] = "none" THEN NoJournal ELSE @]
            /\ UNCHANGED cancel
    /\ UNCHANGED <<pc, owner, history, session, backend, left>>

InFlight(j) == CASE pc[j] = "start" -> Call(j, "start")
                 [] pc[j] = "reclaiming" -> Call(j, "reclaim")
                 [] pc[j] = "submitting" -> Call(j, "submit")
                 [] OTHER -> late[j]

\* The daemon dies and is started again; requests on the wire may arrive.
Crash ==
    /\ Strike("crash")
    /\ pc' = [j \in Jobs |-> "none"]
    /\ owner' = [j \in Jobs |-> "none"]
    /\ cancel' = [j \in Jobs |-> FALSE]
    /\ journal' = [j \in Jobs |-> IF onDisk[j] THEN journal[j] ELSE NoJournal]
    /\ late' \in {late, [j \in Jobs |-> InFlight(j)]}
    /\ sst' = "none" /\ reconnect' = FALSE
    /\ UNCHANGED <<onDisk, history, sid, draining, deleted, be>>
-----------------------------------------------------------------------------
\* Steps a task takes by itself; it is scheduled until it ends.
TaskStep(j) ==
    \/ Register(j) \/ Authorize(j) \/ CommitStart(j) \/ Start(j)
    \/ RecordIntent(j) \/ SpawnGuardian(j) \/ ReleaseTarget(j) \/ Dispatch(j) \/ Exit(j)
    \/ Finalize(j) \/ PurgeAtDelivery(j) \/ SendReclaim(j) \/ Reclaim(j)
    \/ SendSubmission(j) \/ Submit(j)

SessionStep == OpenSession \/ StopLeasing \/ CloseSession

JobStep(j) ==
    \/ TaskStep(j) \/ DiskFails(j) \/ Panic(j)
    \/ Renew(j) \/ WatchAuthority(j) \/ GuardianStops(j)
    \/ Lease(j) \/ HeartbeatCancels(j) \/ DeleteRun(j) \/ PurgeDeleted(j)
    \/ LateArrives(j) \/ BackendExpires(j) \/ LocalExpires(j)
    \/ RequestsCancel(j)

Next == \/ \E j \in Jobs : JobStep(j)
        \/ SessionStep \/ LeaseFails \/ Drain \/ Resume \/ Crash

Spec == Init /\ [][Next]_vars

(***************************************************************************)
(* Tasks and the supervisor loop are scheduled, commands and HTTP          *)
(* exchanges end, and a lease that nobody renews runs out.                 *)
(***************************************************************************)
Fairness == /\ \A j \in Jobs : /\ WF_vars(TaskStep(j))
                               /\ WF_vars(BackendExpires(j) /\ UNCHANGED left)
            /\ WF_vars(SessionStep)
            /\ WF_vars(Resume)

FairSpec == Spec /\ Fairness
-----------------------------------------------------------------------------
(***************************************************************************)
(* "A repeated lease cannot spawn again once the journal path exists" and  *)
(* "never replayed": over crashes, new sessions, lost replies and repeated *)
(* leases a target is authorized, or a request first polled, at most once. *)
(***************************************************************************)
AtMostOneLaunch == \A j \in Jobs : launched[j] <= 1

\* A job that may have had its effect is on record as one that had none.
Misreported(j) == /\ launched[j] > 0
                  /\ journal[j].err = "not_launched" \/ "not_launched" \in sent[j]

(***************************************************************************)
(* A command that was launched is never reported as one that had no        *)
(* effect.  A request is in one case only: the write of its record failed  *)
(* after its first poll, and the error path, which has no guardian's       *)
(* identity to look at, takes it for a request rejected before dispatch.   *)
(* No crash, panic, lost reply, expired lease or repeated lease leads      *)
(* there.                                                                  *)
(***************************************************************************)
HonestNonLaunch ==
    [][\A j \in Jobs : Misreported(j)' /\ ~Misreported(j) =>
         j \in Requests /\ pc[j] = "running" /\ left'["disk"] < left["disk"]]_vars

(***************************************************************************)
(* "Atomic state writes can fail and make the outcome indeterminate": a    *)
(* request that was sent is not reported to the backend as one that was    *)
(* known not to be.                                                        *)
(***************************************************************************)
RequestNonLaunchHonest ==
    \A j \in Requests : "not_launched" \in sent[j] => launched[j] = 0

(***************************************************************************)
(* One idempotency key, one body: whatever restarts, recoveries and panics *)
(* do to a record after its first submission, the terminal key is never    *)
(* used for a different outcome.                                           *)
(***************************************************************************)
OneBodyPerTerminalKey == \A j \in Jobs : Cardinality(sent[j]) <= 1

(***************************************************************************)
(* A record says what is so.  A result (an observed exit) is recorded only *)
(* once the managed group is gone, although the guardian of a dead daemon  *)
(* dies on its own time; until then the guardian's identity is on disk,    *)
(* whatever phase recovery has moved the record to since, unless the run   *)
(* was deleted.  And an acknowledged record holds the outcome the backend  *)
(* holds: no late request or replacement fence makes them disagree.        *)
(***************************************************************************)
RecordsAreTrue ==
    \A j \in Jobs :
        /\ journal[j].res => ~alive[j]
        /\ j \in Commands /\ alive[j] /\ deleted[j] = "no" => onDisk[j] /\ journal[j].ident
        /\ journal[j].phase = "acknowledged" /\ be[j].st = "done" => be[j].out = Outcome(journal[j])

(***************************************************************************)
(* "It asks the backend to mark the job started" first: a target is        *)
(* launched only if the start was accepted under the record's own fence,   *)
(* unless the backend has since handed the job to another one; and once    *)
(* the sweep of a deleted run is over ("cancels a live matching job"), no  *)
(* task that was on its way to a launch launches.                          *)
(***************************************************************************)
LaunchIsAuthorized ==
    [][\A j \in Jobs : launched'[j] # launched[j] =>
         /\ deleted[j] # "swept"
         /\ \/ be[j].st \in {"running", "gone"}
            \/ be[j].ver # journal[j].ver]_vars

(***************************************************************************)
(* "Checked transitions": no interleaving of worker, panic handler,        *)
(* recovery and purge writes a record over an edge it lacks.  recover()    *)
(* does when another task writes between its read and its claim            *)
(* (JobRecovery).                                                          *)
(***************************************************************************)
TransitionsAreLegal ==
    [][\A j \in Jobs :
         LET from == journal[j].phase
             to == journal'[j].phase
         IN from # Absent /\ to # Absent => CanTransition(from, to)]_vars

(***************************************************************************)
(* "Other delivery failures retry after a delay": a record that exists is  *)
(* eventually acknowledged, blocked with a diagnostic, or purged.          *)
(***************************************************************************)
EvidenceSettles ==
    \A j \in Jobs : onDisk[j] ~> (~onDisk[j] \/ journal[j].phase \in Settled)
=============================================================================
