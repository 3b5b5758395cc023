---------------------------- MODULE CommandGroup ----------------------------
(***************************************************************************)
(* One managed command (src/src/executor.rs, jobs/execution.rs): the       *)
(* executor in the daemon, the guardian process it keeps unreaped so that  *)
(* the process group stays its own, the target and a process the target    *)
(* started.  The executor observes the group through ps and the status     *)
(* file, which are old when it acts on them; the daemon may die, the task  *)
(* be aborted, the guardian be killed from outside.  Beside it run what    *)
(* cancels a command: the backend and two watchers of the lease.           *)
(***************************************************************************)
EXTENDS Integers

CONSTANTS
    Watchers,    \* the tasks that find the lease expired: watcher and renewal
    Mishaps      \* bound on faults

ASSUME GroupAssumption == Mishaps \in Nat /\ "free" \notin Watchers

VARIABLES
    exec,        \* the execute_with_supervisor call
    outcome,     \* its ExecutionOutcome, with the cause the result gives
    token,       \* the cancellation flag, the expiry flag and their gate
    watchers,    \* tasks that find the lease expired
    guardian,    \* external: the guardian process and its end of the control pipe
    target,      \* external: the target and whatever it started in its group
    statusFile,  \* target-status.json
    stray,       \* whether a signal was sent to a group that may be another's
    mishapsLeft

groupVars == <<exec, outcome, token, watchers, guardian, target, statusFile, stray, mishapsLeft>>

NoOutcome == [is |-> "none"]
Result == [is : {"result"}, canceled : BOOLEAN, stopped : BOOLEAN,
            code : {"none", "own", "signal"}, cause : {"none", "expired"}]
Points == {"new", "spawned", "recorded", "look", "read", "sample", "decide", "reap", "capture",
           "done", "failed", "dead"}
Codes == {"none", "own", "signal", "unspawned"}

Sights == [guardian : BOOLEAN, others : BOOLEAN, known : BOOLEAN]
ExecState == [at : Points, canceled : BOOLEAN, error : BOOLEAN, code : Codes,
              termed : BOOLEAN, grace : BOOLEAN, killed : BOOLEAN, stopped : BOOLEAN,
              seen : Sights]
TokenState == [set : BOOLEAN, expired : BOOLEAN, gate : {"free"} \cup Watchers,
               first : {"none", "backend", "expiry"}]
GuardianState == [at : {"none", "gated", "starting", "watching", "zombie", "reaped"},
                  ok : BOOLEAN, pipe : {"empty", "S", "Q"}, closed : BOOLEAN,
                  shutting : {"no", "grace", "over"}]
TargetState == [main : {"none", "live", "zombie", "gone"}, code : {"none", "own", "signal"},
                kin : {"none", "live", "gone"}, termed : BOOLEAN]

GroupTypeOK ==
    /\ exec \in ExecState /\ outcome \in {NoOutcome} \cup Result /\ token \in TokenState
    /\ watchers \in [Watchers -> {"waiting", "trigger", "marked", "over"}]
    /\ guardian \in GuardianState /\ target \in TargetState
    /\ statusFile \in {"empty", "torn", "own", "signal", "unspawned"}
    /\ stray \in BOOLEAN /\ mishapsLeft \in 0..Mishaps

GroupInit ==
    /\ exec = [at |-> "new", canceled |-> FALSE, error |-> FALSE, code |-> "none",
               termed |-> FALSE, grace |-> FALSE, killed |-> FALSE, stopped |-> FALSE,
               seen |-> [guardian |-> FALSE, others |-> FALSE, known |-> FALSE]]
    /\ outcome = NoOutcome
    /\ token = [set |-> FALSE, expired |-> FALSE, gate |-> "free", first |-> "none"]
    /\ watchers = [w \in Watchers |-> "waiting"]
    /\ guardian = [at |-> "none", ok |-> FALSE, pipe |-> "empty", closed |-> FALSE,
                   shutting |-> "no"]
    /\ target = [main |-> "none", code |-> "none", kin |-> "none", termed |-> FALSE]
    /\ statusFile = "empty" /\ stray = FALSE /\ mishapsLeft = Mishaps

GuardianLives == guardian.at \in {"gated", "starting", "watching"}
OthersLive == target.main = "live" \/ target.kin = "live"

Mishap == mishapsLeft > 0 /\ mishapsLeft' = mishapsLeft - 1
-----------------------------------------------------------------------------
(***************************************************************************)
(* Signals to the group.  The guardian ignores TERM from before its exec;  *)
(* a kill of a group of zombies may fail (EPERM).                          *)
(***************************************************************************)
Killed == [target EXCEPT !.main = IF @ = "none" THEN @ ELSE "gone",
                         !.code = IF target.main = "live" THEN "signal" ELSE @,
                         !.kin = IF @ = "live" THEN "gone" ELSE @]
Termed == [target EXCEPT !.termed = @ \/ OthersLive]
KilledGuardian ==
    IF GuardianLives THEN [guardian EXCEPT !.at = "zombie", !.ok = FALSE] ELSE guardian

\* signal_owned_group and the guard's drop: whose group is it by now?
Signals == stray' = (stray \/ guardian.at = "reaped")
Felt == GuardianLives \/ OthersLive
-----------------------------------------------------------------------------
Goes(next) == exec' = next

\* Intent recorded and checked again, then the guardian is spawned behind its gate.
Spawn ==
    /\ exec.at = "new"
    /\ guardian' = [guardian EXCEPT !.at = "gated"]
    /\ Goes([exec EXCEPT !.at = "spawned"])
    /\ UNCHANGED <<outcome, token, watchers, target, statusFile, stray, mishapsLeft>>

RecordIdentity ==
    /\ exec.at = "spawned" /\ Goes([exec EXCEPT !.at = "recorded"])
    /\ UNCHANGED <<outcome, token, watchers, guardian, target, statusFile, stray, mishapsLeft>>

\* The record failed or no longer authorizes the launch: kill, wait and return.
IdentityRefused ==
    /\ exec.at = "spawned" /\ Mishap
    /\ Goes([exec EXCEPT !.at = "failed"])
    /\ guardian' = [guardian EXCEPT !.at = "reaped", !.closed = TRUE]
    /\ target' = Killed /\ Signals
    /\ UNCHANGED <<outcome, token, watchers, statusFile>>

\* Only now may the target start.
OpenGate ==
    /\ exec.at = "recorded"
    /\ Goes([exec EXCEPT !.at = "look", !.canceled = token.set,
                         !.error = ~token.set /\ ~GuardianLives])
    /\ guardian' = IF token.set THEN guardian ELSE [guardian EXCEPT !.pipe = "S"]
    /\ UNCHANGED <<outcome, token, watchers, target, statusFile, stray, mishapsLeft>>

CheckToken ==
    /\ exec.at = "look"
    /\ \/ Goes([exec EXCEPT !.at = "read", !.canceled = @ \/ token.set])
          /\ UNCHANGED mishapsLeft
       \/ \* a spool task failed
          Goes([exec EXCEPT !.at = "read", !.canceled = @ \/ token.set, !.error = TRUE]) /\ Mishap
    /\ UNCHANGED <<outcome, token, watchers, guardian, target, statusFile, stray>>

\* What does not parse yet is read again.
ReadStatus ==
    /\ exec.at = "read"
    /\ Goes([exec EXCEPT !.at = "sample",
                 !.code = IF @ = "none" /\ statusFile \notin {"empty", "torn"} THEN statusFile ELSE @])
    /\ UNCHANGED <<outcome, token, watchers, guardian, target, statusFile, stray, mishapsLeft>>

\* group_members, which counts no zombies; a failed observation counts as anybody.
Sample ==
    /\ exec.at = "sample"
    /\ \E sight \in Sights :
         /\ Goes([exec EXCEPT !.at = "decide", !.error = @ \/ ~sight.known, !.seen = sight])
         /\ IF sight.known
            THEN /\ sight.guardian <=> GuardianLives
                 /\ sight.others <=> OthersLive
                 /\ UNCHANGED mishapsLeft
            ELSE sight.guardian /\ sight.others /\ Mishap
    /\ UNCHANGED <<outcome, token, watchers, guardian, target, statusFile, stray>>

Broken(e) == e.error \/ (~e.seen.guardian /\ e.code = "none" /\ ~e.canceled)
Stopping(e) == e.canceled \/ Broken(e)

\* Mutant of Deserted: a group without its guardian is taken for an empty one.
DesertedByGuardian(e) == e.seen.known /\ ~e.seen.guardian

Deserted(e) == e.seen.known /\ ~e.seen.guardian /\ ~e.seen.others

\* Nothing is left of a group that was to be stopped; a killed one that cannot be
\* observed is reported as such.
FindsItGone ==
    /\ exec.at = "decide"
    /\ \/ Stopping(exec) /\ Deserted(exec)
       \/ exec.killed /\ ~exec.seen.known
    /\ Goes([exec EXCEPT !.at = "reap", !.error = Broken(exec), !.stopped = exec.seen.known])
    /\ UNCHANGED <<outcome, token, watchers, guardian, target, statusFile, stray, mishapsLeft>>

Gone(e) == (Stopping(e) /\ Deserted(e)) \/ (e.killed /\ ~e.seen.known)

\* TERM once; KILL once, when only the guardian is left or the grace is over.
Stop ==
    LET termed == exec.termed
        kill == ~exec.killed /\ (~exec.seen.others \/ (termed /\ exec.grace))
    IN /\ exec.at = "decide" /\ Stopping(exec) /\ ~Gone(exec)
       /\ Goes([exec EXCEPT !.at = "look", !.error = Broken(exec), !.termed = TRUE,
                            !.killed = @ \/ kill])
       /\ guardian' = IF kill THEN KilledGuardian ELSE guardian
       /\ target' = IF kill THEN Killed ELSE IF termed THEN target ELSE Termed
       /\ IF ~termed \/ kill THEN Signals ELSE UNCHANGED stray
       /\ UNCHANGED <<outcome, token, watchers, statusFile, mishapsLeft>>

\* The signal fails, the call returns early and its guard signals once more.
StopFails ==
    /\ exec.at = "decide" /\ Stopping(exec) /\ ~Gone(exec) /\ ~Felt
    /\ ~exec.termed \/ ~exec.killed
    /\ Goes([exec EXCEPT !.at = "failed"])
    /\ guardian' = [guardian EXCEPT !.closed = TRUE] /\ Signals
    /\ UNCHANGED <<outcome, token, watchers, target, statusFile, mishapsLeft>>

GracePasses ==
    /\ exec.termed /\ ~exec.grace /\ exec.at \notin {"done", "failed", "dead"}
    /\ Goes([exec EXCEPT !.grace = TRUE])
    /\ UNCHANGED <<outcome, token, watchers, guardian, target, statusFile, stray, mishapsLeft>>

\* The target has ended and nobody else is left: the guardian may go.
ReleaseGuardian ==
    /\ exec.at = "decide" /\ ~Stopping(exec) /\ exec.code # "none" /\ ~exec.seen.others
    /\ GuardianLives
    /\ Goes([exec EXCEPT !.at = "reap", !.stopped = TRUE])
    /\ guardian' = [guardian EXCEPT !.pipe = "Q", !.closed = TRUE]
    /\ UNCHANGED <<outcome, token, watchers, target, statusFile, stray, mishapsLeft>>

\* The guardian is gone: the write fails and the call returns early.
ReleaseFails ==
    /\ exec.at = "decide" /\ ~Stopping(exec) /\ exec.code # "none" /\ ~exec.seen.others
    /\ ~GuardianLives
    /\ Goes([exec EXCEPT !.at = "failed"])
    /\ guardian' = [guardian EXCEPT !.closed = TRUE] /\ Signals /\ target' = Killed
    /\ UNCHANGED <<outcome, token, watchers, statusFile, mishapsLeft>>

KeepWaiting ==
    /\ exec.at = "decide" /\ ~Stopping(exec) /\ (exec.code = "none" \/ exec.seen.others)
    /\ Goes([exec EXCEPT !.at = "look"])
    /\ UNCHANGED <<outcome, token, watchers, guardian, target, statusFile, stray, mishapsLeft>>

Reap ==
    /\ exec.at = "reap" /\ guardian.at = "zombie"
    /\ guardian' = [guardian EXCEPT !.at = "reaped", !.closed = TRUE]
    /\ Goes([exec EXCEPT !.at = "capture",
                 !.error = @ \/ exec.code = "unspawned" \/ (~exec.canceled /\ ~guardian.ok)])
    /\ UNCHANGED <<outcome, token, watchers, target, statusFile, stray, mishapsLeft>>

\* LeaseExpiryCancellation::cause, which waits for the gate.
Cause == IF exec.canceled /\ token.expired THEN "expired" ELSE "none"

\* Mutant of CauseKnown: the cause is read without the gate.
CauseUngated == TRUE
CauseKnown == token.gate = "free"

Capture ==
    /\ exec.at = "capture"
    /\ \/ exec.error /\ Goes([exec EXCEPT !.at = "failed"]) /\ UNCHANGED outcome
       \/ /\ ~exec.error /\ CauseKnown
          /\ Goes([exec EXCEPT !.at = "done"])
          /\ outcome' = [is |-> "result", canceled |-> exec.canceled, code |-> exec.code,
                         stopped |-> exec.stopped, cause |-> Cause]
    /\ UNCHANGED <<token, watchers, guardian, target, statusFile, stray, mishapsLeft>>

Running == exec.at \notin {"new", "done", "failed", "dead"}

\* OwnedGroupGuard::drop: the task is aborted, or it panics.
Abort ==
    /\ Running /\ Mishap
    /\ Goes([exec EXCEPT !.at = "failed"])
    /\ IF guardian.at = "reaped"
       THEN UNCHANGED <<guardian, target, stray>>
       ELSE /\ guardian' = [KilledGuardian EXCEPT !.closed = TRUE]
            /\ target' = Killed /\ Signals
    /\ UNCHANGED <<outcome, token, watchers, statusFile>>

\* The cleanup task of the guard, or init, reaps what nobody waits for any more.
ReapOrphan ==
    /\ exec.at \in {"failed", "dead"} /\ guardian.at = "zombie"
    /\ guardian' = [guardian EXCEPT !.at = "reaped"]
    /\ UNCHANGED <<exec, outcome, token, watchers, target, statusFile, stray, mishapsLeft>>

DaemonDies ==
    /\ Running /\ Mishap
    /\ Goes([exec EXCEPT !.at = "dead"])
    /\ guardian' = [guardian EXCEPT !.closed = TRUE]
    /\ UNCHANGED <<outcome, token, watchers, target, statusFile, stray>>
-----------------------------------------------------------------------------
(***************************************************************************)
(* maybe_run_supervisor: the guardian.                                     *)
(***************************************************************************)
Exits(ok) == guardian' = [guardian EXCEPT !.at = "zombie", !.ok = ok]

ReadStart ==
    /\ guardian.at = "gated"
    /\ \/ guardian.pipe = "S"
          /\ guardian' = [guardian EXCEPT !.at = "starting", !.pipe = "empty"]
       \/ guardian.pipe = "empty" /\ guardian.closed /\ Exits(TRUE)
    /\ UNCHANGED <<exec, outcome, token, watchers, target, statusFile, stray, mishapsLeft>>

StartTarget ==
    /\ guardian.at = "starting"
    /\ guardian' = [guardian EXCEPT !.at = "watching"]
    /\ \/ target' = [target EXCEPT !.main = "live"] /\ UNCHANGED <<statusFile, mishapsLeft>>
       \/ target' = [target EXCEPT !.main = "gone"] /\ statusFile' = "unspawned" /\ Mishap
    /\ UNCHANGED <<exec, outcome, token, watchers, stray>>

\* write_target_status, in as many writes as it takes.
WriteStatus ==
    /\ guardian.at = "watching" /\ target.main = "zombie"
    /\ \/ statusFile = "empty" /\ statusFile' = "torn" /\ UNCHANGED <<target, guardian, mishapsLeft>>
       \/ /\ statusFile = "torn" /\ statusFile' = target.code
          /\ target' = [target EXCEPT !.main = "gone"] /\ UNCHANGED <<guardian, mishapsLeft>>
       \/ /\ statusFile = "torn" /\ Mishap /\ Exits(FALSE)
          /\ target' = [target EXCEPT !.main = "gone"] /\ UNCHANGED statusFile
    /\ UNCHANGED <<exec, outcome, token, watchers, stray>>

\* Mutant of ReadControl: the end of the pipe goes unnoticed.
ReadRelease ==
    /\ guardian.at = "watching" /\ guardian.pipe = "Q" /\ target.main = "gone" /\ Exits(TRUE)
    /\ UNCHANGED <<exec, outcome, token, watchers, target, statusFile, stray, mishapsLeft>>

\* Q is taken once the target is over; the end of the pipe is the end of the daemon's interest.
ReadControl ==
    /\ guardian.at = "watching" /\ (statusFile = "torn" => target.main = "gone")
    /\ \/ guardian.pipe = "Q" /\ target.main = "gone" /\ Exits(TRUE) /\ UNCHANGED target
       \/ /\ guardian.pipe = "Q" /\ target.main # "gone"
          /\ guardian' = [guardian EXCEPT !.pipe = "empty"] /\ UNCHANGED target
       \/ /\ guardian.pipe = "empty" /\ guardian.closed /\ guardian.shutting = "no"
          /\ guardian' = [guardian EXCEPT !.shutting = "grace"]
          /\ target' = Termed
    /\ UNCHANGED <<exec, outcome, token, watchers, statusFile, stray, mishapsLeft>>

GuardianKills ==
    /\ guardian.at = "watching" /\ guardian.shutting = "grace"
    /\ target' = Killed
    /\ guardian' = [KilledGuardian EXCEPT !.shutting = "over"]
    /\ UNCHANGED <<exec, outcome, token, watchers, statusFile, stray, mishapsLeft>>

GuardianStep == ReadStart \/ StartTarget \/ WriteStatus \/ ReadControl \/ GuardianKills

\* external: the guardian is killed from outside.
GuardianDies ==
    /\ GuardianLives /\ Mishap
    /\ Exits(FALSE)
    /\ target' = [target EXCEPT !.main = IF @ = "zombie" THEN "gone" ELSE @]
    /\ UNCHANGED <<exec, outcome, token, watchers, statusFile, stray>>

\* external: the target starts a process in its group, and they end, or do not mind TERM.
TargetForks ==
    /\ target.main = "live" /\ target.kin = "none"
    /\ target' = [target EXCEPT !.kin = "live"]
    /\ UNCHANGED <<exec, outcome, token, watchers, guardian, statusFile, stray, mishapsLeft>>

TargetEnds ==
    /\ \/ \E code \in {"own"} \cup (IF target.termed THEN {"signal"} ELSE {}) :
            /\ target.main = "live"
            /\ target' = [target EXCEPT !.code = code,
                            !.main = IF guardian.at = "watching" THEN "zombie" ELSE "gone"]
       \/ target.kin = "live" /\ target' = [target EXCEPT !.kin = "gone"]
    /\ UNCHANGED <<exec, outcome, token, watchers, guardian, statusFile, stray, mishapsLeft>>
-----------------------------------------------------------------------------
(***************************************************************************)
(* Who cancels: the backend (a poll or an answered renewal), and the lease *)
(* watcher and the renewal task once the lease has expired.                *)
(***************************************************************************)
BackendCancels ==
    /\ Running /\ ~token.set
    /\ token' = [token EXCEPT !.set = TRUE, !.first = "backend"]
    /\ UNCHANGED <<exec, outcome, watchers, guardian, target, statusFile, stray, mishapsLeft>>

FindExpired(w) ==
    /\ Running /\ watchers[w] = "waiting" /\ watchers' = [watchers EXCEPT ![w] = "trigger"]
    /\ UNCHANGED <<exec, outcome, token, guardian, target, statusFile, stray, mishapsLeft>>

\* LeaseExpiryCancellation::trigger, under the gate: the first source wins.
Trigger(w) ==
    /\ exec.at # "dead" /\ watchers[w] = "trigger" /\ token.gate = "free"
    /\ IF token.set
       THEN watchers' = [watchers EXCEPT ![w] = "over"] /\ UNCHANGED token
       ELSE /\ watchers' = [watchers EXCEPT ![w] = "marked"]
            /\ token' = [token EXCEPT !.set = TRUE, !.first = "expiry", !.gate = w]
    /\ UNCHANGED <<exec, outcome, guardian, target, statusFile, stray, mishapsLeft>>

SetCause(w) ==
    /\ exec.at # "dead" /\ watchers[w] = "marked"
    /\ watchers' = [watchers EXCEPT ![w] = "over"]
    /\ token' = [token EXCEPT !.expired = TRUE, !.gate = "free"]
    /\ UNCHANGED <<exec, outcome, guardian, target, statusFile, stray, mishapsLeft>>
-----------------------------------------------------------------------------
ExecStep ==
    \/ Spawn \/ RecordIdentity \/ OpenGate \/ CheckToken \/ ReadStatus \/ Sample
    \/ FindsItGone \/ Stop \/ StopFails \/ ReleaseGuardian \/ ReleaseFails \/ KeepWaiting
    \/ Reap \/ Capture

GroupNext ==
    \/ ExecStep \/ IdentityRefused \/ GracePasses \/ Abort \/ DaemonDies \/ ReapOrphan
    \/ GuardianStep \/ GuardianDies \/ TargetForks \/ TargetEnds
    \/ BackendCancels \/ \E w \in Watchers : FindExpired(w) \/ Trigger(w) \/ SetCause(w)

\* Tasks and processes that can go on do, and the grace passes.
GroupFairness ==
    /\ WF_groupVars(ExecStep) /\ WF_groupVars(GracePasses) /\ WF_groupVars(GuardianStep)
    /\ \A w \in Watchers : WF_groupVars(SetCause(w))

GroupSpec == GroupInit /\ [][GroupNext]_groupVars /\ GroupFairness
-----------------------------------------------------------------------------
(***************************************************************************)
(* What a result says of a command is true, now and later: its group is     *)
(* stopped and has no live member, a code without a cancellation is the    *)
(* target's own, an expired lease is named as the cause exactly when it    *)
(* was first (executor.rs Drop, execution.rs:25).                          *)
(***************************************************************************)
OutcomeIsTrue ==
    outcome.is = "result" =>
      /\ outcome.stopped /\ ~GuardianLives /\ ~OthersLive
      /\ ~outcome.canceled => outcome.code = "own" /\ target.code = "own"
      /\ outcome.cause = "expired" <=> outcome.canceled /\ token.first = "expiry"

\* The state is of its kind, the result is true, and no signal ever went to a group
\* that was no longer this command's.
CommandIsTrue == GroupTypeOK /\ OutcomeIsTrue /\ ~stray

\* A command that was canceled, whose task is gone or whose daemon died does not
\* run on, unless the guardian and the daemon both died.
CommandEnds ==
    token.set \/ exec.at \in {"failed", "dead"}
      ~> (~GuardianLives /\ ~OthersLive) \/ (exec.at = "dead" /\ ~GuardianLives)
=============================================================================
