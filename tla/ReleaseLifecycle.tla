-------------------------- MODULE ReleaseLifecycle --------------------------
(***************************************************************************)
(* Update, rollback and abandonment of a release (lifecycle.rs): one        *)
(* journal, rewritten at every checkpoint, drives the exchange of the       *)
(* daemon that launchd runs.  The controller may die anywhere; whoever      *)
(* resumes believes the pointer, the configuration, launchd and the daemon, *)
(* not the checkpoint.  A first installation, which replaces no service,    *)
(* is not modelled.                                                         *)
(***************************************************************************)
EXTENDS Naturals, Sequences, FiniteSets

CONSTANTS Versions,   \* released versions, each in a directory of its own
          Installed,  \* the version that runs at first
          Limits      \* how often each kind of event may still happen

ASSUME InstalledAssumption == Installed \in Versions

VARIABLES
    ptr, plist,   \* durable: the `current' link; the LaunchAgent configuration
    drain,        \* durable: whose drain.json there is
    owned,        \* durable: owned-versions.json
    op,           \* durable: lifecycle-operation.json
    label,        \* launchd: is the service label loaded
    daemon,       \* the process that holds daemon.lock
    bootout,      \* launchd is working on a bootout
    ctl,          \* the controller process that holds lifecycle.lock
    sends,        \* history: bootouts dispatched for the newest stop intent
    evidence,     \* external: typed evidence of a refusal before dispatch
    left          \* what remains of Limits

disk == <<ptr, plist, drain, owned>>
service == <<label, daemon, bootout>>
history == <<sends, evidence>>
vars == <<disk, op, service, ctl, history, left>>

-----------------------------------------------------------------------------
None == "none"
NoPid == 0
Pids == 1..5    \* one more than a journal and the daemon can name
Kinds == {"update", "rollback"}
Directions == {"activate", "restore"}
Requests == {"prepared", "accepted", "unconfirmed", "stopped"}
Terminal == {"completed", "rolled_back"}

NoOperation == [kind |-> None]
NoDaemon == [state |-> "down", version |-> None, pid |-> NoPid,
             drained |-> FALSE, work |-> FALSE, stray |-> FALSE]
Idle == [pc |-> "idle", by |-> None, dir |-> None, restoring |-> FALSE,
         held |-> FALSE, then |-> None]

\* An event of kind k; those that go wrong share `faults'.
Faults == {"crashes", "deaths", "strays", "lost", "refusals"}
Spend(k) == /\ left[k] > 0 /\ (k \in Faults => left.faults > 0)
            /\ left' = [left EXCEPT ![k] = @ - 1,
                                    !.faults = IF k \in Faults THEN @ - 1 ELSE @]

\* What the controller can see of the daemon and of launchd.
Up == daemon.state = "up"
Down == daemon.state = "down"
Loaded == label = "loaded" /\ ~Down /\ ~daemon.stray
LoadedIdle == label = "loaded" /\ (Down \/ daemon.stray)
DrainedIdle == Up /\ daemon.drained /\ ~daemon.work
SingletonFree == Down
Exited(pid) == pid # NoPid => Down \/ daemon.pid # pid

\* Stops of the journal.
Stops == op.stops
Last == op.stops[Len(op.stops)]
AllExited == \A i \in 1..Len(op.stops) : Exited(op.stops[i].pid)
Recorded == {op.stops[i].pid : i \in 1..Len(op.stops)} \cup {op.pid}
Target(s) == IF s.dir = "activate" THEN op.package ELSE op.previous
Config(s) == IF s.dir = "activate" THEN op.staged ELSE op.backup

\* verify_stop_binding(): the intent, the captured resources and the disk agree.
Bound(s, switched) ==
    /\ \/ s.target = op.previous /\ s.plist = op.backup
       \/ s.dir = "restore" /\ s.target = op.package /\ s.plist = op.staged
    /\ ptr = s.target \/ (switched /\ ptr = Target(s))
    /\ plist = s.plist \/ (switched /\ plist = Config(s))
    /\ ~switched => drain = s.drain

Checkpoint(o, phase, checkpoint) ==
    [o EXCEPT !.phase = phase, !.checkpoint = checkpoint]
Requested(o, r) == [o EXCEPT !.stops[Len(o.stops)].request = r]
Pending(o) == o.kind # None /\ o.phase \notin Terminal
Goto(pc) == ctl' = [ctl EXCEPT !.pc = pc]
Kept == {"candidate_drain_release_pending", "previous_drain_release_pending",
         "stopped_service_start_failed", "stopped_service_health_failed"}
Failures == {"stopped_service_start_failed", "stopped_service_health_failed"}

\* What becomes of a step that fails when the journal is o: activate_as_locked()
\* restores the previous service or protects the state, resume() protects it,
\* a repeated installer and an abandonment only report.
Fail(o) ==
    LET stopped == Len(o.stops) > 0
        last == o.stops[Len(o.stops)]
        retained == stopped /\ ~(o.checkpoint \in Failures /\ last.dir = "activate"
                                 /\ last.request = "stopped")
        protect(c) == /\ op' = Checkpoint(o, "recovery_required", c)
                      /\ ctl' = Idle
        pending == ctl.restoring /\ o.phase = "service_stop_pending"
        activating == ctl.by = "activate" /\ ~ctl.restoring
    IN \/ /\ pending \/ ctl.by \notin {"activate", "resume"}
          /\ op' = o /\ ctl' = Idle
       \/ /\ activating /\ ~retained /\ op' = o
          /\ ctl' = [ctl EXCEPT !.pc = "restore", !.restoring = TRUE, !.held = FALSE]
       \/ activating /\ retained /\ protect("service_stop_reconciliation_required")
       \/ /\ ctl.by = "activate" /\ ctl.restoring /\ ~pending
          /\ protect(IF stopped THEN "previous_service_restore_unconfirmed"
                     ELSE "not_safe_to_restore")
       \/ /\ ctl.by = "resume" /\ ~pending
          /\ protect(IF o.checkpoint \in Kept THEN o.checkpoint ELSE "not_reconciled")

-----------------------------------------------------------------------------
Init ==
    /\ ptr = Installed /\ plist = Installed /\ drain = None /\ owned = Versions
    /\ op = NoOperation /\ label = "loaded" /\ bootout = FALSE
    /\ daemon = [NoDaemon EXCEPT !.state = "up", !.version = Installed, !.pid = 1]
    /\ ctl = Idle /\ sends = 0 /\ evidence = FALSE /\ left = Limits

\* launchd, the daemon and its user -----------------------------------------

FreshPid == CHOOSE p \in Pids : p # daemon.pid
                /\ (op.kind \in Kinds => p \notin Recorded)

Booted(stray) ==
    daemon' = [state |-> "up", version |-> ptr, pid |-> FreshPid,
               drained |-> drain # None, work |-> FALSE, stray |-> stray]

\* RunAtLoad and KeepAlive: launchd runs a loaded service again and again;
\* serve() takes daemon.lock before it binds the socket.
LaunchdStart ==
    /\ label = "loaded" /\ ~bootout /\ SingletonFree /\ ~ctl.held /\ Booted(FALSE)
    /\ UNCHANGED <<disk, op, label, bootout, ctl, history, left>>

\* The user runs a daemon by hand in the same state directory.
StrayStart ==
    /\ SingletonFree /\ ~ctl.held /\ Booted(TRUE) /\ Spend("strays")
    /\ UNCHANGED <<disk, op, label, bootout, ctl, history>>

Gone(l, d) == /\ label' = l /\ daemon' = d
              /\ bootout' = (bootout /\ (l = "loaded" \/ (d.state # "down" /\ ~d.stray)))
DaemonDies ==
    /\ ~Down /\ Gone(label, NoDaemon) /\ Spend("deaths")
    /\ UNCHANGED <<disk, op, ctl, history>>

\* Jobs are admitted by an open daemon only; they end whenever they end.
WorkBegins ==
    /\ Up /\ ~daemon.drained /\ ~daemon.work /\ Spend("jobs")
    /\ daemon' = [daemon EXCEPT !.work = TRUE]
    /\ UNCHANGED <<disk, op, label, bootout, ctl, history>>
WorkEnds ==
    /\ daemon.work /\ daemon' = [daemon EXCEPT !.work = FALSE]
    /\ UNCHANGED <<disk, op, label, bootout, ctl, history, left>>

\* A bootout ends the service's process and unloads its label, in either order.
BootoutTerminates ==
    /\ bootout /\ Up /\ ~daemon.stray /\ daemon' = [daemon EXCEPT !.state = "stopping"]
    /\ UNCHANGED <<disk, op, label, bootout, ctl, history, left>>
DaemonExits ==
    /\ daemon.state = "stopping" /\ ~daemon.work /\ Gone(label, NoDaemon)
    /\ UNCHANGED <<disk, op, ctl, history, left>>
BootoutUnloads ==
    /\ bootout /\ label = "loaded" /\ Gone("absent", daemon)
    /\ UNCHANGED <<disk, op, ctl, history, left>>

\* Starting a transaction ----------------------------------------------------

\* activate_as_locked(): nothing else is pending; the scope of the previous
\* authentication is read from a daemon that still admits reads.  A rollback
\* keeps the configuration.  The journal names its resources before it has them;
\* evidence of a refusal names the operation it was refused to.
Activate(kind, v) ==
    /\ ctl = Idle /\ v \in owned /\ Up /\ Spend("activations")
    /\ ~Pending(op) /\ (op.kind \in Kinds => ~op.abandoned)
    /\ op.kind = kind /\ op.phase = "completed" => op.package # v
    /\ op' = [kind |-> kind, phase |-> "prepared", checkpoint |-> "resources_captured",
              package |-> v, previous |-> ptr, backup |-> None,
              staged |-> IF kind = "update" THEN v ELSE plist,
              stops |-> <<>>, abandoned |-> FALSE, reviewed |-> FALSE, pid |-> NoPid]
    /\ ctl' = [Idle EXCEPT !.pc = "backup", !.by = "activate", !.dir = "activate"]
    /\ evidence' = FALSE /\ UNCHANGED <<disk, service, sends>>

CaptureBackup ==
    /\ ctl.pc = "backup" /\ op' = [op EXCEPT !.backup = plist] /\ Goto("drain")
    /\ UNCHANGED <<disk, service, history, left>>

\* daemon.drain: the marker is durable when the daemon answers.
Drained ==
    /\ Up /\ daemon' = [daemon EXCEPT !.drained = TRUE]
    /\ drain' = IF drain = None THEN "update" ELSE drain
    /\ UNCHANGED <<ptr, plist, owned, label, bootout>>

\* drain_and_require_idle(): the answer of the drain call may be lost.
DrainDaemon ==
    /\ ctl.pc = "drain"
    /\ \/ Drained /\ Goto("idle_check") /\ UNCHANGED <<op, left>>
       \/ Drained /\ Fail(op) /\ Spend("lost")
       \/ ~Up /\ Fail(op) /\ UNCHANGED <<disk, service, left>>
    /\ UNCHANGED history

\* Work still under way leaves the journal pending; continue_pending_activation()
\* comes back to it.
CheckIdle ==
    /\ ctl.pc = "idle_check"
    /\ \/ /\ DrainedIdle /\ Goto("prepare")
          /\ op' = Checkpoint(op, "draining", "daemon_drained")
       \/ /\ Up /\ ~DrainedIdle /\ ctl' = Idle
          /\ op' = Checkpoint(op, "pending_active_work", "daemon_has_active_work")
       \/ ~Up /\ Fail(op)
    /\ UNCHANGED <<disk, service, history, left>>

\* Stopping a service ---------------------------------------------------------

Intent(pid) == [dir |-> ctl.dir, target |-> ptr, plist |-> plist, drain |-> drain,
                pid |-> pid, request |-> "prepared"]
Record(pid) ==
    /\ op' = Checkpoint([op EXCEPT !.stops = Append(@, Intent(pid))],
                        "service_stop_pending", "service_stop_intent_prepared")
    /\ sends' = 0 /\ Goto("request")

\* prepare_service_stop(): an unresolved stop is never replaced, and validate()
\* refuses to save a third one.
MayRecord == Stops # <<>> => Last.request = "stopped"
IdleLabelRestorable ==
    ctl.dir = "restore" /\ Len(Stops) = 1 /\ AllExited /\ SingletonFree
PrepareStop ==
    /\ ctl.pc = "prepare"
    /\ LET allowed == MayRecord /\ CASE Loaded -> DrainedIdle /\ daemon.version = ptr
                                      [] LoadedIdle -> IdleLabelRestorable
                                      [] OTHER -> SingletonFree
       IN \/ allowed /\ Len(Stops) < 2 /\ Record(IF Loaded THEN daemon.pid ELSE NoPid)
          \/ allowed /\ Len(Stops) = 2 /\ ctl' = Idle /\ UNCHANGED <<op, sends>>
          \/ ~allowed /\ Fail(op) /\ UNCHANGED sends
    /\ UNCHANGED <<disk, service, evidence, left>>

\* request_service_stop(), up to the dispatch: everything is verified afresh.
\* An abandonment and the unload of an idle label journal the uncertainty first.
Unconfirm == op' = Checkpoint(Requested(op, "unconfirmed"),
                              "service_stop_pending", "service_stop_dispatching")
Exact(s) == Loaded /\ DrainedIdle /\ daemon.pid = s.pid /\ daemon.version = s.target
RequestStop ==
    /\ ctl.pc = "request"
    /\ LET s == Last
           idle == s.dir = "restore" /\ Len(Stops) = 2 /\ LoadedIdle /\ AllExited /\ SingletonFree
       IN \/ /\ Bound(s, FALSE) /\ s.pid # NoPid /\ Exact(s) /\ Goto("send")
             /\ IF op.abandoned THEN Unconfirm ELSE UNCHANGED op
          \/ /\ Bound(s, FALSE) /\ s.pid = NoPid /\ label = "absent"
             /\ Goto("observe") /\ UNCHANGED op
          \/ /\ Bound(s, FALSE) /\ s.pid = NoPid /\ idle
             /\ ctl' = [ctl EXCEPT !.pc = "send", !.held = TRUE] /\ Unconfirm
          \/ /\ \/ ~Bound(s, FALSE)
                \/ s.pid # NoPid /\ ~Exact(s)
                \/ s.pid = NoPid /\ label = "loaded" /\ ~idle
             /\ Fail(op)
    /\ UNCHANGED <<disk, service, history, left>>

\* An older controller refuses the candidate's contract after it has recorded
\* the intent and before it dispatches anything.
RequestRefused ==
    /\ ctl.pc = "request" /\ ctl.by = "resume" /\ Len(Stops) = 1 /\ Last.pid # NoPid
    /\ ctl.dir = "activate" /\ Fail(op) /\ evidence' = TRUE /\ Spend("refusals")
    /\ UNCHANGED <<disk, service, sends>>

\* Mutant of SendBootout: a bootout that was not confirmed is sent once more.
ResendBootout ==
    /\ ctl.pc = "send"
    /\ \/ /\ bootout' = (label = "loaded") /\ sends' = sends + 1
          /\ Goto("sent") /\ UNCHANGED <<op, left>>
       \/ sends' = sends + 1 /\ Spend("lost") /\ UNCHANGED <<op, bootout, ctl>>
    /\ UNCHANGED <<disk, label, daemon, evidence>>

\* Mutant of SendBootout: every stop that was not spawned is taken for unsent.
ResetUnsent ==
    /\ ctl.pc = "send"
    /\ \/ /\ bootout' = (label = "loaded") /\ sends' = sends + 1
          /\ Goto("sent") /\ UNCHANGED <<op, left>>
       \/ /\ Spend("lost") /\ UNCHANGED <<sends, bootout>>
          /\ Fail(Checkpoint(Requested(op, "prepared"),
                             "service_stop_pending", "service_stop_intent_prepared"))
    /\ UNCHANGED <<disk, label, daemon, evidence>>

\* The bootout is spawned and takes effect, is spawned without effect, or is not
\* spawned, which alone resets the intent that had been journaled as uncertain.
SendBootout ==
    /\ ctl.pc = "send"
    /\ \/ /\ bootout' = (label = "loaded") /\ sends' = sends + 1
          /\ Goto("sent") /\ UNCHANGED <<op, left>>
       \/ sends' = sends + 1 /\ Goto("sent") /\ Spend("lost") /\ UNCHANGED <<op, bootout>>
       \/ /\ Spend("lost") /\ UNCHANGED <<sends, bootout>>
          /\ Fail(IF op.abandoned \/ Last.pid = NoPid
                  THEN Checkpoint(Requested(op, "prepared"),
                                  "service_stop_pending", "service_stop_intent_prepared")
                  ELSE op)
    /\ UNCHANGED <<disk, label, daemon, evidence>>

BootoutAnswered ==
    /\ ctl.pc = "sent" /\ ctl' = [ctl EXCEPT !.pc = "observe", !.held = FALSE]
    /\ \E r \in {"accepted", "unconfirmed"} :
           op' = Checkpoint(Requested(op, r), "service_stop_pending", "service_stop_requested")
    /\ UNCHANGED <<disk, service, history, left>>

Replaced(s) == Loaded /\ daemon.pid # s.pid
Stopped(s) ==
    /\ label = "absent" /\ Exited(s.pid) /\ SingletonFree
    /\ s.pid = NoPid /\ s.dir = "restore" /\ Len(Stops) = 2 => AllExited
Confirm == op' = Checkpoint(Requested(op, "stopped"), "service_stopped", "old_service_stop_verified")
NotConfirmed(s) ==
    /\ IF Stopped(s) THEN Spend("lost") ELSE UNCHANGED left
    /\ op' = Checkpoint(op, "service_stop_pending", "old_service_stop_unconfirmed") /\ ctl' = Idle

\* Mutant of ObserveStop: an absent label is taken for a stopped daemon.
TrustAbsentLabel ==
    /\ ctl.pc = "observe"
    /\ LET s == Last
           ok == Bound(s, s.request = "stopped")
       IN \/ ok /\ label = "absent" /\ Confirm /\ Goto("switch") /\ UNCHANGED left
          \/ ok /\ ~Replaced(s) /\ NotConfirmed(s)
          \/ (~ok \/ Replaced(s)) /\ Fail(op) /\ UNCHANGED left
    /\ UNCHANGED <<disk, service, history>>

\* observe_service_stop(): the label is gone, every recorded process has exited
\* and daemon.lock is ours, until the switch is done.  An observation that is
\* late or unknown proves nothing.
ObserveStop ==
    /\ ctl.pc = "observe"
    /\ LET s == Last
           ok == Bound(s, s.request = "stopped")
       IN \/ /\ ok /\ Stopped(s) /\ Confirm /\ UNCHANGED left
             /\ ctl' = [ctl EXCEPT !.pc = "switch", !.held = TRUE]
          \/ ok /\ ~Replaced(s) /\ NotConfirmed(s)
          \/ (~ok \/ Replaced(s)) /\ Fail(op) /\ UNCHANGED left
    /\ UNCHANGED <<disk, service, history>>

\* complete_stopped_transition() ----------------------------------------------

SwitchPointer ==
    /\ ctl.pc = "switch"
    /\ \/ Bound(Last, TRUE) /\ ptr' = Target(Last) /\ Goto("configure") /\ UNCHANGED op
       \/ ~Bound(Last, TRUE) /\ Fail(op) /\ UNCHANGED ptr
    /\ UNCHANGED <<plist, drain, owned, service, history, left>>
\* Mutant of Configure: the configuration is not put back by a restoration.
ConfigureStaged ==
    /\ ctl.pc = "configure" /\ plist' = op.staged /\ Goto("undrain")
    /\ op' = Checkpoint(op, "pointer_switched", "stopped_pointer_and_plist_switched")
    /\ UNCHANGED <<ptr, drain, owned, service, history, left>>
Configure ==
    /\ ctl.pc = "configure" /\ plist' = Config(Last) /\ Goto("undrain")
    /\ op' = Checkpoint(op, "pointer_switched", "stopped_pointer_and_plist_switched")
    /\ UNCHANGED <<ptr, drain, owned, service, history, left>>
RemoveDrain ==
    /\ ctl.pc = "undrain" /\ drain' = None
    /\ ctl' = [ctl EXCEPT !.pc = "bootstrap", !.held = FALSE]
    /\ UNCHANGED <<ptr, plist, owned, op, service, history, left>>

\* launchctl("bootstrap") may fail before or after the label is loaded; once it
\* is loaded the service is restarted: kickstart -k ends whatever process it has.
Load(then) ==
    /\ label = "absent" /\ label' = "loaded"
    /\ ctl' = [ctl EXCEPT !.pc = "kickstart", !.then = then]
Bootstrap ==
    /\ ctl.pc = "bootstrap"
    /\ \/ Load("health") /\ UNCHANGED <<op, left>>
       \/ /\ label = "absent" /\ Spend("lost") /\ UNCHANGED label
          /\ Fail(Checkpoint(op, "recovery_required", "stopped_service_start_failed"))
       \/ label # "absent" /\ Fail(op) /\ UNCHANGED <<label, left>>
    /\ UNCHANGED <<disk, daemon, bootout, history>>
Kickstart ==
    /\ ctl.pc = "kickstart"
    /\ LET started == ctl.then = "health"
           failed == IF started
                     THEN Checkpoint(op, "recovery_required", "stopped_service_start_failed")
                     ELSE op
       IN \/ /\ label = "loaded" /\ Goto(IF started THEN "health" ELSE "released")
             /\ daemon' = IF daemon.stray THEN daemon ELSE NoDaemon
             /\ op' = IF started
                      THEN Checkpoint(op, "candidate_started", "stopped_service_bootstrapped")
                      ELSE op
             /\ UNCHANGED left
          \/ Fail(failed) /\ Spend("lost") /\ UNCHANGED daemon
          \/ label # "loaded" /\ Fail(failed) /\ UNCHANGED <<daemon, left>>
    /\ UNCHANGED <<disk, label, bootout, history>>

\* healthy_service() and restarted_service_identity_matches(): the expected
\* version answers undrained from the process launchd runs, in time.
Healthy(v) == Up /\ daemon.version = v /\ ~daemon.drained
Identified(v) == Loaded /\ daemon.version = v
Unhealthy(v) == \/ ~Healthy(v) /\ UNCHANGED left
                \/ Spend("lost")
Settled(s) == IF s.dir = "activate" THEN "completed" ELSE "rolled_back"
ObserveHealth ==
    /\ ctl.pc = "health"
    /\ LET v == Target(Last) IN
       \/ /\ Healthy(v) /\ Identified(v) /\ ctl' = Idle /\ UNCHANGED left
          /\ op' = Checkpoint(op, Settled(Last), "stopped_service_healthy")
       \/ Healthy(v) /\ ~Identified(v) /\ Fail(op) /\ UNCHANGED left
       \/ /\ Unhealthy(v)
          /\ Fail(Checkpoint(op, "recovery_required", "stopped_service_health_failed"))
    /\ UNCHANGED <<disk, service, history>>

\* Going back -----------------------------------------------------------------

\* restore_activation(): the running daemon is drained and idle, or launchd
\* proves that there is none.
RestoreService ==
    /\ ctl.pc = "restore"
    /\ \/ /\ Drained /\ daemon.version = ptr /\ Goto("restore_idle") /\ UNCHANGED op
       \/ /\ ~Up /\ label = "absent" /\ UNCHANGED <<disk, service, op>>
          /\ ctl' = [ctl EXCEPT !.pc = "prepare", !.dir = "restore"]
       \/ /\ IF Up THEN daemon.version # ptr ELSE label # "absent"
          /\ Fail(op) /\ UNCHANGED <<disk, service>>
    /\ UNCHANGED <<history, left>>
CheckRestoreIdle ==
    /\ ctl.pc = "restore_idle"
    /\ \/ /\ DrainedIdle /\ UNCHANGED op
          /\ ctl' = [ctl EXCEPT !.pc = "prepare", !.dir = "restore"]
       \/ ~DrainedIdle /\ Fail(op)
    /\ UNCHANGED <<disk, service, history, left>>
Restoring == ctl' = [ctl EXCEPT !.pc = "restore", !.restoring = TRUE]

\* release_service_drain(): the removal is journaled, then the drained idle
\* service is restarted.
PendingRelease == IF ctl.then = "recover" THEN "previous_drain_release_pending"
                  ELSE "candidate_drain_release_pending"
ReleaseDrain ==
    /\ ctl.pc = "release"
    /\ \/ /\ DrainedIdle /\ daemon.version = ptr
          /\ drain # None \/ op.checkpoint = PendingRelease
          /\ op' = Checkpoint(op, "recovery_required", PendingRelease) /\ Goto("release_remove")
       \/ /\ ~(DrainedIdle /\ daemon.version = ptr /\ (drain # None \/ op.checkpoint = PendingRelease))
          /\ Fail(op)
    /\ UNCHANGED <<disk, service, history, left>>
ReleaseRemove ==
    /\ ctl.pc = "release_remove" /\ drain' = None /\ Goto("kickstart")
    /\ UNCHANGED <<ptr, plist, owned, op, service, history, left>>
Released ==
    /\ ctl.pc = "released"
    /\ \/ Healthy(ptr) /\ ctl' = [ctl EXCEPT !.pc = ctl.then, !.then = None] /\ UNCHANGED <<op, left>>
       \/ /\ Up /\ daemon.drained /\ ctl.then = "recover" /\ Goto("release")
          /\ UNCHANGED <<op, left>>
       \/ Unhealthy(ptr) /\ Fail(op)
    /\ UNCHANGED <<disk, service, history>>
Release(then) == ctl' = [ctl EXCEPT !.pc = "release", !.then = then]

\* recover_previous_service()
RecoverPrevious ==
    /\ ctl.pc = "recover"
    /\ LET drained == Up /\ daemon.version = ptr /\ daemon.drained
           startable == ~Up /\ label = "absent"
       IN \/ drained /\ Release("recover") /\ UNCHANGED <<op, label, left>>
          \/ /\ Healthy(ptr) /\ ctl' = Idle /\ UNCHANGED <<label, left>>
             /\ op' = Checkpoint(op, "rolled_back", "previous_service_healthy")
          \/ startable /\ Load("recover") /\ UNCHANGED <<op, left>>
          \/ startable /\ Spend("lost") /\ Fail(op) /\ UNCHANGED label
          \/ ~drained /\ ~startable /\ Unhealthy(ptr) /\ Fail(op) /\ UNCHANGED label
    /\ UNCHANGED <<disk, daemon, bootout, history>>

\* Resuming -------------------------------------------------------------------

\* resume(), the same installer again (reconcile_matching_operation) and a
\* rollback that names the pending abandonment.
Begin(by) == ctl' = [Idle EXCEPT !.pc = IF op.abandoned THEN "abandon" ELSE "reconcile",
                                 !.by = by, !.dir = "activate"]
Resume ==
    /\ ctl = Idle /\ op.kind \in Kinds /\ Pending(op)
    /\ Begin(IF op.abandoned THEN "abandon" ELSE "resume")
    /\ UNCHANGED <<disk, op, service, history, left>>
Reinstall ==
    /\ ctl = Idle /\ op.kind \in Kinds /\ Pending(op) /\ ~op.abandoned
    /\ Spend("activations") /\ Begin("reinstall")
    /\ UNCHANGED <<disk, op, service, history>>

\* reconcile_activation(): with a stop on record only that stop counts.
Reconcile ==
    /\ ctl.pc = "reconcile"
    /\ LET stopped == Stops # <<>>
           paused == ~stopped /\ op.phase = "pending_active_work"
           free == ~stopped /\ ~paused
           candidate == ptr = op.package /\ plist = op.staged
           previous == ptr = op.previous /\ plist = op.backup
           tried == candidate /\ op.phase = "recovery_required"
       IN \/ stopped /\ Goto("reconcile_stop") /\ UNCHANGED <<op, left>>
          \/ paused /\ Goto("drain") /\ UNCHANGED <<op, left>>
          \/ free /\ tried /\ Up /\ daemon.drained /\ Release("reconcile") /\ UNCHANGED <<op, left>>
          \/ free /\ tried /\ ~Up /\ Fail(op) /\ UNCHANGED left
          \/ /\ free /\ candidate /\ Healthy(op.package) /\ ctl' = Idle /\ UNCHANGED left
             /\ op' = Checkpoint(op, "completed", "candidate_healthy_after_reconciliation")
          \/ /\ free /\ previous /\ (candidate => ~Healthy(op.package))
             /\ tried => Up /\ ~daemon.drained
             /\ Goto("recover") /\ UNCHANGED <<op, left>>
          \/ /\ free /\ ~previous /\ (candidate => ~Healthy(op.package))
             /\ Restoring /\ UNCHANGED <<op, left>>
    /\ UNCHANGED <<disk, service, history>>

\* reconcile_service_stop(): a completed stop is never repeated; what it
\* switched to is finished, judged afresh or taken back.
ReconcileStop ==
    /\ ctl.pc = "reconcile_stop"
    /\ LET s == Last
           bound == Bound(s, s.request = "stopped")
           done == bound /\ s.request = "stopped"
           idle == done /\ LoadedIdle
           reached == done /\ ~LoadedIdle /\ ptr = Target(s) /\ plist = Config(s)
           missed == done /\ ~LoadedIdle /\ ~(ptr = Target(s) /\ plist = Config(s))
           failed == s.dir = "activate" /\ op.checkpoint \in Failures
       IN \/ ~bound /\ Fail(op)
          \/ /\ idle /\ UNCHANGED op
             /\ ctl' = [ctl EXCEPT !.pc = "prepare", !.dir = "restore"]
          \/ /\ bound /\ s.request = "prepared" /\ s.pid = NoPid /\ s.dir = "restore"
             /\ Len(Stops) = 2 /\ Goto("request") /\ UNCHANGED op
          \/ /\ bound /\ s.request # "stopped" /\ UNCHANGED op /\ Goto("observe")
             /\ ~(s.request = "prepared" /\ s.pid = NoPid /\ s.dir = "restore" /\ Len(Stops) = 2)
          \/ reached /\ Goto("stop_judge") /\ UNCHANGED op
          \/ missed /\ failed /\ Restoring /\ UNCHANGED op
          \/ missed /\ ~failed /\ Goto("observe") /\ UNCHANGED op
    /\ UNCHANGED <<disk, service, history, left>>

\* The exact loaded candidate is identified before its health is judged again;
\* a drain left by an interrupted release is released first.
RecordedFailure == /\ Last.dir = "activate"
                   /\ op.checkpoint \in {"stopped_service_health_failed",
                                         "candidate_drain_release_pending"}
GenericCandidate == /\ Last.dir = "activate" /\ op.phase = "recovery_required"
                    /\ op.checkpoint = "not_reconciled" /\ Loaded
JudgeStopped ==
    /\ ctl.pc = "stop_judge"
    /\ LET suspect == RecordedFailure \/ GenericCandidate
           known == suspect => Identified(Target(Last))
           drained == RecordedFailure /\ DrainedIdle
       IN \/ ~known /\ Fail(op)
          \/ known /\ RecordedFailure /\ ~Up /\ Fail(op)
          \/ known /\ drained /\ Release("stop_health") /\ UNCHANGED op
          \/ /\ known /\ (RecordedFailure => Up) /\ ~drained
             /\ ctl' = [ctl EXCEPT !.pc = "stop_health",
                                   !.then = IF suspect THEN "suspect" ELSE None]
             /\ UNCHANGED op
    /\ UNCHANGED <<disk, service, history, left>>
JudgeHealth ==
    /\ ctl.pc = "stop_health"
    /\ LET v == Target(Last)
           suspect == ctl.then = "suspect" \/ RecordedFailure
           failed == Last.dir = "activate" /\ op.checkpoint \in Failures
           reverts == suspect /\ op.kind = "update"
       IN \/ /\ Healthy(v) /\ Identified(v) /\ ctl' = Idle /\ UNCHANGED left
             /\ op' = Checkpoint(op, Settled(Last), "stopped_service_healthy_after_reconciliation")
          \/ Healthy(v) /\ ~Identified(v) /\ label # "absent" /\ Fail(op) /\ UNCHANGED left
          \/ /\ reverts /\ Unhealthy(v) /\ Restoring
             /\ op' = Checkpoint(op, "recovery_required", "stopped_service_health_failed")
          \/ /\ \/ ~reverts /\ Unhealthy(v)
                \/ Healthy(v) /\ ~Identified(v) /\ label = "absent" /\ UNCHANGED left
             /\ UNCHANGED op
             /\ IF failed THEN Restoring ELSE ctl' = [ctl EXCEPT !.pc = "observe", !.then = None]
    /\ UNCHANGED <<disk, service, history>>

\* rollback_with_expected(): only an update that waits for work, its daemon
\* drained, idle and exactly the previous one, is abandoned.
Abandon ==
    /\ ctl = Idle /\ op.kind = "update" /\ op.phase = "pending_active_work"
    /\ Stops = <<>> /\ ptr = op.previous /\ plist = op.backup
    /\ DrainedIdle /\ Loaded /\ daemon.version = ptr /\ drain # None /\ Spend("abandons")
    /\ op' = Checkpoint([op EXCEPT !.abandoned = TRUE, !.pid = daemon.pid],
                        "abandonment_pending", "pending_update_abandonment_intent")
    /\ ctl' = [Idle EXCEPT !.pc = "abandon", !.by = "abandon", !.dir = "restore"]
    /\ UNCHANGED <<disk, service, history>>

\* reconcile_abandonment()
ReconcileAbandonment ==
    /\ ctl.pc = "abandon"
    /\ LET same == ptr = op.previous /\ plist = op.backup
           first == Stops = <<>>
           exact == Loaded /\ DrainedIdle /\ daemon.pid = op.pid
       IN \/ /\ same /\ first /\ exact /\ UNCHANGED op
             /\ ctl' = [ctl EXCEPT !.pc = "prepare", !.dir = "restore"]
          \/ same /\ ~first /\ Last.request = "prepared" /\ Goto("request") /\ UNCHANGED op
          \/ same /\ ~first /\ Last.request # "prepared" /\ Goto("reconcile_stop") /\ UNCHANGED op
          \/ (~same \/ (first /\ ~exact)) /\ Fail(op)
    /\ UNCHANGED <<disk, service, history, left>>

\* resume_reviewed_unsent_stop(): typed evidence that the first intent was never
\* dispatched authorizes one dispatch, consumed before it happens.
ResumeReviewed ==
    /\ ctl = Idle /\ op.kind = "update" /\ evidence /\ ~op.abandoned
    /\ op.phase = "recovery_required" /\ op.checkpoint = "not_reconciled"
    /\ Len(Stops) = 1 /\ Last.dir = "activate" /\ Last.request = "prepared"
    /\ Last.pid # NoPid /\ Bound(Last, FALSE) /\ Exact(Last)
    /\ op' = Checkpoint([Requested(op, "unconfirmed") EXCEPT !.reviewed = TRUE],
                        "service_stop_pending", "reviewed_stop_dispatching")
    /\ ctl' = [Idle EXCEPT !.pc = "request", !.by = "reviewed", !.dir = "activate"]
    /\ UNCHANGED <<disk, service, history, left>>

\* The controller dies; its locks go with it.
ControllerDies ==
    /\ ctl # Idle /\ ctl' = Idle /\ Spend("crashes")
    /\ UNCHANGED <<disk, op, service, history>>
-----------------------------------------------------------------------------
Service == \/ LaunchdStart \/ StrayStart \/ DaemonDies \/ WorkBegins \/ WorkEnds
           \/ BootoutTerminates \/ DaemonExits \/ BootoutUnloads
Stop == \/ PrepareStop \/ RequestStop \/ RequestRefused \/ SendBootout
        \/ BootoutAnswered \/ ObserveStop
Transition == \/ SwitchPointer \/ Configure \/ RemoveDrain \/ Bootstrap \/ Kickstart
              \/ ObserveHealth
Recovery == \/ RestoreService \/ CheckRestoreIdle \/ ReleaseDrain \/ ReleaseRemove \/ Released
            \/ RecoverPrevious \/ Reconcile \/ ReconcileStop \/ JudgeStopped \/ JudgeHealth
            \/ ReconcileAbandonment
Exchange == CaptureBackup \/ DrainDaemon \/ CheckIdle \/ Stop \/ Transition \/ Recovery
ReleaseNext ==
    \/ \E kind \in Kinds, v \in Versions : Activate(kind, v)
    \/ Service \/ Exchange \/ Resume \/ Reinstall \/ Abandon \/ ResumeReviewed
    \/ ControllerDies

-----------------------------------------------------------------------------
\* One value of its kind in every variable, and a journal that validate() would
\* save: at most two stops, only the newest of them unresolved, an abandonment
\* that stops nothing but the previous service, a reviewed stop that was sent.
TypeOK ==
    /\ ptr \in Versions /\ plist \in Versions \cup {None} /\ owned \subseteq Versions
    /\ drain \in {None, "update", "prune"} /\ label \in {"loaded", "absent"}
    /\ bootout \in BOOLEAN /\ daemon.state \in {"up", "stopping", "down"} /\ sends \in Nat
    /\ op.kind \in Kinds =>
          /\ Len(op.stops) <= 2 /\ \A i \in 1..Len(op.stops) : op.stops[i].request \in Requests
          /\ \A i \in 1..Len(op.stops) - 1 : op.stops[i].request = "stopped"
          /\ op.phase = "service_stop_pending" => op.stops # <<>>
          /\ op.abandoned => /\ op.stops = <<>> <=> op.phase = "abandonment_pending"
                             /\ \A i \in 1..Len(op.stops) : op.stops[i].dir = "restore"
          /\ op.reviewed => op.stops[1].request # "prepared"

\* A settled operation left what its phase says: `completed' the candidate's
\* pointer and configuration, `rolled_back' the previous ones, and no drain for
\* the next daemon to start under; an abandoned update never gets the pointer
\* (complete_stopped_transition, recover_previous_service, reconcile_abandonment).
SettledAgrees ==
    op.kind \in Kinds =>
        /\ ctl = Idle /\ op.phase = "completed" =>
              ptr = op.package /\ plist = op.staged /\ drain = None
        /\ ctl = Idle /\ op.phase = "rolled_back" =>
              ptr = op.previous /\ plist = op.backup /\ drain = None
        /\ op.abandoned => ptr = op.previous

\* No daemon runs while the pointer or the configuration it was started from is
\* exchanged, and none that launchd runs is told to stop with work in it or with
\* its admission open (request_service_stop, observe_service_stop); launchd receives
\* at most one bootout for each journaled stop intent, through crashes of the
\* controller, lost answers and every way to resume (reconcile_service_stop:
\* "observe only: never resend a possibly dispatched bootout";
\* resume_reviewed_unsent_stop: one dispatch per typed refusal).
ExchangedOnlyIdle ==
    /\ ptr' # ptr \/ plist' # plist => Down
    /\ bootout' /\ ~bootout /\ Up /\ ~daemon.stray => daemon.drained /\ ~daemon.work
    /\ sends' <= 1

\* States that need a person: a daemon run by hand holds the lock; the drained
\* process that an abandonment names is gone before its stop is recorded; a service
\* of the version it is exchanged for runs behind a drain that was already removed;
\* a rollback whose target came up drained; a stop that nobody may send again while
\* launchd keeps the service (README, "What may stay pending").
Stranded ==
    \/ daemon.stray
    \/ /\ op.kind \in Kinds
       /\ \/ op.abandoned /\ Stops = <<>> /\ daemon.pid # op.pid
          \/ /\ op.package = op.previous /\ Stops = <<>> /\ drain = None
             /\ op.checkpoint = "previous_drain_release_pending"
          \/ Stops # <<>> /\ Last.request = "stopped" /\ op.kind = "rollback" /\ Up /\ daemon.drained
          \/ Stops # <<>> /\ Last.request # "stopped" /\ ~bootout /\ label = "loaded"

=============================================================================
