------------------------------ MODULE Uninstall ------------------------------
(***************************************************************************)
(* Removal of an installation (bootstrap_uninstall.rs, maintenance.rs,      *)
(* auth.rs cleanup_locked).  One journal is rewritten at every checkpoint:   *)
(* drain the daemon, stop its service, revoke the device at the backend,     *)
(* delete the credential, remove the files.  A run may end anywhere, and     *)
(* the next goes on from the journal.  The credential is touched only by a   *)
(* child that runs the installed daemon's executable; it inherits the        *)
(* daemon's lock and may outlive the run that started it.                    *)
(*                                                                         *)
(* Not modelled: journals of the older schema, and the separate maintenance  *)
(* of unresolved work.                                                      *)
(***************************************************************************)
EXTENDS Naturals, Sequences, FiniteSets

CONSTANTS Trees,        \* the owned version directories
          StateFiles,   \* the entries of the state directory that are removed
          RemovalLimits \* how often each event may happen

ASSUME RemovalAssumption ==
  /\ IsFiniteSet(Trees) /\ Trees # {} /\ IsFiniteSet(StateFiles)
  /\ RemovalLimits \in [{"jobs", "signins", "adoptions", "drains", "crashes", "deaths",
                         "sessions", "lost", "late", "faults"} -> Nat]

VARIABLES
  removal,    \* durable: bootstrap-uninstall.json
  closing,    \* durable: bootstrap-uninstall-terminal.json, and whether of an adoption
  fence,      \* durable: lifecycle-operation.json refuses other operations
  helper,     \* durable: the copy of the bootstrap that runs the removal
  context,    \* durable: the request file of a maintenance child
  halted,     \* durable: drain.json, and whose key it carries
  tree,       \* durable: what is left of each version directory
  kept,       \* durable: single files that are still there
  staged,     \* durable: the payload of an adopted newer release
  credential, \* the keychain item
  authority,  \* external: the device at the backend
  unit,       \* launchd and the daemon
  run,        \* the bootstrap process
  child,      \* the maintenance process
  stops,      \* history: stop requests handed to launchctl
  events      \* what remains of RemovalLimits

files == <<closing, fence, helper, context, halted, tree, kept, staged>>
device == <<credential, authority>>
procs == <<unit, child, stops>>
removalVars == <<removal, files, device, procs, run, events>>

-----------------------------------------------------------------------------
Phases == {"prepared", "idle_verified", "stop_intent", "stopped", "revoked", "cleanup"}
NoRemoval == [phase |-> "none"]
Identities == {"absent", "unbound", "bound"}    \* no item; an installation; its device
Marker == {"none", "own", "other"}           \* no drain.json; the removal's; another one
Evidence == {"unknown", "confirmed", "not_required"}
Removal == [phase : Phases, request : {"none", "prepared", "unconfirmed", "not_dispatched"},
            pid : 0..2, identity : Identities, revoked : Evidence,
            erased : BOOLEAN, captured : BOOLEAN, moved : SUBSET Trees, deleting : SUBSET Trees,
            emptying : BOOLEAN, adopted : BOOLEAN, unstaging : BOOLEAN]
Singles == <<"agent", "current", "install-receipt", "owned-versions">>
Everything == {Singles[i] : i \in 1..4} \cup StateFiles

\* The keychain item: nothing; an installation without a device; a sign-in whose
\* answer is missing; a device; a device whose revocation is recorded; the
\* record of that revocation alone.
Credentials == {"none", "known", "pending", "enrolled", "acknowledged", "cleared"}
Identity(c) == CASE c = "none" -> "absent"
                 [] c \in {"known", "pending"} -> "unbound"
                 [] OTHER -> "bound"

Waits == {"identify", "probe", "logout", "remove"}
Points == {"idle", "prepare", "stage", "supersede", "qualify", "admit", "drain", "call", "confirm",
           "intent", "request", "bootout", "await", "verify", "capture", "ask", "settle",
           "erase", "clean", "trees", "unstage", "unstaging", "agent", "empty", "state", "current",
           "receipts", "mark", "unjournal", "unhelp", "unfence", "unmark"} \cup Waits
AtRestRun == [pc |-> "idle", guard |-> FALSE]

Ended == {"gone", "answered", "failed"}
ChildPoints == {"start", "recover", "send", "evidence", "clear", "delete"} \cup Ended
NoChild == [kind |-> "none", at |-> "gone", identity |-> "absent", revoked |-> "unknown"]

RemovalTypeOK ==
  /\ removal \in Removal \cup {NoRemoval} /\ closing \in {"none", "plain", "adopted"}
  /\ {fence, helper, context, staged} \subseteq BOOLEAN /\ halted \in Marker
  /\ tree \in [Trees -> {"installed", "moved", "partial", "gone"}] /\ kept \subseteq Everything
  /\ credential \in Credentials /\ authority \in {"none", "live", "revoked"}
  /\ unit \in [loaded : BOOLEAN, up : BOOLEAN, pid : 1..2, drained : BOOLEAN, work : BOOLEAN,
               stopping : BOOLEAN, calling : BOOLEAN]
  /\ run \in [pc : Points, guard : BOOLEAN]
  /\ child \in [kind : {"none", "probe", "logout", "remove"}, at : ChildPoints,
                identity : Identities, revoked : Evidence]
  /\ stops \in Nat /\ events \in [DOMAIN RemovalLimits -> Nat]

RemovalInit ==
  /\ removal = NoRemoval /\ closing = "none" /\ fence = FALSE /\ helper = FALSE
  /\ context = FALSE /\ halted = "none" /\ staged = FALSE
  /\ tree = [t \in Trees |-> "installed"] /\ kept = Everything
  /\ credential \in {"none", "known", "enrolled", "cleared"}
  /\ authority = (CASE credential = "enrolled" -> "live" [] credential = "cleared" -> "revoked"
                    [] OTHER -> "none")
  /\ unit = [loaded |-> TRUE, up |-> TRUE, pid |-> 1, drained |-> FALSE, work |-> FALSE,
             stopping |-> FALSE, calling |-> FALSE]
  /\ run = AtRestRun /\ child = NoChild /\ stops = 0 /\ events = RemovalLimits

\* Events of kind k; those that go wrong share `faults'.
Happens(k) ==
  LET fault == k \notin {"jobs", "signins", "adoptions", "drains"}
  IN /\ events[k] > 0 /\ (fault => events.faults > 0)
     /\ events' = [events EXCEPT ![k] = @ - 1, !.faults = IF fault THEN @ - 1 ELSE @]

Removing == removal # NoRemoval
Adopted == Removing /\ removal.adopted
LockFree == ~unit.up /\ ~run.guard /\ child.at \in Ended
Here(pc) == run.pc = pc
Go(pc) == run' = [run EXCEPT !.pc = pc]
Exit == run' = AtRestRun
Save(r) == removal' = r
SaveIn(phase) == Save([removal EXCEPT !.phase = phase])

-----------------------------------------------------------------------------
\* The daemon, its user and launchd.

\* serve() refuses to run while a removal is recorded; launchd tries on.
DaemonStarts ==
  /\ unit.loaded /\ ~unit.stopping /\ LockFree /\ "current" \in kept
  /\ ~Removing /\ closing = "none" /\ unit.pid < 2
  /\ unit' = [unit EXCEPT !.up = TRUE, !.pid = 2, !.drained = (halted # "none")]
  /\ UNCHANGED <<removal, files, device, run, child, stops, events>>

DaemonStops(loaded) ==
  unit' = [unit EXCEPT !.loaded = loaded, !.up = FALSE, !.drained = FALSE, !.stopping = FALSE,
                         !.calling = FALSE]

DaemonCrashes ==
  /\ unit.up /\ Happens("deaths") /\ DaemonStops(unit.loaded)
  /\ UNCHANGED <<removal, files, device, run, child, stops>>

\* Work is a job whose journal is not acknowledged; it outlives the daemon.
JobBegins ==
  /\ unit.up /\ ~unit.drained /\ ~unit.work /\ Happens("jobs")
  /\ unit' = [unit EXCEPT !.work = TRUE]
  /\ UNCHANGED <<removal, files, device, run, child, stops>>

JobEnds ==
  /\ unit.up /\ unit.work /\ unit' = [unit EXCEPT !.work = FALSE]
  /\ UNCHANGED <<removal, files, device, run, child, stops, events>>

\* `loomex drain': the daemon closes its admission first and writes drain.json then;
\* once that is there, another drain only reads it.
AsksToDrain ==
  /\ unit.up /\ halted = "none" /\ ~unit.calling /\ Happens("drains")
  /\ unit' = [unit EXCEPT !.drained = TRUE, !.calling = TRUE]
  /\ UNCHANGED <<removal, files, device, run, child, stops>>

\* Of two drains that were both let in, the one written last counts.
WritesDrain ==
  /\ unit.calling /\ unit' = [unit EXCEPT !.calling = FALSE]
  /\ halted' \in {"other"} \cup ({halted} \ {"none"})
  /\ UNCHANGED <<removal, closing, fence, helper, context, tree, kept, staged, device, run, child,
                 stops, events>>

\* A drained daemon refuses sign-in and the recovery of one.
SignIn ==
  /\ unit.up /\ ~unit.drained
  /\ \/ /\ credential \in {"none", "known", "cleared"} /\ Happens("signins")
        /\ credential' = "pending" /\ authority' \in {authority, "live"}
     \/ credential = "pending" /\ credential' = "enrolled" /\ authority' = "live"
        /\ UNCHANGED events
  /\ UNCHANGED <<removal, files, procs, run>>

\* launchctl bootout ends the process and unloads the label.
BootoutEnds ==
  /\ unit.stopping /\ DaemonStops(FALSE)
  /\ UNCHANGED <<removal, files, device, run, child, stops, events>>

\* The end of a login session unloads the service; the next one loads it as
\* long as its configuration is there.
SessionChanges ==
  /\ unit.loaded \/ "agent" \in kept
  /\ Happens("sessions") /\ DaemonStops(~unit.loaded)
  /\ UNCHANGED <<removal, files, device, run, child, stops>>

-----------------------------------------------------------------------------
\* A run of the bootstrap: a new removal, the next run of one, or its adoption by
\* a newer release while nothing has been done.

RunCrashes ==
  /\ run.pc # "idle" /\ Happens("crashes") /\ Exit
  /\ UNCHANGED <<removal, files, device, procs>>

Begins ==
  /\ Here("idle") /\ ~Removing /\ closing = "none" /\ kept = Everything /\ ~unit.work
  /\ helper' = TRUE /\ Go("prepare")
  /\ UNCHANGED <<removal, closing, fence, context, halted, tree, kept, staged, device, procs, events>>

SignInSettled == credential # "pending"
SameInstallation == SignInSettled /\ (removal.identity = "absent" <=> credential = "none")

Prepares ==
  /\ Here("prepare") /\ unit.up /\ SignInSettled
  /\ Save([phase |-> "prepared", request |-> "none", pid |-> 0, revoked |-> "unknown",
           identity |-> IF credential = "none" THEN "absent" ELSE "unbound",
           erased |-> FALSE, captured |-> FALSE, moved |-> {}, deleting |-> {},
           emptying |-> FALSE, adopted |-> FALSE, unstaging |-> FALSE])
  /\ Go("qualify") /\ UNCHANGED <<files, device, procs, events>>

\* The arguments of the run must name the release that adopted the removal.  The
\* mutant takes no account of what a run under way has removed.
ValidWhole == helper /\ "install-receipt" \in kept /\ \A t \in Trees : tree[t] = "installed"

Valid == /\ helper
         /\ removal.phase = "cleanup"
            \/ ("install-receipt" \in kept /\ \A t \in Trees : tree[t] = "installed")
Resumes ==
  /\ Here("idle") /\ Removing /\ Valid /\ Go("qualify")
  /\ UNCHANGED <<removal, files, device, procs, events>>

Adopts ==
  /\ Here("idle") /\ Removing /\ Valid /\ ~removal.adopted /\ removal.phase = "prepared"
  /\ ~context /\ ~unit.work /\ Happens("adoptions")
  /\ fence' = TRUE /\ Go("stage")
  /\ UNCHANGED <<removal, closing, helper, context, halted, tree, kept, staged, device, procs>>

StagesRelease ==
  /\ Here("stage") /\ staged' = TRUE /\ Go("supersede")
  /\ UNCHANGED <<removal, closing, fence, helper, context, halted, tree, kept, device, procs, events>>

Supersedes ==
  /\ Here("supersede") /\ Save([removal EXCEPT !.adopted = TRUE]) /\ Go("qualify")
  /\ UNCHANGED <<files, device, procs, events>>

Undispatched == removal.phase \in {"prepared", "idle_verified"} \/ removal.request = "prepared"

\* The mutant sends a stop request again whose answer is missing.
StopPointAgain ==
  CASE removal.phase = "prepared" -> "admit"
    [] removal.phase = "idle_verified" -> "intent"
    [] removal.phase = "stop_intent" -> "request"
    [] OTHER -> "verify"

StopPoint ==
  CASE removal.phase = "prepared" -> "admit"
    [] removal.phase = "idle_verified" -> "intent"
    [] removal.request = "prepared" -> "request"
    [] OTHER -> "verify"

Qualifies ==
  /\ Here("qualify") /\ (Undispatched => ~unit.work) /\ fence' = TRUE /\ Go(StopPoint)
  /\ UNCHANGED <<removal, closing, helper, context, halted, tree, kept, staged, device, procs, events>>

\* The child may outlive this run: it holds the lock as long as it is at work.
Spawn(kind, pc, guard) ==
  /\ context' = TRUE /\ run' = [pc |-> pc, guard |-> guard]
  /\ child' = [kind |-> kind, at |-> "start", identity |-> removal.identity,
               revoked |-> removal.revoked]
  /\ UNCHANGED <<closing, fence, helper, halted, tree, kept, staged, device, unit, stops, events>>

AdmitsStopped ==
  /\ Here("admit") /\ ~unit.loaded /\ LockFree /\ ~unit.work
  /\ Spawn("probe", "identify", TRUE) /\ UNCHANGED removal

AdmitsRunning ==
  /\ Here("admit") /\ unit.loaded /\ unit.up /\ ~unit.work /\ Go("drain")
  /\ UNCHANGED <<removal, files, device, procs, events>>

-----------------------------------------------------------------------------
\* Drain and stop.

\* The marker is looked for before the call, and its key again before the stop: a
\* removal accepts its own only.
FindsNoMarker ==
  /\ Here("drain") /\ halted = "none" /\ Go("call")
  /\ UNCHANGED <<removal, files, device, procs, events>>

Drains ==
  /\ Here("call") /\ unit.up
  /\ halted' = (IF halted = "none" THEN "own" ELSE halted) /\ unit' = [unit EXCEPT !.drained = TRUE]
  /\ \/ Go("confirm") /\ UNCHANGED events
     \/ Exit /\ Happens("lost")
  /\ UNCHANGED <<removal, closing, fence, helper, context, tree, kept, staged, device, child, stops>>

AlreadyDrained ==
  /\ Here("drain") /\ halted = "own" /\ Go("confirm")
  /\ UNCHANGED <<removal, files, device, procs, events>>

\* A drained daemon counts the calls it serves with its work.
FoundIdle == unit.up /\ unit.drained /\ ~unit.work /\ ~unit.calling /\ SameInstallation
ExactlyIdle == FoundIdle /\ unit.pid = removal.pid /\ halted = "own"

Confirms ==
  /\ Here("confirm") /\ FoundIdle /\ unit.loaded
  /\ Save([removal EXCEPT !.phase = "idle_verified", !.pid = unit.pid]) /\ Go("intent")
  /\ UNCHANGED <<files, device, procs, events>>

Intends ==
  /\ Here("intent") /\ "agent" \in kept
  /\ Save([removal EXCEPT !.phase = "stop_intent", !.request = "prepared"]) /\ Go("request")
  /\ UNCHANGED <<files, device, procs, events>>

\* The request is recorded as possibly dispatched before it is.
RequestsStop ==
  /\ Here("request")
  /\ \/ ~unit.loaded /\ Go("verify")
     \/ unit.loaded /\ ExactlyIdle /\ Go("bootout")
  /\ Save([removal EXCEPT !.request = "unconfirmed"])
  /\ UNCHANGED <<files, device, procs, events>>

BootsOut ==
  /\ Here("bootout") /\ stops' = stops + 1 /\ Go("await")
  /\ unit' = [unit EXCEPT !.stopping = unit.loaded]
  /\ UNCHANGED <<removal, files, device, child, events>>

CannotSpawn ==
  /\ Here("bootout") /\ Happens("lost") /\ Save([removal EXCEPT !.request = "prepared"]) /\ Exit
  /\ UNCHANGED <<files, device, procs>>

\* launchctl may fail, or be killed by the timeout before it has any effect.
BootoutFails ==
  /\ Here("await") /\ unit.stopping /\ Happens("lost")
  /\ unit' = [unit EXCEPT !.stopping = FALSE] /\ Exit
  /\ UNCHANGED <<removal, files, device, child, stops>>

Awaited ==
  /\ Here("await") /\ ~unit.stopping /\ Go("verify")
  /\ UNCHANGED <<removal, files, device, procs, events>>

Unloaded == ~unit.loaded /\ LockFree

\* Whatever became of the request, only fresh observation ends this phase.
Verifies ==
  /\ Here("verify") /\ Unloaded /\ (~removal.emptying => ~unit.work)
  /\ LET phase == IF removal.phase = "stop_intent" THEN "stopped" ELSE removal.phase
     IN /\ SaveIn(phase)
        /\ run' = [guard |-> TRUE, pc |-> CASE phase = "stopped" -> "capture"
                                            [] phase = "revoked" -> "erase"
                                            [] OTHER -> "clean"]
  /\ UNCHANGED <<files, device, procs, events>>

\* A step whose conditions fail ends the run; a later one tries again.
Refuses ==
  /\ \/ Here("prepare") /\ ~(unit.up /\ SignInSettled)
     \/ Here("qualify") /\ Undispatched /\ unit.work
     \/ Here("admit") /\ ~(Unloaded /\ ~unit.work) /\ ~(unit.loaded /\ unit.up /\ ~unit.work)
     \/ Here("drain") /\ halted = "other"
     \/ Here("call") /\ ~unit.up
     \/ Here("confirm") /\ ~(FoundIdle /\ unit.loaded)
     \/ Here("request") /\ unit.loaded /\ ~ExactlyIdle
     \/ Here("verify") /\ ~(Unloaded /\ (~removal.emptying => ~unit.work))
     \/ Here("unhelp") /\ ~run.guard /\ ~Unloaded
  /\ Exit /\ UNCHANGED <<removal, files, device, procs, events>>

-----------------------------------------------------------------------------
\* Revoke the device and delete the credential, through the child.

\* What the journal keeps of the answer to a probe.
Known(r, identity) ==
  IF identity = "absent" THEN [r EXCEPT !.revoked = "not_required", !.erased = TRUE]
                         ELSE [r EXCEPT !.identity = identity]
Fits(r, identity) == /\ r.identity = "absent" <=> identity = "absent"
                     /\ r.identity = "bound" => identity = "bound"

Replied(kind) == child.kind = kind /\ child.at = "answered"
Takes(r, pc) == /\ Save(r) /\ Go(pc) /\ context' = FALSE /\ child' = NoChild
                   /\ UNCHANGED <<closing, fence, helper, halted, tree, kept, staged, device, unit,
                                  stops, events>>

ChecksPreparedStopped ==
  /\ Here("identify") /\ Replied("probe") /\ ~unit.work /\ Fits(removal, child.identity)
  /\ Takes([Known(removal, child.identity) EXCEPT !.phase = "stopped",
                                                     !.request = "not_dispatched"], "capture")

Captures ==
  /\ Here("capture") /\ Save([removal EXCEPT !.captured = TRUE]) /\ Go("ask")
  /\ UNCHANGED <<files, device, procs, events>>

Asks == Here("ask") /\ Spawn("probe", "probe", TRUE) /\ UNCHANGED removal

Identifies ==
  /\ Here("probe") /\ Replied("probe") /\ Fits(removal, child.identity)
  /\ Takes(Known(removal, child.identity),
              IF child.identity = "absent" THEN "settle" ELSE "logout")

LogsOut == /\ Here("logout") /\ child.kind # "logout"
           /\ Spawn("logout", "logout", TRUE) /\ UNCHANGED removal

LoggedOut ==
  /\ Here("logout") /\ Replied("logout")
  /\ Takes([removal EXCEPT !.phase = "revoked", !.identity = child.identity,
                              !.revoked = child.revoked], "erase")

SettlesAbsence ==
  /\ Here("settle") /\ SaveIn("revoked") /\ Go("erase")
  /\ UNCHANGED <<files, device, procs, events>>

Erases ==
  /\ Here("erase")
  /\ \/ ~removal.erased /\ Spawn("remove", "remove", TRUE)
     \/ removal.erased /\ Go("clean") /\ UNCHANGED <<files, device, procs, events>>
  /\ UNCHANGED removal

Erased ==
  /\ Here("remove") /\ Replied("remove") /\ child.revoked = removal.revoked
  /\ Takes([removal EXCEPT !.erased = TRUE], "clean")

\* The run has waited for longer than it may; the child goes on.
StopsWaiting ==
  /\ run.pc \in Waits /\ child.at \notin Ended /\ Happens("late") /\ Exit
  /\ UNCHANGED <<removal, files, device, procs>>

ChildFailed ==
  /\ run.pc \in Waits
  /\ \/ child.at = "failed"
     \/ Here("identify") /\ Replied("probe") /\ ~(~unit.work /\ Fits(removal, child.identity))
     \/ Here("probe") /\ Replied("probe") /\ ~Fits(removal, child.identity)
     \/ Here("remove") /\ Replied("remove") /\ child.revoked # removal.revoked
  /\ Exit /\ child' = NoChild
  /\ UNCHANGED <<removal, files, device, unit, stops, events>>

ChildTo(at) == child' = [child EXCEPT !.at = at]
Attested == credential \in {"acknowledged", "cleared"}

\* The mutant clears the credential before its revocation is confirmed.
LogoutPointHasty == IF credential = "pending" THEN "recover" ELSE "clear"

LogoutPoint == CASE credential = "pending" -> "recover"
                 [] credential = "enrolled" -> "send"
                 [] OTHER -> "clear"

\* The request names this removal and the journal it was written from.
InContext ==
  /\ Removing /\ context
  /\ child.kind # "probe" => /\ removal.phase \in {"stopped", "revoked"}
                             /\ removal.identity = child.identity
  /\ child.kind = "remove" => removal.phase = "revoked" /\ removal.revoked # "unknown"

ChildReads ==
  /\ child.at = "start"
  /\ LET there == InContext /\ child.kind # "probe" /\ credential # "none"
         same == child.identity = Identity(credential)
     IN \/ ~InContext /\ ChildTo("failed")
        \/ /\ InContext /\ child.kind = "probe"
           /\ child' = [child EXCEPT !.at = "answered", !.identity = Identity(credential)]
        \/ /\ InContext /\ child.kind # "probe" /\ credential = "none"
           /\ ChildTo(IF child.kind = "remove" THEN "answered" ELSE "failed")
        \/ there /\ ~same /\ ChildTo("failed")
        \/ there /\ same /\ child' = [child EXCEPT !.at = LogoutPoint,
                                        !.revoked = IF Attested THEN "confirmed" ELSE "not_required"]
  /\ UNCHANGED <<removal, files, device, unit, run, stops, events>>

ChildRecovers ==
  /\ child.at = "recover" /\ authority' = "live"
  /\ \/ credential' = "enrolled" /\ ChildTo("send") /\ UNCHANGED events
     \/ Happens("lost") /\ ChildTo("failed") /\ UNCHANGED credential
  /\ UNCHANGED <<removal, files, unit, run, stops>>

ChildRevokes ==
  /\ child.at = "send" /\ authority' = "revoked"
  /\ \/ ChildTo("evidence") /\ UNCHANGED events
     \/ Happens("lost") /\ ChildTo("failed")
  /\ UNCHANGED <<removal, files, credential, unit, run, stops>>

ChildSavesEvidence ==
  /\ child.at = "evidence" /\ credential' = "acknowledged"
  /\ child' = [child EXCEPT !.at = "clear", !.revoked = "confirmed"]
  /\ UNCHANGED <<removal, files, authority, unit, run, stops, events>>

Clears ==
  /\ child.at = "clear"
  /\ credential' = IF Attested THEN "cleared" ELSE "known"
  /\ child' = [child EXCEPT !.at = IF child.kind = "remove" THEN "delete" ELSE "answered",
                            !.identity = Identity(credential')]
  /\ UNCHANGED <<removal, files, authority, unit, run, stops, events>>

Deletes ==
  /\ child.at = "delete" /\ credential' = "none" /\ ChildTo("answered")
  /\ UNCHANGED <<removal, files, authority, unit, run, stops, events>>

ChildCrashes ==
  /\ child.at \notin Ended /\ Happens("crashes") /\ ChildTo("failed")
  /\ UNCHANGED <<removal, files, device, unit, run, stops>>

-----------------------------------------------------------------------------
\* Remove the files.  What is renamed, deleted or emptied is recorded first or
\* found again by looking.

Cleans ==
  /\ Here("clean") /\ removal.phase \in {"revoked", "cleanup"}
  /\ removal.revoked # "unknown" /\ removal.erased
  /\ SaveIn("cleanup") /\ Go("trees") /\ UNCHANGED <<files, device, procs, events>>

DiskStep(pc) == Go(pc) /\ UNCHANGED <<device, procs, events>>
Tree(t, s) == /\ tree' = [tree EXCEPT ![t] = s]
              /\ UNCHANGED <<removal, closing, fence, helper, context, halted, kept, staged>>

Moves(t) == tree[t] = "installed" /\ t \notin removal.moved /\ Tree(t, "moved")
RecordsMove(t) == /\ tree[t] = "moved" /\ t \notin removal.moved
                  /\ Save([removal EXCEPT !.moved = @ \cup {t}]) /\ UNCHANGED files
RecordsDeletion(t) == /\ tree[t] = "moved" /\ t \in removal.moved \ removal.deleting
                      /\ Save([removal EXCEPT !.deleting = @ \cup {t}]) /\ UNCHANGED files
DeletesTree(t) == /\ t \in removal.moved \cap removal.deleting
                  /\ \/ tree[t] = "moved" /\ Tree(t, "partial")
                     \/ tree[t] = "partial" /\ Tree(t, "gone")

\* One tree after the other.
Removed(t) == tree[t] = "gone" /\ t \in removal.moved
NextTree == CHOOSE t \in Trees : ~Removed(t)
RemovesTree ==
  /\ Here("trees") /\ DiskStep("trees")
  /\ \E t \in Trees : /\ ~Removed(t) /\ t = NextTree
                       /\ (Moves(t) \/ RecordsMove(t) \/ RecordsDeletion(t) \/ DeletesTree(t))

TreesGone == /\ Here("trees") /\ \A t \in Trees : Removed(t)
             /\ DiskStep(IF Adopted /\ staged THEN "unstage" ELSE "agent") /\ UNCHANGED <<removal, files>>

Unstages == /\ Here("unstage") /\ Save([removal EXCEPT !.unstaging = TRUE])
            /\ DiskStep("unstaging") /\ UNCHANGED files

RemovesStage ==
  /\ Here("unstaging") /\ staged' = FALSE /\ DiskStep("agent")
  /\ UNCHANGED <<removal, closing, fence, helper, context, halted, tree, kept>>

Unlinks(names) ==
  /\ kept' = kept \ names
  /\ UNCHANGED <<removal, closing, fence, helper, context, tree, staged>>

RemovesAgent == Here("agent") /\ Unlinks({"agent"}) /\ DiskStep("empty") /\ UNCHANGED halted

StartsEmptying ==
  /\ Here("empty") /\ (removal.emptying \/ StateFiles \subseteq kept)
  /\ Save([removal EXCEPT !.emptying = TRUE]) /\ DiskStep("state") /\ UNCHANGED files

RemovesState ==
  /\ Here("state") /\ DiskStep("state")
  /\ \/ \E f \in StateFiles \cap kept : Unlinks({f}) /\ UNCHANGED halted
     \/ halted # "none" /\ halted' = "none" /\ Unlinks({})

RemovesCurrent == /\ Here("state") /\ StateFiles \cap kept = {} /\ halted = "none"
                  /\ Unlinks({"current"}) /\ DiskStep("receipts") /\ UNCHANGED halted

RemovesReceipts ==
  /\ Here("receipts") /\ helper /\ UNCHANGED halted
  /\ \/ "install-receipt" \in kept /\ Unlinks({"install-receipt"}) /\ DiskStep("receipts")
     \/ "install-receipt" \notin kept /\ Unlinks({"owned-versions"}) /\ DiskStep("mark")

Marks ==
  /\ Here("mark") /\ closing' = (IF removal.adopted THEN "adopted" ELSE "plain") /\ DiskStep("unjournal")
  /\ UNCHANGED <<removal, fence, helper, context, halted, tree, kept, staged>>

RemovesJournal == Here("unjournal") /\ Save(NoRemoval) /\ DiskStep("unhelp") /\ UNCHANGED files

\* The marker alone is enough to finish.
Finishes ==
  /\ Here("idle") /\ ~Removing /\ closing # "none" /\ Go("unhelp")
  /\ UNCHANGED <<removal, files, device, procs, events>>

RemovesHelper ==
  /\ Here("unhelp") /\ (run.guard \/ Unloaded) /\ helper' = FALSE
  /\ run' = [pc |-> "unfence", guard |-> TRUE] /\ UNCHANGED <<device, procs, events>>
  /\ UNCHANGED <<removal, closing, fence, context, halted, tree, kept, staged>>

RemovesFence ==
  /\ Here("unfence") /\ fence' = FALSE /\ DiskStep("unmark")
  /\ UNCHANGED <<removal, closing, helper, context, halted, tree, kept, staged>>

Unmarks ==
  /\ Here("unmark") /\ closing' = "none" /\ Exit /\ UNCHANGED <<device, procs, events>>
  /\ UNCHANGED <<removal, fence, helper, context, halted, tree, kept, staged>>

-----------------------------------------------------------------------------
Surroundings == DaemonCrashes \/ JobBegins \/ AsksToDrain \/ SignIn \/ SessionChanges

RunSteps ==
  run.pc # "idle" /\
    \/ Prepares \/ StagesRelease \/ Supersedes \/ Qualifies \/ AdmitsStopped \/ AdmitsRunning
    \/ FindsNoMarker \/ Drains \/ AlreadyDrained \/ Confirms \/ Intends \/ RequestsStop \/ BootsOut \/ CannotSpawn
    \/ BootoutFails \/ Awaited \/ Verifies \/ Refuses
    \/ ChecksPreparedStopped \/ Captures \/ Asks \/ Identifies \/ LogsOut \/ LoggedOut
    \/ SettlesAbsence \/ Erases \/ Erased \/ ChildFailed
    \/ Cleans \/ RemovesTree \/ TreesGone \/ Unstages \/ RemovesStage \/ RemovesAgent
    \/ StartsEmptying \/ RemovesState \/ RemovesCurrent \/ RemovesReceipts \/ Marks
    \/ RemovesJournal \/ RemovesHelper \/ RemovesFence \/ Unmarks

ChildSteps ==
  child.at \notin Ended /\
    (ChildReads \/ ChildRecovers \/ ChildRevokes \/ ChildSavesEvidence \/ Clears \/ Deletes)

Again == Resumes \/ Finishes

RemovalNext ==
  \/ Surroundings \/ DaemonStarts \/ JobEnds \/ WritesDrain \/ BootoutEnds
  \/ Begins \/ Adopts \/ Again \/ RunSteps \/ RunCrashes \/ StopsWaiting
  \/ ChildSteps \/ ChildCrashes

RemovalSpec == RemovalInit /\ [][RemovalNext]_removalVars

\* The operator repeats the command until the installation is gone; processes run
\* on, jobs end, and launchd does what it was asked.
RemovalFairness ==
  /\ WF_removalVars(Again) /\ WF_removalVars(RunSteps) /\ WF_removalVars(ChildSteps)
  /\ WF_removalVars(JobEnds) /\ WF_removalVars(WritesDrain) /\ WF_removalVars(BootoutEnds)

RemovalFairSpec == RemovalSpec /\ RemovalFairness

-----------------------------------------------------------------------------
\* Nothing of the installation is removed, and the credential is not deleted, while
\* the device may still act with it: the daemon is stopped and stays stopped, and
\* the backend has confirmed the revocation of whatever it ever issued, however
\* often the run or its child died between the request, its answer, the evidence
\* and the deletion (bootstrap_uninstall.rs:1146-1187, auth.rs:2252-2395).
Touched == kept # Everything \/ \E t \in Trees : tree[t] # "installed"
RemovalIsEarned ==
  /\ authority = "live" => credential \in {"pending", "enrolled"}
  /\ child.at \notin Ended \/ Touched => ~unit.up
  /\ Touched => credential = "none" /\ authority # "live"

\* launchctl is asked at most once to stop the service, and when it is, the process
\* it stops is the one that was drained and found idle, or there is none; a
\* possibly dispatched request is never repeated (bootstrap_uninstall.rs:1048-1117).
StopsOnceIdle ==
  [][stops' # stops => /\ stops = 0 /\ removal.request = "unconfirmed"
                       /\ unit.up => unit.drained /\ ~unit.work /\ unit.pid = removal.pid]_removalVars

\* What keeps a removal from going on without help from outside: a loaded service
\* whose daemon refuses to run while the removal is recorded, work only that
\* daemon could finish, a stop request nobody may repeat, a sign-in the drained
\* daemon no longer completes, and another installation than the recorded one.
RemovalStopped ==
  \/ unit.loaded /\ ~unit.up /\ ~unit.stopping
  \/ unit.work /\ ~unit.up
  \/ Removing /\ removal.request = "unconfirmed" /\ unit.loaded /\ ~unit.stopping
  \/ unit.drained /\ ~SignInSettled
  \/ Removing /\ ~removal.erased /\ ~Fits(removal, Identity(credential))
     /\ removal.phase \in {"prepared", "idle_verified", "stop_intent", "stopped"}

\* And a service that was drained by somebody else, whose marker the removal
\* refuses as long as it runs.
RemovalStranded ==
  \/ RemovalStopped
  \/ /\ Removing /\ halted = "other" /\ unit.loaded
     /\ removal.phase = "prepared" \/ removal.request = "prepared"

\* A removal that was recorded is completed by repeating it, whatever run, child or
\* request failed and in whichever phase, unless it is stranded and stays so.
RemovalRuns == Removing \/ closing # "none"
UninstallEnds == RemovalRuns ~> ~RemovalRuns \/ []RemovalStranded

\* "Uninstall drains work and revokes Loomex credentials before removing owned files"
\* (README.md:74): a service that is up, idle and drained needs no help.
DrainedIsRemoved == RemovalRuns ~> ~RemovalRuns \/ []RemovalStopped
=============================================================================
