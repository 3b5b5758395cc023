----------------------------- MODULE Supervisor -----------------------------
(***************************************************************************)
(* Admission and its accounting (src/src/jobs/supervisor.rs, the control   *)
(* writers, logout, organization selection, drain and shutdown of          *)
(* src/src/control.rs).  One admission lock orders the flags; three        *)
(* counters say how much work there is; an installer that has read "drained*)
(* and idle" replaces the daemon.  What a job does is JobLifecycle's.      *)
(***************************************************************************)
EXTENDS Integers, FiniteSets

CONSTANTS Orgs, Jobs, Calls,
          Home,         \* the organization of each job
          Method,       \* the control method of each call
          Crashes,      \* bound on daemon deaths
          Conflicts     \* bound on logouts that fail before their intent

Methods == {"drain", "logout", "select", "cancel", "read", "write"}

ASSUME HomeAssumption == Home \in [Jobs -> Orgs]
ASSUME MethodAssumption == Method \in [Calls -> Methods]
ASSUME BoundAssumption == Crashes \in Nat /\ Conflicts \in Nat
ASSUME FiniteAssumption == IsFiniteSet(Orgs) /\ IsFiniteSet(Jobs) /\ IsFiniteSet(Calls)

VARIABLES
    draining, logoutRequested, stopping,    \* flags of the ExecutionSupervisor
    lifecycle,      \* Daemon.lifecycle_draining
    drainFile,      \* durable: drain.json
    active, quiescence, managed,            \* the counters
    serve,          \* "serving", "closing", "waiting", "exited"
    runner,         \* jobs::run: "loop", "joining", "done"
    session,        \* the session task of each organization
    work,           \* what holds each job
    call,           \* how far each control call has come
    exposed,        \* history: waiting logouts whose gate another logout opened
    auth,           \* durable: "in", "pending" (logout intent), "out"
    enrolled,       \* durable: organizations with a child credential
    idleSeen,       \* external: an installer has read "drained, 0 active"
    left            \* crashes and early logout failures still to come

gate == <<logoutRequested, exposed>>
flags == <<draining, gate, stopping, lifecycle>>
counters == <<active, quiescence, managed>>
tasks == <<session, work>>
account == <<auth, enrolled>>
daemon == <<serve, runner>>
vars == <<flags, drainFile, counters, daemon, tasks, call, account, idleSeen, left>>

SessionPCs == {"none", "spawned", "opening", "loop", "leasing", "closing"}
WorkStates == {"new", "left", "worker", "recovery", "done"}
CallPCs == {"new", "admitted", "gated", "quiet", "revoking", "selected",
            "ending", "done"}

TypeOK ==
    /\ draining \in BOOLEAN /\ logoutRequested \in BOOLEAN
    /\ stopping \in BOOLEAN /\ lifecycle \in BOOLEAN /\ drainFile \in BOOLEAN
    /\ active \in Nat /\ quiescence \in Nat /\ managed \in Nat
    /\ serve \in {"serving", "closing", "waiting", "exited"}
    /\ runner \in {"loop", "joining", "done"}
    /\ session \in [Orgs -> SessionPCs]
    /\ work \in [Jobs -> WorkStates]
    /\ call \in [Calls -> CallPCs]
    /\ auth \in {"in", "pending", "out"} /\ enrolled \in SUBSET Orgs
    /\ idleSeen \in BOOLEAN /\ exposed \subseteq Calls
    /\ left \in [crash : Nat, conflict : Nat]

Init ==
    /\ drainFile \in BOOLEAN /\ draining = drainFile /\ lifecycle = drainFile
    /\ logoutRequested = FALSE /\ stopping = FALSE
    /\ active = 0 /\ quiescence = 0 /\ managed = 0
    /\ serve = "serving" /\ runner = "loop"
    /\ session = [o \in Orgs |-> "none"]
    /\ work \in [Jobs -> {"new", "left"}]
    /\ call = [c \in Calls |-> "new"]
    /\ auth = "in" /\ enrolled = Orgs
    /\ idleSeen = FALSE /\ exposed = {}
    /\ left = [crash |-> Crashes, conflict |-> Conflicts]

Up == serve # "exited"
Admits == ~draining /\ ~logoutRequested
Reaches(o) == auth = "in" /\ o \in enrolled
Workers(o) == {j \in Jobs : Home[j] = o /\ work[j] = "worker"}

\* n more active and m more quiescence owners; begin_* and end_* also manage.
Count(n, m) == /\ active' = active + n
               /\ quiescence' = quiescence + m
               /\ managed' = managed + n + m
Manage(n) == managed' = managed + n /\ UNCHANGED <<active, quiescence>>
-----------------------------------------------------------------------------
\* One turn of jobs::run starts a task for an enrolled organization.
SpawnSession(o) ==
    /\ Up /\ runner = "loop" /\ ~stopping /\ Admits /\ Reaches(o)
    /\ session[o] = "none"
    /\ session' = [session EXCEPT ![o] = "spawned"]
    /\ UNCHANGED <<flags, drainFile, counters, daemon, work, call, account, idleSeen, left>>

AdmitSession(o) ==
    /\ Up /\ session[o] = "spawned"
    /\ IF Admits
       THEN session' = [session EXCEPT ![o] = "opening"] /\ Count(0, 1)
       ELSE session' = [session EXCEPT ![o] = "none"] /\ UNCHANGED counters
    /\ UNCHANGED <<flags, drainFile, daemon, work, call, account, idleSeen, left>>

Left(o) == {j \in Jobs : Home[j] = o /\ work[j] = "left"}

\* recover(): one task for each journal nobody owns.
Recover(mine) ==
    work' = [j \in Jobs |-> IF j \in mine THEN "recovery" ELSE work[j]]

\* POST sessions, recovery of what an earlier owner left, then the heartbeat.
OpenSession(o) ==
    /\ Up /\ session[o] = "opening" /\ Reaches(o)
    /\ Recover(Left(o)) /\ Count(Cardinality(Left(o)), 1)
    /\ session' = [session EXCEPT ![o] = "loop"]
    /\ UNCHANGED <<flags, drainFile, daemon, call, account, idleSeen, left>>

\* Mutant of OpenFails: the heartbeat, not yet started, is dropped as well.
OpenFailsTwice(o) ==
    /\ Up /\ session[o] = "opening"
    /\ session' = [session EXCEPT ![o] = "none"] /\ Count(0, -2)
    /\ UNCHANGED <<flags, drainFile, daemon, work, call, account, idleSeen, left>>

\* The request fails, or recovery stops at a journal it cannot rewrite.
OpenFails(o) ==
    /\ Up /\ session[o] = "opening"
    /\ \E mine \in SUBSET Left(o) :
         /\ Reaches(o) \/ mine = {}
         /\ Recover(mine) /\ Count(Cardinality(mine), -1)
    /\ session' = [session EXCEPT ![o] = "none"]
    /\ UNCHANGED <<flags, drainFile, daemon, call, account, idleSeen, left>>

\* The next lease poll, or the end of the loop.
Poll(o) ==
    /\ Up /\ session[o] = "loop"
    /\ IF Admits
       THEN session' = [session EXCEPT ![o] = "leasing"] /\ Count(0, 1)
       ELSE session' = [session EXCEPT ![o] = "closing"] /\ UNCHANGED counters
    /\ UNCHANGED <<flags, drainFile, daemon, work, call, account, idleSeen, left>>

\* A worker has lost its session.
Reconnect(o) ==
    /\ Up /\ session[o] = "loop"
    /\ session' = [session EXCEPT ![o] = "closing"]
    /\ UNCHANGED <<flags, drainFile, counters, daemon, work, call, account, idleSeen, left>>

\* The poll brings a job, whose worker counts twice, or nothing, or an error.
Lease(o) ==
    /\ Up /\ session[o] = "leasing"
    /\ \/ \E j \in Jobs :
            /\ Home[j] = o /\ work[j] = "new" /\ Reaches(o)
            /\ work' = [work EXCEPT ![j] = "worker"]
            /\ session' = [session EXCEPT ![o] = "loop"]
            /\ Count(1, 0)
       \/ session' = [session EXCEPT ![o] = "loop"] /\ Count(0, -1) /\ UNCHANGED work
       \/ session' = [session EXCEPT ![o] = "closing"] /\ Count(0, -1) /\ UNCHANGED work
    /\ UNCHANGED <<flags, drainFile, daemon, call, account, idleSeen, left>>

WorkerEnds(j) ==
    /\ Up /\ work[j] = "worker"
    /\ work' = [work EXCEPT ![j] = "done"] /\ Count(-1, -1)
    /\ UNCHANGED <<flags, drainFile, daemon, session, call, account, idleSeen, left>>

RecoveryEnds(j) ==
    /\ Up /\ work[j] = "recovery"
    /\ work' = [work EXCEPT ![j] = "done"] /\ Count(-1, 0)
    /\ UNCHANGED <<flags, drainFile, daemon, session, call, account, idleSeen, left>>

\* drain_owned_workers(), then heartbeat and session admission are dropped.
CloseSession(o) ==
    /\ Up /\ session[o] = "closing" /\ Workers(o) = {}
    /\ session' = [session EXCEPT ![o] = "none"] /\ Count(0, -2)
    /\ UNCHANGED <<flags, drainFile, daemon, work, call, account, idleSeen, left>>
-----------------------------------------------------------------------------
At(c, pc) == call' = [call EXCEPT ![c] = pc]

Refuse(c) == At(c, "done") /\ UNCHANGED <<flags, counters>>

\* Mutant of Join: any total may be joined.
JoinAlways(c) == At(c, "admitted") /\ Manage(1) /\ UNCHANGED flags

\* join_drain(): only a nonzero total is incremented.
Join(c) == IF managed > 0 THEN At(c, "admitted") /\ Manage(1) /\ UNCHANGED flags
                          ELSE Refuse(c)

\* control_writer(), under the admission lock.
Enter(c) ==
    /\ Up /\ call[c] = "new"
    /\ LET m == Method[c] IN
         \/ lifecycle /\ m \in {"logout", "write", "select"} /\ Refuse(c)
         \/ lifecycle /\ m = "drain" /\ drainFile /\ Refuse(c)
         \/ lifecycle /\ m \in {"cancel", "read"} /\ Join(c)
         \/ ~lifecycle /\ draining /\ m = "write" /\ Refuse(c)
         \/ /\ lifecycle => m = "drain" /\ ~drainFile
            /\ ~lifecycle => ~draining \/ m # "write"
            /\ At(c, "admitted") /\ Manage(1)
            /\ IF m = "drain" THEN lifecycle' = TRUE /\ draining' = TRUE
                              ELSE UNCHANGED <<lifecycle, draining>>
            /\ UNCHANGED <<gate, stopping>>
    /\ UNCHANGED <<drainFile, daemon, tasks, account, idleSeen, left>>

\* Cancellations, reads and ordinary writes: their effects are not modelled.
Serve(c) ==
    /\ Up /\ call[c] = "admitted" /\ Method[c] \in {"cancel", "read", "write"}
    /\ At(c, "ending")
    /\ UNCHANGED <<flags, drainFile, counters, daemon, tasks, account, idleSeen, left>>

\* daemon.drain: the marker becomes durable, unless its write fails.
MarkDrain(c) ==
    /\ Up /\ call[c] = "admitted" /\ Method[c] = "drain"
    /\ draining' = TRUE
    /\ drainFile' \in {drainFile, TRUE}
    /\ At(c, "ending")
    /\ UNCHANGED <<gate, stopping, lifecycle, counters, daemon, tasks, account, idleSeen, left>>

\* Mutant of GateLogout: new leases are not held back.
GateLogoutOpen(c) ==
    /\ Up /\ call[c] = "admitted" /\ Method[c] = "logout"
    /\ At(c, IF active > 0 THEN "ending" ELSE "gated")
    /\ UNCHANGED <<flags, drainFile, counters, daemon, tasks, account, idleSeen, left>>

\* auth.logout: refused over active work, else lease admission closes.
GateLogout(c) ==
    /\ Up /\ call[c] = "admitted" /\ Method[c] = "logout"
    /\ IF active > 0
       THEN At(c, "ending") /\ UNCHANGED logoutRequested
       ELSE At(c, "gated") /\ logoutRequested' = TRUE
    /\ UNCHANGED <<exposed, draining, stopping, lifecycle, drainFile, counters, daemon, tasks, account, idleSeen, left>>

\* Mutant of EndLogout: the gate stays shut.
EndLogoutShut(c) == At(c, "ending") /\ UNCHANGED gate

\* LogoutAdmission is dropped; it does not ask whose gate it opens.
EndLogout(c) ==
    /\ At(c, "ending") /\ logoutRequested' = FALSE
    /\ exposed' = exposed \cup {d \in Calls \ {c} : call[d] \in {"gated", "quiet"}}

\* Idle sessions have 40 s to leave.
AwaitQuiet(c) ==
    /\ Up /\ call[c] = "gated"
    /\ \/ active + quiescence = 0 /\ At(c, "quiet") /\ UNCHANGED gate
       \/ active + quiescence > 0 /\ EndLogout(c)
    /\ UNCHANGED <<draining, stopping, lifecycle, drainFile, counters, daemon, tasks, account, idleSeen, left>>

AuthLocked == \E c \in Calls : call[c] = "revoking"

\* Auth::logout records its intent, under the auth lock ...
RecordLogout(c) ==
    /\ Up /\ call[c] = "quiet" /\ ~AuthLocked
    /\ auth' = "pending" /\ At(c, "revoking")
    /\ UNCHANGED <<flags, drainFile, counters, daemon, tasks, enrolled, idleSeen, left>>

\* ... unless the lock or the credential store is not to be had in 2 s.
LogoutConflict(c) ==
    /\ Up /\ call[c] = "quiet" /\ left.conflict > 0
    /\ left' = [left EXCEPT !.conflict = @ - 1]
    /\ EndLogout(c)
    /\ UNCHANGED <<draining, stopping, lifecycle, drainFile, counters, daemon, tasks, account, idleSeen>>

\* The backend revokes the device, or the logout stays pending.
Revoke(c) ==
    /\ Up /\ call[c] = "revoking"
    /\ \/ auth' = "out" /\ enrolled' = {}
       \/ UNCHANGED account
    /\ EndLogout(c)
    /\ UNCHANGED <<draining, stopping, lifecycle, drainFile, counters, daemon, tasks, idleSeen, left>>

\* organizations.select enrolls over the network, then opens admission again.
Select(c) ==
    /\ Up /\ call[c] = "admitted" /\ Method[c] = "select"
    /\ \/ /\ auth = "in" /\ ~AuthLocked
          /\ \E o \in Orgs : enrolled' = enrolled \cup {o}
          /\ At(c, "selected")
       \/ At(c, "ending") /\ UNCHANGED enrolled
    /\ UNCHANGED <<flags, drainFile, counters, daemon, tasks, auth, idleSeen, left>>

\* Mutant of Reopen: whoever asked for the drain.
ReopenAlways(c) ==
    /\ Up /\ call[c] = "selected"
    /\ draining' = FALSE /\ At(c, "ending")
    /\ UNCHANGED <<gate, stopping, lifecycle, drainFile, counters, daemon, tasks, account, idleSeen, left>>

Reopen(c) ==
    /\ Up /\ call[c] = "selected"
    /\ draining' = (lifecycle /\ draining) /\ At(c, "ending")
    /\ UNCHANGED <<gate, stopping, lifecycle, drainFile, counters, daemon, tasks, account, idleSeen, left>>

\* The ControlWriter is dropped.
EndCall(c) ==
    /\ Up /\ call[c] = "ending"
    /\ At(c, "done") /\ Manage(-1)
    /\ UNCHANGED <<flags, drainFile, daemon, tasks, account, idleSeen, left>>
-----------------------------------------------------------------------------
\* SIGTERM: control::serve stops accepting and calls shutdown().
Shutdown ==
    /\ serve = "serving" /\ serve' = "closing"
    /\ stopping' = TRUE /\ draining' = TRUE
    /\ UNCHANGED <<gate, lifecycle, drainFile, counters, runner, tasks, call, account, idleSeen, left>>

StopRunner ==
    /\ Up /\ runner = "loop" /\ stopping
    /\ runner' = "joining"
    /\ UNCHANGED <<flags, drainFile, counters, serve, tasks, call, account, idleSeen, left>>

\* Session tasks first, then join_recovery().
JoinRunner ==
    /\ Up /\ runner = "joining"
    /\ \A o \in Orgs : session[o] = "none"
    /\ \A j \in Jobs : work[j] # "recovery"
    /\ runner' = "done" /\ serve' = "waiting"
    /\ UNCHANGED <<flags, drainFile, counters, tasks, call, account, idleSeen, left>>

\* Open connections are served until nothing is managed any more.
Exit ==
    /\ serve = "waiting" /\ managed = 0
    /\ serve' = "exited"
    /\ UNCHANGED <<flags, drainFile, counters, runner, tasks, call, account, idleSeen, left>>

\* The daemon dies and is started again; its marker and its journals remain.
Crash ==
    /\ Up /\ left.crash > 0
    /\ left' = [left EXCEPT !.crash = @ - 1]
    /\ draining' = drainFile /\ lifecycle' = drainFile
    /\ logoutRequested' = FALSE /\ stopping' = FALSE
    /\ active' = 0 /\ quiescence' = 0 /\ managed' = 0
    /\ serve' = "serving" /\ runner' = "loop"
    /\ session' = [o \in Orgs |-> "none"]
    /\ work' = [j \in Jobs |-> IF work[j] \in {"worker", "recovery"} THEN "left" ELSE work[j]]
    /\ call' = [c \in Calls |-> IF call[c] = "new" THEN "new" ELSE "done"]
    /\ UNCHANGED <<exposed, drainFile, account, idleSeen>>

\* An installer's status.get after an accepted drain.
SeeIdle ==
    /\ Up /\ ~idleSeen /\ drainFile /\ draining /\ managed = 0
    /\ idleSeen' = TRUE
    /\ UNCHANGED <<flags, drainFile, counters, daemon, tasks, call, account, left>>
-----------------------------------------------------------------------------
SessionStep(o) == \/ AdmitSession(o) \/ OpenSession(o) \/ OpenFails(o) \/ Poll(o)
                  \/ Lease(o) \/ CloseSession(o)
CallStep(c) == \/ Serve(c) \/ MarkDrain(c) \/ GateLogout(c) \/ AwaitQuiet(c)
               \/ RecordLogout(c) \/ LogoutConflict(c) \/ Revoke(c) \/ Select(c)
               \/ Reopen(c) \/ EndCall(c)

Next == \/ \E o \in Orgs : SpawnSession(o) \/ SessionStep(o) \/ Reconnect(o)
        \/ \E j \in Jobs : WorkerEnds(j) \/ RecoveryEnds(j)
        \/ \E c \in Calls : Enter(c) \/ CallStep(c)
        \/ Shutdown \/ StopRunner \/ JoinRunner \/ Exit \/ Crash \/ SeeIdle

Spec == Init /\ [][Next]_vars

\* Tasks are polled, requests answered within their timeouts; jobs end.
Fairness == /\ \A o \in Orgs : WF_vars(SessionStep(o))
            /\ \A j \in Jobs : WF_vars(WorkerEnds(j)) /\ WF_vars(RecoveryEnds(j))
            /\ \A c \in Calls : WF_vars(CallStep(c))
            /\ WF_vars(StopRunner) /\ WF_vars(JoinRunner) /\ WF_vars(Exit)

FairSpec == Spec /\ Fairness
-----------------------------------------------------------------------------
SessionsIn(pcs) == Cardinality({o \in Orgs : session[o] \in pcs})
WorkIn(states) == Cardinality({j \in Jobs : work[j] \in states})
Writers == {c \in Calls : call[c] \notin {"new", "done"}}

CountersMatchOwners ==
    /\ active = WorkIn({"worker", "recovery"})
    /\ quiescence = SessionsIn({"opening", "loop", "leasing", "closing"})
                    + SessionsIn({"loop", "leasing", "closing"})
                    + SessionsIn({"leasing"}) + WorkIn({"worker"})
    /\ managed = active + quiescence + Cardinality(Writers)

NothingRuns ==
    /\ managed = 0 /\ Writers = {}
    /\ \A o \in Orgs : session[o] \in {"none", "spawned"}
    /\ \A j \in Jobs : work[j] \notin {"worker", "recovery"}

(***************************************************************************)
(* Every counter is the number of its owners, whichever of them ended      *)
(* first: nothing is leaked, nothing counted twice or below zero.  The     *)
(* idle acknowledgement read from them is final: after an installer has    *)
(* read "drained" and no active job, no job, session or writer begins in   *)
(* this daemon or in one started after it (control.rs:666, "it must not    *)
(* create another journal writer after an installer observed idle").  And  *)
(* a logout "closes lease admission and waits for idle sessions and        *)
(* heartbeats to exit before recording logout intent"                      *)
(* (docs/operations.md:48): no session runs and no job is active when the  *)
(* intent becomes durable.  With any number of logouts: the one exception  *)
(* is a logout whose gate another one has opened (run supervisor_logouts). *)
(***************************************************************************)
Records(c) == call[c] = "quiet" /\ call'[c] = "revoking"

IdleIsFinal ==
    [][/\ CountersMatchOwners' /\ (idleSeen' => NothingRuns')
       /\ \A c \in Calls \ exposed : Records(c) => active = 0 /\ quiescence = 0]_vars

(***************************************************************************)
(* The same of every logout, as docs/operations.md:48 has it.              *)
(***************************************************************************)
LogoutIsQuiet == [][\A c \in Calls : Records(c) => active = 0 /\ quiescence = 0]_vars

(***************************************************************************)
(* A durable drain is not reopened by a selection that was under way.      *)
(***************************************************************************)
DrainHolds == drainFile => lifecycle /\ draining

(***************************************************************************)
(* "Graceful daemon shutdown closes admission" (docs/architecture.md:203): *)
(* once it was asked to stop, the daemon polls for no more jobs.           *)
(***************************************************************************)
ShutdownClosesAdmission ==
    [][\A o \in Orgs : stopping /\ session'[o] = "leasing" => session[o] = "leasing"]_vars

(***************************************************************************)
(* Without a deadline on current work a drain still reaches idle, the      *)
(* temporary gate of a logout is released on completion or failure, and a  *)
(* daemon asked to stop exits once its work is over.                       *)
(***************************************************************************)
DrainsEnd ==
    /\ drainFile ~> managed = 0
    /\ logoutRequested ~> ~logoutRequested
    /\ stopping ~> serve = "exited" \/ ~stopping
=============================================================================
