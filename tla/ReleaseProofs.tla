---------------------------- MODULE ReleaseProofs ----------------------------
(***************************************************************************)
(* What is proved about ReleaseLifecycle and ReleasePrune: their inductive  *)
(* invariant ReleaseInv, kept by every step of a controller, of launchd, of *)
(* the daemon and of its user, and from it the type of every variable, what *)
(* the disk and the journal owe each other, and that nothing is exchanged,  *)
(* stopped or deleted under work.                                           *)
(***************************************************************************)
EXTENDS ReleasePrune, TLAPS

-----------------------------------------------------------------------------
\* Where a controller is in an exchange, and in a removal of versions.
AtStop == {"request", "send", "sent", "observe", "switch", "configure", "undrain", "bootstrap",
           "health", "reconcile_stop", "stop_judge", "stop_health"}
ReleasePcs == {"release", "release_remove", "kickstart", "released"}
AbandonPcs == {"abandon", "prepare", "kickstart"} \cup AtStop
ExchangePcs == {"backup", "drain", "idle_check", "restore", "restore_idle", "recover", "reconcile"}
                 \cup ReleasePcs \cup AbandonPcs
DeletePcs == {"prune_moved", "prune_delete", "prune_remove"}
TargetPcs == {"prune_targets", "prune_metadata"} \cup DeletePcs
EndPcs == {"prune_finish", "prune_release", "prune_restart", "prune_health", "prune_clear"}
PrunePcs == {"prune", "prune_acquire", "prune_acquired", "prune_verify"} \cup TargetPcs \cup EndPcs

Markers == {None, "update", "prune"}
Intents == [dir : Directions, target : Versions, plist : Versions \cup {None}, drain : Markers,
            pid : Pids \cup {NoPid}, request : Requests]
ExchangePhases == {"prepared", "draining", "pending_active_work", "service_stop_pending",
                   "service_stopped", "pointer_switched", "candidate_started", "recovery_required",
                   "abandonment_pending"} \cup Terminal
Checkpoints == {"resources_captured", "daemon_drained", "daemon_has_active_work",
                "service_stop_intent_prepared", "service_stop_dispatching",
                "service_stop_requested",
                "reviewed_stop_dispatching", "old_service_stop_verified",
                "old_service_stop_unconfirmed", "stopped_pointer_and_plist_switched",
                "stopped_service_bootstrapped", "stopped_service_healthy",
                "stopped_service_healthy_after_reconciliation", "previous_service_healthy",
                "candidate_healthy_after_reconciliation", "pending_update_abandonment_intent",
                "service_stop_reconciliation_required", "previous_service_restore_unconfirmed",
                "not_safe_to_restore", "not_reconciled"} \cup Kept
Exchanges == [kind : Kinds, phase : ExchangePhases, checkpoint : Checkpoints, package : Versions,
              previous : Versions, backup : Versions \cup {None}, staged : Versions \cup {None},
              stops : Seq(Intents), abandoned : BOOLEAN, reviewed : BOOLEAN,
              pid : Pids \cup {NoPid}]
PlanPhases == {"prepared", "draining", "deleting", "metadata", "drain_release_pending", "completed"}
Plans == [kind : {"prune"}, phase : PlanPhases, targets : SUBSET Versions, retain : SUBSET Versions,
          current : Versions, agent : Versions \cup {None}, moved : SUBSET Versions,
          deleting : SUBSET Versions]
Daemons == [state : {"up", "stopping", "down"}, version : Versions \cup {None},
            pid : Pids \cup {NoPid}, drained : BOOLEAN, work : BOOLEAN, stray : BOOLEAN]
Thens == {None, "health", "recover", "reconcile", "stop_health", "suspect"}
Controllers == [pc : {"idle"} \cup ExchangePcs \cup PrunePcs,
                by : {None, "activate", "resume", "reinstall", "abandon", "reviewed", "prune"},
                dir : Directions \cup {None}, restoring : BOOLEAN, held : BOOLEAN, then : Thens]
Places == {"whole", "aside", "partial", "gone"}

Typed ==
    /\ ptr \in Versions /\ plist \in Versions \cup {None} /\ drain \in Markers
    /\ owned \in SUBSET Versions /\ op \in Exchanges \cup Plans \cup {NoOperation}
    /\ label \in {"loaded", "absent"} /\ bootout \in BOOLEAN /\ daemon \in Daemons
    /\ ctl \in Controllers /\ sends \in Nat /\ evidence \in BOOLEAN
    /\ dirs \in [Versions -> Places]

\* A stop of the journal that may have been sent is not the one to be sent.
Unsent == /\ Last.request = "prepared"
          /\ op.abandoned \/ Last.pid = NoPid \/ (evidence /\ Len(Stops) = 1)

JournalKnows == op.kind \in Kinds =>
    /\ Len(Stops) <= 2 /\ (Len(Stops) = 2 => Stops[1].request = "stopped")
    /\ op.phase = "service_stop_pending" => Stops # <<>>
    /\ op.abandoned => /\ ptr = op.previous
                       /\ Stops = <<>> <=> op.phase = "abandonment_pending"
                       /\ Stops = <<>> => drain # None
                       /\ \A i \in 1..Len(Stops) : Stops[i].dir = "restore"
    /\ op.reviewed => /\ Stops # <<>> /\ ~op.abandoned
                      /\ Stops[1].pid # NoPid /\ Stops[1].request # "prepared"
    /\ \A i \in 1..Len(Stops) : Stops[i].pid # NoPid => Stops[i].drain # None
    /\ evidence => Stops # <<>> /\ ~op.abandoned
    /\ Stops # <<>> /\ Unsent => sends = 0
    /\ ctl = Idle /\ op.phase = "completed" => ptr = op.package /\ plist = op.staged /\ drain = None
    /\ ctl = Idle /\ op.phase = "rolled_back" =>
         ptr = op.previous /\ plist = op.backup /\ drain = None

\* Who is at work, on what.
ControllerFits(c) ==
    /\ c.pc = "idle" => c = Idle
    /\ c.pc \in ExchangePcs => op.kind \in Kinds /\ op.phase \notin Terminal
    /\ c.pc \in PrunePcs => op.kind = "prune"
    /\ c.pc \in AtStop => Stops # <<>>
    /\ c.pc \in ExchangePcs /\ op.abandoned =>
         /\ c.pc \in AbandonPcs /\ c.by = "abandon" /\ ~c.restoring
         /\ Stops = <<>> => c.pc \in {"abandon", "prepare"}
         /\ c.pc = "prepare" => c.dir = "restore"
         /\ c.pc = "kickstart" => c.then = "health"
    /\ c.pc \in ExchangePcs /\ ~op.abandoned => c.pc # "abandon"
    /\ c.pc \in ExchangePcs => c.dir \in Directions
    /\ c.pc \in ReleasePcs => c.then \in {"recover", "reconcile", "stop_health", "health"}
    /\ c.pc \in ReleasePcs \ {"kickstart"} => c.then # "health"
    /\ c.held => Down /\ c.pc \in {"send", "sent", "switch", "configure", "undrain"}
    /\ c.pc \in {"switch", "configure", "undrain"} => c.held
ControllerKnows == ControllerFits(ctl)

\* What has been sent, and that whoever is to be stopped is drained.
SendFits(c) ==
    /\ Up /\ ~daemon.drained => drain = None
    /\ Down => daemon = NoDaemon
    /\ c.pc \in {"idle_check", "restore_idle"} => drain # None
    /\ c.pc = "prepare" /\ Up /\ daemon.drained /\ ~daemon.stray => drain # None
    /\ c.pc \in {"request", "send"} => sends = 0
    /\ c.pc \in {"request", "send", "sent"} =>
         /\ evidence /\ Len(Stops) = 1 => Last.request # "prepared"
    /\ c.pc = "sent" => ~Unsent /\ sends <= 1
    /\ c.pc = "send" =>
         /\ ~Unsent
         /\ c.held \/ (Last.pid # NoPid /\ drain # None /\ (Up => daemon.drained /\ ~daemon.work))
SendKnows == SendFits(ctl)

\* How far the exchange is.
SwitchFits(c) ==
    /\ c.pc = "configure" => ptr = Target(Last)
    /\ c.pc \in {"undrain", "bootstrap", "health", "stop_judge", "stop_health"} =>
         ptr = Target(Last) /\ plist = Config(Last)
    /\ c.pc = "stop_health" /\ c.then = "suspect" => Last.dir = "activate"
    /\ c.pc \in ReleasePcs =>
         /\ c.then \in {"health", "stop_health"} =>
              Stops # <<>> /\ ptr = Target(Last) /\ plist = Config(Last)
         /\ c.then = "recover" => ptr = op.previous /\ plist = op.backup
    /\ c.pc = "recover" => ptr = op.previous /\ plist = op.backup
SwitchKnows == SwitchFits(ctl)

\* What is on disk.
TreesKnow ==
    /\ dirs[ptr] = "whole"
    /\ op.kind \in Kinds => dirs[op.package] = "whole" /\ dirs[op.previous] = "whole"
    /\ op.kind # "prune" => \A v \in owned : dirs[v] = "whole"
    /\ \A v \in Versions : dirs[v] = "partial" => op.kind = "prune" /\ v \in op.deleting
    /\ op.kind = "prune" =>
         /\ ptr = op.current /\ op.current \notin op.targets /\ op.targets \cap op.retain = {}
         /\ op.moved \subseteq op.targets /\ op.deleting \subseteq op.targets
         /\ \A v \in owned : dirs[v] = "whole" \/ v \in op.targets
         /\ \A v \in op.retain : v \in owned /\ dirs[v] = "whole"
         /\ op.phase = "completed" \/ ctl.pc \in EndPcs => owned \cap op.targets = {}
         /\ op.phase = "completed" \/ ctl.pc \in {"prune_release",
                                                  "prune_restart", "prune_health"} =>
              \A v \in op.targets : dirs[v] = "gone"
         /\ ctl.pc \in TargetPcs \cup {"prune_release", "prune_restart", "prune_health"} =>
              op.phase # "completed"
         /\ ctl.pc = "prune_clear" => op.phase = "completed"
         /\ ctl.pc \in DeletePcs =>
              /\ drain = "prune" /\ ~daemon.work /\ (Up => daemon.drained)
              /\ Todo # {} /\ dirs[First(Todo)] # "gone"
         /\ ctl.pc = "prune_moved" => dirs[First(Todo)] = "aside"
         /\ ctl.pc = "prune_remove" => First(Todo) \in op.deleting

ReleaseInv == Typed /\ JournalKnows /\ ControllerKnows /\ SendKnows /\ SwitchKnows /\ TreesKnow

-----------------------------------------------------------------------------
\* What a journal is, by its kind.
LEMMA JournalShape == Typed =>
    /\ op.kind \in Kinds => op \in Exchanges /\ op.kind # "prune"
    /\ op.kind = "prune" => op \in Plans /\ op.kind \notin Kinds
BY DEF Typed, Exchanges, Plans, NoOperation, Kinds, None

\* The stops of a journal are records of their type.
LEMMA StopShape ==
    ASSUME NEW o \in Exchanges
    PROVE  /\ o.stops \in Seq(Intents) /\ Len(o.stops) \in Nat
           /\ \A i \in 1..Len(o.stops) : o.stops[i] \in Intents
           /\ o.stops # <<>> => Len(o.stops) \in 1..Len(o.stops)
<1>1. o.stops \in Seq(Intents)
  BY DEF Exchanges
<1> QED
  BY <1>1

\* One journal is another with its stops, whose newest may have a different request.
Carries(q, o) ==
    /\ q \in Exchanges /\ q.kind = o.kind /\ q.package = o.package /\ q.previous = o.previous
    /\ q.backup = o.backup /\ q.staged = o.staged /\ q.abandoned = o.abandoned /\ q.pid = o.pid
    /\ Len(q.stops) = Len(o.stops)
    /\ \A i \in 1..Len(o.stops) :
         /\ q.stops[i].dir = o.stops[i].dir /\ q.stops[i].target = o.stops[i].target
         /\ q.stops[i].plist = o.stops[i].plist /\ q.stops[i].drain = o.stops[i].drain
         /\ q.stops[i].pid = o.stops[i].pid
         /\ i < Len(o.stops) => q.stops[i].request = o.stops[i].request

\* A checkpoint changes the phase and nothing else that counts.
LEMMA CheckpointShape ==
    ASSUME NEW o \in Exchanges, NEW p \in ExchangePhases, NEW c \in Checkpoints
    PROVE  LET q == Checkpoint(o, p, c)
           IN /\ Carries(q, o) /\ q.stops = o.stops /\ q.reviewed = o.reviewed
              /\ q.phase = p /\ q.checkpoint = c
<1>1. PICK q : q = Checkpoint(o, p, c)
  OBVIOUS
<1>2. q \in Exchanges
  BY <1>1 DEF Checkpoint, Exchanges
<1>3. /\ q.kind = o.kind /\ q.package = o.package /\ q.previous = o.previous /\ q.backup = o.backup
      /\ q.staged = o.staged /\ q.abandoned = o.abandoned /\ q.pid = o.pid /\ q.stops = o.stops
      /\ q.reviewed = o.reviewed /\ q.phase = p /\ q.checkpoint = c
  BY <1>1 DEF Checkpoint, Exchanges
<1> QED
  BY <1>1, <1>2, <1>3 DEF Carries

\* A request changes its stop and nothing else.
LEMMA RequestedShape ==
    ASSUME NEW o \in Exchanges, o.stops # <<>>, NEW r \in Requests
    PROVE  LET q == Requested(o, r)
           IN /\ Carries(q, o) /\ q.reviewed = o.reviewed /\ q.phase = o.phase
              /\ q.checkpoint = o.checkpoint /\ q.stops # <<>>
              /\ q.stops[Len(q.stops)].request = r
<1>1. PICK n : n = Len(o.stops)
  OBVIOUS
<1>2. n \in Nat /\ n \in 1..n /\ o.stops \in Seq(Intents) /\ o.stops[n] \in Intents
  BY <1>1, StopShape
<1>3. PICK s : s = [o.stops[n] EXCEPT !.request = r]
  OBVIOUS
<1>4. /\ s \in Intents /\ s.request = r /\ s.dir = o.stops[n].dir /\ s.target = o.stops[n].target
      /\ s.plist = o.stops[n].plist /\ s.drain = o.stops[n].drain /\ s.pid = o.stops[n].pid
  BY <1>2, <1>3 DEF Intents
<1>5. PICK t : t = [o.stops EXCEPT ![n] = s]
  OBVIOUS
<1>6. /\ t \in Seq(Intents) /\ Len(t) = n /\ t[n] = s
      /\ \A i \in 1..n : i # n => t[i] = o.stops[i]
  BY <1>1, <1>2, <1>4, <1>5
<1>7. PICK q : q = [o EXCEPT !.stops = t]
  OBVIOUS
<1>8. /\ q \in Exchanges /\ q.stops = t
      /\ q.kind = o.kind /\ q.package = o.package /\ q.previous = o.previous /\ q.backup = o.backup
      /\ q.staged = o.staged /\ q.abandoned = o.abandoned /\ q.pid = o.pid
      /\ q.reviewed = o.reviewed /\ q.phase = o.phase /\ q.checkpoint = o.checkpoint
  BY <1>6, <1>7 DEF Exchanges
<1>9. Requested(o, r) = q
  BY <1>1, <1>3, <1>5, <1>7 DEF Requested
<1>10. Carries(q, o)
  BY <1>1, <1>2, <1>4, <1>6, <1>8 DEF Carries
<1> QED
  BY <1>1, <1>2, <1>4, <1>6, <1>8, <1>9, <1>10

\* What becomes of a step that fails.
Protected(o) == \E c \in Checkpoints : op' = Checkpoint(o, "recovery_required", c)
\* What becomes of a step that fails: nothing, a restoration, or a protected journal.
LEMMA FailCases ==
    ASSUME Typed, NEW o \in Exchanges, Fail(o)
    PROVE  \/ op' = o /\ ctl' = Idle
           \/ /\ op' = o /\ ctl.by = "activate" /\ ~ctl.restoring
              /\ ctl' = [ctl EXCEPT !.pc = "restore", !.restoring = TRUE, !.held = FALSE]
           \/ Protected(o) /\ ctl' = Idle /\ ctl.by \in {"activate", "resume"}
<1>1. o.checkpoint \in Checkpoints
  BY DEF Exchanges
<1>2. ASSUME NEW c \in Checkpoints, op' = Checkpoint(o, "recovery_required", c) PROVE Protected(o)
  BY <1>2 DEF Protected
<1> QED
  BY <1>1, <1>2 DEF Fail, Checkpoints

-----------------------------------------------------------------------------
\* There is always an identifier no process of the journal has.
LEMMA FreshPidFree == ReleaseInv => FreshPid \in Pids
<1> SUFFICES ASSUME ReleaseInv
             PROVE  \E p \in Pids : p # daemon.pid /\ (op.kind \in Kinds => p \notin Recorded)
  BY DEF FreshPid
<1>1. CASE op.kind \notin Kinds
  BY <1>1 DEF Pids
<1>2. CASE op.kind \in Kinds
  <2>a. op \in Exchanges
    BY <1>2, JournalShape DEF ReleaseInv
  <2>b. Len(op.stops) \in Nat
    BY <2>a, StopShape
  <2>c. Len(op.stops) <= 2
    BY <1>2 DEF ReleaseInv, JournalKnows, Stops
  <2>1. \A i \in 1..Len(op.stops) : i = 1 \/ i = 2
    BY <2>b, <2>c
  <2>2. Recorded \subseteq {op.stops[1].pid, op.stops[2].pid, op.pid}
    BY <2>1 DEF Recorded
  <2>3. PICK p \in 1..5 : p \notin {op.stops[1].pid, op.stops[2].pid, op.pid, daemon.pid}
    <3>1. ASSUME NEW a, NEW b, NEW c, NEW d PROVE \E p \in 1..5 : p \notin {a, b, c, d}
      OBVIOUS
    <3> QED
      BY <3>1
  <2> QED
    BY <2>2, <2>3 DEF Pids
<1> QED
  BY <1>1, <1>2

\* launchd starts a daemon when nobody holds its lock; it is drained if there is a drain.
LEMMA LaunchdStartKeeps ==
    ASSUME ReleaseInv, LaunchdStart, UNCHANGED dirs
    PROVE  ReleaseInv'
<1>1. Typed'
  <2>1. daemon' \in Daemons
    BY FreshPidFree DEF ReleaseInv, Typed, Daemons, LaunchdStart, Booted, SingletonFree, Markers,
         None
  <2> QED
    BY <2>1 DEF ReleaseInv, Typed, LaunchdStart, disk, history
<1>2. JournalKnows'
  BY DEF ReleaseInv, JournalKnows, LaunchdStart, Booted, SingletonFree, disk, history, Stops,
       Last, Unsent
<1>3. ControllerKnows'
  BY DEF ReleaseInv, Typed, ControllerKnows, ControllerFits, LaunchdStart, Booted, SingletonFree,
       disk, history, Stops, AtStop, Idle, Up, Down, Daemons
<1>4. SendKnows'
  BY DEF ReleaseInv, Typed, SendKnows, SendFits, LaunchdStart, Booted, SingletonFree, disk,
       history, Stops, Last, Unsent, Up, Down, NoDaemon, Daemons
<1>5. SwitchKnows'
  BY DEF ReleaseInv, SwitchKnows, SwitchFits, LaunchdStart, Booted, SingletonFree, disk, history,
       Stops, Last, Target, Config
<1>a. /\ daemon'.drained = (drain # None) /\ ~daemon'.work
      /\ UNCHANGED <<drain, op, dirs, ctl, ptr, owned>>
  BY DEF LaunchdStart, Booted, disk
<1>6. TreesKnow'
  <2>1. Todo' = Todo
    BY <1>a DEF Todo, Done
  <2> QED
    BY <1>a, <2>1 DEF ReleaseInv, TreesKnow, None, Up
<1> QED
  BY <1>1, <1>2, <1>3, <1>4, <1>5, <1>6 DEF ReleaseInv

\* A daemon the user starts is drained as any other, and no exchange is under way with the lock.
LEMMA StrayStartKeeps ==
    ASSUME ReleaseInv, StrayStart, UNCHANGED dirs
    PROVE  ReleaseInv'
<1>1. Typed'
  <2>1. daemon' \in Daemons
    BY FreshPidFree DEF ReleaseInv, Typed, Daemons, StrayStart, Booted, SingletonFree, Spend,
         Markers, None
  <2> QED
    BY <2>1 DEF ReleaseInv, Typed, StrayStart, disk, history
<1>2. JournalKnows'
  BY DEF ReleaseInv, JournalKnows, StrayStart, Booted, SingletonFree, Spend, disk, history, Stops,
       Last, Unsent
<1>3. ControllerKnows'
  BY DEF ReleaseInv, Typed, ControllerKnows, ControllerFits, StrayStart, Booted, SingletonFree,
       Spend, disk, history, Stops, AtStop, Idle, Up, Down, Daemons
<1>4. SendKnows'
  BY DEF ReleaseInv, Typed, SendKnows, SendFits, StrayStart, Booted, SingletonFree, Spend, disk,
       history, Stops, Last, Unsent, Up, Down, NoDaemon, Daemons
<1>5. SwitchKnows'
  BY DEF ReleaseInv, SwitchKnows, SwitchFits, StrayStart, Booted, SingletonFree, Spend, disk,
       history, Stops, Last, Target, Config
<1>a. /\ daemon'.drained = (drain # None) /\ ~daemon'.work
      /\ UNCHANGED <<drain, op, dirs, ctl, ptr, owned>>
  BY DEF StrayStart, Booted, disk
<1>6. TreesKnow'
  <2>1. Todo' = Todo
    BY <1>a DEF Todo, Done
  <2> QED
    BY <1>a, <2>1 DEF ReleaseInv, TreesKnow, None, Up
<1> QED
  BY <1>1, <1>2, <1>3, <1>4, <1>5, <1>6 DEF ReleaseInv

\* A daemon that dies leaves an exchange where it was.
LEMMA DaemonDiesKeeps ==
    ASSUME ReleaseInv, DaemonDies, UNCHANGED dirs
    PROVE  ReleaseInv'
<1>1. Typed'
  <2>1. daemon' \in Daemons
    BY DEF ReleaseInv, Typed, Daemons, DaemonDies, Gone, NoDaemon, None, NoPid
  <2>2. label' \in {"loaded", "absent"} /\ bootout' \in BOOLEAN
    BY DEF ReleaseInv, Typed, Daemons, DaemonDies, Gone, NoDaemon
  <2> QED
    BY <2>1, <2>2 DEF ReleaseInv, Typed, DaemonDies, disk, history
<1>2. JournalKnows'
  BY DEF ReleaseInv, JournalKnows, DaemonDies, Gone, NoDaemon, disk, history, Stops, Last, Unsent
<1>3. ControllerKnows'
  BY DEF ReleaseInv, Typed, ControllerKnows, ControllerFits, DaemonDies, Gone, NoDaemon, disk,
       history, Stops, AtStop, Idle, Up, Down, Daemons
<1>4. SendKnows'
  BY DEF ReleaseInv, Typed, SendKnows, SendFits, DaemonDies, Gone, NoDaemon, disk, history, Stops,
       Last, Unsent, Up, Down, Daemons
<1>5. SwitchKnows'
  BY DEF ReleaseInv, SwitchKnows, SwitchFits, DaemonDies, Gone, NoDaemon, disk, history, Stops,
       Last, Target, Config
<1>6. TreesKnow'
  BY DEF ReleaseInv, Typed, TreesKnow, DaemonDies, Gone, NoDaemon, disk, history, Up, Todo, Done,
       None, Down, Daemons
<1> QED
  BY <1>1, <1>2, <1>3, <1>4, <1>5, <1>6 DEF ReleaseInv

\* Work begins only in a daemon that admits it, which none is that is being exchanged.
LEMMA WorkBeginsKeeps ==
    ASSUME ReleaseInv, WorkBegins, UNCHANGED dirs
    PROVE  ReleaseInv'
<1>1. Typed'
  <2>1. daemon' \in Daemons
    BY DEF ReleaseInv, Typed, Daemons, WorkBegins
  <2> QED
    BY <2>1 DEF ReleaseInv, Typed, WorkBegins, disk, history
<1>2. JournalKnows'
  BY DEF ReleaseInv, JournalKnows, WorkBegins, disk, history, Stops, Last, Unsent
<1>3. ControllerKnows'
  BY DEF ReleaseInv, Typed, ControllerKnows, ControllerFits, WorkBegins, disk, history, Stops,
       AtStop, Idle, Up, Down, Daemons
<1>4. SendKnows'
  BY DEF ReleaseInv, Typed, SendKnows, SendFits, WorkBegins, disk, history, Stops, Last, Unsent,
       Up, Down, NoDaemon, Daemons
<1>5. SwitchKnows'
  BY DEF ReleaseInv, SwitchKnows, SwitchFits, WorkBegins, disk, history, Stops, Last, Target,
       Config
<1>6. TreesKnow'
  BY DEF ReleaseInv, Typed, TreesKnow, WorkBegins, disk, history, Up, Todo, Done, None, Down,
       Daemons
<1> QED
  BY <1>1, <1>2, <1>3, <1>4, <1>5, <1>6 DEF ReleaseInv

\* Work that ends makes no daemon less idle.
LEMMA WorkEndsKeeps ==
    ASSUME ReleaseInv, WorkEnds, UNCHANGED dirs
    PROVE  ReleaseInv'
<1>1. Typed'
  <2>1. daemon' \in Daemons
    BY DEF ReleaseInv, Typed, Daemons, WorkEnds
  <2> QED
    BY <2>1 DEF ReleaseInv, Typed, WorkEnds, disk, history
<1>2. JournalKnows'
  BY DEF ReleaseInv, JournalKnows, WorkEnds, disk, history, Stops, Last, Unsent
<1>3. ControllerKnows'
  BY DEF ReleaseInv, Typed, ControllerKnows, ControllerFits, WorkEnds, disk, history, Stops,
       AtStop, Idle, Up, Down, Daemons
<1>4. SendKnows'
  BY DEF ReleaseInv, Typed, SendKnows, SendFits, WorkEnds, disk, history, Stops, Last, Unsent, Up,
       Down, NoDaemon, Daemons
<1>5. SwitchKnows'
  BY DEF ReleaseInv, SwitchKnows, SwitchFits, WorkEnds, disk, history, Stops, Last, Target, Config
<1>6. TreesKnow'
  BY DEF ReleaseInv, Typed, TreesKnow, WorkEnds, disk, history, Up, Todo, Done, None, Down,
       Daemons
<1> QED
  BY <1>1, <1>2, <1>3, <1>4, <1>5, <1>6 DEF ReleaseInv

\* A daemon that is told to stop is no longer up.
LEMMA BootoutTerminatesKeeps ==
    ASSUME ReleaseInv, BootoutTerminates, UNCHANGED dirs
    PROVE  ReleaseInv'
<1>1. Typed'
  <2>1. daemon' \in Daemons
    BY DEF ReleaseInv, Typed, Daemons, BootoutTerminates
  <2> QED
    BY <2>1 DEF ReleaseInv, Typed, BootoutTerminates, disk, history
<1>2. JournalKnows'
  BY DEF ReleaseInv, JournalKnows, BootoutTerminates, disk, history, Stops, Last, Unsent
<1>3. ControllerKnows'
  BY DEF ReleaseInv, Typed, ControllerKnows, ControllerFits, BootoutTerminates, disk, history,
       Stops, AtStop, Idle, Up, Down, Daemons
<1>4. SendKnows'
  BY DEF ReleaseInv, Typed, SendKnows, SendFits, BootoutTerminates, disk, history, Stops, Last,
       Unsent, Up, Down, NoDaemon, Daemons
<1>5. SwitchKnows'
  BY DEF ReleaseInv, SwitchKnows, SwitchFits, BootoutTerminates, disk, history, Stops, Last,
       Target, Config
<1>6. TreesKnow'
  BY DEF ReleaseInv, Typed, TreesKnow, BootoutTerminates, disk, history, Up, Todo, Done, None,
       Down, Daemons
<1> QED
  BY <1>1, <1>2, <1>3, <1>4, <1>5, <1>6 DEF ReleaseInv

\* A daemon that has stopped leaves its lock.
LEMMA DaemonExitsKeeps ==
    ASSUME ReleaseInv, DaemonExits, UNCHANGED dirs
    PROVE  ReleaseInv'
<1>1. Typed'
  <2>1. daemon' \in Daemons
    BY DEF ReleaseInv, Typed, Daemons, DaemonExits, Gone, NoDaemon, None, NoPid
  <2>2. label' \in {"loaded", "absent"} /\ bootout' \in BOOLEAN
    BY DEF ReleaseInv, Typed, Daemons, DaemonExits, Gone, NoDaemon
  <2> QED
    BY <2>1, <2>2 DEF ReleaseInv, Typed, DaemonExits, disk, history
<1>2. JournalKnows'
  BY DEF ReleaseInv, JournalKnows, DaemonExits, Gone, NoDaemon, disk, history, Stops, Last, Unsent
<1>3. ControllerKnows'
  BY DEF ReleaseInv, Typed, ControllerKnows, ControllerFits, DaemonExits, Gone, NoDaemon, disk,
       history, Stops, AtStop, Idle, Up, Down, Daemons
<1>4. SendKnows'
  BY DEF ReleaseInv, Typed, SendKnows, SendFits, DaemonExits, Gone, NoDaemon, disk, history,
       Stops, Last, Unsent, Up, Down, Daemons
<1>5. SwitchKnows'
  BY DEF ReleaseInv, SwitchKnows, SwitchFits, DaemonExits, Gone, NoDaemon, disk, history, Stops,
       Last, Target, Config
<1>6. TreesKnow'
  BY DEF ReleaseInv, Typed, TreesKnow, DaemonExits, Gone, NoDaemon, disk, history, Up, Todo, Done,
       None, Down, Daemons
<1> QED
  BY <1>1, <1>2, <1>3, <1>4, <1>5, <1>6 DEF ReleaseInv

\* A label that is unloaded says nothing about the process.
LEMMA BootoutUnloadsKeeps ==
    ASSUME ReleaseInv, BootoutUnloads, UNCHANGED dirs
    PROVE  ReleaseInv'
<1>1. Typed'
  <2>1. daemon' \in Daemons
    BY DEF ReleaseInv, Typed, Daemons, BootoutUnloads, Gone
  <2>2. label' \in {"loaded", "absent"} /\ bootout' \in BOOLEAN
    BY DEF ReleaseInv, Typed, Daemons, BootoutUnloads, Gone
  <2> QED
    BY <2>1, <2>2 DEF ReleaseInv, Typed, BootoutUnloads, disk, history
<1>2. JournalKnows'
  BY DEF ReleaseInv, JournalKnows, BootoutUnloads, Gone, disk, history, Stops, Last, Unsent
<1>3. ControllerKnows'
  BY DEF ReleaseInv, Typed, ControllerKnows, ControllerFits, BootoutUnloads, Gone, disk, history,
       Stops, AtStop, Idle, Up, Down, Daemons
<1>4. SendKnows'
  BY DEF ReleaseInv, Typed, SendKnows, SendFits, BootoutUnloads, Gone, disk, history, Stops, Last,
       Unsent, Up, Down, NoDaemon, Daemons
<1>5. SwitchKnows'
  BY DEF ReleaseInv, SwitchKnows, SwitchFits, BootoutUnloads, Gone, disk, history, Stops, Last,
       Target, Config
<1>6. TreesKnow'
  BY DEF ReleaseInv, Typed, TreesKnow, BootoutUnloads, Gone, disk, history, Up, Todo, Done, None,
       Down, Daemons
<1> QED
  BY <1>1, <1>2, <1>3, <1>4, <1>5, <1>6 DEF ReleaseInv

-----------------------------------------------------------------------------
\* Who is at work is at work on something.
LEMMA AtWork == ReleaseInv /\ ctl # Idle => ctl.pc \in ExchangePcs \cup PrunePcs
BY DEF ReleaseInv, Typed, Controllers, ControllerKnows, ControllerFits

\* Where an exchange is under way there is a journal of one that is not settled.
LEMMA ExchangeThere == ReleaseInv /\ ctl.pc \in ExchangePcs =>
    /\ op \in Exchanges /\ op.kind \in Kinds /\ op.kind # "prune" /\ op.phase \notin Terminal
    /\ ctl # Idle
<1> SUFFICES ASSUME ReleaseInv, ctl.pc \in ExchangePcs
             PROVE  /\ op \in Exchanges /\ op.kind \in Kinds /\ op.kind # "prune"
                    /\ op.phase \notin Terminal /\ ctl # Idle
  OBVIOUS
<1>1. op.kind \in Kinds /\ op.phase \notin Terminal
  BY DEF ReleaseInv, ControllerKnows, ControllerFits
<1>2. op \in Exchanges /\ op.kind # "prune"
  BY <1>1, JournalShape DEF ReleaseInv
<1>3. ctl # Idle
  BY DEF Idle, ExchangePcs, AbandonPcs, AtStop, ReleasePcs
<1> QED
  BY <1>1, <1>2, <1>3

\* A controller that has ended claims nothing.
LEMMA Rests == ctl' = Idle => ControllerKnows' /\ SwitchKnows'
BY DEF Idle, ControllerKnows, ControllerFits, SwitchKnows, SwitchFits, ExchangePcs, AbandonPcs,
     PrunePcs, TargetPcs, EndPcs, DeletePcs,
       AtStop, ReleasePcs

\* What is on disk is what it was as long as an exchange has the journal.
LEMMA TreesStay ==
    ASSUME ReleaseInv, op \in Exchanges, Carries(op', op), UNCHANGED <<owned, dirs>>,
           ptr' \in {ptr, op.package, op.previous}
    PROVE  TreesKnow'
<1>1. op.kind \in Kinds /\ op.kind # "prune" /\ op'.kind \in Kinds /\ op'.kind # "prune"
  BY DEF Exchanges, Kinds, Carries
<1> QED
  BY <1>1 DEF ReleaseInv, TreesKnow, Carries

\* A stop survives in the journal that carries it.
LEMMA LastStays ==
    ASSUME op \in Exchanges, Carries(op', op), op.stops # <<>>
    PROVE  /\ Stops' # <<>> /\ Len(Stops') = Len(Stops) /\ Last'.dir = Last.dir
           /\ Last'.pid = Last.pid
           /\ Last'.drain = Last.drain /\ Target(Last)' = Target(Last)
           /\ Config(Last)' = Config(Last)
<1>1. Len(op.stops) \in 1..Len(op.stops) /\ Len(op.stops) \in Nat
  BY StopShape
<1>2. op'.stops # <<>>
  <2>1. Len(op'.stops) # 0
    BY <1>1 DEF Carries
  <2> QED
    BY <2>1
<1> QED
  BY <1>1, <1>2 DEF Carries, Stops, Last, Target, Config

\* The journal is right as long as its stops are and what has been requested is counted.
LEMMA JournalStays ==
    ASSUME ReleaseInv, op \in Exchanges, op.kind \in Kinds, Carries(op', op),
           op'.reviewed = op.reviewed, UNCHANGED ptr, drain # None => drain' # None,
           op'.phase \notin Terminal,
           op'.phase = "service_stop_pending" => op.stops # <<>>,
           op.abandoned => (op.stops = <<>> <=> op'.phase = "abandonment_pending"),
           evidence' => op.stops # <<>> /\ ~op.abandoned,
           op.reviewed => op'.stops[1].request # "prepared",
           (op.stops # <<>> /\ Unsent => sends = 0)'
    PROVE  JournalKnows'
<1>1. op'.kind = op.kind /\ op'.abandoned = op.abandoned /\ op'.previous = op.previous
  BY DEF Carries
<1>2. /\ Len(op.stops) \in Nat /\ Len(op.stops) <= 2
      /\ Len(op.stops) = 2 => op.stops[1].request = "stopped"
  BY StopShape DEF ReleaseInv, JournalKnows, Stops
<1>3. op'.stops = <<>> <=> op.stops = <<>>
  <2>1. Len(op'.stops) \in Nat /\ op' \in Exchanges
    BY StopShape DEF Carries
  <2>2. op.stops \in Seq(Intents) /\ op'.stops \in Seq(Intents)
    BY <2>1, StopShape
  <2> QED
    BY <2>2 DEF Carries
<1>4. Len(op'.stops) <= 2 /\ (Len(op'.stops) = 2 => op'.stops[1].request = "stopped")
  <2>1. Len(op'.stops) = Len(op.stops)
    BY DEF Carries
  <2>2. Len(op.stops) = 2 => 1 \in 1..Len(op.stops) /\ 1 < Len(op.stops)
    OBVIOUS
  <2>3. Len(op.stops) = 2 => op'.stops[1].request = op.stops[1].request
    BY <2>2 DEF Carries
  <2> QED
    BY <1>2, <2>1, <2>3
<1>5. \A i \in 1..Len(op'.stops) :
        /\ op'.stops[i].pid # NoPid => op'.stops[i].drain # None
        /\ op'.abandoned => op'.stops[i].dir = "restore"
  BY <1>1 DEF Carries, ReleaseInv, JournalKnows, Stops
<1>6. op'.reviewed => op'.stops # <<>> /\ ~op'.abandoned /\ op'.stops[1].pid # NoPid
  <2>1. op.reviewed => op.stops # <<>> /\ ~op.abandoned /\ op.stops[1].pid # NoPid
    BY DEF ReleaseInv, JournalKnows, Stops
  <2>2. op.stops # <<>> => 1 \in 1..Len(op.stops)
    BY StopShape, <1>2
  <2> QED
    BY <1>1, <1>3, <2>1, <2>2 DEF Carries
<1>7. op'.abandoned => ptr' = op'.previous /\ (op'.stops = <<>> => drain' # None)
  BY <1>1, <1>3 DEF ReleaseInv, JournalKnows, Stops
<1> QED
  BY <1>1, <1>3, <1>4, <1>5, <1>6, <1>7 DEF JournalKnows, Stops, Terminal

\* What has been requested stays counted while nothing is requested.
LEMMA UnsentStays ==
    ASSUME ReleaseInv, op.kind \in Kinds, op'.stops = op.stops, op'.abandoned = op.abandoned,
           UNCHANGED <<sends, evidence>>
    PROVE  (op.stops # <<>> /\ Unsent => sends = 0)'
<1>1. op.stops # <<>> /\ Unsent => sends = 0
  BY DEF ReleaseInv, JournalKnows, Stops
<1> QED
  BY <1>1 DEF Unsent, Last, Stops

ServiceStays == /\ UNCHANGED <<ptr, plist, owned, label, bootout, dirs>>
                /\ UNCHANGED <<drain, daemon>> \/ Drained
\* What a daemon that is drained, or nothing, leaves true.
LEMMA ServiceKnown ==
    ASSUME ReleaseInv, ServiceStays
    PROVE  /\ drain' \in Markers /\ daemon' \in Daemons /\ (drain # None => drain' # None)
           /\ Up' /\ ~daemon'.drained => drain' = None
           /\ Down' => daemon' = NoDaemon
<1>1. CASE UNCHANGED <<drain, daemon>>
  BY <1>1 DEF ReleaseInv, Typed, SendKnows, SendFits, Up, Down
<1>2. CASE Drained
  BY <1>2 DEF ReleaseInv, Typed, SendKnows, SendFits, Up, Down, Drained, Daemons, Markers, None
<1> QED
  BY <1>1, <1>2 DEF ServiceStays

\* A controller that gives up leaves a journal that is right.
LEMMA EndsKeeps ==
    ASSUME ReleaseInv, op \in Exchanges, op.kind \in Kinds, ServiceStays, JournalKnows',
           Carries(op', op),
           ctl' = Idle, sends' \in Nat, evidence' \in BOOLEAN
    PROVE  ReleaseInv'
<1>1. /\ drain' \in Markers /\ daemon' \in Daemons
      /\ Up' /\ ~daemon'.drained => drain' = None
      /\ Down' => daemon' = NoDaemon
  BY ServiceKnown
<1>2. Idle \in Controllers
  BY DEF Idle, Controllers, None, Thens
<1>3. op' \in Exchanges
  BY DEF Carries
<1>4. Typed'
  BY <1>1, <1>2, <1>3 DEF ReleaseInv, Typed, ServiceStays
<1>5. SendKnows'
  BY <1>1 DEF SendKnows, SendFits, Idle
<1>6. TreesKnow'
  BY TreesStay DEF ServiceStays
<1> QED
  BY <1>4, <1>5, <1>6, Rests DEF ReleaseInv

\* One that is to restore the previous service goes on with a journal that is right.
Restores == ctl' = [ctl EXCEPT !.pc = "restore", !.restoring = TRUE, !.held = FALSE]
\* A controller that turns to a restoration leaves a journal that is right.
LEMMA RestoresKeeps ==
    ASSUME ReleaseInv, ctl.pc \in ExchangePcs, ServiceStays, JournalKnows', Carries(op', op),
           ~op.abandoned, op'.phase \notin Terminal, Restores, sends' \in Nat, evidence' \in BOOLEAN
    PROVE  ReleaseInv'
<1>1. /\ drain' \in Markers /\ daemon' \in Daemons
      /\ Up' /\ ~daemon'.drained => drain' = None
      /\ Down' => daemon' = NoDaemon
  BY ServiceKnown
<1>2. op \in Exchanges /\ op.kind \in Kinds /\ ctl.dir \in Directions
  BY ExchangeThere DEF ReleaseInv, ControllerKnows, ControllerFits
<1>3. op' \in Exchanges /\ ~op'.abandoned /\ op'.kind = op.kind
  BY DEF Carries
<1>4. ctl' \in Controllers /\ ctl'.pc = "restore" /\ ~ctl'.held /\ ctl'.dir = ctl.dir
  BY DEF Restores, ReleaseInv, Typed, Controllers, ExchangePcs
<1>5. Typed'
  BY <1>1, <1>3, <1>4 DEF ReleaseInv, Typed, ServiceStays
<1>6. SendKnows'
  BY <1>1, <1>4 DEF SendKnows, SendFits
<1>7. SwitchKnows'
  BY <1>4 DEF SwitchKnows, SwitchFits, ReleasePcs
<1>8. ControllerKnows'
  BY <1>2, <1>3, <1>4
     DEF ControllerKnows, ControllerFits, ReleasePcs, AtStop, PrunePcs, TargetPcs, EndPcs,
          DeletePcs
<1>9. TreesKnow'
  BY <1>2, TreesStay DEF ServiceStays
<1> QED
  BY <1>5, <1>6, <1>7, <1>8, <1>9 DEF ReleaseInv

\* A step that fails changes nothing but what the journal says of itself.
LEMMA FailedKeeps ==
    ASSUME ReleaseInv, ctl.pc \in ExchangePcs, ServiceStays, UNCHANGED <<sends, evidence>>,
           NEW o \in Exchanges, Carries(o, op), o.stops = op.stops, o.reviewed = op.reviewed,
           o.phase = op.phase \/ (o.phase = "recovery_required" /\ op.stops # <<>>), Fail(o)
    PROVE  ReleaseInv'
<1>1. op \in Exchanges /\ op.kind \in Kinds /\ op.phase \notin Terminal
  BY ExchangeThere
<1>2. /\ Carries(op', op) /\ op'.stops = op.stops /\ op'.reviewed = op.reviewed
      /\ op'.phase = o.phase \/ (op'.phase = "recovery_required" /\ ctl.by # "abandon")
  <2>1. CASE op' = o
    BY <2>1
  <2>2. CASE Protected(o) /\ ctl.by \in {"activate", "resume"}
    <3>1. PICK c \in Checkpoints : op' = Checkpoint(o, "recovery_required", c)
      BY <2>2 DEF Protected
    <3>2. /\ Carries(op', o) /\ op'.stops = o.stops /\ op'.reviewed = o.reviewed
          /\ op'.phase = "recovery_required"
      BY <3>1, CheckpointShape DEF ExchangePhases
    <3>3. Carries(op', op)
      BY <3>2 DEF Carries
    <3> QED
      BY <2>2, <3>2, <3>3
  <2> QED
    BY <2>1, <2>2, FailCases DEF ReleaseInv
<1>3. op.abandoned => ctl.by = "abandon"
  BY <1>1 DEF ReleaseInv, ControllerKnows, ControllerFits
<1>4. op'.phase \notin Terminal
  BY <1>1, <1>2 DEF Terminal
<1>5. JournalKnows'
  <2>1. /\ op.phase = "service_stop_pending" => op.stops # <<>>
        /\ op.abandoned => (op.stops = <<>> <=> op.phase = "abandonment_pending")
        /\ op.reviewed => op.stops[1].request # "prepared"
        /\ evidence => op.stops # <<>> /\ ~op.abandoned
    BY <1>1 DEF ReleaseInv, JournalKnows, Stops
  <2>2. op'.phase = "service_stop_pending" => op.stops # <<>>
    BY <1>2, <2>1
  <2>3. op.abandoned => (op.stops = <<>> <=> op'.phase = "abandonment_pending")
    BY <1>2, <1>3, <2>1
  <2>4. op.reviewed => op'.stops[1].request # "prepared"
    BY <1>2, <2>1
  <2>5. (op.stops # <<>> /\ Unsent => sends = 0)'
    BY <1>1, <1>2, UnsentStays DEF Carries
  <2>6. drain # None => drain' # None
    BY ServiceKnown
  <2> QED
    BY <1>1, <1>2, <1>4, <2>1, <2>2, <2>3, <2>4, <2>5, <2>6, JournalStays DEF ServiceStays
<1>6. sends' \in Nat /\ evidence' \in BOOLEAN
  BY DEF ReleaseInv, Typed
<1>7. CASE ctl' = Idle
  BY <1>1, <1>2, <1>5, <1>6, <1>7, EndsKeeps
<1>8. CASE ctl.by = "activate" /\ Restores
  <2>1. ~op.abandoned
    BY <1>3, <1>8
  <2> QED
    BY <1>2, <1>4, <1>5, <1>6, <1>8, <2>1, RestoresKeeps
<1> QED
  BY <1>7, <1>8, FailCases DEF ReleaseInv, Restores

\* The same with the journal as it is.
LEMMA FailKeeps ==
    ASSUME ReleaseInv, ctl.pc \in ExchangePcs, ServiceStays, UNCHANGED <<sends, evidence>>, Fail(op)
    PROVE  ReleaseInv'
<1>1. op \in Exchanges
  BY ExchangeThere
<1>2. Carries(op, op)
  BY <1>1 DEF Carries
<1> QED
  BY <1>1, <1>2, FailedKeeps

\* Where only the controller moves, what it knows of what has not moved is to be shown.
ElseStays ==
    UNCHANGED <<ptr, plist, drain, owned, op, label, daemon, bootout, sends, evidence, dirs>>
\* A controller that only goes on, with the journal as it is.
LEMMA GoesKeeps ==
    ASSUME ReleaseInv, ctl.pc \in ExchangePcs, ElseStays,
           NEW c \in Controllers, ctl' = c, c.pc \in ExchangePcs,
           ControllerFits(c), SendFits(c), SwitchFits(c)
    PROVE  ReleaseInv'
<1>a. op \in Exchanges /\ op.kind \in Kinds /\ op.phase \notin Terminal
  BY ExchangeThere
<1>1. Typed'
  BY DEF ReleaseInv, Typed, ElseStays
<1>2. Carries(op', op)
  BY <1>a DEF Carries, ElseStays
<1>3. JournalKnows'
  <2>1. /\ op.phase = "service_stop_pending" => op.stops # <<>>
        /\ op.abandoned => (op.stops = <<>> <=> op.phase = "abandonment_pending")
        /\ op.reviewed => op.stops[1].request # "prepared"
        /\ evidence => op.stops # <<>> /\ ~op.abandoned
    BY <1>a DEF ReleaseInv, JournalKnows, Stops
  <2>2. (op.stops # <<>> /\ Unsent => sends = 0)'
    BY <1>a, <1>2, UnsentStays DEF Carries, ElseStays
  <2> QED
    BY <1>a, <1>2, <2>1, <2>2, JournalStays DEF ElseStays
<1>4. TreesKnow'
  BY <1>a, <1>2, TreesStay DEF ElseStays
<1>5. ControllerKnows'
  BY DEF ControllerKnows, ControllerFits, ElseStays, Stops, Down
<1>6. SendKnows'
  BY DEF SendKnows, SendFits, ElseStays, Stops, Last, Unsent, Up, Down
<1>7. SwitchKnows'
  BY DEF SwitchKnows, SwitchFits, ElseStays, Stops, Last, Target, Config
<1> QED
  BY <1>1, <1>3, <1>4, <1>5, <1>6, <1>7 DEF ReleaseInv

\* An exchange that is settled left what its phase says.
LEMMA SettlesKeeps ==
    ASSUME ReleaseInv, ctl.pc \in ExchangePcs, op.abandoned => Stops # <<>>,
           UNCHANGED <<ptr, plist, drain, owned, label, daemon, bootout, sends, evidence, dirs>>,
           NEW p \in Terminal, NEW k \in Checkpoints, op' = Checkpoint(op, p, k), ctl' = Idle,
           drain = None,
           p = "completed" => ptr = op.package /\ plist = op.staged,
           p = "rolled_back" => ptr = op.previous /\ plist = op.backup
    PROVE  ReleaseInv'
<1>1. op \in Exchanges /\ op.kind \in Kinds
  BY ExchangeThere
<1>2. /\ Carries(op', op) /\ op'.stops = op.stops /\ op'.reviewed = op.reviewed /\ op'.phase = p
      /\ op'.kind = op.kind /\ op'.package = op.package /\ op'.previous = op.previous
      /\ op'.backup = op.backup /\ op'.staged = op.staged /\ op'.abandoned = op.abandoned
  <2>1. p \in ExchangePhases
    BY DEF ExchangePhases
  <2>2. Carries(op', op) /\ op'.stops = op.stops /\ op'.reviewed = op.reviewed /\ op'.phase = p
    BY <1>1, <2>1, CheckpointShape
  <2> QED
    BY <2>2 DEF Carries
<1>3. (op.stops # <<>> /\ Unsent => sends = 0)'
  BY <1>1, <1>2, UnsentStays
<1>4. JournalKnows'
  <2>1. p # "service_stop_pending" /\ p # "abandonment_pending"
    BY DEF Terminal
  <2>2. op.abandoned => ptr = op.previous /\ \A i \in 1..Len(op.stops) : op.stops[i].dir = "restore"
    BY <1>1 DEF ReleaseInv, JournalKnows, Stops
  <2>3. /\ Len(op.stops) <= 2 /\ (Len(op.stops) = 2 => op.stops[1].request = "stopped")
        /\ op.reviewed => /\ op.stops # <<>> /\ ~op.abandoned
                          /\ op.stops[1].pid # NoPid /\ op.stops[1].request # "prepared"
        /\ \A i \in 1..Len(op.stops) : op.stops[i].pid # NoPid => op.stops[i].drain # None
        /\ evidence => op.stops # <<>> /\ ~op.abandoned
    BY <1>1 DEF ReleaseInv, JournalKnows, Stops
  <2> QED
    BY <1>2, <1>3, <2>1, <2>2, <2>3 DEF JournalKnows, Stops
<1>5. ServiceStays
  BY DEF ServiceStays
<1>6. sends' \in Nat /\ evidence' \in BOOLEAN
  BY DEF ReleaseInv, Typed
<1> QED
  BY <1>1, <1>2, <1>4, <1>5, <1>6, EndsKeeps

\* A daemon that is drained is drained for whoever looks whether it is idle.
LEMMA DrainedKeeps ==
    ASSUME ReleaseInv, ctl.pc \in {"drain", "restore"}, Drained,
           UNCHANGED <<op, sends, evidence, dirs>>,
           NEW pc \in {"idle_check", "restore_idle"}, Goto(pc)
    PROVE  ReleaseInv'
<1>1. ctl.pc \in ExchangePcs /\ op \in Exchanges /\ op.kind \in Kinds /\ op.phase \notin Terminal
  BY ExchangeThere DEF ExchangePcs
<1>2. ServiceStays
  BY DEF ServiceStays, Drained
<1>3. /\ drain' \in Markers /\ daemon' \in Daemons /\ (drain # None => drain' # None)
      /\ Up' /\ ~daemon'.drained => drain' = None
      /\ Down' => daemon' = NoDaemon
  BY <1>2, ServiceKnown
<1>4. drain' # None
  BY DEF Drained, None
<1>5. PICK c : c = ctl'
  OBVIOUS
<1>6. /\ c \in Controllers /\ c.pc = pc /\ c.by = ctl.by /\ c.dir = ctl.dir
      /\ c.restoring = ctl.restoring /\ c.held = ctl.held /\ c.then = ctl.then
  BY <1>5 DEF Goto, ReleaseInv, Typed, Controllers, ExchangePcs
<1>7. ~op.abandoned /\ ~ctl.held /\ ctl.dir \in Directions
  BY <1>1 DEF ReleaseInv, ControllerKnows, ControllerFits, AbandonPcs, AtStop, ExchangePcs
<1>8. Typed'
  BY <1>1, <1>3, <1>5, <1>6 DEF ReleaseInv, Typed, Drained
<1>9. JournalKnows'
  <2>1. Carries(op', op)
    BY <1>1 DEF Carries
  <2>2. /\ op.phase = "service_stop_pending" => op.stops # <<>>
        /\ op.abandoned => (op.stops = <<>> <=> op.phase = "abandonment_pending")
        /\ op.reviewed => op.stops[1].request # "prepared"
        /\ evidence => op.stops # <<>> /\ ~op.abandoned
    BY <1>1 DEF ReleaseInv, JournalKnows, Stops
  <2>3. (op.stops # <<>> /\ Unsent => sends = 0)'
    BY <1>1, UnsentStays
  <2> QED
    BY <1>1, <1>4, <2>1, <2>2, <2>3, JournalStays DEF Drained
<1>10. ControllerKnows'
  BY <1>1, <1>5, <1>6, <1>7
     DEF ControllerKnows, ControllerFits, AtStop, ReleasePcs, PrunePcs, TargetPcs, EndPcs,
          DeletePcs
<1>11. SendKnows'
  BY <1>3, <1>4, <1>5, <1>6 DEF SendKnows, SendFits
<1>12. SwitchKnows'
  BY <1>5, <1>6 DEF SwitchKnows, SwitchFits, ReleasePcs
<1>13. TreesKnow'
  BY <1>1, TreesStay DEF Carries, Drained
<1> QED
  BY <1>8, <1>9, <1>10, <1>11, <1>12, <1>13 DEF ReleaseInv

\* What a checkpoint leaves of the journal.
LEMMA NotedShape ==
    ASSUME ReleaseInv, ctl.pc \in ExchangePcs, NEW p \in ExchangePhases, NEW k \in Checkpoints,
           op' = Checkpoint(op, p, k)
    PROVE  /\ Carries(op', op) /\ op'.stops = op.stops /\ op'.reviewed = op.reviewed
           /\ op'.phase = p /\ op'.checkpoint = k
           /\ op'.kind = op.kind /\ op'.package = op.package /\ op'.previous = op.previous
           /\ op'.backup = op.backup /\ op'.staged = op.staged /\ op'.abandoned = op.abandoned
<1>1. op \in Exchanges
  BY ExchangeThere
<1>2. /\ Carries(op', op) /\ op'.stops = op.stops /\ op'.reviewed = op.reviewed
      /\ op'.phase = p /\ op'.checkpoint = k
  BY <1>1, CheckpointShape
<1> QED
  BY <1>2 DEF Carries

\* A checkpoint leaves the journal right.
LEMMA NotedRight ==
    ASSUME ReleaseInv, ctl.pc \in ExchangePcs, NEW p \in ExchangePhases \ Terminal,
           NEW k \in Checkpoints,
           op' = Checkpoint(op, p, k),
           p = "service_stop_pending" => Stops # <<>>,
           op.abandoned => (Stops = <<>> <=> p = "abandonment_pending"),
           UNCHANGED <<ptr, sends, evidence>>, drain # None => drain' # None
    PROVE  JournalKnows'
<1>1. op \in Exchanges /\ op.kind \in Kinds
  BY ExchangeThere
<1>2. /\ Carries(op', op) /\ op'.stops = op.stops /\ op'.reviewed = op.reviewed /\ op'.phase = p
      /\ op'.abandoned = op.abandoned
  BY NotedShape
<1>3. /\ op.reviewed => op.stops[1].request # "prepared"
      /\ evidence => op.stops # <<>> /\ ~op.abandoned
  BY <1>1 DEF ReleaseInv, JournalKnows, Stops
<1>4. (op.stops # <<>> /\ Unsent => sends = 0)'
  BY <1>1, <1>2, UnsentStays
<1>5. op' .phase \notin Terminal
  BY <1>2
<1> QED
  BY <1>1, <1>2, <1>3, <1>4, <1>5, JournalStays DEF Stops

\* Where the journal takes a note and the controller goes on.
LEMMA NotesKeeps ==
    ASSUME ReleaseInv, ctl.pc \in ExchangePcs, NEW p \in ExchangePhases \ Terminal,
           NEW k \in Checkpoints,
           op' = Checkpoint(op, p, k),
           p = "service_stop_pending" => Stops # <<>>,
           op.abandoned => (Stops = <<>> <=> p = "abandonment_pending"),
           UNCHANGED <<ptr, plist, drain, owned, label, daemon, bootout, sends, evidence, dirs>>,
           NEW c \in Controllers, ctl' = c, c.pc \in ExchangePcs,
           ControllerFits(c), SendFits(c), SwitchFits(c)
    PROVE  ReleaseInv'
<1>1. op \in Exchanges /\ op.kind \in Kinds
  BY ExchangeThere
<1>2. JournalKnows'
  BY NotedRight
<1>3. /\ Carries(op', op) /\ op'.stops = op.stops /\ op'.kind = op.kind /\ op'.package = op.package
      /\ op'.previous = op.previous /\ op'.backup = op.backup /\ op'.staged = op.staged
      /\ op'.abandoned = op.abandoned /\ op'.phase \notin Terminal
  BY NotedShape
<1>4. op' \in Exchanges
  BY <1>3 DEF Carries
<1>5. Typed'
  BY <1>4 DEF ReleaseInv, Typed
<1>6. TreesKnow'
  BY <1>1, <1>3, TreesStay
<1>7. ControllerKnows'
  BY <1>1, <1>3 DEF ControllerKnows, ControllerFits, Stops, Down
<1>8. Stops' = Stops /\ Last' = Last /\ Unsent' = Unsent
  BY <1>3 DEF Stops, Last, Unsent
<1>9. SendKnows'
  BY <1>8 DEF SendKnows, SendFits, Up, Down
<1>10. Target(Last)' = Target(Last) /\ Config(Last)' = Config(Last)
  BY <1>3, <1>8 DEF Target, Config
<1>11. SwitchKnows'
  BY <1>3, <1>8, <1>10 DEF SwitchKnows, SwitchFits
<1> QED
  BY <1>2, <1>5, <1>6, <1>7, <1>9, <1>11 DEF ReleaseInv

\* Where the journal takes a note and the controller leaves it at that.
LEMMA LeavesKeeps ==
    ASSUME ReleaseInv, ctl.pc \in ExchangePcs, NEW p \in ExchangePhases \ Terminal,
           NEW k \in Checkpoints,
           op' = Checkpoint(op, p, k), ctl' = Idle,
           p = "service_stop_pending" => Stops # <<>>,
           op.abandoned => (Stops = <<>> <=> p = "abandonment_pending"),
           UNCHANGED <<ptr, plist, drain, owned, label, daemon, bootout, sends, evidence, dirs>>
    PROVE  ReleaseInv'
<1>1. op \in Exchanges /\ op.kind \in Kinds
  BY ExchangeThere
<1>2. JournalKnows' /\ Carries(op', op)
  BY NotedRight, NotedShape
<1>3. sends' \in Nat /\ evidence' \in BOOLEAN /\ ServiceStays
  BY DEF ReleaseInv, Typed, ServiceStays
<1> QED
  BY <1>1, <1>2, <1>3, EndsKeeps

\* A step that fails after a stop may say so in the journal.
LEMMA FailNotedKeeps ==
    ASSUME ReleaseInv, ctl.pc \in ExchangePcs, Stops # <<>>, ServiceStays,
           UNCHANGED <<sends, evidence>>,
           NEW k \in Checkpoints, Fail(Checkpoint(op, "recovery_required", k))
    PROVE  ReleaseInv'
<1>1. op \in Exchanges
  BY ExchangeThere
<1>2. PICK o : o = Checkpoint(op, "recovery_required", k)
  OBVIOUS
<1>3. /\ Carries(o, op) /\ o.stops = op.stops /\ o.reviewed = op.reviewed
      /\ o.phase = "recovery_required"
  BY <1>1, <1>2, CheckpointShape DEF ExchangePhases
<1>4. o \in Exchanges /\ Fail(o)
  BY <1>2, <1>3 DEF Carries
<1> QED
  BY <1>3, <1>4, FailedKeeps DEF Stops

\* The service is started from what it has been switched to.
LEMMA LoadKeeps ==
    ASSUME ReleaseInv, ctl.pc \in {"bootstrap", "recover"}, NEW then \in {"health", "recover"},
           Load(then),
           then = "health" <=> ctl.pc = "bootstrap",
           UNCHANGED <<ptr, plist, drain, owned, op, daemon, bootout, sends, evidence, dirs>>
    PROVE  ReleaseInv'
<1>1. /\ op \in Exchanges /\ op.kind \in Kinds /\ op.phase \notin Terminal /\ ctl.pc \in ExchangePcs
      /\ ctl \in Controllers
  BY ExchangeThere DEF ReleaseInv, Typed, ExchangePcs, AbandonPcs, AtStop
<1>2. PICK c : c = ctl'
  OBVIOUS
<1>3. /\ c \in Controllers /\ c.pc = "kickstart" /\ c.by = ctl.by /\ c.dir = ctl.dir
      /\ c.restoring = ctl.restoring /\ c.held = ctl.held /\ c.then = then
  BY <1>1, <1>2 DEF Load, Controllers, ExchangePcs, ReleasePcs, Thens
<1>4. ControllerFits(c)
  BY <1>1, <1>3
     DEF ReleaseInv, ControllerKnows, ControllerFits, ExchangePcs, AbandonPcs, AtStop, ReleasePcs,
         PrunePcs, TargetPcs, EndPcs, DeletePcs, Directions
<1>5. SendFits(c)
  BY <1>3 DEF ReleaseInv, SendKnows, SendFits
<1>6. SwitchFits(c)
  BY <1>1, <1>3 DEF ReleaseInv, SwitchKnows, SwitchFits, ReleasePcs, ControllerKnows,
       ControllerFits, AtStop
<1>7. Typed'
  BY <1>2, <1>3 DEF ReleaseInv, Typed, Load
<1>8. JournalKnows'
  <2>1. ctl # Idle /\ ctl' # Idle
    BY <1>1, <1>2, <1>3, ExchangeThere DEF Idle
  <2> QED
    BY <2>1 DEF ReleaseInv, JournalKnows, Stops, Unsent, Last
<1>9. ControllerKnows' /\ SendKnows' /\ SwitchKnows'
  BY <1>2, <1>4, <1>5, <1>6
     DEF ControllerKnows, ControllerFits, SendKnows, SendFits, SwitchKnows, SwitchFits, Stops,
          Last,
         Unsent, Up, Down, Target, Config
<1>10. TreesKnow'
  BY <1>1, TreesStay DEF Carries
<1> QED
  BY <1>7, <1>8, <1>9, <1>10 DEF ReleaseInv

\* A request leaves everything of the journal but itself and the phase.
LEMMA RequestNoted ==
    ASSUME ReleaseInv, ctl.pc \in ExchangePcs, Stops # <<>>, NEW r \in Requests,
           NEW p \in ExchangePhases, NEW k \in Checkpoints,
           NEW o, o = Checkpoint(Requested(op, r), p, k)
    PROVE  /\ Carries(o, op) /\ o.stops # <<>> /\ o.stops[Len(o.stops)].request = r
           /\ o.reviewed = op.reviewed /\ o.phase = p
           /\ o.kind = op.kind /\ o.package = op.package /\ o.previous = op.previous
           /\ o.backup = op.backup /\ o.staged = op.staged /\ o.abandoned = op.abandoned
           /\ Len(o.stops) = Len(op.stops)
           /\ op.reviewed /\ (r = "prepared" => op.abandoned \/ Last.pid = NoPid) =>
                o.stops[1].request # "prepared"
<1>1. op \in Exchanges /\ op.kind \in Kinds
  BY ExchangeThere
<1>2. PICK q : q = Requested(op, r)
  OBVIOUS
<1>3. /\ Carries(q, op) /\ q.reviewed = op.reviewed /\ q.stops # <<>>
      /\ q.stops[Len(q.stops)].request = r
  BY <1>1, <1>2, RequestedShape DEF Stops
<1>4. q \in Exchanges
  BY <1>3 DEF Carries
<1>5. Carries(o, q) /\ o.stops = q.stops /\ o.reviewed = q.reviewed /\ o.phase = p
  BY <1>2, <1>4, CheckpointShape
<1>6. Carries(o, op)
  BY <1>3, <1>5 DEF Carries
<1>7. ASSUME op.reviewed, r = "prepared" => op.abandoned \/ Last.pid = NoPid
      PROVE  o.stops[1].request # "prepared"
  <2>1. /\ ~op.abandoned /\ op.stops[1].pid # NoPid /\ op.stops[1].request # "prepared"
        /\ Len(op.stops) <= 2
    BY <1>1, <1>7 DEF ReleaseInv, JournalKnows, Stops
  <2>2. Len(op.stops) \in 1..2
    <3>1. PICK n : n = Len(op.stops)
      OBVIOUS
    <3>2. n \in Nat /\ n \in 1..n
      BY <1>1, <3>1, StopShape DEF Stops
    <3>3. n <= 2
      BY <2>1, <3>1
    <3>4. n = 1 \/ n = 2
      BY <3>2, <3>3
    <3> QED
      BY <3>1, <3>4
  <2>3. CASE Len(op.stops) = 1
    BY <1>3, <1>5, <1>6, <1>7, <2>1, <2>3 DEF Carries, Last
  <2>4. CASE Len(op.stops) = 2
    <3>1. 1 \in 1..Len(op.stops) /\ 1 < Len(op.stops)
      BY <2>4
    <3> QED
      BY <1>6, <2>1, <3>1 DEF Carries
  <2> QED
    BY <2>2, <2>3, <2>4
<1> QED
  BY <1>3, <1>5, <1>6, <1>7 DEF Carries

\* The journal with its newest request changed is right, as long as a stop that is reset was not
\* sent.
LEMMA RequestRight ==
    ASSUME ReleaseInv, ctl.pc \in ExchangePcs, Stops # <<>>, NEW r \in Requests,
           NEW p \in ExchangePhases \ Terminal, NEW k \in Checkpoints, p # "abandonment_pending",
           op' = Checkpoint(Requested(op, r), p, k),
           r = "prepared" => (op.abandoned \/ Last.pid = NoPid) /\ sends = 0,
           UNCHANGED <<ptr, drain, sends, evidence>>
    PROVE  JournalKnows'
<1>1. op \in Exchanges /\ op.kind \in Kinds
  BY ExchangeThere
<1>2. /\ Carries(op', op) /\ op'.stops # <<>> /\ op'.stops[Len(op'.stops)].request = r
      /\ op'.reviewed = op.reviewed /\ op'.phase = p
      /\ op.reviewed => op'.stops[1].request # "prepared"
  BY RequestNoted
<1>3. evidence => op.stops # <<>> /\ ~op.abandoned
  BY <1>1 DEF ReleaseInv, JournalKnows, Stops
<1>4. (op.stops # <<>> /\ Unsent => sends = 0)'
  BY <1>2 DEF Unsent, Last
<1>5. op'.phase \notin Terminal
  BY <1>2
<1> QED
  BY <1>1, <1>2, <1>3, <1>4, <1>5, JournalStays DEF Stops

\* What a request leaves of the newest stop.
LEMMA RequestStays ==
    ASSUME ReleaseInv, ctl.pc \in ExchangePcs, Stops # <<>>, NEW r \in Requests,
           NEW p \in ExchangePhases, NEW k \in Checkpoints,
           op' = Checkpoint(Requested(op, r), p, k)
    PROVE  /\ Stops' # <<>> /\ Len(Stops') = Len(Stops) /\ Last'.dir = Last.dir
           /\ Last'.pid = Last.pid
           /\ Last'.drain = Last.drain /\ Target(Last)' = Target(Last)
           /\ Config(Last)' = Config(Last)
           /\ Last'.request = r
<1>1. op \in Exchanges
  BY ExchangeThere
<1>2. Carries(op', op) /\ op'.stops[Len(op'.stops)].request = r
  BY RequestNoted
<1> QED
  BY <1>1, <1>2, LastStays DEF Stops, Last

\* The controller goes on at a stop whose request has been made.
LEMMA RequestsKeeps ==
    ASSUME ReleaseInv, ctl.pc \in ExchangePcs, Stops # <<>>, NEW r \in Requests \ {"prepared"},
           NEW p \in ExchangePhases \ Terminal, NEW k \in Checkpoints, p # "abandonment_pending",
           op' = Checkpoint(Requested(op, r), p, k),
           UNCHANGED <<ptr, plist, drain, owned, label, daemon, bootout, sends, evidence, dirs>>,
           NEW c \in Controllers, ctl' = c, c.pc \in {"send", "observe", "switch"}, c.by = ctl.by,
           c.dir = ctl.dir, c.restoring = ctl.restoring,
           c.held => Down /\ c.pc # "observe", c.pc = "switch" => c.held,
           c.pc = "send" => /\ sends = 0
                            /\ c.held \/ (Last.pid # NoPid /\ drain # None
                                           /\ (Up => daemon.drained /\ ~daemon.work))
    PROVE  ReleaseInv'
<1>1. op \in Exchanges /\ op.kind \in Kinds
  BY ExchangeThere
<1>2. JournalKnows'
  BY RequestRight
<1>3. /\ Carries(op', op) /\ op'.kind = op.kind /\ op'.abandoned = op.abandoned /\ op'.phase = p
  BY RequestNoted
<1>4. Stops' # <<>> /\ Len(Stops') = Len(Stops) /\ Last'.pid = Last.pid /\ Last'.request = r
  BY RequestStays
<1>5. Typed'
  BY <1>3 DEF ReleaseInv, Typed, Carries
<1>6. TreesKnow'
  BY <1>1, <1>3, TreesStay
<1>7. ctl.dir \in Directions /\ (op.abandoned => ctl.by = "abandon" /\ ~ctl.restoring)
  BY DEF ReleaseInv, ControllerKnows, ControllerFits
<1>8. ControllerKnows'
  BY <1>1, <1>3, <1>4, <1>7
     DEF ControllerKnows, ControllerFits, ExchangePcs, AbandonPcs, AtStop, ReleasePcs, PrunePcs,
          TargetPcs, EndPcs,
         DeletePcs, Down
<1>9. ~Unsent'
  BY <1>4 DEF Unsent
<1>10. SendKnows'
  BY <1>4, <1>9 DEF ReleaseInv, SendKnows, SendFits, Up, Down
<1>11. SwitchKnows'
  BY DEF SwitchKnows, SwitchFits, ReleasePcs
<1> QED
  BY <1>2, <1>5, <1>6, <1>8, <1>10, <1>11 DEF ReleaseInv

\* A second checkpoint takes the place of the first.
LEMMA CheckpointTwice ==
    ASSUME NEW o \in Exchanges, NEW p, NEW k, NEW q, NEW m
    PROVE  Checkpoint(Checkpoint(o, p, k), q, m) = Checkpoint(o, q, m)
BY DEF Checkpoint, Exchanges

\* A stop that was not sent is reset, whatever becomes of the step that did not send it.
LEMMA ResetKeeps ==
    ASSUME ReleaseInv, ctl.pc \in ExchangePcs, Stops # <<>>, op.abandoned \/ Last.pid = NoPid,
           sends = 0,
           ServiceStays, UNCHANGED <<drain, sends, evidence>>,
           Fail(Checkpoint(Requested(op, "prepared"),
                           "service_stop_pending", "service_stop_intent_prepared"))
    PROVE  ReleaseInv'
<1>1. op \in Exchanges /\ op.kind \in Kinds
  BY ExchangeThere
<1>2. PICK q : q = Requested(op, "prepared")
  OBVIOUS
<1>3. PICK o : o = Checkpoint(q, "service_stop_pending", "service_stop_intent_prepared")
  OBVIOUS
<1>4. /\ "prepared" \in Requests /\ "service_stop_intent_prepared" \in Checkpoints
      /\ "service_stop_pending" \in ExchangePhases \ Terminal
      /\ "recovery_required" \in ExchangePhases \ Terminal
  BY DEF Requests, Checkpoints, ExchangePhases, Terminal
<1>5. o \in Exchanges /\ q \in Exchanges
  BY <1>1, <1>2, <1>3, <1>4, RequestNoted, RequestedShape DEF Carries, Stops
<1>6. PICK p \in {"service_stop_pending", "recovery_required"},
             k \in Checkpoints :
        op' = Checkpoint(q, p, k)
  <2>1. CASE op' = o
    BY <1>3, <1>4, <2>1
  <2>2. CASE Protected(o)
    <3>1. PICK m \in Checkpoints : op' = Checkpoint(o, "recovery_required", m)
      BY <2>2 DEF Protected
    <3> QED
      BY <1>3, <1>5, <3>1, CheckpointTwice
  <2> QED
    BY <1>2, <1>3, <1>5, <2>1, <2>2, FailCases DEF ReleaseInv
<1>7. p \in ExchangePhases \ Terminal /\ p # "abandonment_pending"
  BY <1>4, <1>6
<1>8. op' = Checkpoint(Requested(op, "prepared"), p, k)
  BY <1>2, <1>6
<1>9. JournalKnows' /\ Carries(op', op) /\ op'.phase \notin Terminal
  BY <1>4, <1>7, <1>8, RequestRight, RequestNoted DEF ServiceStays
<1>10. sends' \in Nat /\ evidence' \in BOOLEAN
  BY DEF ReleaseInv, Typed
<1>11. op.abandoned => ctl.by = "abandon"
  BY DEF ReleaseInv, ControllerKnows, ControllerFits
<1>12. CASE ctl' = Idle
  BY <1>1, <1>9, <1>10, <1>12, EndsKeeps
<1>13. CASE ctl.by = "activate" /\ Restores
  BY <1>9, <1>10, <1>11, <1>13, RestoresKeeps
<1> QED
  BY <1>2, <1>3, <1>5, <1>12, <1>13, FailCases DEF ReleaseInv, Restores

\* A restoration goes on to a stop once the service is drained and idle.
LEMMA CheckRestoreIdleKeeps ==
    ASSUME ReleaseInv, CheckRestoreIdle, UNCHANGED dirs
    PROVE  ReleaseInv'
<1>1. /\ op \in Exchanges /\ op.kind \in Kinds /\ op.kind # "prune" /\ op.phase \notin Terminal
      /\ ctl.pc = "restore_idle" /\ ctl.pc \in ExchangePcs /\ ctl \in Controllers
  BY ExchangeThere DEF CheckRestoreIdle, ReleaseInv, Typed, ExchangePcs, AbandonPcs, AtStop,
       ReleasePcs
<1>2. CASE /\ DrainedIdle /\ UNCHANGED op
          /\ ctl' = [ctl EXCEPT !.pc = "prepare", !.dir = "restore"]
  <2>1. ElseStays
    BY <1>2 DEF ElseStays, CheckRestoreIdle, disk, service, history
  <2>2. PICK c : c = ctl'
    OBVIOUS
  <2>3. /\ c \in Controllers /\ c.pc = "prepare" /\ c.by = ctl.by /\ c.dir = "restore"
        /\ c.restoring = ctl.restoring /\ c.held = ctl.held /\ c.then = ctl.then
    BY <1>1, <1>2, <2>2 DEF Controllers, ExchangePcs, AbandonPcs, AtStop, ReleasePcs, PrunePcs,
         TargetPcs, EndPcs, DeletePcs, Directions, Thens, None
  <2>4. ControllerFits(c)
    BY <1>1, <1>2, <2>3 DEF ReleaseInv, ControllerKnows, ControllerFits, ExchangePcs, AbandonPcs,
         AtStop, ReleasePcs, PrunePcs, TargetPcs, EndPcs, DeletePcs, Directions
  <2>5. SendFits(c)
    BY <1>1, <1>2, <2>3 DEF ReleaseInv, SendKnows, SendFits
  <2>6. SwitchFits(c)
    BY <1>1, <1>2, <2>3 DEF ReleaseInv, SwitchKnows, SwitchFits, ReleasePcs
  <2>7. c.pc \in ExchangePcs
    BY <1>1, <1>2, <2>3 DEF ExchangePcs, AbandonPcs, AtStop, ReleasePcs, PrunePcs, TargetPcs,
         EndPcs, DeletePcs
  <2> QED
    BY <1>1, <2>1, <2>2, <2>3, <2>4, <2>5, <2>6, <2>7, GoesKeeps
<1>3. CASE Fail(op)
  <2>1. ServiceStays /\ UNCHANGED <<sends, evidence>>
    BY <1>3 DEF CheckRestoreIdle, ServiceStays, disk, service, history
  <2> QED
    BY <1>1, <1>3, <2>1, FailKeeps
<1> QED
  BY <1>2, <1>3 DEF CheckRestoreIdle

\* A restoration drains whatever runs, and records no stop of its own yet.
LEMMA RestoreServiceKeeps ==
    ASSUME ReleaseInv, RestoreService, UNCHANGED dirs
    PROVE  ReleaseInv'
<1>1. /\ op \in Exchanges /\ op.kind \in Kinds /\ op.kind # "prune" /\ op.phase \notin Terminal
      /\ ctl.pc = "restore" /\ ctl.pc \in ExchangePcs /\ ctl \in Controllers
  BY ExchangeThere DEF RestoreService, ReleaseInv, Typed, ExchangePcs, AbandonPcs, AtStop,
       ReleasePcs
<1>2. CASE /\ ~Up /\ label = "absent" /\ UNCHANGED <<disk, service, op>>
          /\ ctl' = [ctl EXCEPT !.pc = "prepare", !.dir = "restore"]
  <2>1. ElseStays
    BY <1>2 DEF ElseStays, RestoreService, disk, service, history
  <2>2. PICK c : c = ctl'
    OBVIOUS
  <2>3. /\ c \in Controllers /\ c.pc = "prepare" /\ c.by = ctl.by /\ c.dir = "restore"
        /\ c.restoring = ctl.restoring /\ c.held = ctl.held /\ c.then = ctl.then
    BY <1>1, <1>2, <2>2 DEF Controllers, ExchangePcs, AbandonPcs, AtStop, ReleasePcs, PrunePcs,
         TargetPcs, EndPcs, DeletePcs, Directions, Thens, None
  <2>4. ControllerFits(c)
    BY <1>1, <1>2, <2>3 DEF ReleaseInv, ControllerKnows, ControllerFits, ExchangePcs, AbandonPcs,
         AtStop, ReleasePcs, PrunePcs, TargetPcs, EndPcs, DeletePcs, Directions
  <2>5. SendFits(c)
    BY <1>1, <1>2, <2>3 DEF ReleaseInv, SendKnows, SendFits, Up
  <2>6. SwitchFits(c)
    BY <1>1, <1>2, <2>3 DEF ReleaseInv, SwitchKnows, SwitchFits, ReleasePcs
  <2>7. c.pc \in ExchangePcs
    BY <1>1, <1>2, <2>3 DEF ExchangePcs, AbandonPcs, AtStop, ReleasePcs, PrunePcs, TargetPcs,
         EndPcs, DeletePcs
  <2> QED
    BY <1>1, <2>1, <2>2, <2>3, <2>4, <2>5, <2>6, <2>7, GoesKeeps
<1>3. CASE Fail(op) /\ UNCHANGED <<disk, service>>
  <2>1. ServiceStays /\ UNCHANGED <<sends, evidence>>
    BY <1>3 DEF RestoreService, ServiceStays, disk, service, history
  <2> QED
    BY <1>1, <1>3, <2>1, FailKeeps
<1>4. CASE Drained /\ Goto("restore_idle") /\ UNCHANGED op
  BY <1>1, <1>4, DrainedKeeps DEF RestoreService, history
<1> QED
  BY <1>2, <1>3, <1>4 DEF RestoreService

\* A recorded stop is observed, finished or taken back, but never sent again.
LEMMA ReconcileStopKeeps ==
    ASSUME ReleaseInv, ReconcileStop, UNCHANGED dirs
    PROVE  ReleaseInv'
<1>1. /\ op \in Exchanges /\ op.kind \in Kinds /\ op.kind # "prune" /\ op.phase \notin Terminal
      /\ ctl.pc = "reconcile_stop" /\ ctl.pc \in ExchangePcs /\ ctl \in Controllers
  BY ExchangeThere DEF ReconcileStop, ReleaseInv, Typed, ExchangePcs, AbandonPcs, AtStop,
       ReleasePcs
<1>2. CASE Fail(op)
  <2>1. ServiceStays /\ UNCHANGED <<sends, evidence>>
    BY <1>2 DEF ReconcileStop, ServiceStays, disk, service, history
  <2> QED
    BY <1>1, <1>2, <2>1, FailKeeps
<1>3. CASE /\ LoadedIdle /\ UNCHANGED op
            /\ ctl' = [ctl EXCEPT !.pc = "prepare", !.dir = "restore"]
  <2>1. ElseStays
    BY <1>3 DEF ElseStays, ReconcileStop, disk, service, history
  <2>2. PICK c : c = ctl'
    OBVIOUS
  <2>3. /\ c \in Controllers /\ c.pc = "prepare" /\ c.by = ctl.by /\ c.dir = "restore"
        /\ c.restoring = ctl.restoring /\ c.held = ctl.held /\ c.then = ctl.then
    BY <1>1, <1>3, <2>2 DEF Controllers, ExchangePcs, AbandonPcs, AtStop, ReleasePcs, PrunePcs,
         TargetPcs, EndPcs, DeletePcs, Directions, Thens, None
  <2>4. ControllerFits(c)
    BY <1>1, <1>3, <2>3 DEF ReleaseInv, ControllerKnows, ControllerFits, ExchangePcs, AbandonPcs,
         AtStop, ReleasePcs, PrunePcs, TargetPcs, EndPcs, DeletePcs, Directions
  <2>5. SendFits(c)
    BY <1>1, <1>3, <2>3 DEF ReleaseInv, SendKnows, SendFits, LoadedIdle, Up, Down
  <2>6. SwitchFits(c)
    BY <1>1, <1>3, <2>3 DEF ReleaseInv, SwitchKnows, SwitchFits, ReleasePcs
  <2>7. c.pc \in ExchangePcs
    BY <1>1, <1>3, <2>3 DEF ExchangePcs, AbandonPcs, AtStop, ReleasePcs, PrunePcs, TargetPcs,
         EndPcs, DeletePcs
  <2> QED
    BY <1>1, <2>1, <2>2, <2>3, <2>4, <2>5, <2>6, <2>7, GoesKeeps
<1>4. CASE /\ Last.request = "prepared" /\ Last.pid = NoPid /\ Len(Stops) = 2 /\ Goto("request")
            /\ UNCHANGED op
  <2>1. ElseStays
    BY <1>4 DEF ElseStays, ReconcileStop, Goto, disk, service, history
  <2>2. PICK c : c = ctl'
    OBVIOUS
  <2>3. /\ c \in Controllers /\ c.pc = "request" /\ c.by = ctl.by /\ c.dir = ctl.dir
        /\ c.restoring = ctl.restoring /\ c.held = ctl.held /\ c.then = ctl.then
    BY <1>1, <1>4, <2>2 DEF Controllers, Goto, ExchangePcs, AbandonPcs, AtStop, ReleasePcs,
         PrunePcs, TargetPcs, EndPcs, DeletePcs, Directions, Thens, None
  <2>4. ControllerFits(c)
    BY <1>1, <1>4, <2>3 DEF ReleaseInv, ControllerKnows, ControllerFits, ExchangePcs, AbandonPcs,
         AtStop, ReleasePcs, PrunePcs, TargetPcs, EndPcs, DeletePcs
  <2>5. SendFits(c)
    BY <1>1, <1>4, <2>3 DEF ReleaseInv, SendKnows, SendFits, JournalKnows, Unsent, Stops
  <2>6. SwitchFits(c)
    BY <1>1, <1>4, <2>3 DEF ReleaseInv, SwitchKnows, SwitchFits, ReleasePcs
  <2>7. c.pc \in ExchangePcs
    BY <1>1, <1>4, <2>3 DEF ExchangePcs, AbandonPcs, AtStop, ReleasePcs, PrunePcs, TargetPcs,
         EndPcs, DeletePcs
  <2> QED
    BY <1>1, <2>1, <2>2, <2>3, <2>4, <2>5, <2>6, <2>7, GoesKeeps
<1>5. CASE Goto("observe") /\ UNCHANGED op
  <2>1. ElseStays
    BY <1>5 DEF ElseStays, ReconcileStop, Goto, disk, service, history
  <2>2. PICK c : c = ctl'
    OBVIOUS
  <2>3. /\ c \in Controllers /\ c.pc = "observe" /\ c.by = ctl.by /\ c.dir = ctl.dir
        /\ c.restoring = ctl.restoring /\ c.held = ctl.held /\ c.then = ctl.then
    BY <1>1, <1>5, <2>2 DEF Controllers, Goto, ExchangePcs, AbandonPcs, AtStop, ReleasePcs,
         PrunePcs, TargetPcs, EndPcs, DeletePcs, Directions, Thens, None
  <2>4. ControllerFits(c)
    BY <1>1, <1>5, <2>3 DEF ReleaseInv, ControllerKnows, ControllerFits, ExchangePcs, AbandonPcs,
         AtStop, ReleasePcs, PrunePcs, TargetPcs, EndPcs, DeletePcs
  <2>5. SendFits(c)
    BY <1>1, <1>5, <2>3 DEF ReleaseInv, SendKnows, SendFits
  <2>6. SwitchFits(c)
    BY <1>1, <1>5, <2>3 DEF ReleaseInv, SwitchKnows, SwitchFits, ReleasePcs
  <2>7. c.pc \in ExchangePcs
    BY <1>1, <1>5, <2>3 DEF ExchangePcs, AbandonPcs, AtStop, ReleasePcs, PrunePcs, TargetPcs,
         EndPcs, DeletePcs
  <2> QED
    BY <1>1, <2>1, <2>2, <2>3, <2>4, <2>5, <2>6, <2>7, GoesKeeps
<1>6. CASE /\ ptr = Target(Last) /\ plist = Config(Last) /\ Goto("stop_judge") /\ UNCHANGED op
  <2>1. ElseStays
    BY <1>6 DEF ElseStays, ReconcileStop, Goto, disk, service, history
  <2>2. PICK c : c = ctl'
    OBVIOUS
  <2>3. /\ c \in Controllers /\ c.pc = "stop_judge" /\ c.by = ctl.by /\ c.dir = ctl.dir
        /\ c.restoring = ctl.restoring /\ c.held = ctl.held /\ c.then = ctl.then
    BY <1>1, <1>6, <2>2 DEF Controllers, Goto, ExchangePcs, AbandonPcs, AtStop, ReleasePcs,
         PrunePcs, TargetPcs, EndPcs, DeletePcs, Directions, Thens, None
  <2>4. ControllerFits(c)
    BY <1>1, <1>6, <2>3 DEF ReleaseInv, ControllerKnows, ControllerFits, ExchangePcs, AbandonPcs,
         AtStop, ReleasePcs, PrunePcs, TargetPcs, EndPcs, DeletePcs
  <2>5. SendFits(c)
    BY <1>1, <1>6, <2>3 DEF ReleaseInv, SendKnows, SendFits
  <2>6. SwitchFits(c)
    BY <1>1, <1>6, <2>3 DEF ReleaseInv, SwitchKnows, SwitchFits, ReleasePcs, Target, Config, Last,
         Stops
  <2>7. c.pc \in ExchangePcs
    BY <1>1, <1>6, <2>3 DEF ExchangePcs, AbandonPcs, AtStop, ReleasePcs, PrunePcs, TargetPcs,
         EndPcs, DeletePcs
  <2> QED
    BY <1>1, <2>1, <2>2, <2>3, <2>4, <2>5, <2>6, <2>7, GoesKeeps
<1>7. CASE Last.dir = "activate" /\ Restoring /\ UNCHANGED op
  <2>1. ElseStays
    BY <1>7 DEF ElseStays, ReconcileStop, Restoring, disk, service, history
  <2>2. PICK c : c = ctl'
    OBVIOUS
  <2>3. /\ c \in Controllers /\ c.pc = "restore" /\ c.by = ctl.by /\ c.dir = ctl.dir
        /\ c.restoring = TRUE /\ c.held = ctl.held /\ c.then = ctl.then
    BY <1>1, <1>7, <2>2 DEF Controllers, Restoring, ExchangePcs, AbandonPcs, AtStop, ReleasePcs,
         PrunePcs, TargetPcs, EndPcs, DeletePcs, Directions, Thens, None
  <2>4. ControllerFits(c)
    BY <1>1, <1>7, <2>3 DEF ReleaseInv, ControllerKnows, ControllerFits, ExchangePcs, AbandonPcs,
         AtStop, ReleasePcs, PrunePcs, TargetPcs, EndPcs, DeletePcs, JournalKnows, Last, Stops
  <2>5. SendFits(c)
    BY <1>1, <1>7, <2>3 DEF ReleaseInv, SendKnows, SendFits
  <2>6. SwitchFits(c)
    BY <1>1, <1>7, <2>3 DEF ReleaseInv, SwitchKnows, SwitchFits, ReleasePcs
  <2>7. c.pc \in ExchangePcs
    BY <1>1, <1>7, <2>3 DEF ExchangePcs, AbandonPcs, AtStop, ReleasePcs, PrunePcs, TargetPcs,
         EndPcs, DeletePcs
  <2> QED
    BY <1>1, <2>1, <2>2, <2>3, <2>4, <2>5, <2>6, <2>7, GoesKeeps
<1> QED
  BY <1>2, <1>3, <1>4, <1>5, <1>6, <1>7 DEF ReconcileStop

\* The candidate is judged only where the journal has switched to it.
LEMMA JudgeStoppedKeeps ==
    ASSUME ReleaseInv, JudgeStopped, UNCHANGED dirs
    PROVE  ReleaseInv'
<1>1. /\ op \in Exchanges /\ op.kind \in Kinds /\ op.kind # "prune" /\ op.phase \notin Terminal
      /\ ctl.pc = "stop_judge" /\ ctl.pc \in ExchangePcs /\ ctl \in Controllers
  BY ExchangeThere DEF JudgeStopped, ReleaseInv, Typed, ExchangePcs, AbandonPcs, AtStop,
       ReleasePcs
<1>2. CASE Fail(op)
  <2>1. ServiceStays /\ UNCHANGED <<sends, evidence>>
    BY <1>2 DEF JudgeStopped, ServiceStays, disk, service, history
  <2> QED
    BY <1>1, <1>2, <2>1, FailKeeps
<1>3. CASE RecordedFailure /\ Release("stop_health") /\ UNCHANGED op
  <2>1. ElseStays
    BY <1>3 DEF ElseStays, JudgeStopped, Release, disk, service, history
  <2>2. PICK c : c = ctl'
    OBVIOUS
  <2>3. /\ c \in Controllers /\ c.pc = "release" /\ c.by = ctl.by /\ c.dir = ctl.dir
        /\ c.restoring = ctl.restoring /\ c.held = ctl.held /\ c.then = "stop_health"
    BY <1>1, <1>3, <2>2 DEF Controllers, Release, ExchangePcs, AbandonPcs, AtStop, ReleasePcs,
         PrunePcs, TargetPcs, EndPcs, DeletePcs, Directions, Thens, None
  <2>4. ControllerFits(c)
    BY <1>1, <1>3, <2>3 DEF ReleaseInv, ControllerKnows, ControllerFits, ExchangePcs, AbandonPcs,
         AtStop, ReleasePcs, PrunePcs, TargetPcs, EndPcs, DeletePcs, JournalKnows, Last, Stops,
         RecordedFailure
  <2>5. SendFits(c)
    BY <1>1, <1>3, <2>3 DEF ReleaseInv, SendKnows, SendFits
  <2>6. SwitchFits(c)
    <3>1. ctl.pc = "stop_judge" /\ Stops # <<>>
      BY <1>1 DEF ReleaseInv, ControllerKnows, ControllerFits, AtStop, JudgeStopped
    <3>2. ptr = Target(Last) /\ plist = Config(Last)
      BY <3>1 DEF ReleaseInv, SwitchKnows, SwitchFits
    <3> QED
      BY <2>3, <3>1, <3>2 DEF SwitchFits
  <2>7. c.pc \in ExchangePcs
    BY <1>1, <1>3, <2>3 DEF ExchangePcs, AbandonPcs, AtStop, ReleasePcs, PrunePcs, TargetPcs,
         EndPcs, DeletePcs
  <2> QED
    BY <1>1, <2>1, <2>2, <2>3, <2>4, <2>5, <2>6, <2>7, GoesKeeps
<1>4. CASE /\ ctl' = [ctl EXCEPT !.pc = "stop_health",
                                   !.then = IF RecordedFailure \/ GenericCandidate
                                            THEN "suspect" ELSE None]
             /\ UNCHANGED op
  <2>1. ElseStays
    BY <1>4 DEF ElseStays, JudgeStopped, disk, service, history
  <2>2. PICK c : c = ctl'
    OBVIOUS
  <2>3. /\ c \in Controllers /\ c.pc = "stop_health" /\ c.by = ctl.by /\ c.dir = ctl.dir
        /\ c.restoring = ctl.restoring /\ c.held = ctl.held
        /\ c.then = IF RecordedFailure \/ GenericCandidate THEN "suspect" ELSE None
    BY <1>1, <1>4, <2>2 DEF Controllers, ExchangePcs, AbandonPcs, AtStop, ReleasePcs, PrunePcs,
         TargetPcs, EndPcs, DeletePcs, Directions, Thens, None
  <2>a. RecordedFailure \/ GenericCandidate => Last.dir = "activate"
    BY DEF RecordedFailure, GenericCandidate
  <2>b. c.then = "suspect" => RecordedFailure \/ GenericCandidate
    BY <2>3 DEF None
  <2>c. c.then = "suspect" => Last.dir = "activate"
    BY <2>a, <2>b
  <2>d. c.pc = "stop_health"
    BY <2>3
  <2>4. ControllerFits(c)
    BY <1>1, <1>4, <2>3, <2>c DEF ReleaseInv, ControllerKnows, ControllerFits, ExchangePcs,
         AbandonPcs, AtStop, ReleasePcs, PrunePcs, TargetPcs, EndPcs, DeletePcs
  <2>5. SendFits(c)
    BY <1>1, <1>4, <2>3, <2>c DEF ReleaseInv, SendKnows, SendFits
  <2>6. SwitchFits(c)
    BY <1>1, <2>c, <2>d DEF ReleaseInv, SwitchKnows, SwitchFits, ReleasePcs, None
  <2>7. c.pc \in ExchangePcs
    BY <1>1, <1>4, <2>3, <2>c DEF ExchangePcs, AbandonPcs, AtStop, ReleasePcs, PrunePcs,
         TargetPcs, EndPcs, DeletePcs
  <2> QED
    BY <1>1, <2>1, <2>2, <2>3, <2>4, <2>5, <2>6, <2>7, GoesKeeps
<1> QED
  BY <1>2, <1>3, <1>4 DEF JudgeStopped

\* An abandonment stops nothing but the previous service, once.
LEMMA ReconcileAbandonmentKeeps ==
    ASSUME ReleaseInv, ReconcileAbandonment, UNCHANGED dirs
    PROVE  ReleaseInv'
<1>1. /\ op \in Exchanges /\ op.kind \in Kinds /\ op.kind # "prune" /\ op.phase \notin Terminal
      /\ ctl.pc = "abandon" /\ ctl.pc \in ExchangePcs /\ ctl \in Controllers
  BY ExchangeThere DEF ReconcileAbandonment, ReleaseInv, Typed, ExchangePcs, AbandonPcs, AtStop,
       ReleasePcs
<1>2. CASE /\ Stops = <<>> /\ UNCHANGED op
             /\ ctl' = [ctl EXCEPT !.pc = "prepare", !.dir = "restore"]
  <2>1. ElseStays
    BY <1>2 DEF ElseStays, ReconcileAbandonment, disk, service, history
  <2>2. PICK c : c = ctl'
    OBVIOUS
  <2>3. /\ c \in Controllers /\ c.pc = "prepare" /\ c.by = ctl.by /\ c.dir = "restore"
        /\ c.restoring = ctl.restoring /\ c.held = ctl.held /\ c.then = ctl.then
    BY <1>1, <1>2, <2>2 DEF Controllers, ExchangePcs, AbandonPcs, AtStop, ReleasePcs, PrunePcs,
         TargetPcs, EndPcs, DeletePcs, Directions, Thens, None
  <2>a. op.abandoned
    BY <1>1 DEF ReleaseInv, ControllerKnows, ControllerFits
  <2>4. ControllerFits(c)
    BY <1>1, <1>2, <2>3, <2>a DEF ReleaseInv, ControllerKnows, ControllerFits, ExchangePcs,
         AbandonPcs, AtStop, ReleasePcs, PrunePcs, TargetPcs, EndPcs, DeletePcs, Stops, Directions
  <2>5. SendFits(c)
    BY <1>1, <1>2, <2>3, <2>a DEF ReleaseInv, SendKnows, SendFits, JournalKnows, Stops, None
  <2>6. SwitchFits(c)
    BY <1>1, <1>2, <2>3, <2>a DEF ReleaseInv, SwitchKnows, SwitchFits, ReleasePcs
  <2>7. c.pc \in ExchangePcs
    BY <1>1, <1>2, <2>3, <2>a DEF ExchangePcs, AbandonPcs, AtStop, ReleasePcs, PrunePcs,
         TargetPcs, EndPcs, DeletePcs
  <2> QED
    BY <1>1, <2>1, <2>2, <2>3, <2>4, <2>5, <2>6, <2>7, GoesKeeps
<1>3. CASE Stops # <<>> /\ Last.request = "prepared" /\ Goto("request") /\ UNCHANGED op
  <2>1. ElseStays
    BY <1>3 DEF ElseStays, ReconcileAbandonment, Goto, disk, service, history
  <2>2. PICK c : c = ctl'
    OBVIOUS
  <2>3. /\ c \in Controllers /\ c.pc = "request" /\ c.by = ctl.by /\ c.dir = ctl.dir
        /\ c.restoring = ctl.restoring /\ c.held = ctl.held /\ c.then = ctl.then
    BY <1>1, <1>3, <2>2 DEF Controllers, Goto, ExchangePcs, AbandonPcs, AtStop, ReleasePcs,
         PrunePcs, TargetPcs, EndPcs, DeletePcs, Directions, Thens, None
  <2>a. op.abandoned
    BY <1>1 DEF ReleaseInv, ControllerKnows, ControllerFits
  <2>4. ControllerFits(c)
    BY <1>1, <1>3, <2>3, <2>a DEF ReleaseInv, ControllerKnows, ControllerFits, ExchangePcs,
         AbandonPcs, AtStop, ReleasePcs, PrunePcs, TargetPcs, EndPcs, DeletePcs
  <2>5. SendFits(c)
    BY <1>1, <1>3, <2>3, <2>a DEF ReleaseInv, SendKnows, SendFits, JournalKnows, Unsent, Stops
  <2>6. SwitchFits(c)
    BY <1>1, <1>3, <2>3, <2>a DEF ReleaseInv, SwitchKnows, SwitchFits, ReleasePcs
  <2>7. c.pc \in ExchangePcs
    BY <1>1, <1>3, <2>3, <2>a DEF ExchangePcs, AbandonPcs, AtStop, ReleasePcs, PrunePcs,
         TargetPcs, EndPcs, DeletePcs
  <2> QED
    BY <1>1, <2>1, <2>2, <2>3, <2>4, <2>5, <2>6, <2>7, GoesKeeps
<1>4. CASE Stops # <<>> /\ Goto("reconcile_stop") /\ UNCHANGED op
  <2>1. ElseStays
    BY <1>4 DEF ElseStays, ReconcileAbandonment, Goto, disk, service, history
  <2>2. PICK c : c = ctl'
    OBVIOUS
  <2>3. /\ c \in Controllers /\ c.pc = "reconcile_stop" /\ c.by = ctl.by /\ c.dir = ctl.dir
        /\ c.restoring = ctl.restoring /\ c.held = ctl.held /\ c.then = ctl.then
    BY <1>1, <1>4, <2>2 DEF Controllers, Goto, ExchangePcs, AbandonPcs, AtStop, ReleasePcs,
         PrunePcs, TargetPcs, EndPcs, DeletePcs, Directions, Thens, None
  <2>4. ControllerFits(c)
    BY <1>1, <1>4, <2>3 DEF ReleaseInv, ControllerKnows, ControllerFits, ExchangePcs, AbandonPcs,
         AtStop, ReleasePcs, PrunePcs, TargetPcs, EndPcs, DeletePcs
  <2>5. SendFits(c)
    BY <1>1, <1>4, <2>3 DEF ReleaseInv, SendKnows, SendFits
  <2>6. SwitchFits(c)
    BY <1>1, <1>4, <2>3 DEF ReleaseInv, SwitchKnows, SwitchFits, ReleasePcs
  <2>7. c.pc \in ExchangePcs
    BY <1>1, <1>4, <2>3 DEF ExchangePcs, AbandonPcs, AtStop, ReleasePcs, PrunePcs, TargetPcs,
         EndPcs, DeletePcs
  <2> QED
    BY <1>1, <2>1, <2>2, <2>3, <2>4, <2>5, <2>6, <2>7, GoesKeeps
<1>5. CASE Fail(op)
  <2>1. ServiceStays /\ UNCHANGED <<sends, evidence>>
    BY <1>5 DEF ReconcileAbandonment, ServiceStays, disk, service, history
  <2> QED
    BY <1>1, <1>5, <2>1, FailKeeps
<1> QED
  BY <1>2, <1>3, <1>4, <1>5 DEF ReconcileAbandonment

\* A service whose drain was released goes on where the exchange was.
LEMMA ReleasedKeeps ==
    ASSUME ReleaseInv, Released, UNCHANGED dirs
    PROVE  ReleaseInv'
<1>1. /\ op \in Exchanges /\ op.kind \in Kinds /\ op.kind # "prune" /\ op.phase \notin Terminal
      /\ ctl.pc = "released" /\ ctl.pc \in ExchangePcs /\ ctl \in Controllers
  BY ExchangeThere DEF Released, ReleaseInv, Typed, ExchangePcs, AbandonPcs, AtStop, ReleasePcs
<1>2. CASE /\ Healthy(ptr) /\ ctl' = [ctl EXCEPT !.pc = ctl.then, !.then = None]
           /\ UNCHANGED <<op, left>>
  <2>1. ElseStays
    BY <1>2 DEF ElseStays, Released, disk, service, history
  <2>2. PICK c : c = ctl'
    OBVIOUS
  <2>3. /\ c \in Controllers /\ c.pc = ctl.then /\ c.by = ctl.by /\ c.dir = ctl.dir
        /\ c.restoring = ctl.restoring /\ c.held = ctl.held /\ c.then = None
    BY <1>1, <1>2, <2>2 DEF Controllers, ReleaseInv, ControllerKnows, ControllerFits, ExchangePcs,
         AbandonPcs, AtStop, ReleasePcs, PrunePcs, TargetPcs, EndPcs, DeletePcs, Directions,
         Thens, None
  <2>a. /\ ctl.then \in {"recover", "reconcile", "stop_health"} /\ c.pc = ctl.then
        /\ ctl.then = "stop_health" => Stops # <<>> /\ ptr = Target(Last) /\ plist = Config(Last)
        /\ ctl.then = "recover" => ptr = op.previous /\ plist = op.backup
        /\ ~op.abandoned /\ ~ctl.held /\ ctl.dir \in Directions
    BY <1>1, <2>3 DEF ReleaseInv, ControllerKnows, ControllerFits, SwitchKnows, SwitchFits,
         ReleasePcs, ExchangePcs, AbandonPcs, AtStop
  <2>4. ControllerFits(c)
    BY <1>1, <1>2, <2>3, <2>a DEF ReleaseInv, ControllerKnows, ControllerFits, ExchangePcs,
         AbandonPcs, AtStop, ReleasePcs, PrunePcs, TargetPcs, EndPcs, DeletePcs, SwitchKnows,
         SwitchFits, None
  <2>5. SendFits(c)
    BY <1>1, <1>2, <2>3, <2>a DEF ReleaseInv, SendKnows, SendFits, None
  <2>6. SwitchFits(c)
    BY <1>1, <1>2, <2>3, <2>a DEF ReleaseInv, SwitchKnows, SwitchFits, ReleasePcs, None
  <2>7. c.pc \in ExchangePcs
    BY <1>1, <1>2, <2>3, <2>a DEF ExchangePcs, AbandonPcs, AtStop, ReleasePcs, PrunePcs,
         TargetPcs, EndPcs, DeletePcs
  <2> QED
    BY <1>1, <2>1, <2>2, <2>3, <2>4, <2>5, <2>6, <2>7, GoesKeeps
<1>3. CASE Up /\ daemon.drained /\ ctl.then = "recover" /\ Goto("release") /\ UNCHANGED <<op, left>>
  <2>1. ElseStays
    BY <1>3 DEF ElseStays, Released, Goto, disk, service, history
  <2>2. PICK c : c = ctl'
    OBVIOUS
  <2>3. /\ c \in Controllers /\ c.pc = "release" /\ c.by = ctl.by /\ c.dir = ctl.dir
        /\ c.restoring = ctl.restoring /\ c.held = ctl.held /\ c.then = ctl.then
    BY <1>1, <1>3, <2>2 DEF Controllers, Goto, ExchangePcs, AbandonPcs, AtStop, ReleasePcs,
         PrunePcs, TargetPcs, EndPcs, DeletePcs, Directions, Thens, None
  <2>4. ControllerFits(c)
    BY <1>1, <1>3, <2>3 DEF ReleaseInv, ControllerKnows, ControllerFits, ExchangePcs, AbandonPcs,
         AtStop, ReleasePcs, PrunePcs, TargetPcs, EndPcs, DeletePcs
  <2>5. SendFits(c)
    BY <1>1, <1>3, <2>3 DEF ReleaseInv, SendKnows, SendFits
  <2>6. SwitchFits(c)
    BY <1>1, <1>3, <2>3 DEF ReleaseInv, SwitchKnows, SwitchFits, ReleasePcs
  <2>7. c.pc \in ExchangePcs
    BY <1>1, <1>3, <2>3 DEF ExchangePcs, AbandonPcs, AtStop, ReleasePcs, PrunePcs, TargetPcs,
         EndPcs, DeletePcs
  <2> QED
    BY <1>1, <2>1, <2>2, <2>3, <2>4, <2>5, <2>6, <2>7, GoesKeeps
<1>4. CASE Fail(op)
  <2>1. ServiceStays /\ UNCHANGED <<sends, evidence>>
    BY <1>4 DEF Released, ServiceStays, disk, service, history
  <2> QED
    BY <1>1, <1>4, <2>1, FailKeeps
<1> QED
  BY <1>2, <1>3, <1>4 DEF Released, Unhealthy

\* An exchange without a stop goes by what is on disk.
LEMMA ReconcileKeeps ==
    ASSUME ReleaseInv, Reconcile, UNCHANGED dirs
    PROVE  ReleaseInv'
<1>1. /\ op \in Exchanges /\ op.kind \in Kinds /\ op.kind # "prune" /\ op.phase \notin Terminal
      /\ ctl.pc = "reconcile" /\ ctl.pc \in ExchangePcs /\ ctl \in Controllers
  BY ExchangeThere DEF Reconcile, ReleaseInv, Typed, ExchangePcs, AbandonPcs, AtStop, ReleasePcs
<1>2. CASE Stops # <<>> /\ Goto("reconcile_stop") /\ UNCHANGED <<op, left>>
  <2>1. ElseStays
    BY <1>2 DEF ElseStays, Reconcile, Goto, disk, service, history
  <2>2. PICK c : c = ctl'
    OBVIOUS
  <2>3. /\ c \in Controllers /\ c.pc = "reconcile_stop" /\ c.by = ctl.by /\ c.dir = ctl.dir
        /\ c.restoring = ctl.restoring /\ c.held = ctl.held /\ c.then = ctl.then
    BY <1>1, <1>2, <2>2 DEF Controllers, Goto, ExchangePcs, AbandonPcs, AtStop, ReleasePcs,
         PrunePcs, TargetPcs, EndPcs, DeletePcs, Directions, Thens, None
  <2>4. ControllerFits(c)
    BY <1>1, <1>2, <2>3 DEF ReleaseInv, ControllerKnows, ControllerFits, ExchangePcs, AbandonPcs,
         AtStop, ReleasePcs, PrunePcs, TargetPcs, EndPcs, DeletePcs
  <2>5. SendFits(c)
    BY <1>1, <1>2, <2>3 DEF ReleaseInv, SendKnows, SendFits
  <2>6. SwitchFits(c)
    BY <1>1, <1>2, <2>3 DEF ReleaseInv, SwitchKnows, SwitchFits, ReleasePcs
  <2>7. c.pc \in ExchangePcs
    BY <1>1, <1>2, <2>3 DEF ExchangePcs, AbandonPcs, AtStop, ReleasePcs, PrunePcs, TargetPcs,
         EndPcs, DeletePcs
  <2> QED
    BY <1>1, <2>1, <2>2, <2>3, <2>4, <2>5, <2>6, <2>7, GoesKeeps
<1>3. CASE Stops = <<>> /\ Goto("drain") /\ UNCHANGED <<op, left>>
  <2>1. ElseStays
    BY <1>3 DEF ElseStays, Reconcile, Goto, disk, service, history
  <2>2. PICK c : c = ctl'
    OBVIOUS
  <2>3. /\ c \in Controllers /\ c.pc = "drain" /\ c.by = ctl.by /\ c.dir = ctl.dir
        /\ c.restoring = ctl.restoring /\ c.held = ctl.held /\ c.then = ctl.then
    BY <1>1, <1>3, <2>2 DEF Controllers, Goto, ExchangePcs, AbandonPcs, AtStop, ReleasePcs,
         PrunePcs, TargetPcs, EndPcs, DeletePcs, Directions, Thens, None
  <2>4. ControllerFits(c)
    BY <1>1, <1>3, <2>3 DEF ReleaseInv, ControllerKnows, ControllerFits, ExchangePcs, AbandonPcs,
         AtStop, ReleasePcs, PrunePcs, TargetPcs, EndPcs, DeletePcs
  <2>5. SendFits(c)
    BY <1>1, <1>3, <2>3 DEF ReleaseInv, SendKnows, SendFits
  <2>6. SwitchFits(c)
    BY <1>1, <1>3, <2>3 DEF ReleaseInv, SwitchKnows, SwitchFits, ReleasePcs
  <2>7. c.pc \in ExchangePcs
    BY <1>1, <1>3, <2>3 DEF ExchangePcs, AbandonPcs, AtStop, ReleasePcs, PrunePcs, TargetPcs,
         EndPcs, DeletePcs
  <2> QED
    BY <1>1, <2>1, <2>2, <2>3, <2>4, <2>5, <2>6, <2>7, GoesKeeps
<1>4. CASE Release("reconcile") /\ UNCHANGED <<op, left>>
  <2>1. ElseStays
    BY <1>4 DEF ElseStays, Reconcile, Release, disk, service, history
  <2>2. PICK c : c = ctl'
    OBVIOUS
  <2>3. /\ c \in Controllers /\ c.pc = "release" /\ c.by = ctl.by /\ c.dir = ctl.dir
        /\ c.restoring = ctl.restoring /\ c.held = ctl.held /\ c.then = "reconcile"
    BY <1>1, <1>4, <2>2 DEF Controllers, Release, ExchangePcs, AbandonPcs, AtStop, ReleasePcs,
         PrunePcs, TargetPcs, EndPcs, DeletePcs, Directions, Thens, None
  <2>4. ControllerFits(c)
    BY <1>1, <1>4, <2>3 DEF ReleaseInv, ControllerKnows, ControllerFits, ExchangePcs, AbandonPcs,
         AtStop, ReleasePcs, PrunePcs, TargetPcs, EndPcs, DeletePcs
  <2>5. SendFits(c)
    BY <1>1, <1>4, <2>3 DEF ReleaseInv, SendKnows, SendFits
  <2>6. SwitchFits(c)
    BY <1>1, <1>4, <2>3 DEF ReleaseInv, SwitchKnows, SwitchFits, ReleasePcs
  <2>7. c.pc \in ExchangePcs
    BY <1>1, <1>4, <2>3 DEF ExchangePcs, AbandonPcs, AtStop, ReleasePcs, PrunePcs, TargetPcs,
         EndPcs, DeletePcs
  <2> QED
    BY <1>1, <2>1, <2>2, <2>3, <2>4, <2>5, <2>6, <2>7, GoesKeeps
<1>5. CASE Fail(op)
  <2>1. ServiceStays /\ UNCHANGED <<sends, evidence>>
    BY <1>5 DEF Reconcile, ServiceStays, disk, service, history
  <2> QED
    BY <1>1, <1>5, <2>1, FailKeeps
<1>6. CASE ptr = op.previous /\ plist = op.backup /\ Goto("recover") /\ UNCHANGED <<op, left>>
  <2>1. ElseStays
    BY <1>6 DEF ElseStays, Reconcile, Goto, disk, service, history
  <2>2. PICK c : c = ctl'
    OBVIOUS
  <2>3. /\ c \in Controllers /\ c.pc = "recover" /\ c.by = ctl.by /\ c.dir = ctl.dir
        /\ c.restoring = ctl.restoring /\ c.held = ctl.held /\ c.then = ctl.then
    BY <1>1, <1>6, <2>2 DEF Controllers, Goto, ExchangePcs, AbandonPcs, AtStop, ReleasePcs,
         PrunePcs, TargetPcs, EndPcs, DeletePcs, Directions, Thens, None
  <2>4. ControllerFits(c)
    BY <1>1, <1>6, <2>3 DEF ReleaseInv, ControllerKnows, ControllerFits, ExchangePcs, AbandonPcs,
         AtStop, ReleasePcs, PrunePcs, TargetPcs, EndPcs, DeletePcs
  <2>5. SendFits(c)
    BY <1>1, <1>6, <2>3 DEF ReleaseInv, SendKnows, SendFits
  <2>6. SwitchFits(c)
    BY <1>1, <1>6, <2>3 DEF ReleaseInv, SwitchKnows, SwitchFits, ReleasePcs
  <2>7. c.pc \in ExchangePcs
    BY <1>1, <1>6, <2>3 DEF ExchangePcs, AbandonPcs, AtStop, ReleasePcs, PrunePcs, TargetPcs,
         EndPcs, DeletePcs
  <2> QED
    BY <1>1, <2>1, <2>2, <2>3, <2>4, <2>5, <2>6, <2>7, GoesKeeps
<1>7. CASE Restoring /\ UNCHANGED <<op, left>>
  <2>1. ElseStays
    BY <1>7 DEF ElseStays, Reconcile, Restoring, disk, service, history
  <2>2. PICK c : c = ctl'
    OBVIOUS
  <2>3. /\ c \in Controllers /\ c.pc = "restore" /\ c.by = ctl.by /\ c.dir = ctl.dir
        /\ c.restoring = TRUE /\ c.held = ctl.held /\ c.then = ctl.then
    BY <1>1, <1>7, <2>2 DEF Controllers, Restoring, ExchangePcs, AbandonPcs, AtStop, ReleasePcs,
         PrunePcs, TargetPcs, EndPcs, DeletePcs, Directions, Thens, None
  <2>4. ControllerFits(c)
    BY <1>1, <1>7, <2>3 DEF ReleaseInv, ControllerKnows, ControllerFits, ExchangePcs, AbandonPcs,
         AtStop, ReleasePcs, PrunePcs, TargetPcs, EndPcs, DeletePcs
  <2>5. SendFits(c)
    BY <1>1, <1>7, <2>3 DEF ReleaseInv, SendKnows, SendFits
  <2>6. SwitchFits(c)
    BY <1>1, <1>7, <2>3 DEF ReleaseInv, SwitchKnows, SwitchFits, ReleasePcs
  <2>7. c.pc \in ExchangePcs
    BY <1>1, <1>7, <2>3 DEF ExchangePcs, AbandonPcs, AtStop, ReleasePcs, PrunePcs, TargetPcs,
         EndPcs, DeletePcs
  <2> QED
    BY <1>1, <2>1, <2>2, <2>3, <2>4, <2>5, <2>6, <2>7, GoesKeeps
<1>8. CASE /\ Stops = <<>> /\ ptr = op.package /\ plist = op.staged /\ Healthy(op.package)
           /\ ctl' = Idle
           /\ op' = Checkpoint(op, "completed", "candidate_healthy_after_reconciliation")
  <2>1. ~op.abandoned
    BY <1>1 DEF ReleaseInv, ControllerKnows, ControllerFits, AbandonPcs, AtStop
  <2>2. drain = None
    BY <1>8 DEF ReleaseInv, SendKnows, SendFits, Healthy, Up
  <2> QED
    BY <1>1, <1>8, <2>1, <2>2, SettlesKeeps DEF Reconcile, disk, service, history, Terminal,
         Checkpoints
<1> QED
  BY <1>2, <1>3, <1>4, <1>5, <1>6, <1>7, <1>8 DEF Reconcile

\* The drain is durable even if its answer is lost.
LEMMA DrainDaemonKeeps ==
    ASSUME ReleaseInv, DrainDaemon, UNCHANGED dirs
    PROVE  ReleaseInv'
<1>1. /\ op \in Exchanges /\ op.kind \in Kinds /\ op.kind # "prune" /\ op.phase \notin Terminal
      /\ ctl.pc = "drain" /\ ctl.pc \in ExchangePcs /\ ctl \in Controllers
  BY ExchangeThere DEF DrainDaemon, ReleaseInv, Typed, ExchangePcs, AbandonPcs, AtStop, ReleasePcs
<1>2. CASE Drained /\ Goto("idle_check") /\ UNCHANGED <<op, left>>
  BY <1>1, <1>2, DrainedKeeps DEF DrainDaemon, history
<1>3. CASE Drained /\ Fail(op)
  <2>1. ServiceStays /\ UNCHANGED <<sends, evidence>>
    BY <1>3 DEF DrainDaemon, Drained, ServiceStays, disk, service, history
  <2> QED
    BY <1>1, <1>3, <2>1, FailKeeps
<1>4. CASE Fail(op) /\ UNCHANGED <<disk, service, left>>
  <2>1. ServiceStays /\ UNCHANGED <<sends, evidence>>
    BY <1>4 DEF DrainDaemon, ServiceStays, disk, service, history
  <2> QED
    BY <1>1, <1>4, <2>1, FailKeeps
<1> QED
  BY <1>2, <1>3, <1>4 DEF DrainDaemon

\* The exchange goes on to a stop once the service is drained and idle.
LEMMA CheckIdleKeeps ==
    ASSUME ReleaseInv, CheckIdle, UNCHANGED dirs
    PROVE  ReleaseInv'
<1>1. /\ op \in Exchanges /\ op.kind \in Kinds /\ op.kind # "prune" /\ op.phase \notin Terminal
      /\ ctl.pc = "idle_check" /\ ctl.pc \in ExchangePcs /\ ctl \in Controllers
  BY ExchangeThere DEF CheckIdle, ReleaseInv, Typed, ExchangePcs, AbandonPcs, AtStop, ReleasePcs
<1>2. CASE /\ DrainedIdle /\ Goto("prepare")
          /\ op' = Checkpoint(op, "draining", "daemon_drained")
  <2>1. UNCHANGED <<ptr, plist, drain, owned, label, daemon, bootout, sends, evidence, dirs>>
    BY <1>2 DEF CheckIdle, Goto, disk, service, history
  <2>2. PICK c : c = ctl'
    OBVIOUS
  <2>3. /\ c \in Controllers /\ c.pc = "prepare" /\ c.by = ctl.by /\ c.dir = ctl.dir
        /\ c.restoring = ctl.restoring /\ c.held = ctl.held /\ c.then = ctl.then
    BY <1>1, <1>2, <2>2 DEF Controllers, Goto, ExchangePcs, AbandonPcs, AtStop, ReleasePcs,
         PrunePcs, TargetPcs, EndPcs, DeletePcs, Directions, Thens, None
  <2>a. ~op.abandoned
    BY <1>1 DEF ReleaseInv, ControllerKnows, ControllerFits, AbandonPcs, AtStop
  <2>4. ControllerFits(c)
    BY <1>1, <1>2, <2>3, <2>a DEF ReleaseInv, ControllerKnows, ControllerFits, ExchangePcs,
         AbandonPcs, AtStop, ReleasePcs, PrunePcs, TargetPcs, EndPcs, DeletePcs
  <2>5. SendFits(c)
    BY <1>1, <1>2, <2>3, <2>a DEF ReleaseInv, SendKnows, SendFits
  <2>6. SwitchFits(c)
    BY <1>1, <1>2, <2>3, <2>a DEF ReleaseInv, SwitchKnows, SwitchFits, ReleasePcs
  <2>7. c.pc \in ExchangePcs
    BY <1>1, <1>2, <2>3, <2>a DEF ExchangePcs, AbandonPcs, AtStop, ReleasePcs, PrunePcs,
         TargetPcs, EndPcs, DeletePcs
  <2>8. "draining" \in ExchangePhases \ Terminal /\ "daemon_drained" \in Checkpoints
    BY DEF ExchangePhases, Terminal, Checkpoints, Kept
  <2> QED
    BY <1>1, <1>2, <2>1, <2>2, <2>3, <2>4, <2>5, <2>6, <2>7, <2>8, <2>a, NotesKeeps
<1>3. CASE /\ ctl' = Idle
          /\ op' = Checkpoint(op, "pending_active_work", "daemon_has_active_work")
  <2>a. ~op.abandoned
    BY <1>1 DEF ReleaseInv, ControllerKnows, ControllerFits, AbandonPcs, AtStop
  <2>1. /\ "pending_active_work" \in ExchangePhases \ Terminal
        /\ "daemon_has_active_work" \in Checkpoints
    BY DEF ExchangePhases, Terminal, Checkpoints
  <2>2. UNCHANGED <<ptr, plist, drain, owned, label, daemon, bootout, sends, evidence, dirs>>
    BY DEF CheckIdle, disk, service, history
  <2> QED
    BY <1>1, <1>3, <2>a, <2>1, <2>2, LeavesKeeps
<1>4. CASE Fail(op)
  <2>1. ServiceStays /\ UNCHANGED <<sends, evidence>>
    BY <1>4 DEF CheckIdle, ServiceStays, disk, service, history
  <2> QED
    BY <1>1, <1>4, <2>1, FailKeeps
<1> QED
  BY <1>2, <1>3, <1>4 DEF CheckIdle

\* The removal of a drain is recorded first.
LEMMA ReleaseDrainKeeps ==
    ASSUME ReleaseInv, ReleaseDrain, UNCHANGED dirs
    PROVE  ReleaseInv'
<1>1. /\ op \in Exchanges /\ op.kind \in Kinds /\ op.kind # "prune" /\ op.phase \notin Terminal
      /\ ctl.pc = "release" /\ ctl.pc \in ExchangePcs /\ ctl \in Controllers
  BY ExchangeThere DEF ReleaseDrain, ReleaseInv, Typed, ExchangePcs, AbandonPcs, AtStop,
       ReleasePcs
<1>2. CASE op' = Checkpoint(op, "recovery_required", PendingRelease) /\ Goto("release_remove")
  <2>1. UNCHANGED <<ptr, plist, drain, owned, label, daemon, bootout, sends, evidence, dirs>>
    BY <1>2 DEF ReleaseDrain, Goto, disk, service, history
  <2>2. PICK c : c = ctl'
    OBVIOUS
  <2>3. /\ c \in Controllers /\ c.pc = "release_remove" /\ c.by = ctl.by /\ c.dir = ctl.dir
        /\ c.restoring = ctl.restoring /\ c.held = ctl.held /\ c.then = ctl.then
    BY <1>1, <1>2, <2>2 DEF Controllers, Goto, ExchangePcs, AbandonPcs, AtStop, ReleasePcs,
         PrunePcs, TargetPcs, EndPcs, DeletePcs, Directions, Thens, None
  <2>a. ~op.abandoned
    BY <1>1 DEF ReleaseInv, ControllerKnows, ControllerFits, AbandonPcs, AtStop
  <2>4. ControllerFits(c)
    BY <1>1, <1>2, <2>3, <2>a DEF ReleaseInv, ControllerKnows, ControllerFits, ExchangePcs,
         AbandonPcs, AtStop, ReleasePcs, PrunePcs, TargetPcs, EndPcs, DeletePcs
  <2>5. SendFits(c)
    BY <1>1, <1>2, <2>3, <2>a DEF ReleaseInv, SendKnows, SendFits
  <2>6. SwitchFits(c)
    BY <1>1, <1>2, <2>3, <2>a DEF ReleaseInv, SwitchKnows, SwitchFits, ReleasePcs
  <2>7. c.pc \in ExchangePcs
    BY <1>1, <1>2, <2>3, <2>a DEF ExchangePcs, AbandonPcs, AtStop, ReleasePcs, PrunePcs,
         TargetPcs, EndPcs, DeletePcs
  <2>8. "recovery_required" \in ExchangePhases \ Terminal /\ PendingRelease \in Checkpoints
    BY DEF PendingRelease, ExchangePhases, Terminal, Checkpoints, Kept
  <2> QED
    BY <1>1, <1>2, <2>1, <2>2, <2>3, <2>4, <2>5, <2>6, <2>7, <2>8, <2>a, NotesKeeps
<1>3. CASE Fail(op)
  <2>1. ServiceStays /\ UNCHANGED <<sends, evidence>>
    BY <1>3 DEF ReleaseDrain, ServiceStays, disk, service, history
  <2> QED
    BY <1>1, <1>3, <2>1, FailKeeps
<1> QED
  BY <1>2, <1>3 DEF ReleaseDrain

\* A healthy service is what the journal has switched to, and the journal says so.
LEMMA ObserveHealthKeeps ==
    ASSUME ReleaseInv, ObserveHealth, UNCHANGED dirs
    PROVE  ReleaseInv'
<1>1. /\ op \in Exchanges /\ op.kind \in Kinds /\ op.kind # "prune" /\ op.phase \notin Terminal
      /\ ctl.pc = "health" /\ ctl.pc \in ExchangePcs /\ ctl \in Controllers
  BY ExchangeThere DEF ObserveHealth, ReleaseInv, Typed, ExchangePcs, AbandonPcs, AtStop,
       ReleasePcs
<1>2. CASE /\ Healthy(Target(Last)) /\ ctl' = Idle
           /\ op' = Checkpoint(op, Settled(Last), "stopped_service_healthy")
  <2>1. Stops # <<>> /\ ptr = Target(Last) /\ plist = Config(Last)
    BY <1>1 DEF ReleaseInv, ControllerKnows, ControllerFits, SwitchKnows, SwitchFits, AtStop
  <2>2. drain = None
    BY <1>2 DEF ReleaseInv, SendKnows, SendFits, Healthy, Up
  <2>3. /\ Settled(Last) \in Terminal
        /\ Settled(Last) = "completed" => ptr = op.package /\ plist = op.staged
        /\ Settled(Last) = "rolled_back" => ptr = op.previous /\ plist = op.backup
    BY <2>1 DEF Settled, Terminal, Target, Config
  <2>4. "stopped_service_healthy" \in Checkpoints
    BY DEF Checkpoints
  <2>5. UNCHANGED <<ptr, plist, drain, owned, label, daemon, bootout, sends, evidence, dirs>>
    BY DEF ObserveHealth, disk, service, history
  <2> QED
    BY <1>1, <1>2, <2>1, <2>2, <2>3, <2>4, <2>5, SettlesKeeps
<1>3. CASE Fail(op)
  <2>1. ServiceStays /\ UNCHANGED <<sends, evidence>>
    BY <1>3 DEF ObserveHealth, ServiceStays, disk, service, history
  <2> QED
    BY <1>1, <1>3, <2>1, FailKeeps
<1>4. CASE Fail(Checkpoint(op, "recovery_required", "stopped_service_health_failed"))
  <2>1. ServiceStays /\ UNCHANGED <<sends, evidence>>
    BY <1>4 DEF ObserveHealth, ServiceStays, disk, service, history
  <2>2. Stops # <<>>
    BY <1>1 DEF ReleaseInv, ControllerKnows, ControllerFits, AtStop
  <2>3. "stopped_service_health_failed" \in Checkpoints
    BY DEF Checkpoints, Kept
  <2> QED
    BY <1>1, <1>4, <2>1, <2>2, <2>3, FailNotedKeeps
<1> QED
  BY <1>2, <1>3, <1>4 DEF ObserveHealth

\* What is judged afresh is settled, finished or taken back.
LEMMA JudgeHealthKeeps ==
    ASSUME ReleaseInv, JudgeHealth, UNCHANGED dirs
    PROVE  ReleaseInv'
<1>1. /\ op \in Exchanges /\ op.kind \in Kinds /\ op.kind # "prune" /\ op.phase \notin Terminal
      /\ ctl.pc = "stop_health" /\ ctl.pc \in ExchangePcs /\ ctl \in Controllers
  BY ExchangeThere DEF JudgeHealth, ReleaseInv, Typed, ExchangePcs, AbandonPcs, AtStop, ReleasePcs
<1>2. CASE /\ Healthy(Target(Last)) /\ ctl' = Idle
           /\ op' = Checkpoint(op, Settled(Last), "stopped_service_healthy_after_reconciliation")
  <2>1. Stops # <<>> /\ ptr = Target(Last) /\ plist = Config(Last)
    BY <1>1 DEF ReleaseInv, ControllerKnows, ControllerFits, SwitchKnows, SwitchFits, AtStop
  <2>2. drain = None
    BY <1>2 DEF ReleaseInv, SendKnows, SendFits, Healthy, Up
  <2>3. /\ Settled(Last) \in Terminal
        /\ Settled(Last) = "completed" => ptr = op.package /\ plist = op.staged
        /\ Settled(Last) = "rolled_back" => ptr = op.previous /\ plist = op.backup
    BY <2>1 DEF Settled, Terminal, Target, Config
  <2>4. "stopped_service_healthy_after_reconciliation" \in Checkpoints
    BY DEF Checkpoints
  <2>5. UNCHANGED <<ptr, plist, drain, owned, label, daemon, bootout, sends, evidence, dirs>>
    BY DEF JudgeHealth, disk, service, history
  <2> QED
    BY <1>1, <1>2, <2>1, <2>2, <2>3, <2>4, <2>5, SettlesKeeps
<1>3. CASE Fail(op)
  <2>1. ServiceStays /\ UNCHANGED <<sends, evidence>>
    BY <1>3 DEF JudgeHealth, ServiceStays, disk, service, history
  <2> QED
    BY <1>1, <1>3, <2>1, FailKeeps
<1>4. CASE /\ ctl.then = "suspect" \/ RecordedFailure
           /\ Restoring
           /\ op' = Checkpoint(op, "recovery_required", "stopped_service_health_failed")
  <2>1. UNCHANGED <<ptr, plist, drain, owned, label, daemon, bootout, sends, evidence, dirs>>
    BY <1>4 DEF JudgeHealth, Restoring, disk, service, history
  <2>2. PICK c : c = ctl'
    OBVIOUS
  <2>3. /\ c \in Controllers /\ c.pc = "restore" /\ c.by = ctl.by /\ c.dir = ctl.dir
        /\ c.restoring = TRUE /\ c.held = ctl.held /\ c.then = ctl.then
    BY <1>1, <1>4, <2>2 DEF Controllers, Restoring, ExchangePcs, AbandonPcs, AtStop, ReleasePcs,
         PrunePcs, TargetPcs, EndPcs, DeletePcs, Directions, Thens, None
  <2>a. ~op.abandoned
    <3>1. Len(Stops) \in 1..Len(Stops) /\ Last.dir = "activate"
      BY <1>1, <1>4, StopShape DEF ReleaseInv, ControllerKnows, ControllerFits, SwitchKnows,
           SwitchFits, AtStop, Stops, RecordedFailure
    <3> QED
      BY <1>1, <3>1 DEF ReleaseInv, JournalKnows, Stops, Last
  <2>4. ControllerFits(c)
    BY <1>1, <1>4, <2>3, <2>a DEF ReleaseInv, ControllerKnows, ControllerFits, ExchangePcs,
         AbandonPcs, AtStop, ReleasePcs, PrunePcs, TargetPcs, EndPcs, DeletePcs
  <2>5. SendFits(c)
    BY <1>1, <1>4, <2>3, <2>a DEF ReleaseInv, SendKnows, SendFits
  <2>6. SwitchFits(c)
    BY <1>1, <1>4, <2>3, <2>a DEF ReleaseInv, SwitchKnows, SwitchFits, ReleasePcs
  <2>7. c.pc \in ExchangePcs
    BY <1>1, <1>4, <2>3, <2>a DEF ExchangePcs, AbandonPcs, AtStop, ReleasePcs, PrunePcs,
         TargetPcs, EndPcs, DeletePcs
  <2>8. /\ "recovery_required" \in ExchangePhases \ Terminal
        /\ "stopped_service_health_failed" \in Checkpoints
    BY DEF ExchangePhases, Terminal, Checkpoints, Kept
  <2> QED
    BY <1>1, <1>4, <2>1, <2>2, <2>3, <2>4, <2>5, <2>6, <2>7, <2>8, <2>a, NotesKeeps
<1>5. CASE Last.dir = "activate" /\ Restoring /\ UNCHANGED op
  <2>1. ElseStays
    BY <1>5 DEF ElseStays, JudgeHealth, Restoring, disk, service, history
  <2>2. PICK c : c = ctl'
    OBVIOUS
  <2>3. /\ c \in Controllers /\ c.pc = "restore" /\ c.by = ctl.by /\ c.dir = ctl.dir
        /\ c.restoring = TRUE /\ c.held = ctl.held /\ c.then = ctl.then
    BY <1>1, <1>5, <2>2 DEF Controllers, Restoring, ExchangePcs, AbandonPcs, AtStop, ReleasePcs,
         PrunePcs, TargetPcs, EndPcs, DeletePcs, Directions, Thens, None
  <2>a. ~op.abandoned
    <3>1. Len(Stops) \in 1..Len(Stops) /\ Last.dir = "activate"
      BY <1>1, <1>5, StopShape DEF ReleaseInv, ControllerKnows, ControllerFits, SwitchKnows,
           SwitchFits, AtStop, Stops
    <3> QED
      BY <1>1, <3>1 DEF ReleaseInv, JournalKnows, Stops, Last
  <2>4. ControllerFits(c)
    BY <1>1, <1>5, <2>3, <2>a DEF ReleaseInv, ControllerKnows, ControllerFits, ExchangePcs,
         AbandonPcs, AtStop, ReleasePcs, PrunePcs, TargetPcs, EndPcs, DeletePcs
  <2>5. SendFits(c)
    BY <1>1, <1>5, <2>3, <2>a DEF ReleaseInv, SendKnows, SendFits
  <2>6. SwitchFits(c)
    BY <1>1, <1>5, <2>3, <2>a DEF ReleaseInv, SwitchKnows, SwitchFits, ReleasePcs
  <2>7. c.pc \in ExchangePcs
    BY <1>1, <1>5, <2>3, <2>a DEF ExchangePcs, AbandonPcs, AtStop, ReleasePcs, PrunePcs,
         TargetPcs, EndPcs, DeletePcs
  <2> QED
    BY <1>1, <2>1, <2>2, <2>3, <2>4, <2>5, <2>6, <2>7, GoesKeeps
<1>6. CASE ctl' = [ctl EXCEPT !.pc = "observe", !.then = None] /\ UNCHANGED op
  <2>1. ElseStays
    BY <1>6 DEF ElseStays, JudgeHealth, disk, service, history
  <2>2. PICK c : c = ctl'
    OBVIOUS
  <2>3. /\ c \in Controllers /\ c.pc = "observe" /\ c.by = ctl.by /\ c.dir = ctl.dir
        /\ c.restoring = ctl.restoring /\ c.held = ctl.held /\ c.then = None
    BY <1>1, <1>6, <2>2 DEF Controllers, ExchangePcs, AbandonPcs, AtStop, ReleasePcs, PrunePcs,
         TargetPcs, EndPcs, DeletePcs, Directions, Thens, None
  <2>4. ControllerFits(c)
    BY <1>1, <1>6, <2>3 DEF ReleaseInv, ControllerKnows, ControllerFits, ExchangePcs, AbandonPcs,
         AtStop, ReleasePcs, PrunePcs, TargetPcs, EndPcs, DeletePcs
  <2>5. SendFits(c)
    BY <1>1, <1>6, <2>3 DEF ReleaseInv, SendKnows, SendFits
  <2>6. SwitchFits(c)
    BY <1>1, <1>6, <2>3 DEF ReleaseInv, SwitchKnows, SwitchFits, ReleasePcs
  <2>7. c.pc \in ExchangePcs
    BY <1>1, <1>6, <2>3 DEF ExchangePcs, AbandonPcs, AtStop, ReleasePcs, PrunePcs, TargetPcs,
         EndPcs, DeletePcs
  <2> QED
    BY <1>1, <2>1, <2>2, <2>3, <2>4, <2>5, <2>6, <2>7, GoesKeeps
<1> QED
  BY <1>2, <1>3, <1>4, <1>5, <1>6 DEF JudgeHealth

\* The previous service is settled where nothing was exchanged.
LEMMA RecoverPreviousKeeps ==
    ASSUME ReleaseInv, RecoverPrevious, UNCHANGED dirs
    PROVE  ReleaseInv'
<1>1. /\ op \in Exchanges /\ op.kind \in Kinds /\ op.kind # "prune" /\ op.phase \notin Terminal
      /\ ctl.pc = "recover" /\ ctl.pc \in ExchangePcs /\ ctl \in Controllers
  BY ExchangeThere DEF RecoverPrevious, ReleaseInv, Typed, ExchangePcs, AbandonPcs, AtStop,
       ReleasePcs
<1>2. CASE Release("recover") /\ UNCHANGED <<op, label>>
  <2>1. ElseStays
    BY <1>2 DEF ElseStays, RecoverPrevious, Release, disk, service, history
  <2>2. PICK c : c = ctl'
    OBVIOUS
  <2>3. /\ c \in Controllers /\ c.pc = "release" /\ c.by = ctl.by /\ c.dir = ctl.dir
        /\ c.restoring = ctl.restoring /\ c.held = ctl.held /\ c.then = "recover"
    BY <1>1, <1>2, <2>2 DEF Controllers, Release, ExchangePcs, AbandonPcs, AtStop, ReleasePcs,
         PrunePcs, TargetPcs, EndPcs, DeletePcs, Directions, Thens, None
  <2>4. ControllerFits(c)
    BY <1>1, <1>2, <2>3 DEF ReleaseInv, ControllerKnows, ControllerFits, ExchangePcs, AbandonPcs,
         AtStop, ReleasePcs, PrunePcs, TargetPcs, EndPcs, DeletePcs
  <2>5. SendFits(c)
    BY <1>1, <1>2, <2>3 DEF ReleaseInv, SendKnows, SendFits
  <2>6. SwitchFits(c)
    BY <1>1, <1>2, <2>3 DEF ReleaseInv, SwitchKnows, SwitchFits, ReleasePcs
  <2>7. c.pc \in ExchangePcs
    BY <1>1, <1>2, <2>3 DEF ExchangePcs, AbandonPcs, AtStop, ReleasePcs, PrunePcs, TargetPcs,
         EndPcs, DeletePcs
  <2> QED
    BY <1>1, <2>1, <2>2, <2>3, <2>4, <2>5, <2>6, <2>7, GoesKeeps
<1>3. CASE /\ Healthy(ptr) /\ ctl' = Idle /\ UNCHANGED label
          /\ op' = Checkpoint(op, "rolled_back", "previous_service_healthy")
  <2>a. ~op.abandoned
    BY <1>1 DEF ReleaseInv, ControllerKnows, ControllerFits, AbandonPcs, AtStop
  <2>1. ptr = op.previous /\ plist = op.backup
    BY <1>1 DEF ReleaseInv, SwitchKnows, SwitchFits
  <2>2. drain = None
    BY <1>3 DEF ReleaseInv, SendKnows, SendFits, Healthy, Up
  <2>3. "rolled_back" \in Terminal /\ "previous_service_healthy" \in Checkpoints
    BY DEF Terminal, Checkpoints
  <2>4. UNCHANGED <<ptr, plist, drain, owned, label, daemon, bootout, sends, evidence, dirs>>
    BY <1>3 DEF RecoverPrevious, disk, history
  <2> QED
    BY <1>1, <1>3, <2>a, <2>1, <2>2, <2>3, <2>4, SettlesKeeps
<1>4. CASE Load("recover") /\ UNCHANGED op
  BY <1>1, <1>4, LoadKeeps DEF RecoverPrevious, disk, history
<1>5. CASE Fail(op) /\ UNCHANGED label
  <2>1. ServiceStays /\ UNCHANGED <<sends, evidence>>
    BY <1>5 DEF RecoverPrevious, ServiceStays, disk, service, history
  <2> QED
    BY <1>1, <1>5, <2>1, FailKeeps
<1> QED
  BY <1>2, <1>3, <1>4, <1>5 DEF RecoverPrevious

\* What is started is what has been switched to.
LEMMA BootstrapKeeps ==
    ASSUME ReleaseInv, Bootstrap, UNCHANGED dirs
    PROVE  ReleaseInv'
<1>1. /\ op \in Exchanges /\ op.kind \in Kinds /\ op.kind # "prune" /\ op.phase \notin Terminal
      /\ ctl.pc = "bootstrap" /\ ctl.pc \in ExchangePcs /\ ctl \in Controllers
  BY ExchangeThere DEF Bootstrap, ReleaseInv, Typed, ExchangePcs, AbandonPcs, AtStop, ReleasePcs
<1>2. CASE Load("health") /\ UNCHANGED op
  BY <1>1, <1>2, LoadKeeps DEF Bootstrap, disk, history
<1>3. CASE Fail(op) /\ UNCHANGED label
  <2>1. ServiceStays /\ UNCHANGED <<sends, evidence>>
    BY <1>3 DEF Bootstrap, ServiceStays, disk, service, history
  <2> QED
    BY <1>1, <1>3, <2>1, FailKeeps
<1>4. CASE /\ Fail(Checkpoint(op, "recovery_required", "stopped_service_start_failed"))
           /\ UNCHANGED label
  <2>1. ServiceStays /\ UNCHANGED <<sends, evidence>>
    BY <1>4 DEF Bootstrap, ServiceStays, disk, service, history
  <2>2. Stops # <<>>
    BY <1>1 DEF ReleaseInv, ControllerKnows, ControllerFits, AtStop
  <2>3. "stopped_service_start_failed" \in Checkpoints
    BY DEF Checkpoints, Kept
  <2> QED
    BY <1>1, <1>4, <2>1, <2>2, <2>3, FailNotedKeeps
<1> QED
  BY <1>2, <1>3, <1>4 DEF Bootstrap

\* The configuration is captured before anything is drained.
LEMMA CaptureBackupKeeps ==
    ASSUME ReleaseInv, CaptureBackup, UNCHANGED dirs
    PROVE  ReleaseInv'
<1>1. /\ op \in Exchanges /\ op.kind \in Kinds /\ op.kind # "prune" /\ op.phase \notin Terminal
      /\ ctl.pc = "backup" /\ ctl.pc \in ExchangePcs /\ ctl \in Controllers
  BY ExchangeThere DEF CaptureBackup, ReleaseInv, Typed, ExchangePcs, AbandonPcs, AtStop,
       ReleasePcs
<1>2. ~op.abandoned /\ ctl.dir \in Directions /\ ~ctl.held
  BY <1>1 DEF ReleaseInv, ControllerKnows, ControllerFits, AbandonPcs, AtStop
<1>3. PICK o : o = [op EXCEPT !.backup = plist]
  OBVIOUS
<1>4. /\ op' = o /\ o \in Exchanges /\ o.kind = op.kind /\ o.phase = op.phase
      /\ o.package = op.package
      /\ o.previous = op.previous /\ o.stops = op.stops /\ o.abandoned = op.abandoned
      /\ o.reviewed = op.reviewed
  BY <1>1, <1>3 DEF CaptureBackup, ReleaseInv, Typed, Exchanges
<1>5. PICK c : c = ctl'
  OBVIOUS
<1>6. /\ c \in Controllers /\ c.pc = "drain" /\ c.by = ctl.by /\ c.dir = ctl.dir
      /\ c.held = ctl.held
  BY <1>1, <1>5 DEF CaptureBackup, Goto, Controllers, ExchangePcs
<1>7. Typed'
  BY <1>4, <1>5, <1>6 DEF ReleaseInv, Typed, CaptureBackup, disk, service, history
<1>8. Stops' = Stops /\ Last' = Last /\ Unsent' = Unsent
  BY <1>4 DEF Stops, Last, Unsent, CaptureBackup, history
<1>9. JournalKnows'
  BY <1>1, <1>2, <1>4, <1>8 DEF ReleaseInv, JournalKnows, CaptureBackup, disk, history, Terminal
<1>10. ControllerKnows'
  BY <1>1, <1>2, <1>4, <1>5, <1>6
     DEF ControllerKnows, ControllerFits, AtStop, ReleasePcs, PrunePcs, TargetPcs, EndPcs,
          DeletePcs
<1>11. SendKnows' /\ SwitchKnows'
  BY <1>5, <1>6
     DEF ReleaseInv, SendKnows, SendFits, SwitchKnows, SwitchFits, ReleasePcs, CaptureBackup,
          disk,
         service, history, Up, Down
<1>12. TreesKnow'
  BY <1>1, <1>4 DEF ReleaseInv, TreesKnow, CaptureBackup, disk
<1> QED
  BY <1>7, <1>9, <1>10, <1>11, <1>12 DEF ReleaseInv

\* The pointer is switched to the target of the stop, under the lock.
LEMMA SwitchPointerKeeps ==
    ASSUME ReleaseInv, SwitchPointer, UNCHANGED dirs
    PROVE  ReleaseInv'
<1>1. /\ op \in Exchanges /\ op.kind \in Kinds /\ op.kind # "prune" /\ op.phase \notin Terminal
      /\ ctl.pc = "switch" /\ ctl.pc \in ExchangePcs /\ ctl \in Controllers
  BY ExchangeThere DEF SwitchPointer, ReleaseInv, Typed, ExchangePcs, AbandonPcs, AtStop,
       ReleasePcs
<1>2. CASE Fail(op) /\ UNCHANGED ptr
  <2>1. ServiceStays /\ UNCHANGED <<sends, evidence>>
    BY <1>2 DEF SwitchPointer, ServiceStays, service, history
  <2> QED
    BY <1>1, <1>2, <2>1, FailKeeps
<1>3. CASE ptr' = Target(Last) /\ Goto("configure") /\ UNCHANGED op
  <2>1. Stops # <<>> /\ ctl.held /\ Down /\ ctl.dir \in Directions
    BY <1>1 DEF ReleaseInv, ControllerKnows, ControllerFits, AtStop
  <2>2. /\ op.abandoned => ctl.by = "abandon" /\ ~ctl.restoring /\ Last.dir = "restore"
        /\ op.abandoned => op.phase # "abandonment_pending"
    <3>1. Len(Stops) \in 1..Len(Stops)
      BY <1>1, <2>1, StopShape DEF Stops
    <3> QED
      BY <1>1, <2>1, <3>1 DEF ReleaseInv, ControllerKnows, ControllerFits, JournalKnows, Stops,
           Last
  <2>3. UNCHANGED <<plist, drain, owned, op, label, daemon, bootout, sends, evidence, dirs>>
    BY <1>3 DEF SwitchPointer, service, history
  <2>4. ptr' \in {op.package, op.previous} /\ (op.abandoned => ptr' = op.previous)
    BY <1>3, <2>2 DEF Target
  <2>5. PICK c : c = ctl'
    OBVIOUS
  <2>6. /\ c \in Controllers /\ c.pc = "configure" /\ c.by = ctl.by /\ c.dir = ctl.dir
        /\ c.restoring = ctl.restoring /\ c.held = ctl.held
    BY <1>1, <1>3, <2>5 DEF Goto, Controllers, ExchangePcs, AbandonPcs, AtStop
  <2>7. Typed'
    BY <1>1, <2>3, <2>4, <2>5, <2>6 DEF ReleaseInv, Typed, Exchanges
  <2>8. Stops' = Stops /\ Last' = Last /\ Unsent' = Unsent
    BY <2>3 DEF Stops, Last, Unsent
  <2>9. JournalKnows'
    BY <1>1, <2>3, <2>4, <2>8 DEF ReleaseInv, JournalKnows, Terminal
  <2>10. ControllerKnows'
    BY <1>1, <2>1, <2>2, <2>3, <2>5, <2>6, <2>8
       DEF ControllerKnows, ControllerFits, AbandonPcs, AtStop, ReleasePcs, PrunePcs, TargetPcs,
            EndPcs,
           DeletePcs, Down
  <2>11. SendKnows'
    BY <2>3, <2>5, <2>6 DEF ReleaseInv, SendKnows, SendFits, Up, Down
  <2>12. SwitchKnows'
    BY <1>3, <2>3, <2>5, <2>6, <2>8 DEF SwitchKnows, SwitchFits, ReleasePcs, Target
  <2>13. TreesKnow'
    BY <1>1, <2>3, <2>4, TreesStay DEF Carries
  <2> QED
    BY <2>7, <2>9, <2>10, <2>11, <2>12, <2>13 DEF ReleaseInv
<1> QED
  BY <1>2, <1>3 DEF SwitchPointer

\* The configuration follows the pointer, under the lock.
LEMMA ConfigureKeeps ==
    ASSUME ReleaseInv, Configure, UNCHANGED dirs
    PROVE  ReleaseInv'
<1>1. /\ op \in Exchanges /\ op.kind \in Kinds /\ op.kind # "prune" /\ op.phase \notin Terminal
      /\ ctl.pc = "configure" /\ ctl.pc \in ExchangePcs /\ ctl \in Controllers
  BY ExchangeThere DEF Configure, ReleaseInv, Typed, ExchangePcs, AbandonPcs, AtStop, ReleasePcs
<1>2. /\ Stops # <<>> /\ ctl.held /\ Down /\ ctl.dir \in Directions /\ ptr = Target(Last)
      /\ op.abandoned => ctl.by = "abandon" /\ ~ctl.restoring
  BY <1>1
     DEF ReleaseInv, ControllerKnows, ControllerFits, SwitchKnows, SwitchFits, AtStop
<1>3. /\ Carries(op', op) /\ op'.stops = op.stops /\ op'.kind = op.kind /\ op'.package = op.package
      /\ op'.previous = op.previous /\ op'.backup = op.backup /\ op'.staged = op.staged
      /\ op'.abandoned = op.abandoned /\ op'.phase = "pointer_switched"
  BY <1>1, NotedShape DEF Configure, ExchangePhases, Checkpoints
<1>4. UNCHANGED <<ptr, drain, owned, label, daemon, bootout, sends, evidence>>
  BY DEF Configure, service, history
<1>5. JournalKnows'
  <2>1. /\ "pointer_switched" \in ExchangePhases \ Terminal
        /\ "stopped_pointer_and_plist_switched" \in Checkpoints
    BY DEF ExchangePhases, Terminal, Checkpoints
  <2> QED
    BY <1>1, <1>2, <1>4, <2>1, NotedRight DEF Configure
<1>6. PICK c : c = ctl'
  OBVIOUS
<1>7. /\ c \in Controllers /\ c.pc = "undrain" /\ c.by = ctl.by /\ c.dir = ctl.dir
      /\ c.restoring = ctl.restoring /\ c.held = ctl.held
  BY <1>1, <1>6 DEF Configure, Goto, Controllers, ExchangePcs, AbandonPcs, AtStop
<1>8. Typed'
  <2>1. plist' \in Versions \cup {None}
    BY <1>1 DEF Configure, Config, Exchanges, Kinds, ReleaseInv, Typed
  <2> QED
    BY <1>3, <1>4, <1>6, <1>7, <2>1 DEF ReleaseInv, Typed, Carries
<1>9. Stops' = Stops /\ Last' = Last
  BY <1>3 DEF Stops, Last
<1>10. ControllerKnows'
  BY <1>1, <1>2, <1>3, <1>4, <1>6, <1>7, <1>9
     DEF ControllerKnows, ControllerFits, AbandonPcs, AtStop, ReleasePcs, PrunePcs, TargetPcs,
          EndPcs,
         DeletePcs, Down, Terminal
<1>11. SendKnows'
  BY <1>4, <1>6, <1>7 DEF ReleaseInv, SendKnows, SendFits, Up, Down
<1>12. SwitchKnows'
  BY <1>2, <1>3, <1>4, <1>6, <1>7, <1>9 DEF SwitchKnows, SwitchFits, ReleasePcs, Target, Config,
       Configure
<1>13. TreesKnow'
  BY <1>1, <1>3, <1>4, TreesStay
<1> QED
  BY <1>5, <1>8, <1>10, <1>11, <1>12, <1>13 DEF ReleaseInv

\* The drain goes before the lock, once pointer and configuration agree.
LEMMA RemoveDrainKeeps ==
    ASSUME ReleaseInv, RemoveDrain, UNCHANGED dirs
    PROVE  ReleaseInv'
<1>1. /\ op \in Exchanges /\ op.kind \in Kinds /\ op.kind # "prune" /\ op.phase \notin Terminal
      /\ ctl.pc = "undrain" /\ ctl.pc \in ExchangePcs /\ ctl \in Controllers
  BY ExchangeThere DEF RemoveDrain, ReleaseInv, Typed, ExchangePcs, AbandonPcs, AtStop, ReleasePcs
<1>2. /\ ctl.dir \in Directions /\ (op.abandoned => ctl.by = "abandon" /\ ~ctl.restoring)
      /\ Stops # <<>> /\ ptr = Target(Last) /\ plist = Config(Last)
  BY <1>1
     DEF ReleaseInv, ControllerKnows, ControllerFits, SwitchKnows, SwitchFits, AtStop, AbandonPcs
<1>3. UNCHANGED <<ptr, plist, owned, op, label, daemon, bootout, sends, evidence>> /\ drain' = None
  BY DEF RemoveDrain, service, history
<1>4. PICK c : c = ctl'
  OBVIOUS
<1>5. /\ c \in Controllers /\ c.pc = "bootstrap" /\ c.by = ctl.by /\ c.dir = ctl.dir
      /\ c.restoring = ctl.restoring /\ c.held = FALSE /\ c.then = ctl.then
  BY <1>1, <1>4 DEF RemoveDrain, Goto, Controllers, ExchangePcs, AbandonPcs, AtStop, ReleasePcs
<1>6. Typed'
  BY <1>3, <1>4, <1>5 DEF ReleaseInv, Typed, Markers
<1>7. Stops' = Stops /\ Last' = Last /\ Unsent' = Unsent
  BY <1>3 DEF Stops, Last, Unsent
<1>8. JournalKnows'
  BY <1>1, <1>2, <1>3, <1>7 DEF ReleaseInv, JournalKnows, Terminal
<1>9. ControllerKnows'
  BY <1>1, <1>2, <1>3, <1>4, <1>5, <1>7
     DEF ReleaseInv, ControllerKnows, ControllerFits, AbandonPcs, AtStop, ReleasePcs, PrunePcs,
          TargetPcs, EndPcs,
         DeletePcs, Down
<1>10. SendKnows'
  BY <1>3, <1>4, <1>5 DEF ReleaseInv, SendKnows, SendFits, Up, Down
<1>11. SwitchKnows'
  BY <1>1, <1>2, <1>3, <1>4, <1>5, <1>7 DEF ReleaseInv, SwitchKnows, SwitchFits, ReleasePcs,
       Target, Config
<1>12. TreesKnow'
  BY <1>1, <1>3, TreesStay DEF Carries
<1> QED
  BY <1>6, <1>8, <1>9, <1>10, <1>11, <1>12 DEF ReleaseInv

\* A drain that is released is removed before its daemon is restarted.
LEMMA ReleaseRemoveKeeps ==
    ASSUME ReleaseInv, ReleaseRemove, UNCHANGED dirs
    PROVE  ReleaseInv'
<1>1. /\ op \in Exchanges /\ op.kind \in Kinds /\ op.kind # "prune" /\ op.phase \notin Terminal
      /\ ctl.pc = "release_remove" /\ ctl.pc \in ExchangePcs /\ ctl \in Controllers
  BY ExchangeThere DEF ReleaseRemove, ReleaseInv, Typed, ExchangePcs, AbandonPcs, AtStop,
       ReleasePcs
<1>2. /\ ctl.dir \in Directions /\ (op.abandoned => ctl.by = "abandon" /\ ~ctl.restoring)
      /\ ~op.abandoned /\ ~ctl.held
  BY <1>1
     DEF ReleaseInv, ControllerKnows, ControllerFits, SwitchKnows, SwitchFits, AtStop, AbandonPcs
<1>3. UNCHANGED <<ptr, plist, owned, op, label, daemon, bootout, sends, evidence>> /\ drain' = None
  BY DEF ReleaseRemove, service, history
<1>4. PICK c : c = ctl'
  OBVIOUS
<1>5. /\ c \in Controllers /\ c.pc = "kickstart" /\ c.by = ctl.by /\ c.dir = ctl.dir
      /\ c.restoring = ctl.restoring /\ c.held = ctl.held /\ c.then = ctl.then
  BY <1>1, <1>4 DEF ReleaseRemove, Goto, Controllers, ExchangePcs, AbandonPcs, AtStop, ReleasePcs
<1>6. Typed'
  BY <1>3, <1>4, <1>5 DEF ReleaseInv, Typed, Markers
<1>7. Stops' = Stops /\ Last' = Last /\ Unsent' = Unsent
  BY <1>3 DEF Stops, Last, Unsent
<1>8. JournalKnows'
  BY <1>1, <1>2, <1>3, <1>7 DEF ReleaseInv, JournalKnows, Terminal
<1>9. ControllerKnows'
  BY <1>1, <1>2, <1>3, <1>4, <1>5, <1>7
     DEF ReleaseInv, ControllerKnows, ControllerFits, AbandonPcs, AtStop, ReleasePcs, PrunePcs,
          TargetPcs, EndPcs,
         DeletePcs, Down
<1>10. SendKnows'
  BY <1>3, <1>4, <1>5 DEF ReleaseInv, SendKnows, SendFits, Up, Down
<1>11. SwitchKnows'
  BY <1>1, <1>2, <1>3, <1>4, <1>5, <1>7 DEF ReleaseInv, SwitchKnows, SwitchFits, ReleasePcs,
       Target, Config
<1>12. TreesKnow'
  BY <1>1, <1>3, TreesStay DEF Carries
<1> QED
  BY <1>6, <1>8, <1>9, <1>10, <1>11, <1>12 DEF ReleaseInv

\* A restart leaves nothing or the daemon the user started.
LEMMA KickstartKeeps ==
    ASSUME ReleaseInv, Kickstart, UNCHANGED dirs
    PROVE  ReleaseInv'
<1>1. /\ op \in Exchanges /\ op.kind \in Kinds /\ op.kind # "prune" /\ op.phase \notin Terminal
      /\ ctl.pc = "kickstart" /\ ctl.pc \in ExchangePcs /\ ctl \in Controllers
  BY ExchangeThere DEF Kickstart, ReleaseInv, Typed, ExchangePcs, AbandonPcs, AtStop, ReleasePcs
<1>2. /\ ctl.dir \in Directions /\ ~ctl.held
      /\ ctl.then \in {"recover", "reconcile", "stop_health", "health"}
      /\ op.abandoned => ctl.by = "abandon" /\ ~ctl.restoring /\ ctl.then = "health"
      /\ ctl.then \in {"health", "stop_health"} =>
           Stops # <<>> /\ ptr = Target(Last) /\ plist = Config(Last)
      /\ ctl.then = "recover" => ptr = op.previous /\ plist = op.backup
  BY <1>1 DEF ReleaseInv, ControllerKnows, ControllerFits, SwitchKnows, SwitchFits, ReleasePcs
<1>3. CASE Fail(op) /\ UNCHANGED daemon
  <2>1. ServiceStays /\ UNCHANGED <<sends, evidence>>
    BY <1>3 DEF Kickstart, ServiceStays, disk, history
  <2> QED
    BY <1>1, <1>3, <2>1, FailKeeps
<1>4. CASE /\ ctl.then = "health" /\ UNCHANGED daemon
           /\ Fail(Checkpoint(op, "recovery_required", "stopped_service_start_failed"))
  <2>1. ServiceStays /\ UNCHANGED <<sends, evidence>>
    BY <1>4 DEF Kickstart, ServiceStays, disk, history
  <2>2. "stopped_service_start_failed" \in Checkpoints
    BY DEF Checkpoints, Kept
  <2> QED
    BY <1>1, <1>2, <1>4, <2>1, <2>2, FailNotedKeeps
<1>5. CASE /\ Goto(IF ctl.then = "health" THEN "health" ELSE "released")
           /\ daemon' = IF daemon.stray THEN daemon ELSE NoDaemon
           /\ op' = IF ctl.then = "health"
                    THEN Checkpoint(op, "candidate_started", "stopped_service_bootstrapped")
                    ELSE op
  <2>1. UNCHANGED <<ptr, plist, drain, owned, label, bootout, sends, evidence>>
    BY DEF Kickstart, disk, history
  <2>2. /\ Carries(op', op) /\ op'.stops = op.stops /\ op'.kind = op.kind
        /\ op'.package = op.package
        /\ op'.previous = op.previous /\ op'.backup = op.backup /\ op'.staged = op.staged
        /\ op'.abandoned = op.abandoned /\ op'.phase \notin Terminal /\ JournalKnows'
    <3>1. CASE ctl.then = "health"
      <4>1. /\ "candidate_started" \in ExchangePhases \ Terminal
            /\ "stopped_service_bootstrapped" \in Checkpoints
        BY DEF ExchangePhases, Terminal, Checkpoints
      <4>2. op' = Checkpoint(op, "candidate_started", "stopped_service_bootstrapped")
        BY <1>5, <3>1
      <4> QED
        BY <1>1, <1>2, <2>1, <3>1, <4>1, <4>2, NotedShape, NotedRight
    <3>2. CASE ctl.then # "health"
      <4>1. op' = op
        BY <1>5, <3>2
      <4> QED
        BY <1>1, <1>2, <2>1, <3>2, <4>1
           DEF Carries, ReleaseInv, JournalKnows, Stops, Last, Unsent, Terminal
    <3> QED
      BY <3>1, <3>2
  <2>3. PICK c : c = ctl'
    OBVIOUS
  <2>4. /\ c \in Controllers /\ c.pc = IF ctl.then = "health" THEN "health" ELSE "released"
        /\ c.by = ctl.by /\ c.dir = ctl.dir /\ c.restoring = ctl.restoring /\ c.held = ctl.held
        /\ c.then = ctl.then
    BY <1>1, <1>5, <2>3 DEF Goto, Controllers, ExchangePcs, AbandonPcs, AtStop, ReleasePcs
  <2>5. daemon' \in Daemons /\ (daemon' = daemon \/ daemon' = NoDaemon)
    BY <1>5 DEF ReleaseInv, Typed, NoDaemon, Daemons
  <2>6. Typed'
    BY <2>1, <2>2, <2>3, <2>4, <2>5 DEF ReleaseInv, Typed, Carries
  <2>7. Stops' = Stops /\ Last' = Last
    BY <2>2 DEF Stops, Last
  <2>8. ControllerKnows'
    BY <1>1, <1>2, <2>2, <2>3, <2>4, <2>7
       DEF ControllerKnows, ControllerFits, AbandonPcs, AtStop, ReleasePcs, ExchangePcs, PrunePcs,
            TargetPcs,
           EndPcs, DeletePcs
  <2>9. SendKnows'
    BY <2>1, <2>3, <2>4, <2>5 DEF ReleaseInv, SendKnows, SendFits, Up, Down, NoDaemon
  <2>10. SwitchKnows'
    BY <1>2, <2>1, <2>2, <2>3, <2>4, <2>7 DEF SwitchKnows, SwitchFits, ReleasePcs, Target, Config
  <2>11. TreesKnow'
    BY <1>1, <2>1, <2>2, TreesStay
  <2> QED
    BY <2>2, <2>6, <2>8, <2>9, <2>10, <2>11 DEF ReleaseInv
<1> QED
  BY <1>3, <1>4, <1>5 DEF Kickstart

\* A stop goes out only for the process that was found drained and idle.
LEMMA RequestStopKeeps ==
    ASSUME ReleaseInv, RequestStop, UNCHANGED dirs
    PROVE  ReleaseInv'
<1>1. /\ op \in Exchanges /\ op.kind \in Kinds /\ op.kind # "prune" /\ op.phase \notin Terminal
      /\ ctl.pc = "request" /\ ctl.pc \in ExchangePcs /\ ctl \in Controllers
  BY ExchangeThere DEF RequestStop, ReleaseInv, Typed, ExchangePcs, AbandonPcs, AtStop, ReleasePcs
<1>2. /\ Stops # <<>> /\ ~ctl.held /\ sends = 0
      /\ evidence /\ Len(Stops) = 1 => Last.request # "prepared"
  BY <1>1 DEF ReleaseInv, ControllerKnows, ControllerFits, SendKnows, SendFits, AtStop
<1>3. Last \in Intents /\ (Last.pid # NoPid => Last.drain # None)
  <2>1. Len(Stops) \in 1..Len(Stops) /\ Last \in Intents
    BY <1>1, <1>2, StopShape DEF Stops, Last
  <2> QED
    BY <1>1, <2>1 DEF ReleaseInv, JournalKnows, Stops, Last
<1>4. CASE Fail(op)
  <2>1. ServiceStays /\ UNCHANGED <<sends, evidence>>
    BY <1>4 DEF RequestStop, ServiceStays, disk, service, history
  <2> QED
    BY <1>1, <1>4, <2>1, FailKeeps
<1>5. CASE Goto("observe") /\ UNCHANGED op
  <2>1. ElseStays
    BY <1>5 DEF RequestStop, ElseStays, disk, service, history
  <2>2. PICK c : c = ctl'
    OBVIOUS
  <2>3. /\ c \in Controllers /\ c.pc = "observe" /\ c.by = ctl.by /\ c.dir = ctl.dir
        /\ c.restoring = ctl.restoring /\ c.held = ctl.held /\ c.then = ctl.then
    BY <1>1, <1>5, <2>2 DEF Goto, Controllers, ExchangePcs, AbandonPcs, AtStop
  <2>4. ControllerFits(c)
    BY <1>1, <1>2, <2>3
       DEF ReleaseInv, ControllerKnows, ControllerFits, ExchangePcs, AbandonPcs, AtStop,
            ReleasePcs,
           PrunePcs, TargetPcs, EndPcs, DeletePcs
  <2>5. SendFits(c) /\ SwitchFits(c)
    BY <2>3 DEF ReleaseInv, SendKnows, SendFits, SwitchFits, ReleasePcs
  <2>6. c.pc \in ExchangePcs
    BY <2>3 DEF ExchangePcs, AbandonPcs, AtStop
  <2> QED
    BY <1>1, <2>1, <2>2, <2>3, <2>4, <2>5, <2>6, GoesKeeps
<1>6. CASE /\ Bound(Last, FALSE) /\ Last.pid # NoPid /\ Exact(Last) /\ Goto("send")
           /\ IF op.abandoned THEN Unconfirm ELSE UNCHANGED op
  <2>1. Last.pid # NoPid /\ drain # None /\ daemon.drained /\ ~daemon.work
    BY <1>3, <1>6 DEF Bound, Exact, DrainedIdle
  <2>2. PICK c : c = ctl'
    OBVIOUS
  <2>3. /\ c \in Controllers /\ c.pc = "send" /\ c.by = ctl.by /\ c.dir = ctl.dir
        /\ c.restoring = ctl.restoring /\ c.held = ctl.held /\ c.then = ctl.then
    BY <1>1, <1>6, <2>2 DEF Goto, Controllers, ExchangePcs, AbandonPcs, AtStop
  <2>4. UNCHANGED <<ptr, plist, drain, owned, label, daemon, bootout, sends, evidence, dirs>>
    BY DEF RequestStop, disk, service, history
  <2>5. CASE op.abandoned
    <3>1. /\ "service_stop_pending" \in ExchangePhases \ Terminal
          /\ "unconfirmed" \in Requests \ {"prepared"}
          /\ "service_stop_dispatching" \in Checkpoints
      BY DEF ExchangePhases, Terminal, Requests, Checkpoints
    <3>2. op' = Checkpoint(Requested(op, "unconfirmed"),
                           "service_stop_pending", "service_stop_dispatching")
      BY <1>6, <2>5 DEF Unconfirm
    <3> QED
      BY <1>1, <1>2, <2>1, <2>2, <2>3, <2>4, <3>1, <3>2, RequestsKeeps
  <2>6. CASE ~op.abandoned
    <3>1. ElseStays
      BY <1>6, <2>4, <2>6 DEF ElseStays
    <3>2. ControllerFits(c)
      BY <1>1, <1>2, <2>3, <2>6
         DEF ReleaseInv, ControllerKnows, ControllerFits, ExchangePcs, AbandonPcs, AtStop,
              ReleasePcs,
             PrunePcs, TargetPcs, EndPcs, DeletePcs
    <3>3. ~Unsent
      BY <1>2, <1>6, <2>6 DEF Unsent
    <3>4. SendFits(c) /\ SwitchFits(c)
      BY <1>2, <1>6, <2>1, <2>3, <3>3 DEF ReleaseInv, SendKnows, SendFits, SwitchFits, ReleasePcs
    <3>5. c.pc \in ExchangePcs
      BY <2>3 DEF ExchangePcs, AbandonPcs, AtStop
    <3> QED
      BY <1>1, <2>2, <2>3, <3>1, <3>2, <3>4, <3>5, GoesKeeps
  <2> QED
    BY <2>5, <2>6
<1>7. CASE SingletonFree /\ ctl' = [ctl EXCEPT !.pc = "send", !.held = TRUE] /\ Unconfirm
  <2>1. PICK c : c = ctl'
    OBVIOUS
  <2>2. /\ c \in Controllers /\ c.pc = "send" /\ c.by = ctl.by /\ c.dir = ctl.dir
        /\ c.restoring = ctl.restoring /\ c.held = TRUE /\ c.then = ctl.then
    BY <1>1, <1>7, <2>1 DEF Controllers, ExchangePcs, AbandonPcs, AtStop
  <2>3. UNCHANGED <<ptr, plist, drain, owned, label, daemon, bootout, sends, evidence, dirs>>
    BY DEF RequestStop, disk, service, history
  <2>4. /\ "service_stop_pending" \in ExchangePhases \ Terminal
        /\ "unconfirmed" \in Requests \ {"prepared"}
        /\ "service_stop_dispatching" \in Checkpoints
    BY DEF ExchangePhases, Terminal, Requests, Checkpoints
  <2> QED
    BY <1>1, <1>2, <1>7, <2>1, <2>2, <2>3, <2>4, RequestsKeeps DEF Unconfirm, SingletonFree
<1> QED
  BY <1>4, <1>5, <1>6, <1>7 DEF RequestStop

\* A request that was refused was not sent, and there is evidence of it.
LEMMA RequestRefusedKeeps ==
    ASSUME ReleaseInv, RequestRefused, UNCHANGED dirs
    PROVE  ReleaseInv'
<1>1. /\ op \in Exchanges /\ op.kind \in Kinds /\ op.kind # "prune" /\ op.phase \notin Terminal
      /\ ctl.pc = "request" /\ ctl.pc \in ExchangePcs /\ ctl \in Controllers
  BY ExchangeThere DEF RequestRefused, ReleaseInv, Typed, ExchangePcs, AbandonPcs, AtStop,
       ReleasePcs
<1>2. Stops # <<>> /\ sends = 0 /\ ~op.abandoned
  BY <1>1 DEF RequestRefused, ReleaseInv, ControllerKnows, ControllerFits, SendKnows, SendFits,
       AtStop
<1>3. /\ op.reviewed => op.stops[1].request # "prepared"
      /\ op.phase = "service_stop_pending" => op.stops # <<>>
  BY <1>1 DEF ReleaseInv, JournalKnows, Stops
<1>4. /\ Carries(op', op) /\ op'.stops = op.stops /\ op'.reviewed = op.reviewed
      /\ op'.phase = op.phase \/ op'.phase = "recovery_required"
      /\ ctl' = Idle
  <2>1. Carries(op, op)
    BY <1>1 DEF Carries
  <2>2. CASE op' = op
    BY <1>1, <2>1, <2>2, FailCases DEF RequestRefused, ReleaseInv
  <2>3. CASE Protected(op)
    <3>1. PICK k \in Checkpoints : op' = Checkpoint(op, "recovery_required", k)
      BY <2>3 DEF Protected
    <3> QED
      BY <1>1, <3>1, FailCases, NotedShape DEF RequestRefused, ReleaseInv, ExchangePhases
  <2> QED
    BY <1>1, <2>2, <2>3, FailCases DEF RequestRefused, ReleaseInv
<1>5. UNCHANGED <<ptr, plist, drain, owned, label, daemon, bootout, sends>> /\ evidence' = TRUE
  BY DEF RequestRefused, disk, service
<1>6. JournalKnows'
  <2>1. (op.stops # <<>> /\ Unsent => sends = 0)'
    BY <1>2, <1>5
  <2>2. op'.phase \notin Terminal
    BY <1>1, <1>4 DEF Terminal
  <2>3. op'.phase = "service_stop_pending" => op.stops # <<>>
    BY <1>3, <1>4
  <2>4. op.reviewed => op'.stops[1].request # "prepared"
    BY <1>3, <1>4
  <2> QED
    BY <1>1, <1>2, <1>4, <1>5, <2>1, <2>2, <2>3, <2>4, JournalStays DEF Stops
<1>7. sends' \in Nat /\ evidence' \in BOOLEAN /\ ServiceStays
  BY <1>5 DEF ReleaseInv, Typed, ServiceStays
<1> QED
  BY <1>1, <1>4, <1>6, <1>7, EndsKeeps

\* The answer to a bootout, or its absence, is recorded.
LEMMA BootoutAnsweredKeeps ==
    ASSUME ReleaseInv, BootoutAnswered, UNCHANGED dirs
    PROVE  ReleaseInv'
<1>1. /\ op \in Exchanges /\ op.kind \in Kinds /\ op.kind # "prune" /\ op.phase \notin Terminal
      /\ ctl.pc = "sent" /\ ctl.pc \in ExchangePcs /\ ctl \in Controllers
  BY ExchangeThere DEF BootoutAnswered, ReleaseInv, Typed, ExchangePcs, AbandonPcs, AtStop,
       ReleasePcs
<1>2. Stops # <<>>
  BY <1>1 DEF ReleaseInv, ControllerKnows, ControllerFits, AtStop
<1>3. PICK r \in {"accepted", "unconfirmed"} :
           op' = Checkpoint(Requested(op, r), "service_stop_pending", "service_stop_requested")
  BY DEF BootoutAnswered
<1>4. /\ "service_stop_pending" \in ExchangePhases \ Terminal /\ r \in Requests \ {"prepared"}
      /\ "service_stop_requested" \in Checkpoints
  BY DEF ExchangePhases, Terminal, Requests, Checkpoints
<1>5. PICK c : c = ctl'
  OBVIOUS
<1>6. /\ c \in Controllers /\ c.pc = "observe" /\ c.by = ctl.by /\ c.dir = ctl.dir
        /\ c.restoring = ctl.restoring /\ c.held = FALSE /\ c.then = ctl.then
  BY <1>1, <1>5 DEF BootoutAnswered, Controllers, ExchangePcs, AbandonPcs, AtStop
<1>7. UNCHANGED <<ptr, plist, drain, owned, label, daemon, bootout, sends, evidence, dirs>>
  BY DEF BootoutAnswered, disk, service, history
<1> QED
  BY <1>1, <1>2, <1>3, <1>4, <1>5, <1>6, <1>7, RequestsKeeps

\* The service is seen gone, with the lock held, before anything is switched.
LEMMA ObserveStopKeeps ==
    ASSUME ReleaseInv, ObserveStop, UNCHANGED dirs
    PROVE  ReleaseInv'
<1>1. /\ op \in Exchanges /\ op.kind \in Kinds /\ op.kind # "prune" /\ op.phase \notin Terminal
      /\ ctl.pc = "observe" /\ ctl.pc \in ExchangePcs /\ ctl \in Controllers
  BY ExchangeThere DEF ObserveStop, ReleaseInv, Typed, ExchangePcs, AbandonPcs, AtStop, ReleasePcs
<1>2. Stops # <<>>
  BY <1>1 DEF ReleaseInv, ControllerKnows, ControllerFits, AtStop
<1>3. CASE Fail(op)
  <2>1. ServiceStays /\ UNCHANGED <<sends, evidence>>
    BY <1>3 DEF ObserveStop, ServiceStays, disk, service, history
  <2> QED
    BY <1>1, <1>3, <2>1, FailKeeps
<1>4. CASE NotConfirmed(Last)
  <2>1. /\ "service_stop_pending" \in ExchangePhases \ Terminal
        /\ "old_service_stop_unconfirmed" \in Checkpoints
    BY DEF ExchangePhases, Terminal, Checkpoints
  <2>2. UNCHANGED <<ptr, plist, drain, owned, label, daemon, bootout, sends, evidence, dirs>>
    BY DEF ObserveStop, disk, service, history
  <2> QED
    BY <1>1, <1>2, <1>4, <2>1, <2>2, LeavesKeeps DEF NotConfirmed
<1>5. CASE /\ Stopped(Last) /\ Confirm
           /\ ctl' = [ctl EXCEPT !.pc = "switch", !.held = TRUE]
  <2>1. Down
    BY <1>5 DEF Stopped, SingletonFree
  <2>2. /\ "service_stopped" \in ExchangePhases \ Terminal /\ "stopped" \in Requests \ {"prepared"}
        /\ "old_service_stop_verified" \in Checkpoints
    BY DEF ExchangePhases, Terminal, Requests, Checkpoints
  <2>3. PICK c : c = ctl'
    OBVIOUS
  <2>4. /\ c \in Controllers /\ c.pc = "switch" /\ c.by = ctl.by /\ c.dir = ctl.dir
        /\ c.restoring = ctl.restoring /\ c.held = TRUE /\ c.then = ctl.then
    BY <1>1, <1>5, <2>3 DEF Controllers, ExchangePcs, AbandonPcs, AtStop
  <2>5. UNCHANGED <<ptr, plist, drain, owned, label, daemon, bootout, sends, evidence, dirs>>
    BY DEF ObserveStop, disk, service, history
  <2> QED
    BY <1>1, <1>2, <1>5, <2>1, <2>2, <2>3, <2>4, <2>5, RequestsKeeps DEF Confirm
<1> QED
  BY <1>3, <1>4, <1>5 DEF ObserveStop

\* A bootout is sent once; one that was not spawned was not sent.
LEMMA SendBootoutKeeps ==
    ASSUME ReleaseInv, SendBootout, UNCHANGED dirs
    PROVE  ReleaseInv'
<1>1. /\ op \in Exchanges /\ op.kind \in Kinds /\ op.kind # "prune" /\ op.phase \notin Terminal
      /\ ctl.pc = "send" /\ ctl.pc \in ExchangePcs /\ ctl \in Controllers
  BY ExchangeThere DEF SendBootout, ReleaseInv, Typed, ExchangePcs, AbandonPcs, AtStop, ReleasePcs
<1>2. /\ Stops # <<>> /\ sends = 0 /\ ~Unsent /\ (ctl.held => Down) /\ ctl.dir \in Directions
      /\ evidence /\ Len(Stops) = 1 => Last.request # "prepared"
      /\ op.abandoned => ctl.by = "abandon" /\ ~ctl.restoring
  BY <1>1 DEF ReleaseInv, ControllerKnows, ControllerFits, SendKnows, SendFits, AtStop
<1>3. UNCHANGED <<ptr, plist, drain, owned, label, daemon, evidence>>
  BY DEF SendBootout, disk
<1>4. CASE Fail(op) /\ UNCHANGED <<sends, bootout>>
  <2>1. ServiceStays /\ UNCHANGED <<sends, evidence>>
    BY <1>3, <1>4 DEF ServiceStays
  <2> QED
    BY <1>1, <1>4, <2>1, FailKeeps
<1>5. CASE /\ op.abandoned \/ Last.pid = NoPid
           /\ Fail(Checkpoint(Requested(op, "prepared"),
                              "service_stop_pending", "service_stop_intent_prepared"))
           /\ UNCHANGED <<sends, bootout>>
  <2>1. ServiceStays
    BY <1>3, <1>5 DEF ServiceStays
  <2> QED
    BY <1>1, <1>2, <1>3, <1>5, <2>1, ResetKeeps
<1>6. CASE sends' = sends + 1 /\ Goto("sent") /\ UNCHANGED op /\ bootout' \in BOOLEAN
  <2>1. PICK c : c = ctl'
    OBVIOUS
  <2>2. /\ c \in Controllers /\ c.pc = "sent" /\ c.by = ctl.by /\ c.dir = ctl.dir
        /\ c.restoring = ctl.restoring /\ c.held = ctl.held /\ c.then = ctl.then
    BY <1>1, <1>6, <2>1 DEF Goto, Controllers, ExchangePcs, AbandonPcs, AtStop
  <2>3. Typed'
    BY <1>2, <1>3, <1>6, <2>1, <2>2 DEF ReleaseInv, Typed
  <2>4. Stops' = Stops /\ Last' = Last /\ Unsent' = Unsent
    BY <1>3, <1>6 DEF Stops, Last, Unsent
  <2>5. JournalKnows'
    BY <1>1, <1>2, <1>3, <1>6, <2>4 DEF ReleaseInv, JournalKnows, Terminal
  <2>6. ControllerKnows'
    BY <1>1, <1>2, <1>3, <1>6, <2>1, <2>2, <2>4
       DEF ControllerKnows, ControllerFits, ExchangePcs, AbandonPcs, AtStop, ReleasePcs, PrunePcs,
            TargetPcs,
           EndPcs, DeletePcs, Down
  <2>7. SendKnows'
    BY <1>2, <1>3, <1>6, <2>1, <2>2, <2>4 DEF ReleaseInv, SendKnows, SendFits, Up, Down
  <2>8. SwitchKnows'
    BY <2>1, <2>2 DEF SwitchKnows, SwitchFits, ReleasePcs
  <2>9. TreesKnow'
    BY <1>1, <1>3, <1>6, TreesStay DEF Carries
  <2> QED
    BY <2>3, <2>5, <2>6, <2>7, <2>8, <2>9 DEF ReleaseInv
<1> QED
  <2>1. bootout \in BOOLEAN
    BY DEF ReleaseInv, Typed
  <2> QED
    BY <1>4, <1>5, <1>6, <2>1 DEF SendBootout

\* A stop is recorded with what is to be stopped, when none before it is unresolved.
LEMMA PrepareStopKeeps ==
    ASSUME ReleaseInv, PrepareStop, UNCHANGED dirs
    PROVE  ReleaseInv'
<1>1. /\ op \in Exchanges /\ op.kind \in Kinds /\ op.kind # "prune" /\ op.phase \notin Terminal
      /\ ctl.pc = "prepare" /\ ctl.pc \in ExchangePcs /\ ctl \in Controllers
  BY ExchangeThere DEF PrepareStop, ReleaseInv, Typed, ExchangePcs, AbandonPcs, AtStop, ReleasePcs
<1>2. /\ ctl.dir \in Directions /\ ~ctl.held
      /\ op.abandoned => ctl.by = "abandon" /\ ~ctl.restoring /\ ctl.dir = "restore"
      /\ Up /\ daemon.drained /\ ~daemon.stray => drain # None
  BY <1>1 DEF ReleaseInv, ControllerKnows, ControllerFits, SendKnows, SendFits
<1>3. UNCHANGED <<ptr, plist, drain, owned, label, daemon, bootout, evidence>>
  BY DEF PrepareStop, disk, service
<1>4. CASE Fail(op) /\ UNCHANGED sends
  <2>1. ServiceStays /\ UNCHANGED <<sends, evidence>>
    BY <1>3, <1>4 DEF ServiceStays
  <2> QED
    BY <1>1, <1>4, <2>1, FailKeeps
<1>5. CASE ctl' = Idle /\ UNCHANGED <<op, sends>>
  <2>1. Carries(op', op) /\ ServiceStays /\ sends' \in Nat /\ evidence' \in BOOLEAN
    BY <1>1, <1>3, <1>5 DEF Carries, ServiceStays, ReleaseInv, Typed
  <2>2. Stops' = Stops /\ Unsent' = Unsent
    BY <1>3, <1>5 DEF Stops, Last, Unsent
  <2>3. JournalKnows'
    BY <1>1, <1>3, <1>5, <2>2 DEF ReleaseInv, JournalKnows, Terminal
  <2> QED
    BY <1>1, <1>5, <2>1, <2>3, EndsKeeps
<1>6. ASSUME NEW pid \in Pids \cup {NoPid}, Record(pid), Len(Stops) < 2, MayRecord,
             pid # NoPid => drain # None
      PROVE  ReleaseInv'
  <2>1. PICK s : s = Intent(pid)
    OBVIOUS
  <2>2. s \in Intents /\ s.dir = ctl.dir /\ s.drain = drain /\ s.pid = pid /\ s.request = "prepared"
    BY <1>2, <1>6, <2>1 DEF Intent, Intents, Requests, ReleaseInv, Typed
  <2>3. PICK n : n = Len(op.stops)
    OBVIOUS
  <2>4. /\ n \in Nat /\ n < 2 /\ op.stops \in Seq(Intents)
        /\ op.stops # <<>> => n \in 1..n
        /\ n = 0 <=> op.stops = <<>>
    BY <1>1, <1>6, <2>3, StopShape DEF Stops
  <2>5. PICK t : t = Append(op.stops, s)
    OBVIOUS
  <2>6. /\ t \in Seq(Intents) /\ Len(t) = n + 1 /\ t[n + 1] = s /\ t # <<>>
        /\ \A i \in 1..n : t[i] = op.stops[i]
    BY <2>2, <2>3, <2>4, <2>5
  <2>7. PICK o : o = [op EXCEPT !.stops = t]
    OBVIOUS
  <2>8. /\ o \in Exchanges /\ o.stops = t /\ o.kind = op.kind /\ o.package = op.package
        /\ o.previous = op.previous /\ o.abandoned = op.abandoned /\ o.reviewed = op.reviewed
    BY <1>1, <2>6, <2>7 DEF Exchanges
  <2>9. /\ op' = Checkpoint(o, "service_stop_pending", "service_stop_intent_prepared") /\ sends' = 0
        /\ Goto("request")
    BY <1>6, <2>1, <2>5, <2>7 DEF Record
  <2>10. /\ op' \in Exchanges /\ op'.stops = t /\ op'.kind = op.kind /\ op'.package = op.package
         /\ op'.previous = op.previous /\ op'.abandoned = op.abandoned /\ op'.reviewed = op.reviewed
         /\ op'.phase = "service_stop_pending"
    <3>1. /\ "service_stop_pending" \in ExchangePhases
          /\ "service_stop_intent_prepared" \in Checkpoints
      BY DEF ExchangePhases, Checkpoints
    <3> QED
      BY <2>8, <2>9, <3>1, CheckpointShape DEF Carries
  <2>11. PICK c : c = ctl'
    OBVIOUS
  <2>12. /\ c \in Controllers /\ c.pc = "request" /\ c.by = ctl.by /\ c.dir = ctl.dir
        /\ c.restoring = ctl.restoring /\ c.held = ctl.held /\ c.then = ctl.then
    BY <1>1, <2>9, <2>11 DEF Goto, Controllers, ExchangePcs, AbandonPcs, AtStop
  <2>13. Typed'
    BY <1>3, <2>9, <2>10, <2>11, <2>12 DEF ReleaseInv, Typed
  <2>14. Stops' = t /\ Last' = s /\ (n = 0 \/ n = 1)
    BY <2>4, <2>6, <2>10 DEF Stops, Last
  <2>15. JournalKnows'
    <3>1. /\ op.abandoned => /\ ptr = op.previous
                             /\ \A i \in 1..n : op.stops[i].dir = "restore"
          /\ op.reviewed => /\ op.stops # <<>> /\ ~op.abandoned
                            /\ op.stops[1].pid # NoPid /\ op.stops[1].request # "prepared"
          /\ \A i \in 1..n : op.stops[i].pid # NoPid => op.stops[i].drain # None
          /\ evidence => ~op.abandoned
      BY <1>1, <2>3 DEF ReleaseInv, JournalKnows, Stops
    <3>2. Len(t) <= 2 /\ (Len(t) = 2 => t[1].request = "stopped")
      <4>1. n = 1 => op.stops[n].request = "stopped"
        BY <1>6, <2>3, <2>4 DEF MayRecord, Stops, Last
      <4> QED
        BY <2>4, <2>6, <4>1
    <3>3. \A i \in 1..Len(t) : i \in 1..n \/ i = n + 1
      BY <2>4, <2>6
    <3>4. op.abandoned => \A i \in 1..Len(t) : t[i].dir = "restore"
      BY <1>2, <2>2, <2>6, <3>1, <3>3
    <3>5. \A i \in 1..Len(t) : t[i].pid # NoPid => t[i].drain # None
      BY <1>6, <2>2, <2>6, <3>1, <3>3
    <3>6. op.reviewed => t[1].pid # NoPid /\ t[1].request # "prepared"
      <4>1. op.reviewed => n = 1
        BY <2>4, <2>14, <3>1
      <4> QED
        BY <2>6, <3>1, <4>1
    <3>7. ctl' # Idle
      BY <2>11, <2>12 DEF Idle
    <3> QED
      BY <1>1, <1>3, <2>6, <2>9, <2>10, <2>14, <3>1, <3>2, <3>4, <3>5, <3>6, <3>7 DEF JournalKnows
  <2>16. ControllerKnows'
    BY <1>1, <1>2, <2>6, <2>10, <2>11, <2>12, <2>14
       DEF ControllerKnows, ControllerFits, ExchangePcs, AbandonPcs, AtStop, ReleasePcs, PrunePcs,
            TargetPcs,
           EndPcs, DeletePcs, Terminal
  <2>17. SendKnows'
    <3>1. evidence => n # 0
      BY <1>1, <2>4 DEF ReleaseInv, JournalKnows, Stops
    <3>2. ~(evidence' /\ Len(Stops') = 1)
      <4>1. evidence => Len(t) # 1
        BY <2>4, <2>6, <3>1
      <4>2. evidence' = evidence /\ Len(Stops') = Len(t)
        BY <1>3, <2>14
      <4> QED
        BY <4>1, <4>2
    <3> QED
      BY <1>3, <2>9, <2>11, <2>12, <3>2 DEF ReleaseInv, SendKnows, SendFits, Up, Down
  <2>18. SwitchKnows'
    BY <2>11, <2>12 DEF SwitchKnows, SwitchFits, ReleasePcs
  <2>19. TreesKnow'
    BY <1>1, <1>3, <2>10 DEF ReleaseInv, TreesKnow
  <2> QED
    BY <2>13, <2>15, <2>16, <2>17, <2>18, <2>19 DEF ReleaseInv
<1>7. CASE /\ MayRecord /\ Len(Stops) < 2 /\ Record(IF Loaded THEN daemon.pid ELSE NoPid)
           /\ Loaded => DrainedIdle
  <2>1. PICK pid : pid = IF Loaded THEN daemon.pid ELSE NoPid
    OBVIOUS
  <2>2. pid \in Pids \cup {NoPid}
    BY <2>1 DEF ReleaseInv, Typed, Daemons
  <2>3. pid # NoPid => drain # None
    <3>1. Loaded => Up /\ daemon.drained /\ ~daemon.stray
      BY <1>7 DEF Loaded, DrainedIdle
    <3>2. pid # NoPid => Loaded
      BY <2>1
    <3> QED
      BY <1>2, <3>1, <3>2
  <2>4. Record(pid)
    BY <1>7, <2>1
  <2> QED
    BY <1>6, <1>7, <2>2, <2>3, <2>4
<1> DEFINE allowed == MayRecord /\ CASE Loaded -> DrainedIdle /\ daemon.version = ptr
                                       [] LoadedIdle -> IdleLabelRestorable
                                       [] OTHER -> SingletonFree
<1>8. allowed => MayRecord /\ (Loaded => DrainedIdle)
  <2>1. ~(Loaded /\ LoadedIdle)
    BY DEF Loaded, LoadedIdle
  <2> QED
    BY <2>1
<1>9. \/ allowed /\ Len(Stops) < 2 /\ Record(IF Loaded THEN daemon.pid ELSE NoPid)
      \/ ctl' = Idle /\ UNCHANGED <<op, sends>>
      \/ Fail(op) /\ UNCHANGED sends
  BY DEF PrepareStop
<1> HIDE DEF allowed
<1> QED
  BY <1>4, <1>5, <1>7, <1>8, <1>9

\* Where nobody is at work nothing is under way.
LEMMA NobodyAtWork ==
    ASSUME ReleaseInv, ctl = Idle
    PROVE  Idle \in Controllers /\ ctl.pc = "idle" /\ ctl.pc \notin ExchangePcs \cup PrunePcs
BY DEF Idle, Controllers, None, Thens, ExchangePcs, AbandonPcs, AtStop, ReleasePcs, PrunePcs,
     TargetPcs, EndPcs,
       DeletePcs

\* Activate keeps the invariant: what a new journal names is whole, and nothing has been sent for
\* it.
LEMMA ActivateKeeps ==
    ASSUME ReleaseInv, NEW kind \in Kinds, NEW v \in Versions, Activate(kind, v), UNCHANGED dirs
    PROVE  ReleaseInv'
<1>1. /\ op'.kind = kind /\ op'.phase = "prepared" /\ op'.package = v /\ op'.previous = ptr
      /\ op'.stops = <<>> /\ op'.abandoned = FALSE /\ op'.reviewed = FALSE
  BY DEF Activate
<1>2. op' \in Exchanges
  <2>1. ptr \in Versions /\ plist \in Versions \cup {None}
    BY DEF ReleaseInv, Typed
  <2>2. /\ "prepared" \in ExchangePhases /\ "resources_captured" \in Checkpoints
        /\ <<>> \in Seq(Intents)
    BY DEF ExchangePhases, Checkpoints
  <2> QED
    BY <2>1, <2>2 DEF Activate, Exchanges
<1>3. PICK c : c = ctl'
  OBVIOUS
<1>4. c \in Controllers /\ c.pc = "backup" /\ c.by = "activate" /\ c.dir = "activate" /\ ~c.held
  BY <1>3 DEF Activate, Idle, Controllers, ExchangePcs, Directions, Thens, None
<1>5. UNCHANGED <<ptr, plist, drain, owned, label, daemon, bootout, sends>> /\ evidence' = FALSE
  BY DEF Activate, disk, service
<1>6. Typed'
  BY <1>2, <1>3, <1>4, <1>5 DEF ReleaseInv, Typed
<1>7. JournalKnows'
  <2>1. ctl' # Idle
    BY <1>3, <1>4 DEF Idle
  <2>2. op'.stops = <<>> /\ Len(op'.stops) = 0 /\ \A i \in 1..Len(op'.stops) : FALSE
    BY <1>1
  <2> QED
    BY <1>1, <1>5, <2>1, <2>2 DEF JournalKnows, Stops
<1>8. ControllerKnows'
  BY <1>1, <1>3, <1>4
     DEF ControllerKnows, ControllerFits, AtStop, ReleasePcs, PrunePcs, TargetPcs, EndPcs,
          DeletePcs, Terminal, Directions
<1>9. SendKnows' /\ SwitchKnows'
  BY <1>3, <1>4, <1>5
     DEF ReleaseInv, SendKnows, SendFits, SwitchKnows, SwitchFits, ReleasePcs, Up, Down
<1>10. TreesKnow'
  <2>1. op.kind = "prune" => op.phase = "completed"
    BY DEF Activate, Pending, Terminal, ReleaseInv, Typed, Exchanges, Plans, PlanPhases,
         NoOperation, None, Kinds
  <2>2. /\ dirs[ptr] = "whole" /\ \A u \in owned : dirs[u] = "whole"
        /\ \A u \in Versions : dirs[u] # "partial"
    BY <2>1 DEF ReleaseInv, TreesKnow
  <2>3. v \in owned /\ op'.kind # "prune"
    BY <1>1 DEF Activate, Kinds
  <2> QED
    BY <1>1, <1>5, <2>2, <2>3 DEF TreesKnow
<1> QED
  BY <1>6, <1>7, <1>8, <1>9, <1>10 DEF ReleaseInv

\* Whoever takes up an exchange that is pending keeps the invariant.
LEMMA BeginsKeeps ==
    ASSUME ReleaseInv, ctl = Idle, op.kind \in Kinds, Pending(op),
           NEW by \in {"abandon", "resume", "reinstall"}, by = "abandon" <=> op.abandoned,
           Begin(by),
           UNCHANGED <<ptr, plist, drain, owned, op, label, daemon, bootout, sends, evidence, dirs>>
    PROVE  ReleaseInv'
<1>1. op \in Exchanges /\ op.kind # "prune" /\ op.phase \notin Terminal
  BY JournalShape DEF ReleaseInv, Pending
<1>2. PICK c : c = ctl'
  OBVIOUS
<1>3. /\ c \in Controllers /\ c.pc = (IF op.abandoned THEN "abandon" ELSE "reconcile")
      /\ c.by = by /\ c.dir = "activate" /\ ~c.held /\ ~c.restoring
  BY <1>2 DEF Begin, Idle, Controllers, ExchangePcs, AbandonPcs, Directions, Thens, None
<1>4. Typed'
  BY <1>2, <1>3 DEF ReleaseInv, Typed
<1>5. Stops' = Stops /\ Unsent' = Unsent
  BY DEF Stops, Unsent, Last
<1>6. JournalKnows'
  BY <1>1, <1>5 DEF ReleaseInv, JournalKnows, Terminal
<1>7. ControllerKnows'
  <2>1. op.abandoned => c.pc = "abandon" /\ c.by = "abandon"
    BY <1>3
  <2>2. ~op.abandoned => c.pc = "reconcile"
    BY <1>3
  <2> QED
    BY <1>1, <1>2, <1>3, <2>1, <2>2
       DEF ControllerKnows, ControllerFits, AbandonPcs, AtStop, ReleasePcs, PrunePcs, TargetPcs,
            EndPcs,
           DeletePcs, Directions
<1>8. SendKnows' /\ SwitchKnows'
  <2>1. c.pc \in {"abandon", "reconcile"}
    BY <1>3
  <2> QED
    BY <1>2, <2>1 DEF ReleaseInv, SendKnows, SendFits, SwitchKnows, SwitchFits, ReleasePcs, Up,
         Down
<1>9. TreesKnow'
  BY <1>1, TreesStay DEF Carries
<1> QED
  BY <1>4, <1>6, <1>7, <1>8, <1>9 DEF ReleaseInv

\* An exchange is resumed from its journal.
LEMMA ResumeKeeps ==
    ASSUME ReleaseInv, Resume, UNCHANGED dirs
    PROVE  ReleaseInv'
<1>1. PICK by \in {"abandon", "resume"} : by = IF op.abandoned THEN "abandon" ELSE "resume"
  OBVIOUS
<1>2. by = "abandon" <=> op.abandoned
  BY <1>1
<1>3. Begin(by)
  BY <1>1 DEF Resume
<1> QED
  BY <1>2, <1>3, BeginsKeeps DEF Resume, disk, service, history

\* An exchange is resumed by the same installer.
LEMMA ReinstallKeeps ==
    ASSUME ReleaseInv, Reinstall, UNCHANGED dirs
    PROVE  ReleaseInv'
BY BeginsKeeps DEF Reinstall, disk, service, history

\* Abandon keeps the invariant: the update that is given up has stopped nothing.
LEMMA AbandonKeeps ==
    ASSUME ReleaseInv, Abandon, UNCHANGED dirs
    PROVE  ReleaseInv'
<1>1. /\ op \in Exchanges /\ op.kind \in Kinds /\ op.kind # "prune" /\ op.stops = <<>>
      /\ ptr = op.previous
  BY JournalShape DEF ReleaseInv, Abandon, Kinds, Stops
<1>2. PICK o : o = [op EXCEPT !.abandoned = TRUE, !.pid = daemon.pid]
  OBVIOUS
<1>3. /\ o \in Exchanges /\ o.kind = op.kind /\ o.package = op.package /\ o.previous = op.previous
      /\ o.stops = op.stops /\ o.abandoned = TRUE /\ o.reviewed = op.reviewed
  BY <1>1, <1>2 DEF Exchanges, ReleaseInv, Typed, Daemons
<1>4. /\ op' \in Exchanges /\ op'.kind = op.kind /\ op'.package = op.package
      /\ op'.previous = op.previous /\ op'.stops = <<>> /\ op'.abandoned = TRUE
      /\ op'.reviewed = op.reviewed /\ op'.phase = "abandonment_pending"
  <2>1. /\ "abandonment_pending" \in ExchangePhases
        /\ "pending_update_abandonment_intent" \in Checkpoints
    BY DEF ExchangePhases, Checkpoints
  <2>2. op' = Checkpoint(o, "abandonment_pending", "pending_update_abandonment_intent")
    BY <1>2 DEF Abandon
  <2> QED
    BY <1>1, <1>3, <2>1, <2>2, CheckpointShape DEF Carries
<1>5. PICK c : c = ctl'
  OBVIOUS
<1>6. /\ c \in Controllers /\ c.pc = "abandon" /\ c.by = "abandon" /\ c.dir = "restore" /\ ~c.held
      /\ ~c.restoring
  BY <1>5 DEF Abandon, Idle, Controllers, ExchangePcs, AbandonPcs, Directions, Thens, None
<1>7. /\ UNCHANGED <<ptr, plist, drain, owned, label, daemon, bootout, sends, evidence>>
      /\ drain # None
  BY DEF Abandon, disk, service, history
<1>8. Typed'
  BY <1>4, <1>5, <1>6, <1>7 DEF ReleaseInv, Typed
<1>9. JournalKnows'
  <2>1. ~op.reviewed /\ ~evidence
    BY <1>1 DEF ReleaseInv, JournalKnows, Stops
  <2>2. op'.stops = <<>> /\ Len(op'.stops) = 0 /\ \A i \in 1..Len(op'.stops) : FALSE
    BY <1>4
  <2> QED
    BY <1>1, <1>4, <1>7, <2>1, <2>2 DEF JournalKnows, Stops
<1>10. ControllerKnows'
  BY <1>1, <1>4, <1>5, <1>6
     DEF ControllerKnows, ControllerFits, AbandonPcs, AtStop, ReleasePcs, PrunePcs, TargetPcs,
          EndPcs, DeletePcs,
         Terminal, Directions, Stops
<1>11. SendKnows' /\ SwitchKnows'
  BY <1>5, <1>6, <1>7 DEF ReleaseInv, SendKnows, SendFits, SwitchKnows, SwitchFits, ReleasePcs,
       Up, Down
<1>12. TreesKnow'
  BY <1>1, <1>4, <1>7 DEF ReleaseInv, TreesKnow
<1> QED
  BY <1>8, <1>9, <1>10, <1>11, <1>12 DEF ReleaseInv

\* ResumeReviewed keeps the invariant: the one dispatch the evidence allows is recorded before it
\* happens.
LEMMA ResumeReviewedKeeps ==
    ASSUME ReleaseInv, ResumeReviewed, UNCHANGED dirs
    PROVE  ReleaseInv'
<1>1. /\ op \in Exchanges /\ op.kind \in Kinds /\ op.kind # "prune" /\ Len(op.stops) = 1
      /\ ~op.abandoned
      /\ op.stops[1].request = "prepared" /\ op.stops[1].pid # NoPid /\ op.stops # <<>>
      /\ op.stops[Len(op.stops)] = op.stops[1] /\ evidence
  <2>1. op \in Exchanges /\ op.kind \in Kinds /\ op.kind # "prune" /\ Len(op.stops) = 1
    BY JournalShape DEF ReleaseInv, ResumeReviewed, Kinds, Stops
  <2>2. op.stops[Len(op.stops)] = op.stops[1]
    BY <2>1
  <2>3. op.stops # <<>>
    BY <2>1 DEF ReleaseInv, JournalKnows, ResumeReviewed, Stops
  <2> QED
    BY <2>1, <2>2, <2>3 DEF ResumeReviewed, Last
<1>2. sends = 0
  BY <1>1 DEF ReleaseInv, JournalKnows, Unsent, Last, Stops
<1>3. PICK q : q = Requested(op, "unconfirmed")
  OBVIOUS
<1>4. /\ Carries(q, op) /\ q.stops # <<>> /\ q.stops[Len(q.stops)].request = "unconfirmed"
  BY <1>1, <1>3, RequestedShape DEF Requests
<1>5. PICK o : o = [q EXCEPT !.reviewed = TRUE]
  OBVIOUS
<1>6. /\ o \in Exchanges /\ Carries(o, op) /\ o.stops = q.stops /\ o.reviewed = TRUE
  BY <1>4, <1>5 DEF Carries, Exchanges
<1>7. op' = Checkpoint(o, "service_stop_pending", "reviewed_stop_dispatching")
  BY <1>3, <1>5 DEF ResumeReviewed
<1>8. /\ Carries(op', o) /\ op'.stops = q.stops /\ op'.reviewed = TRUE
      /\ op'.phase = "service_stop_pending"
  BY <1>6, <1>7, CheckpointShape DEF ExchangePhases, Checkpoints
<1>9. Carries(op', op)
  BY <1>6, <1>8 DEF Carries
<1>10. /\ op' \in Exchanges /\ op'.kind = op.kind /\ op'.package = op.package
       /\ op'.previous = op.previous
       /\ op'.abandoned = FALSE /\ Len(op'.stops) = 1 /\ op'.stops[1].pid # NoPid
       /\ op'.stops[1].request = "unconfirmed" /\ op'.stops # <<>>
       /\ op'.stops[1].drain = op.stops[1].drain
  <2>1. 1 \in 1..Len(op.stops)
    BY <1>1
  <2>2. Len(op'.stops) = 1 /\ op'.stops[1].request = "unconfirmed"
    BY <1>1, <1>4, <1>8, <1>9 DEF Carries
  <2> QED
    BY <1>1, <1>4, <1>8, <1>9, <2>1, <2>2 DEF Carries, Exchanges
<1>11. PICK c : c = ctl'
  OBVIOUS
<1>12. c \in Controllers /\ c.pc = "request" /\ c.by = "reviewed" /\ c.dir = "activate" /\ ~c.held
  BY <1>11 DEF ResumeReviewed, Idle, Controllers, ExchangePcs, AbandonPcs, AtStop, Directions,
       Thens, None
<1>13. UNCHANGED <<ptr, plist, drain, owned, label, daemon, bootout, sends, evidence>>
  BY DEF ResumeReviewed, disk, service, history
<1>14. Typed'
  BY <1>10, <1>11, <1>12, <1>13 DEF ReleaseInv, Typed
<1>15. Last'.request = "unconfirmed" /\ ~Unsent'
  BY <1>10 DEF Last, Unsent
<1>16. JournalKnows'
  <2>1. op.stops[1].drain # None
    BY <1>1 DEF ReleaseInv, JournalKnows, Stops
  <2>2. \A i \in 1..Len(op'.stops) : i = 1
    BY <1>10
  <2> QED
    BY <1>1, <1>8, <1>10, <1>15, <2>1, <2>2 DEF JournalKnows, Stops
<1>17. ControllerKnows'
  BY <1>1, <1>8, <1>10, <1>11, <1>12
     DEF ControllerKnows, ControllerFits, AbandonPcs, AtStop, ReleasePcs, PrunePcs, TargetPcs,
          EndPcs, DeletePcs,
         Terminal, Directions, Stops
<1>18. SendKnows' /\ SwitchKnows'
  BY <1>2, <1>11, <1>12, <1>13, <1>15
     DEF ReleaseInv, SendKnows, SendFits, SwitchKnows, SwitchFits, ReleasePcs, Up, Down
<1>19. TreesKnow'
  BY <1>1, <1>10, <1>13 DEF ReleaseInv, TreesKnow
<1> QED
  BY <1>14, <1>16, <1>17, <1>18, <1>19 DEF ReleaseInv

\* A controller that dies leaves the journal, which is right without it.
LEMMA ControllerDiesKeeps ==
    ASSUME ReleaseInv, ControllerDies, UNCHANGED dirs
    PROVE  ReleaseInv'
<1>1. /\ UNCHANGED <<ptr, plist, drain, owned, op, label, daemon, bootout, sends, evidence>>
      /\ ctl' = Idle
  BY DEF ControllerDies, disk, service, history
<1>2. ctl.pc \in ExchangePcs \cup PrunePcs
  BY AtWork DEF ControllerDies
<1>3. Idle \in Controllers
  BY DEF Idle, Controllers, None, Thens
<1>4. Typed'
  BY <1>1, <1>3 DEF ReleaseInv, Typed
<1>5. Stops' = Stops /\ Unsent' = Unsent
  BY <1>1 DEF Stops, Unsent, Last
<1>6. op.kind \in Kinds => op.phase \notin Terminal
  BY <1>2 DEF ReleaseInv, ControllerKnows, ControllerFits, Kinds
<1>7. JournalKnows'
  BY <1>1, <1>5, <1>6 DEF ReleaseInv, JournalKnows, Terminal
<1>8. SendKnows'
  BY <1>1 DEF ReleaseInv, SendKnows, SendFits, Idle, Up, Down
<1>9. TreesKnow'
  BY <1>1 DEF ReleaseInv, TreesKnow, Idle, EndPcs, TargetPcs, DeletePcs
<1> QED
  BY <1>1, <1>4, <1>7, <1>8, <1>9, Rests DEF ReleaseInv

-----------------------------------------------------------------------------
\* A removal of versions that is under way.
LEMMA PlanThere ==
    ASSUME ReleaseInv, op.kind = "prune", ctl.pc \in PrunePcs
    PROVE  /\ op \in Plans /\ op.targets \subseteq Versions /\ op.retain \subseteq Versions
           /\ op.moved \subseteq op.targets /\ op.deleting \subseteq op.targets
           /\ ptr = op.current /\ op.current \notin op.targets /\ op.targets \cap op.retain = {}
           /\ ctl \in Controllers /\ ~ctl.held
<1>1. op \in Plans
  BY JournalShape DEF ReleaseInv
<1>2. ctl \in Controllers
  BY DEF ReleaseInv, Typed
<1>3. ~ctl.held
  BY DEF ReleaseInv, ControllerKnows, ControllerFits, PrunePcs, TargetPcs, EndPcs, DeletePcs
<1> QED
  BY <1>1, <1>2, <1>3 DEF ReleaseInv, TreesKnow, Plans

\* What is right of a plan that is under way, apart from what it removes.
LEMMA PlanRight ==
    ASSUME ReleaseInv, op' \in Plans \/ op' = NoOperation,
           \/ ctl' = Idle
           \/ op' \in Plans /\ ctl' \in Controllers /\ ctl'.pc \in PrunePcs /\ ~ctl'.held,
           UNCHANGED <<ptr, plist, label, bootout, sends, evidence>>, drain' \in Markers,
           daemon' \in Daemons, owned' \in SUBSET Versions, dirs' \in [Versions -> Places],
           (Up /\ ~daemon.drained => drain = None)', (Down => daemon = NoDaemon)', TreesKnow'
    PROVE  ReleaseInv'
<1>1. op'.kind \notin Kinds /\ (op' \in Plans => op'.kind = "prune")
  BY DEF Plans, NoOperation, Kinds, None
<1>2. Idle \in Controllers
  BY DEF Idle, Controllers, None, Thens
<1>3. Typed'
  BY <1>2 DEF ReleaseInv, Typed
<1>4. JournalKnows'
  BY <1>1 DEF JournalKnows
<1>5. CASE ctl' = Idle
  <2>1. SendKnows'
    BY <1>5 DEF SendKnows, SendFits, Idle
  <2> QED
    BY <1>3, <1>4, <1>5, <2>1, Rests DEF ReleaseInv
<1>6. CASE op' \in Plans /\ ctl'.pc \in PrunePcs /\ ~ctl'.held
  <2>1. PICK pc : pc = ctl'.pc
    OBVIOUS
  <2>2. /\ pc \notin ExchangePcs /\ pc \notin AtStop /\ pc \notin ReleasePcs
        /\ pc \notin {"idle", "switch", "configure", "undrain", "bootstrap", "health", "recover",
                      "idle_check", "restore_idle", "prepare", "request", "send", "sent",
                      "stop_judge",
                      "stop_health"}
    BY <1>6, <2>1 DEF PrunePcs, TargetPcs, EndPcs, DeletePcs, ExchangePcs, AbandonPcs, AtStop,
         ReleasePcs
  <2>3. ControllerKnows'
    BY <1>1, <1>6, <2>1, <2>2 DEF ControllerKnows, ControllerFits
  <2>4. SendKnows'
    BY <2>1, <2>2 DEF SendKnows, SendFits
  <2>5. SwitchKnows'
    BY <2>1, <2>2 DEF SwitchKnows, SwitchFits
  <2> QED
    BY <1>3, <1>4, <2>3, <2>4, <2>5 DEF ReleaseInv
<1> QED
  BY <1>5, <1>6

\* A controller that moves on, or gives up, changes none of it.
LEMMA PlanStays ==
    ASSUME ReleaseInv, op.kind = "prune", ctl.pc \in PrunePcs, NEW pc \in PrunePcs \ DeletePcs,
           ctl' = Idle \/ Goto(pc),
           pc \in EndPcs => owned \cap op.targets = {},
           pc \in {"prune_release", "prune_restart", "prune_health"} =>
             op.phase # "completed" /\ \A v \in op.targets : dirs[v] = "gone",
           pc \in TargetPcs => op.phase # "completed",
           pc = "prune_clear" => op.phase = "completed",
           UNCHANGED <<ptr, plist, label, bootout, sends, evidence, op, owned, dirs>>,
           drain' \in Markers,
           daemon' \in Daemons,
           (Up /\ ~daemon.drained => drain = None)', (Down => daemon = NoDaemon)'
    PROVE  ReleaseInv'
<1>1. op \in Plans /\ ctl \in Controllers /\ ~ctl.held
  BY PlanThere
<1>2. CASE ctl' = Idle
  <2>1. TreesKnow'
    BY <1>2 DEF ReleaseInv, TreesKnow, Idle, EndPcs, TargetPcs, DeletePcs
  <2>2. owned' \in SUBSET Versions /\ dirs' \in [Versions -> Places]
    BY DEF ReleaseInv, Typed
  <2> QED
    BY <1>1, <1>2, <2>1, <2>2, PlanRight
<1>3. CASE Goto(pc)
  <2>1. PICK c : c = ctl'
    OBVIOUS
  <2>2. c \in Controllers /\ c.pc = pc /\ ~c.held
    BY <1>1, <1>3, <2>1 DEF Goto, Controllers
  <2>3. TreesKnow'
    BY <2>1, <2>2 DEF ReleaseInv, TreesKnow, DeletePcs
  <2>4. owned' \in SUBSET Versions /\ dirs' \in [Versions -> Places]
    BY DEF ReleaseInv, Typed
  <2> QED
    BY <1>1, <2>1, <2>2, <2>3, <2>4, PlanRight
<1> QED
  BY <1>2, <1>3

\* Where nothing but the controller moves, the service is what it was.
LEMMA ServiceRests ==
    ASSUME ReleaseInv, UNCHANGED <<drain, daemon>>
    PROVE  /\ drain' \in Markers /\ daemon' \in Daemons
           /\ (Up /\ ~daemon.drained => drain = None)' /\ (Down => daemon = NoDaemon)'
BY DEF ReleaseInv, Typed, SendKnows, SendFits, Up, Down

\* A removal is taken up where its plan says.
LEMMA PruneBeginKeeps ==
    ASSUME ReleaseInv, PruneBegin
    PROVE  ReleaseInv'
<1>1. op.kind = "prune" /\ ctl.pc \in PrunePcs
  BY DEF PruneBegin, At, PrunePcs
<1>2. PICK pc \in {"prune_acquire", "prune_verify"} : ctl' = Idle \/ Goto(pc)
  BY DEF PruneBegin, Abort
<1>3. /\ UNCHANGED <<ptr, plist, drain, daemon, label, bootout, sends, evidence, op, owned, dirs>>
      /\ pc \in PrunePcs \ DeletePcs /\ pc \notin EndPcs \cup TargetPcs
  BY <1>2 DEF PruneBegin, disk, service, history, PrunePcs, DeletePcs, TargetPcs, EndPcs
<1> QED
  BY <1>1, <1>2, <1>3, PlanStays, ServiceRests DEF EndPcs

\* The drain of a removal is its own.
LEMMA PruneAcquireKeeps ==
    ASSUME ReleaseInv, PruneAcquire
    PROVE  ReleaseInv'
<1>1. op.kind = "prune" /\ ctl.pc \in PrunePcs
  BY DEF PruneAcquire, At, PrunePcs
<1>2. /\ ctl' = Idle \/ Goto("prune_acquired")
      /\ UNCHANGED <<ptr, plist, label, bootout, sends, evidence, op, owned, dirs>>
  BY DEF PruneAcquire, history, Abort
<1>3. /\ drain' \in Markers /\ daemon' \in Daemons
      /\ (Up /\ ~daemon.drained => drain = None)' /\ (Down => daemon = NoDaemon)'
  <2>1. CASE UNCHANGED <<drain, daemon>>
    BY <2>1, ServiceRests
  <2>2. CASE Up /\ drain' = "prune" /\ daemon' = [daemon EXCEPT !.drained = TRUE]
    BY <2>2 DEF ReleaseInv, Typed, Markers, Daemons, Up, Down
  <2> QED
    BY <2>1, <2>2 DEF PruneAcquire
<1>4. "prune_acquired" \in PrunePcs \ DeletePcs /\ "prune_acquired" \notin EndPcs \cup TargetPcs
  BY DEF PrunePcs, DeletePcs, TargetPcs, EndPcs
<1> QED
  BY <1>1, <1>2, <1>3, <1>4, PlanStays DEF EndPcs

\* A plan with another phase.
LEMMA PhaseShape ==
    ASSUME NEW o \in Plans, NEW p \in PlanPhases, NEW q, q = [o EXCEPT !.phase = p]
    PROVE  /\ q \in Plans /\ q.kind = "prune" /\ q.phase = p /\ q.targets = o.targets
           /\ q.retain = o.retain
           /\ q.current = o.current /\ q.moved = o.moved /\ q.deleting = o.deleting
BY DEF Plans

\* The phase of a plan moves on as far as what is on disk bears it out.
LEMMA PhaseKeeps ==
    ASSUME ReleaseInv, op.kind = "prune", ctl.pc \in PrunePcs, NEW p \in PlanPhases, Phase(p),
           NEW pc \in PrunePcs \ DeletePcs, Goto(pc),
           p = "completed" \/ pc \in EndPcs => owned \cap op.targets = {},
           p = "completed" \/ pc \in {"prune_release", "prune_restart", "prune_health"} =>
             \A v \in op.targets : dirs[v] = "gone",
           pc \in TargetPcs \cup {"prune_release", "prune_restart", "prune_health"} =>
             p # "completed",
           pc = "prune_clear" => p = "completed",
           UNCHANGED <<ptr, plist, drain, owned, label, daemon, bootout, sends, evidence, dirs>>
    PROVE  ReleaseInv'
<1>1. op \in Plans /\ ctl \in Controllers /\ ~ctl.held
  BY PlanThere
<1>2. PICK o : o = [op EXCEPT !.phase = p]
  OBVIOUS
<1>3. /\ op' = o /\ o \in Plans /\ o.kind = "prune" /\ o.phase = p /\ o.targets = op.targets
      /\ o.retain = op.retain /\ o.current = op.current /\ o.moved = op.moved
      /\ o.deleting = op.deleting
  BY <1>1, <1>2, PhaseShape DEF Phase
<1>4. PICK c : c = ctl'
  OBVIOUS
<1>5. c \in Controllers /\ c.pc = pc /\ ~c.held
  BY <1>1, <1>4 DEF Goto, Controllers
<1>6. TreesKnow'
  BY <1>3, <1>4, <1>5 DEF ReleaseInv, TreesKnow, Kinds, DeletePcs
<1>7. owned' \in SUBSET Versions /\ dirs' \in [Versions -> Places]
  BY DEF ReleaseInv, Typed
<1> QED
  BY <1>3, <1>4, <1>5, <1>6, <1>7, ServiceRests, PlanRight

\* Prune keeps the invariant: nothing that is current or to be kept is to go.
LEMMA PruneKeeps ==
    ASSUME ReleaseInv, NEW targets \in SUBSET Versions, NEW retain \in SUBSET Versions,
           Prune(targets, retain)
    PROVE  ReleaseInv'
<1>1. /\ op'.kind = "prune" /\ op'.phase = "prepared" /\ op'.targets = targets
      /\ op'.retain = retain
      /\ op'.current = ptr /\ op'.moved = {} /\ op'.deleting = {} /\ op' \in Plans
  BY DEF Prune, Plans, PlanPhases, ReleaseInv, Typed
<1>2. PICK c : c = ctl'
  OBVIOUS
<1>3. c \in Controllers /\ c.pc = "prune" /\ ~c.held
  BY <1>2 DEF Prune, Idle, Controllers, PrunePcs, Thens, None
<1>4. UNCHANGED <<ptr, plist, drain, owned, label, daemon, bootout, sends, evidence, dirs>>
  BY DEF Prune, disk, service, history
<1>5. op.kind # "prune" /\ targets \cap retain = {} /\ targets \cup retain \subseteq owned \ {ptr}
  BY DEF Prune
<1>6. TreesKnow'
  <2>1. /\ dirs[ptr] = "whole" /\ \A v \in owned : dirs[v] = "whole"
        /\ \A v \in Versions : dirs[v] # "partial"
    BY <1>5 DEF ReleaseInv, TreesKnow
  <2> QED
    BY <1>1, <1>2, <1>3, <1>4, <1>5, <2>1 DEF TreesKnow, Kinds, EndPcs, TargetPcs, DeletePcs
<1>7. owned' \in SUBSET Versions /\ dirs' \in [Versions -> Places] /\ c.pc \in PrunePcs
  BY <1>3, <1>4 DEF ReleaseInv, Typed, PrunePcs
<1> QED
  BY <1>1, <1>2, <1>3, <1>4, <1>6, <1>7, ServiceRests, PlanRight

\* A removal is resumed from its plan.
LEMMA ResumePruneKeeps ==
    ASSUME ReleaseInv, ResumePrune
    PROVE  ReleaseInv'
<1>1. op \in Plans /\ op.kind = "prune"
  BY JournalShape DEF ReleaseInv, ResumePrune
<1>2. PICK c : c = ctl'
  OBVIOUS
<1>3. c \in Controllers /\ c.pc = "prune" /\ ~c.held
  BY <1>2 DEF ResumePrune, Idle, Controllers, PrunePcs, Thens, None
<1>4. UNCHANGED <<ptr, plist, drain, owned, op, label, daemon, bootout, sends, evidence, dirs>>
  BY DEF ResumePrune, disk, service, history
<1>5. TreesKnow'
  BY <1>2, <1>3, <1>4 DEF ReleaseInv, TreesKnow, EndPcs, TargetPcs, DeletePcs
<1>6. owned' \in SUBSET Versions /\ dirs' \in [Versions -> Places] /\ c.pc \in PrunePcs
  BY <1>3, <1>4 DEF ReleaseInv, Typed, PrunePcs
<1> QED
  BY <1>1, <1>2, <1>3, <1>4, <1>5, <1>6, ServiceRests, PlanRight

\* A removal begins when the drained daemon is idle.
LEMMA PruneAcquiredKeeps ==
    ASSUME ReleaseInv, PruneAcquired
    PROVE  ReleaseInv'
<1>1. op.kind = "prune" /\ ctl.pc \in PrunePcs
  BY DEF PruneAcquired, At, PrunePcs
<1>2. UNCHANGED <<ptr, plist, drain, daemon, label, bootout, sends, evidence, owned, dirs>>
  BY DEF PruneAcquired, disk, service, history
<1>3. "prune_verify" \in PrunePcs \ DeletePcs /\ "prune_verify" \notin EndPcs \cup TargetPcs
      /\ "draining" \in PlanPhases
  BY DEF PrunePcs, DeletePcs, TargetPcs, EndPcs, PlanPhases
<1>4. CASE Phase("draining") /\ Goto("prune_verify")
  BY <1>1, <1>2, <1>3, <1>4, PhaseKeeps DEF EndPcs
<1>5. CASE Abort /\ UNCHANGED op
  BY <1>1, <1>2, <1>3, <1>5, ServiceRests, PlanStays DEF EndPcs, Abort
<1> QED
  BY <1>4, <1>5 DEF PruneAcquired

\* A removal goes on under its own drain only, until nothing is left of its targets.
LEMMA PruneVerifyKeeps ==
    ASSUME ReleaseInv, PruneVerify
    PROVE  ReleaseInv'
<1>1. op.kind = "prune" /\ ctl.pc \in PrunePcs
  BY DEF PruneVerify, At, PrunePcs
<1>2. UNCHANGED <<ptr, plist, drain, daemon, label, bootout, sends, evidence, op, owned, dirs>>
  BY DEF PruneVerify, disk, service, history
<1>3. PICK pc \in {"prune_finish", "prune_targets"} :
         /\ ctl' = Idle \/ Goto(pc)
         /\ pc = "prune_finish" <=> owned \cap op.targets = {}
  BY DEF PruneVerify, Goto
<1>4. pc = "prune_targets" => op.phase # "completed"
  BY <1>1, <1>3 DEF ReleaseInv, TreesKnow
<1>5. /\ pc \in PrunePcs \ DeletePcs
      /\ pc \in EndPcs => pc = "prune_finish"
      /\ pc \in TargetPcs => pc = "prune_targets"
  BY <1>3 DEF PrunePcs, DeletePcs, TargetPcs, EndPcs
<1> QED
  BY <1>1, <1>2, <1>3, <1>4, <1>5, ServiceRests, PlanStays

\* What is left of a plan is what it was as long as the same is done.
LEMMA TodoStays ==
    ASSUME op'.targets = op.targets, \A v \in op.targets : Done(v)' <=> Done(v)
    PROVE  Todo' = Todo
BY DEF Todo

\* The version at hand is one that is left.
LEMMA FirstThere ==
    ASSUME Todo # {}
    PROVE  First(Todo) \in op.targets /\ ~Done(First(Todo))
<1>1. First(Todo) \in Todo
  BY DEF First
<1> QED
  BY <1>1 DEF Todo

\* A record about the version at hand, of which something is left on disk.
LEMMA RecordKeeps ==
    ASSUME ReleaseInv, op.kind = "prune", ctl.pc \in TargetPcs, Todo # {},
           dirs[First(Todo)] # "gone",
           drain = "prune", ~daemon.work, Up => daemon.drained,
           NEW o \in Plans, op' = o, o.targets = op.targets, o.retain = op.retain,
           o.current = op.current,
           o.phase \in {op.phase, "deleting"}, o.moved \in {op.moved, op.moved \cup {First(Todo)}},
           o.deleting \in {op.deleting, op.deleting \cup {First(Todo)}},
           NEW pc \in DeletePcs, Goto(pc), pc = "prune_moved" => dirs[First(Todo)] = "aside",
           pc = "prune_remove" => First(Todo) \in o.deleting,
           UNCHANGED <<ptr, plist, drain, owned, label, daemon, bootout, sends, evidence, dirs>>
    PROVE  ReleaseInv'
<1>1. /\ op \in Plans /\ ctl \in Controllers /\ ~ctl.held /\ op.phase # "completed"
      /\ op.moved \subseteq op.targets /\ op.deleting \subseteq op.targets
  BY PlanThere DEF ReleaseInv, TreesKnow, PrunePcs
<1>2. PICK v : v = First(Todo)
  OBVIOUS
<1>3. v \in op.targets /\ ~Done(v)
  BY <1>2, FirstThere
<1>4. Todo' = Todo
  <2>1. ASSUME NEW u \in op.targets PROVE Done(u)' <=> Done(u)
    <3>1. CASE u = v
      BY <1>2, <3>1 DEF Done
    <3>2. CASE u # v
      BY <1>2, <3>2 DEF Done
    <3> QED
      BY <3>1, <3>2
  <2> QED
    BY <2>1, TodoStays
<1>5. PICK c : c = ctl'
  OBVIOUS
<1>6. /\ c \in Controllers /\ c.pc = pc /\ ~c.held /\ pc \in PrunePcs /\ pc \in TargetPcs
      /\ pc \notin EndPcs
  BY <1>1, <1>5 DEF Goto, Controllers, PrunePcs, TargetPcs, EndPcs, DeletePcs
<1>7. First(Todo)' = v
  BY <1>2, <1>4 DEF First
<1>8. o.phase # "completed" /\ op.phase # "completed"
  BY <1>1
<1>9. o.kind = "prune"
  BY DEF Plans
<1>10. TreesKnow'
  BY <1>1, <1>2, <1>3, <1>4, <1>5, <1>6, <1>7, <1>8, <1>9 DEF ReleaseInv, TreesKnow, Kinds,
       EndPcs, Up
<1>11. owned' \in SUBSET Versions /\ dirs' \in [Versions -> Places]
  BY DEF ReleaseInv, Typed
<1> QED
  BY <1>5, <1>6, <1>10, <1>11, ServiceRests, PlanRight

\* A record of the plan is one of its type.
LEMMA RecordShape ==
    ASSUME NEW o \in Plans, NEW v \in Versions
    PROVE  /\ LET q == [o EXCEPT !.phase = "deleting", !.moved = @ \cup {v}]
              IN /\ q \in Plans /\ q.targets = o.targets /\ q.retain = o.retain
                 /\ q.current = o.current
                 /\ q.phase = "deleting" /\ q.moved = o.moved \cup {v} /\ q.deleting = o.deleting
           /\ LET q == [o EXCEPT !.deleting = @ \cup {v}]
              IN /\ q \in Plans /\ q.targets = o.targets /\ q.retain = o.retain
                 /\ q.current = o.current
                 /\ q.phase = o.phase /\ q.moved = o.moved /\ q.deleting = o.deleting \cup {v}
<1>1. /\ o.moved \cup {v} \in SUBSET Versions /\ o.deleting \cup {v} \in SUBSET Versions
      /\ "deleting" \in PlanPhases
  BY DEF Plans, PlanPhases
<1>2. PICK q : q = [o EXCEPT !.phase = "deleting", !.moved = @ \cup {v}]
  OBVIOUS
<1>3. /\ q \in Plans /\ q.targets = o.targets /\ q.retain = o.retain /\ q.current = o.current
      /\ q.phase = "deleting" /\ q.moved = o.moved \cup {v} /\ q.deleting = o.deleting
  BY <1>1, <1>2 DEF Plans
<1>4. PICK r : r = [o EXCEPT !.deleting = @ \cup {v}]
  OBVIOUS
<1>5. /\ r \in Plans /\ r.targets = o.targets /\ r.retain = o.retain /\ r.current = o.current
      /\ r.phase = o.phase /\ r.moved = o.moved /\ r.deleting = o.deleting \cup {v}
  BY <1>1, <1>4 DEF Plans
<1> QED
  BY <1>2, <1>3, <1>4, <1>5

\* A version is moved aside under the drain, and found again by looking.
LEMMA PruneTargetKeeps ==
    ASSUME ReleaseInv, PruneTarget
    PROVE  ReleaseInv'
<1>1. op.kind = "prune" /\ ctl.pc \in PrunePcs /\ ctl.pc \in TargetPcs /\ Todo # {}
  BY DEF PruneTarget, At, PrunePcs, TargetPcs
<1>2. op \in Plans /\ ctl \in Controllers /\ ~ctl.held /\ op.phase # "completed"
  BY <1>1, PlanThere DEF ReleaseInv, TreesKnow
<1>3. UNCHANGED <<ptr, plist, drain, daemon, label, bootout, sends, evidence, owned>>
  BY DEF PruneTarget, disk, service, history
<1>4. PICK v : v = First(Todo)
  OBVIOUS
<1>5. v \in op.targets /\ v \in Versions /\ ~Done(v)
  BY <1>1, <1>2, <1>4, FirstThere DEF Plans
<1>6. CASE Abort /\ UNCHANGED <<op, dirs>>
  <2>1. "prune_verify" \in PrunePcs \ DeletePcs /\ "prune_verify" \notin EndPcs \cup TargetPcs
    BY DEF PrunePcs, DeletePcs, TargetPcs, EndPcs
  <2> QED
    BY <1>1, <1>3, <1>6, <2>1, ServiceRests, PlanStays DEF EndPcs, Abort
<1>7. ASSUME Ours, Quiet PROVE drain = "prune" /\ ~daemon.work /\ daemon.drained
  BY <1>7 DEF Ours, Quiet, DrainedIdle
<1>8. CASE /\ Ours /\ Quiet /\ dirs[v] = "aside" /\ Moved(v) /\ Goto("prune_delete")
           /\ UNCHANGED dirs
  <2>1. PICK o : o = [op EXCEPT !.phase = "deleting", !.moved = @ \cup {v}]
    OBVIOUS
  <2>2. /\ o \in Plans /\ o.targets = op.targets /\ o.retain = op.retain /\ o.current = op.current
        /\ o.phase = "deleting" /\ o.moved = op.moved \cup {v} /\ o.deleting = op.deleting
    BY <1>2, <1>5, <2>1, RecordShape
  <2>3. op' = o /\ "prune_delete" \in DeletePcs
    BY <1>8, <2>1 DEF Moved, DeletePcs
  <2> QED
    BY <1>1, <1>3, <1>4, <1>7, <1>8, <2>2, <2>3, RecordKeeps
<1>9. CASE /\ Ours /\ Quiet /\ dirs[v] # "gone" /\ Goto("prune_delete") /\ UNCHANGED <<op, dirs>>
  <2>1. "prune_delete" \in DeletePcs
    BY DEF DeletePcs
  <2> QED
    BY <1>1, <1>2, <1>3, <1>4, <1>7, <1>9, <2>1, RecordKeeps
<1>10. CASE Ours /\ Quiet /\ Move(v)
  <2>1. dirs \in [Versions -> Places] /\ dirs[v] = "whole"
    BY <1>10 DEF Move, ReleaseInv, Typed
  <2>2. PICK d : d = [dirs EXCEPT ![v] = "aside"]
    OBVIOUS
  <2>3. /\ dirs' = d /\ op' = op /\ d \in [Versions -> Places] /\ d[v] = "aside"
        /\ \A u \in Versions : u # v => d[u] = dirs[u]
    BY <1>5, <1>10, <2>1, <2>2 DEF Move, Places
  <2>4. Todo' = Todo
    <3>1. ASSUME NEW u \in op.targets PROVE Done(u)' <=> Done(u)
      <4>1. u \in Versions
        BY <1>2 DEF Plans
      <4> QED
        BY <2>1, <2>3, <4>1 DEF Done
    <3> QED
      BY <2>3, <3>1, TodoStays
  <2>5. First(Todo)' = v
    BY <1>4, <2>4 DEF First
  <2>6. PICK c : c = ctl'
    OBVIOUS
  <2>7. c \in Controllers /\ c.pc = "prune_moved" /\ ~c.held /\ c.pc \in PrunePcs
    BY <1>2, <1>10, <2>6 DEF Move, Goto, Controllers, PrunePcs, TargetPcs, DeletePcs
  <2>8. ptr = op.current /\ op.current \notin op.targets /\ op.targets \cap op.retain = {}
        /\ op.targets \subseteq Versions /\ op.retain \subseteq Versions /\ ptr \in Versions
        /\ owned \subseteq Versions
    BY <1>1, PlanThere DEF ReleaseInv, Typed
  <2>9. TreesKnow'
    BY <1>1, <1>2, <1>3, <1>5, <1>7, <1>10, <2>1, <2>3, <2>4, <2>5, <2>6, <2>7, <2>8
       DEF ReleaseInv, TreesKnow, Kinds, EndPcs, TargetPcs, DeletePcs, Up
  <2> QED
    BY <1>2, <1>3, <2>3, <2>6, <2>7, <2>8, <2>9, ServiceRests, PlanRight
<1> QED
  BY <1>4, <1>6, <1>8, <1>9, <1>10 DEF PruneTarget

\* Where a version is being removed, prune's own drain is up and nothing runs.
LEMMA AtVersion ==
    ASSUME ReleaseInv, op.kind = "prune", ctl.pc \in DeletePcs
    PROVE  /\ ctl.pc \in PrunePcs /\ ctl.pc \in TargetPcs /\ op \in Plans /\ ctl \in Controllers
           /\ ~ctl.held
           /\ op.phase # "completed" /\ drain = "prune" /\ ~daemon.work /\ (Up => daemon.drained)
           /\ Todo # {} /\ dirs[First(Todo)] # "gone" /\ First(Todo) \in op.targets
           /\ First(Todo) \in Versions
<1>1. ctl.pc \in PrunePcs /\ ctl.pc \in TargetPcs
  BY DEF PrunePcs, TargetPcs
<1>2. op \in Plans /\ ctl \in Controllers /\ ~ctl.held /\ op.targets \subseteq Versions
  BY <1>1, PlanThere
<1>3. /\ op.phase # "completed" /\ drain = "prune" /\ ~daemon.work /\ (Up => daemon.drained)
      /\ Todo # {} /\ dirs[First(Todo)] # "gone"
  BY <1>1 DEF ReleaseInv, TreesKnow
<1> QED
  BY <1>1, <1>2, <1>3, FirstThere

\* A version that was moved aside is recorded as moved.
LEMMA PruneMovedKeeps ==
    ASSUME ReleaseInv, PruneMoved
    PROVE  ReleaseInv'
<1>1. op.kind = "prune" /\ ctl.pc \in DeletePcs /\ "prune_delete" \in DeletePcs
  BY DEF PruneMoved, At, DeletePcs
<1>2. UNCHANGED <<ptr, plist, drain, daemon, label, bootout, sends, evidence, owned, dirs>>
  BY DEF PruneMoved, disk, service, history
<1>3. PICK v : v = First(Todo)
  OBVIOUS
<1>4. PICK o : o = [op EXCEPT !.phase = "deleting", !.moved = @ \cup {v}]
  OBVIOUS
<1>5. op \in Plans /\ v \in Versions /\ v \in op.targets
  BY <1>1, <1>3, AtVersion
<1>6. /\ o \in Plans /\ o.targets = op.targets /\ o.retain = op.retain /\ o.current = op.current
      /\ o.phase = "deleting" /\ o.moved = op.moved \cup {v} /\ o.deleting = op.deleting
  BY <1>4, <1>5 DEF Plans, PlanPhases
<1>7. op' = o /\ Goto("prune_delete")
  BY <1>3, <1>4 DEF PruneMoved, Moved
<1> QED
  BY <1>1, <1>2, <1>3, <1>6, <1>7, AtVersion, RecordKeeps

\* A deletion is recorded before the first file goes.
LEMMA PruneMarkKeeps ==
    ASSUME ReleaseInv, PruneMark
    PROVE  ReleaseInv'
<1>1. op.kind = "prune" /\ ctl.pc \in DeletePcs /\ "prune_remove" \in DeletePcs
  BY DEF PruneMark, At, DeletePcs
<1>2. UNCHANGED <<ptr, plist, drain, daemon, label, bootout, sends, evidence, owned, dirs>>
  BY DEF PruneMark, disk, service, history
<1>3. PICK v : v = First(Todo)
  OBVIOUS
<1>4. CASE Abort /\ UNCHANGED op
  <2>1. "prune_verify" \in PrunePcs \ DeletePcs /\ "prune_verify" \notin EndPcs \cup TargetPcs
    BY DEF PrunePcs, DeletePcs, TargetPcs, EndPcs
  <2> QED
    BY <1>1, <1>2, <1>4, <2>1, AtVersion, ServiceRests, PlanStays DEF EndPcs, Abort
<1>5. CASE op' = [op EXCEPT !.deleting = @ \cup {v}] /\ Goto("prune_remove")
  <2>1. PICK o : o = [op EXCEPT !.deleting = @ \cup {v}]
    OBVIOUS
  <2>2. op \in Plans /\ v \in Versions /\ v \in op.targets
    BY <1>1, <1>3, AtVersion
  <2>3. /\ o \in Plans /\ o.targets = op.targets /\ o.retain = op.retain /\ o.current = op.current
        /\ o.phase = op.phase /\ o.moved = op.moved /\ o.deleting = op.deleting \cup {v}
    BY <2>1, <2>2 DEF Plans, PlanPhases
  <2>4. op' = o /\ v \in o.deleting
    BY <1>5, <2>1, <2>3
  <2> QED
    BY <1>1, <1>2, <1>3, <1>5, <2>3, <2>4, AtVersion, RecordKeeps
<1> QED
  BY <1>3, <1>4, <1>5 DEF PruneMark

\* A version is deleted file by file, and the current one is another.
LEMMA PruneRemoveKeeps ==
    ASSUME ReleaseInv, PruneRemove
    PROVE  ReleaseInv'
<1>1. op.kind = "prune" /\ ctl.pc = "prune_remove" /\ ctl.pc \in DeletePcs /\ ctl.pc \in PrunePcs
  BY DEF PruneRemove, At, DeletePcs, PrunePcs, TargetPcs
<1>2. UNCHANGED <<ptr, plist, drain, daemon, label, bootout, sends, evidence, owned, op>>
  BY DEF PruneRemove, disk, service, history
<1>3. PICK v : v = First(Todo)
  OBVIOUS
<1>4. /\ v \in op.targets /\ v \in Versions /\ v \in op.deleting /\ dirs[v] # "gone" /\ op \in Plans
      /\ dirs \in [Versions -> Places] /\ op.targets \subseteq Versions
      /\ op.phase # "completed" /\ drain = "prune" /\ ~daemon.work /\ (Up => daemon.drained)
      /\ Todo # {} /\ ctl \in Controllers /\ ~ctl.held
  BY <1>1, <1>3, AtVersion, PlanThere DEF ReleaseInv, Typed, TreesKnow
<1>5. PICK s \in {"partial", "gone"} :
        /\ dirs' = [dirs EXCEPT ![v] = s]
        /\ s = "partial" => UNCHANGED ctl
        /\ s = "gone" => Goto("prune_targets")
  BY <1>3 DEF PruneRemove
<1>6. PICK d : d = [dirs EXCEPT ![v] = s]
  OBVIOUS
<1>7. /\ dirs' = d /\ d \in [Versions -> Places] /\ d[v] = s
      /\ \A u \in Versions : u # v => d[u] = dirs[u]
  BY <1>4, <1>5, <1>6 DEF Places
<1>8. /\ ptr = op.current /\ op.current \notin op.targets /\ op.targets \cap op.retain = {}
      /\ op.retain \subseteq Versions /\ ptr \in Versions /\ owned \subseteq Versions
  BY <1>1, PlanThere DEF ReleaseInv, Typed
<1>9. PICK c : c = ctl'
  OBVIOUS
<1>10. CASE s = "partial"
  <2>1. Todo' = Todo
    <3>1. ASSUME NEW u \in op.targets PROVE Done(u)' <=> Done(u)
      <4>1. u \in Versions
        BY <1>4
      <4> QED
        BY <1>2, <1>4, <1>7, <1>10, <4>1 DEF Done
    <3> QED
      BY <1>2, <3>1, TodoStays
  <2>2. First(Todo)' = v
    BY <1>3, <2>1 DEF First
  <2>3. c = ctl
    BY <1>5, <1>9, <1>10
  <2>4. TreesKnow'
    BY <1>1, <1>2, <1>4, <1>7, <1>8, <1>9, <1>10, <2>1, <2>2, <2>3
       DEF ReleaseInv, TreesKnow, Kinds, EndPcs, Up
  <2> QED
    BY <1>1, <1>2, <1>4, <1>7, <1>8, <1>9, <2>3, <2>4, ServiceRests, PlanRight
<1>11. CASE s = "gone"
  <2>1. c \in Controllers /\ c.pc = "prune_targets" /\ ~c.held /\ c.pc \in PrunePcs
    BY <1>4, <1>5, <1>9, <1>11 DEF Goto, Controllers, PrunePcs, TargetPcs
  <2>2. TreesKnow'
    BY <1>1, <1>2, <1>4, <1>7, <1>8, <1>9, <1>11, <2>1
       DEF ReleaseInv, TreesKnow, Kinds, EndPcs, TargetPcs, DeletePcs
  <2> QED
    BY <1>2, <1>4, <1>7, <1>8, <1>9, <2>1, <2>2, ServiceRests, PlanRight
<1> QED
  BY <1>5, <1>10, <1>11

\* The inventory is changed when every target is gone.
LEMMA PruneMetadataPhaseKeeps ==
    ASSUME ReleaseInv, PruneMetadataPhase
    PROVE  ReleaseInv'
<1>1. op.kind = "prune" /\ ctl.pc \in PrunePcs /\ Phase("metadata") /\ Goto("prune_metadata")
  BY DEF PruneMetadataPhase, At, PrunePcs, TargetPcs
<1>2. UNCHANGED <<ptr, plist, drain, daemon, label, bootout, sends, evidence, owned, dirs>>
  BY DEF PruneMetadataPhase, disk, service, history
<1>3. /\ "prune_metadata" \in PrunePcs \ DeletePcs /\ "prune_metadata" \notin EndPcs
      /\ "metadata" \in PlanPhases
  BY DEF PrunePcs, DeletePcs, TargetPcs, EndPcs, PlanPhases
<1> QED
  BY <1>1, <1>2, <1>3, PhaseKeeps

\* What leaves the inventory is gone.
LEMMA PruneMetadataKeeps ==
    ASSUME ReleaseInv, PruneMetadata
    PROVE  ReleaseInv'
<1>1. op.kind = "prune" /\ ctl.pc \in PrunePcs
  BY DEF PruneMetadata, At, PrunePcs, TargetPcs
<1>2. UNCHANGED <<ptr, plist, drain, daemon, label, bootout, sends, evidence, op, dirs>>
      /\ owned' = owned \ op.targets
  BY DEF PruneMetadata, service, history
<1>3. /\ op \in Plans /\ ctl \in Controllers /\ ~ctl.held /\ op.targets \cap op.retain = {}
  BY <1>1, PlanThere
<1>4. PICK c : c = ctl'
  OBVIOUS
<1>5. c \in Controllers /\ c.pc = "prune_finish" /\ ~c.held /\ c.pc \in PrunePcs
  BY <1>3, <1>4 DEF PruneMetadata, Goto, Controllers, PrunePcs, EndPcs
<1>6. TreesKnow'
  BY <1>1, <1>2, <1>3, <1>4, <1>5 DEF ReleaseInv, TreesKnow, Kinds, TargetPcs, DeletePcs
<1>7. owned' \in SUBSET Versions /\ dirs' \in [Versions -> Places]
  BY <1>2 DEF ReleaseInv, Typed
<1> QED
  BY <1>2, <1>3, <1>4, <1>5, <1>6, <1>7, ServiceRests, PlanRight

\* A removal is finished when nothing is left of its targets.
LEMMA PruneFinishKeeps ==
    ASSUME ReleaseInv, PruneFinish
    PROVE  ReleaseInv'
<1>1. op.kind = "prune" /\ ctl.pc \in PrunePcs /\ ctl.pc \in EndPcs
  BY DEF PruneFinish, At, PrunePcs, EndPcs
<1>2. UNCHANGED <<ptr, plist, drain, daemon, label, bootout, sends, evidence, owned, dirs>>
  BY DEF PruneFinish, disk, service, history
<1>3. owned \cap op.targets = {}
  BY <1>1 DEF ReleaseInv, TreesKnow
<1>4. CASE op.phase = "completed" /\ Goto("prune_clear") /\ UNCHANGED op
  <2>1. "prune_clear" \in PrunePcs \ DeletePcs /\ "prune_clear" \notin TargetPcs
    BY DEF PrunePcs, DeletePcs, TargetPcs, EndPcs
  <2> QED
    BY <1>1, <1>2, <1>3, <1>4, <2>1, ServiceRests, PlanStays
<1>5. CASE /\ \A v \in op.targets : dirs[v] = "gone"
           /\ Phase("drain_release_pending") /\ Goto("prune_release")
  <2>1. "prune_release" \in PrunePcs \ DeletePcs /\ "drain_release_pending" \in PlanPhases
    BY DEF PrunePcs, DeletePcs, EndPcs, PlanPhases
  <2> QED
    BY <1>1, <1>2, <1>3, <1>5, <2>1, PhaseKeeps
<1>6. CASE Abort /\ UNCHANGED op
  <2>1. "prune_verify" \in PrunePcs \ DeletePcs /\ "prune_verify" \notin EndPcs \cup TargetPcs
    BY DEF PrunePcs, DeletePcs, TargetPcs, EndPcs
  <2> QED
    BY <1>1, <1>2, <1>6, <2>1, ServiceRests, PlanStays DEF EndPcs, Abort
<1> QED
  BY <1>4, <1>5, <1>6 DEF PruneFinish

\* At the end of a plan there is nothing left of its targets.
LEMMA AtEnd ==
    ASSUME ReleaseInv, op.kind = "prune",
           ctl.pc \in {"prune_release", "prune_restart", "prune_health"}
    PROVE  /\ ctl.pc \in PrunePcs /\ op.phase # "completed" /\ owned \cap op.targets = {}
           /\ \A v \in op.targets : dirs[v] = "gone"
<1>1. ctl.pc \in PrunePcs /\ ctl.pc \in EndPcs
  BY DEF PrunePcs, EndPcs
<1> QED
  BY <1>1 DEF ReleaseInv, TreesKnow

\* The drain of the removal is released when it has nothing left to remove.
LEMMA PruneReleaseKeeps ==
    ASSUME ReleaseInv, PruneRelease
    PROVE  ReleaseInv'
<1>1. op.kind = "prune" /\ ctl.pc \in {"prune_release", "prune_restart", "prune_health"}
  BY DEF PruneRelease, At
<1>2. UNCHANGED <<ptr, plist, daemon, label, bootout, sends, evidence, owned, op, dirs>>
  BY DEF PruneRelease, service, history
<1>3. PICK pc \in {"prune_restart", "prune_health"} : ctl' = Idle \/ Goto(pc)
  BY DEF PruneRelease, Abort
<1>4. pc \in PrunePcs \ DeletePcs /\ pc \notin TargetPcs /\ pc # "prune_clear"
  BY <1>3 DEF PrunePcs, DeletePcs, TargetPcs, EndPcs
<1>5. drain' \in {None, drain}
  BY DEF PruneRelease
<1>6. /\ drain' \in Markers /\ daemon' \in Daemons
      /\ (Up /\ ~daemon.drained => drain = None)' /\ (Down => daemon = NoDaemon)'
  BY <1>2, <1>5 DEF ReleaseInv, Typed, SendKnows, SendFits, Up, Down, Markers
<1> QED
  BY <1>1, <1>2, <1>3, <1>4, <1>6, AtEnd, PlanStays

\* A restart after the removal leaves nothing or the daemon the user started.
LEMMA PruneRestartKeeps ==
    ASSUME ReleaseInv, PruneRestart
    PROVE  ReleaseInv'
<1>1. op.kind = "prune" /\ ctl.pc \in {"prune_release", "prune_restart", "prune_health"}
  BY DEF PruneRestart, At
<1>2. UNCHANGED <<ptr, plist, drain, label, bootout, sends, evidence, owned, op, dirs>>
  BY DEF PruneRestart, disk, history
<1>3. ctl' = Idle \/ Goto("prune_health")
  BY DEF PruneRestart, Abort
<1>4. "prune_health" \in PrunePcs \ DeletePcs /\ "prune_health" \notin TargetPcs
  BY DEF PrunePcs, DeletePcs, TargetPcs, EndPcs
<1>5. daemon' \in {daemon, NoDaemon}
  BY DEF PruneRestart
<1>6. /\ drain' \in Markers /\ daemon' \in Daemons
      /\ (Up /\ ~daemon.drained => drain = None)' /\ (Down => daemon = NoDaemon)'
  <2>1. CASE daemon' = daemon
    BY <1>2, <2>1 DEF ReleaseInv, Typed, SendKnows, SendFits, Up, Down
  <2>2. CASE daemon' = NoDaemon
    <3>1. drain' \in Markers /\ daemon'.state = "down"
      BY <1>2, <2>2 DEF ReleaseInv, Typed, NoDaemon
    <3>2. NoDaemon \in Daemons
      BY DEF NoDaemon, Daemons
    <3> QED
      BY <2>2, <3>1, <3>2 DEF Up, Down
  <2> QED
    BY <1>5, <2>1, <2>2
<1> QED
  BY <1>1, <1>2, <1>3, <1>4, <1>6, AtEnd, PlanStays

\* A removal is completed when the daemon is healthy.
LEMMA PruneHealthKeeps ==
    ASSUME ReleaseInv, PruneHealth
    PROVE  ReleaseInv'
<1>1. op.kind = "prune" /\ ctl.pc \in {"prune_release", "prune_restart", "prune_health"}
  BY DEF PruneHealth, At
<1>2. UNCHANGED <<ptr, plist, drain, daemon, label, bootout, sends, evidence, owned, dirs>>
  BY DEF PruneHealth, disk, service, history
<1>3. CASE Phase("completed") /\ Goto("prune_clear")
  <2>1. /\ "prune_clear" \in PrunePcs \ DeletePcs /\ "prune_clear" \notin TargetPcs
        /\ "completed" \in PlanPhases
    BY DEF PrunePcs, DeletePcs, TargetPcs, EndPcs, PlanPhases
  <2> QED
    BY <1>1, <1>2, <1>3, <2>1, AtEnd, PhaseKeeps
<1>4. CASE Abort /\ UNCHANGED op
  <2>1. "prune_verify" \in PrunePcs \ DeletePcs /\ "prune_verify" \notin EndPcs \cup TargetPcs
    BY DEF PrunePcs, DeletePcs, TargetPcs, EndPcs
  <2> QED
    BY <1>1, <1>2, <1>4, <2>1, AtEnd, ServiceRests, PlanStays DEF EndPcs, Abort
<1> QED
  BY <1>3, <1>4 DEF PruneHealth

\* A plan that is completed leaves the inventory as it is on disk.
LEMMA PruneClearKeeps ==
    ASSUME ReleaseInv, PruneClear
    PROVE  ReleaseInv'
<1>1. op.kind = "prune" /\ op.phase = "completed" /\ ctl' = Idle /\ op' = NoOperation
  BY DEF PruneClear, At, Abort, ReleaseInv, TreesKnow
<1>2. UNCHANGED <<ptr, plist, drain, daemon, label, bootout, sends, evidence, owned, dirs>>
  BY DEF PruneClear, disk, service, history
<1>3. op'.kind \notin Kinds /\ op'.kind # "prune"
  BY <1>1 DEF NoOperation, Kinds, None
<1>4. TreesKnow'
  <2>1. /\ dirs[ptr] = "whole" /\ (\A v \in owned : dirs[v] = "whole")
        /\ \A v \in Versions : dirs[v] # "partial"
    BY <1>1 DEF ReleaseInv, TreesKnow
  <2> QED
    BY <1>2, <1>3, <2>1 DEF TreesKnow
<1>5. owned' \in SUBSET Versions /\ dirs' \in [Versions -> Places]
  BY <1>2 DEF ReleaseInv, Typed
<1> QED
  BY <1>1, <1>2, <1>4, <1>5, ServiceRests, PlanRight

-----------------------------------------------------------------------------
\* In the beginning every version is installed and nothing was ever exchanged.
LEMMA InitKeeps == PruneInit => ReleaseInv
<1> SUFFICES ASSUME PruneInit PROVE ReleaseInv
  OBVIOUS
<1> USE InstalledAssumption
<1>1. daemon \in Daemons /\ daemon.drained = FALSE /\ daemon.state = "up" /\ daemon.work = FALSE
  <2>1. NoDaemon \in Daemons /\ ~NoDaemon.drained /\ ~NoDaemon.work
    BY DEF NoDaemon, Daemons, None, NoPid
  <2>2. PICK z : z = NoDaemon
    OBVIOUS
  <2>3. 1 \in Pids \cup {NoPid} /\ Installed \in Versions \cup {None}
    BY DEF Pids
  <2>4. PICK d : d = [z EXCEPT !.state = "up", !.version = Installed, !.pid = 1]
    OBVIOUS
  <2>5. d \in Daemons /\ d.drained = FALSE /\ d.state = "up" /\ d.work = FALSE
    BY <2>1, <2>2, <2>3, <2>4 DEF Daemons
  <2> QED
    BY <2>2, <2>4, <2>5 DEF PruneInit, Init
<1>2. op.kind \notin Kinds /\ op.kind # "prune"
  BY DEF PruneInit, Init, NoOperation, Kinds, None
<1>3. ctl = Idle /\ Idle \in Controllers /\ Idle.pc = "idle" /\ ~Idle.held
  BY DEF PruneInit, Init, Idle, Controllers, Thens
<1>4. Typed
  BY <1>1, <1>3 DEF PruneInit, Init, Typed, Markers, Places, None
<1>5. /\ ctl.pc \notin ExchangePcs \cup PrunePcs \cup AtStop \cup ReleasePcs
      /\ ctl.pc \notin {"idle_check", "restore_idle", "prepare", "request", "send", "sent",
                       "switch", "configure", "undrain", "bootstrap", "health", "stop_judge",
                       "stop_health",
                       "recover"}
  BY <1>3 DEF ExchangePcs, PrunePcs, AtStop, ReleasePcs, AbandonPcs, TargetPcs, DeletePcs, EndPcs
<1>6. JournalKnows
  BY <1>2 DEF JournalKnows
<1>7. ControllerKnows
  BY <1>3, <1>5 DEF ControllerKnows, ControllerFits
<1>8. SendKnows
  BY <1>1, <1>5 DEF SendKnows, SendFits, PruneInit, Init, Up, Down
<1>9. SwitchKnows
  BY <1>5 DEF SwitchKnows, SwitchFits
<1>10. TreesKnow
  BY <1>2 DEF TreesKnow, PruneInit, Init
<1> QED
  BY <1>4, <1>6, <1>7, <1>8, <1>9, <1>10 DEF ReleaseInv

\* What launchd, the daemon and its user do disturbs no exchange.
LEMMA ServiceKeeps ==
    ASSUME ReleaseInv, Service, UNCHANGED dirs
    PROVE  ReleaseInv'
BY LaunchdStartKeeps, StrayStartKeeps, DaemonDiesKeeps, WorkBeginsKeeps, WorkEndsKeeps,
   BootoutTerminatesKeeps, DaemonExitsKeeps, BootoutUnloadsKeeps DEF Service

\* The stop of the service, from its journaled intent to the daemon seen gone.
LEMMA StopKeeps ==
    ASSUME ReleaseInv, Stop, UNCHANGED dirs
    PROVE  ReleaseInv'
BY PrepareStopKeeps, RequestStopKeeps, RequestRefusedKeeps, SendBootoutKeeps,
   BootoutAnsweredKeeps, ObserveStopKeeps DEF Stop

\* The exchange of a service that is down, and its start.
LEMMA TransitionKeeps ==
    ASSUME ReleaseInv, Transition, UNCHANGED dirs
    PROVE  ReleaseInv'
BY SwitchPointerKeeps, ConfigureKeeps, RemoveDrainKeeps, BootstrapKeeps, KickstartKeeps,
   ObserveHealthKeeps DEF Transition

\* Every way back, and every way to resume what was interrupted.
LEMMA RecoveryKeeps ==
    ASSUME ReleaseInv, Recovery, UNCHANGED dirs
    PROVE  ReleaseInv'
BY RestoreServiceKeeps, CheckRestoreIdleKeeps, ReleaseDrainKeeps, ReleaseRemoveKeeps,
   ReleasedKeeps, RecoverPreviousKeeps, ReconcileKeeps, ReconcileStopKeeps, JudgeStoppedKeeps,
   JudgeHealthKeeps, ReconcileAbandonmentKeeps DEF Recovery

\* Every step of a removal of versions.
LEMMA PruneStepKeeps ==
    ASSUME ReleaseInv, PruneStep
    PROVE  ReleaseInv'
BY PruneBeginKeeps, PruneAcquireKeeps, PruneAcquiredKeeps, PruneVerifyKeeps, PruneTargetKeeps,
   PruneMovedKeeps, PruneMarkKeeps, PruneRemoveKeeps, PruneMetadataPhaseKeeps,
   PruneMetadataKeeps, PruneFinishKeeps, PruneReleaseKeeps, PruneRestartKeeps,
   PruneHealthKeeps, PruneClearKeeps DEF PruneStep

\* Every step keeps the invariant.
LEMMA NextKeeps ==
    ASSUME ReleaseInv, [PruneNext]_allVars
    PROVE  ReleaseInv'
<1>1. ASSUME NEW kind \in Kinds, NEW v \in Versions, Activate(kind, v), UNCHANGED dirs
      PROVE  ReleaseInv'
  BY <1>1, ActivateKeeps
<1>2. CASE Exchange /\ UNCHANGED dirs
  BY <1>2, CaptureBackupKeeps, DrainDaemonKeeps, CheckIdleKeeps, StopKeeps, TransitionKeeps,
     RecoveryKeeps DEF Exchange
<1>3. CASE ReleaseNext /\ UNCHANGED dirs
  BY <1>1, <1>2, <1>3, ServiceKeeps, ResumeKeeps, ReinstallKeeps, AbandonKeeps,
       ResumeReviewedKeeps,
     ControllerDiesKeeps DEF ReleaseNext
<1>4. ASSUME NEW targets \in SUBSET Versions, NEW retain \in SUBSET Versions, Prune(targets, retain)
      PROVE  ReleaseInv'
  BY <1>4, PruneKeeps
<1>5. CASE UNCHANGED allVars
  <2>1. UNCHANGED <<ptr, plist, drain, owned, op, daemon, label, bootout, ctl, sends, evidence,
                    dirs>>
    BY <1>5 DEF allVars, vars, disk, service, history
  <2>2. Typed'
    BY <2>1 DEF ReleaseInv, Typed
  <2>3. JournalKnows'
    BY <2>1 DEF ReleaseInv, JournalKnows, Stops, Last, Unsent
  <2>4. ControllerKnows'
    BY <2>1 DEF ReleaseInv, ControllerKnows, ControllerFits, Stops, Down
  <2>5. SendKnows'
    BY <2>1 DEF ReleaseInv, SendKnows, SendFits, Stops, Last, Unsent, Up, Down
  <2>6. SwitchKnows'
    BY <2>1 DEF ReleaseInv, SwitchKnows, SwitchFits, Stops, Last, Target, Config
  <2>7. TreesKnow'
    BY <2>1 DEF ReleaseInv, TreesKnow, Todo, Done, First, Up
  <2> QED
    BY <2>2, <2>3, <2>4, <2>5, <2>6, <2>7 DEF ReleaseInv
<1> QED
  BY <1>3, <1>4, <1>5, ResumePruneKeeps, PruneStepKeeps DEF PruneNext

\* At every moment, whatever crashed, was lost or was refused: a stop that may have
\* been sent is recorded so, a controller that is about to send one has a service
\* that is drained and idle, one that switches holds daemon.lock, and what is on disk
\* is what the journal says it is (lifecycle.rs, activate_as_locked to prune).
THEOREM ReleaseCorrect == PruneSpec => []ReleaseInv
<1>1. PruneInit => ReleaseInv
  BY InitKeeps
<1>2. ReleaseInv /\ [PruneNext]_allVars => ReleaseInv'
  BY NextKeeps
<1> QED
  BY <1>1, <1>2, PTL DEF PruneSpec

-----------------------------------------------------------------------------
\* The invariant says of every variable what it may be.
LEMMA TypeHeld == ReleaseInv => TypeOK
<1> SUFFICES ASSUME ReleaseInv PROVE TypeOK
  OBVIOUS
<1>1. Typed /\ JournalKnows
  BY DEF ReleaseInv
<1>2. /\ ptr \in Versions /\ plist \in Versions \cup {None} /\ owned \subseteq Versions
      /\ drain \in {None, "update", "prune"} /\ label \in {"loaded", "absent"}
      /\ bootout \in BOOLEAN /\ daemon.state \in {"up", "stopping", "down"} /\ sends \in Nat
  BY <1>1 DEF Typed, Daemons, Markers
<1>3. ASSUME op.kind \in Kinds
      PROVE  /\ Len(op.stops) <= 2 /\ \A i \in 1..Len(op.stops) : op.stops[i].request \in Requests
             /\ \A i \in 1..Len(op.stops) - 1 : op.stops[i].request = "stopped"
             /\ op.phase = "service_stop_pending" => op.stops # <<>>
             /\ op.abandoned => /\ op.stops = <<>> <=> op.phase = "abandonment_pending"
                                /\ \A i \in 1..Len(op.stops) : op.stops[i].dir = "restore"
             /\ op.reviewed => op.stops[1].request # "prepared"
  <2>1. op \in Exchanges
    BY <1>1, <1>3, JournalShape
  <2>2. PICK n : n = Len(op.stops)
    OBVIOUS
  <2>3. /\ n \in Nat /\ n <= 2 /\ (n = 2 => op.stops[1].request = "stopped")
        /\ \A i \in 1..n : op.stops[i] \in Intents
    BY <1>1, <1>3, <2>1, <2>2, StopShape DEF JournalKnows, Stops
  <2>4. \A i \in 1..n : op.stops[i].request \in Requests
    BY <2>3 DEF Intents
  <2>5. \A i \in 1..n - 1 : op.stops[i].request = "stopped"
    <3>1. CASE n = 2
      BY <2>3, <3>1
    <3>2. CASE n \in {0, 1}
      BY <3>2
    <3> QED
      BY <2>3, <3>1, <3>2
  <2> QED
    BY <1>1, <1>3, <2>2, <2>3, <2>4, <2>5 DEF JournalKnows, Stops
<1> QED
  BY <1>2, <1>3 DEF TypeOK

\* Every variable has its type, and the journal is one that validate() saves.
THEOREM ReleaseTypeCorrect == PruneSpec => []TypeOK
BY ReleaseCorrect, TypeHeld, PTL

\* The invariant says of the disk what the journal promises.
LEMMA DiskHeld == ReleaseInv => DiskAgrees
<1> SUFFICES ASSUME ReleaseInv PROVE DiskAgrees
  OBVIOUS
<1>1. SettledAgrees
  BY DEF ReleaseInv, JournalKnows, SettledAgrees
<1>2. InventoryHonest
  BY DEF ReleaseInv, TreesKnow, InventoryHonest
<1> QED
  BY <1>1, <1>2 DEF DiskAgrees

\* A settled exchange left the pointer, the configuration and no drain, as its phase
\* says; what the inventory lists is whole, a partial directory is one that was marked,
\* and the current and the retained versions are never touched: for any versions and
\* any number of crashes, lost answers, refusals and daemons run by hand.
THEOREM DiskFollowsJournal == PruneSpec => []DiskAgrees
BY ReleaseCorrect, DiskHeld, PTL

-----------------------------------------------------------------------------
\* What OnlyWhileIdle says of a step.
IdleStep == /\ ExchangedOnlyIdle
            /\ dirs' # dirs => drain = "prune" /\ ~daemon.work /\ (Up => daemon.drained)

\* A step that exchanges nothing, deletes nothing and sends nothing to launchd.
AtRest == /\ UNCHANGED <<ptr, plist, dirs>> /\ (bootout' => bootout) /\ sends' \in {sends, 0}
\* Such a step says nothing against it.
LEMMA RestsIdle ==
    ASSUME ReleaseInv, sends <= 1, AtRest
    PROVE  IdleStep
BY DEF ReleaseInv, Typed, AtRest, IdleStep, ExchangedOnlyIdle

\* What launchd, the daemon and its user do sends no bootout.
LEMMA ServiceRestsIdle ==
    ASSUME Service, UNCHANGED dirs
    PROVE  AtRest
<1>1. CASE LaunchdStart
  BY <1>1 DEF LaunchdStart, Booted, AtRest, disk, service, history
<1>2. CASE StrayStart
  BY <1>2 DEF StrayStart, Booted, AtRest, disk, service, history
<1>3. CASE DaemonDies
  BY <1>3 DEF DaemonDies, Gone, AtRest, disk, service, history
<1>4. CASE WorkBegins
  BY <1>4 DEF WorkBegins, AtRest, disk, service, history
<1>5. CASE WorkEnds
  BY <1>5 DEF WorkEnds, AtRest, disk, service, history
<1>6. CASE BootoutTerminates
  BY <1>6 DEF BootoutTerminates, AtRest, disk, service, history
<1>7. CASE DaemonExits
  BY <1>7 DEF DaemonExits, Gone, AtRest, disk, service, history
<1>8. CASE BootoutUnloads
  BY <1>8 DEF BootoutUnloads, Gone, AtRest, disk, service, history
<1> QED
  BY <1>1, <1>2, <1>3, <1>4, <1>5, <1>6, <1>7, <1>8 DEF Service

\* A recovery exchanges nothing itself: it goes on to a stop.
LEMMA RecoveryRestsIdle ==
    ASSUME Recovery, UNCHANGED dirs
    PROVE  AtRest
<1>1. CASE RestoreService
  BY <1>1 DEF RestoreService, Drained, AtRest, disk, service, history
<1>2. CASE CheckRestoreIdle
  BY <1>2 DEF CheckRestoreIdle, AtRest, disk, service, history
<1>3. CASE ReleaseDrain
  BY <1>3 DEF ReleaseDrain, AtRest, disk, service, history
<1>4. CASE ReleaseRemove
  BY <1>4 DEF ReleaseRemove, AtRest, disk, service, history
<1>5. CASE Released
  BY <1>5 DEF Released, AtRest, disk, service, history
<1>6. CASE RecoverPrevious
  BY <1>6 DEF RecoverPrevious, AtRest, disk, service, history
<1>7. CASE Reconcile
  BY <1>7 DEF Reconcile, AtRest, disk, service, history
<1>8. CASE ReconcileStop
  BY <1>8 DEF ReconcileStop, AtRest, disk, service, history
<1>9. CASE JudgeStopped
  BY <1>9 DEF JudgeStopped, AtRest, disk, service, history
<1>10. CASE JudgeHealth
  BY <1>10 DEF JudgeHealth, AtRest, disk, service, history
<1>11. CASE ReconcileAbandonment
  BY <1>11 DEF ReconcileAbandonment, AtRest, disk, service, history
<1> QED
  BY <1>1, <1>2, <1>3, <1>4, <1>5, <1>6, <1>7, <1>8, <1>9, <1>10, <1>11 DEF Recovery

\* A bootout goes to launchd once for each intent, and to a service at rest.
LEMMA StopIsIdle ==
    ASSUME ReleaseInv, sends <= 1, Stop, UNCHANGED dirs
    PROVE  IdleStep
<1>1. CASE PrepareStop
  <2>1. AtRest
    BY <1>1 DEF PrepareStop, Record, AtRest, disk, service, history
  <2> QED
    BY <2>1, RestsIdle
<1>2. CASE RequestStop
  <2>1. AtRest
    BY <1>2 DEF RequestStop, AtRest, disk, service, history
  <2> QED
    BY <2>1, RestsIdle
<1>3. CASE RequestRefused
  <2>1. AtRest
    BY <1>3 DEF RequestRefused, AtRest, disk, service, history
  <2> QED
    BY <2>1, RestsIdle
<1>4. CASE SendBootout
  <2>1. /\ sends = 0
        /\ ctl.held \/ (Up => daemon.drained /\ ~daemon.work)
        /\ ctl.held => Down
    BY <1>4 DEF SendBootout, ReleaseInv, SendKnows, SendFits, ControllerKnows, ControllerFits
  <2>2. UNCHANGED <<ptr, plist, dirs>> /\ sends' \in {sends, sends + 1}
    BY <1>4 DEF SendBootout, disk
  <2> QED
    BY <2>1, <2>2 DEF IdleStep, ExchangedOnlyIdle, Up, Down
<1>5. CASE BootoutAnswered
  <2>1. AtRest
    BY <1>5 DEF BootoutAnswered, AtRest, disk, service, history
  <2> QED
    BY <2>1, RestsIdle
<1>6. CASE ObserveStop
  <2>1. AtRest
    BY <1>6 DEF ObserveStop, AtRest, disk, service, history
  <2> QED
    BY <2>1, RestsIdle
<1> QED
  BY <1>1, <1>2, <1>3, <1>4, <1>5, <1>6 DEF Stop

\* The pointer and the configuration are exchanged under daemon.lock.
LEMMA TransitionIsIdle ==
    ASSUME ReleaseInv, sends <= 1, Transition, UNCHANGED dirs
    PROVE  IdleStep
<1>1. CASE SwitchPointer
  <2>1. Down
    BY <1>1 DEF SwitchPointer, ReleaseInv, ControllerKnows, ControllerFits
  <2>2. UNCHANGED <<bootout, sends, dirs>>
    BY <1>1 DEF SwitchPointer, service, history
  <2> QED
    BY <2>1, <2>2 DEF IdleStep, ExchangedOnlyIdle, Up, Down
<1>2. CASE Configure
  <2>1. Down
    BY <1>2 DEF Configure, ReleaseInv, ControllerKnows, ControllerFits
  <2>2. UNCHANGED <<bootout, sends, dirs>>
    BY <1>2 DEF Configure, service, history
  <2> QED
    BY <2>1, <2>2 DEF IdleStep, ExchangedOnlyIdle, Up, Down
<1>3. CASE RemoveDrain
  <2>1. AtRest
    BY <1>3 DEF RemoveDrain, AtRest, disk, service, history
  <2> QED
    BY <2>1, RestsIdle
<1>4. CASE Bootstrap
  <2>1. AtRest
    BY <1>4 DEF Bootstrap, AtRest, disk, service, history
  <2> QED
    BY <2>1, RestsIdle
<1>5. CASE Kickstart
  <2>1. AtRest
    BY <1>5 DEF Kickstart, AtRest, disk, service, history
  <2> QED
    BY <2>1, RestsIdle
<1>6. CASE ObserveHealth
  <2>1. AtRest
    BY <1>6 DEF ObserveHealth, AtRest, disk, service, history
  <2> QED
    BY <2>1, RestsIdle
<1> QED
  BY <1>1, <1>2, <1>3, <1>4, <1>5, <1>6 DEF Transition

\* Versions are moved and deleted under prune's own drain.
LEMMA PruneIsIdle ==
    ASSUME ReleaseInv, sends <= 1, PruneStep
    PROVE  IdleStep
<1>1. CASE PruneBegin
  <2>1. AtRest
    BY <1>1 DEF PruneBegin, AtRest, disk, service, history
  <2> QED
    BY <2>1, RestsIdle
<1>2. CASE PruneAcquire
  <2>1. AtRest
    BY <1>2 DEF PruneAcquire, AtRest, disk, service, history
  <2> QED
    BY <2>1, RestsIdle
<1>3. CASE PruneAcquired
  <2>1. AtRest
    BY <1>3 DEF PruneAcquired, AtRest, disk, service, history
  <2> QED
    BY <2>1, RestsIdle
<1>4. CASE PruneVerify
  <2>1. AtRest
    BY <1>4 DEF PruneVerify, AtRest, disk, service, history
  <2> QED
    BY <2>1, RestsIdle
<1>5. CASE PruneTarget
  <2>1. dirs' # dirs => drain = "prune" /\ ~daemon.work /\ (Up => daemon.drained)
    BY <1>5 DEF PruneTarget, Ours, Quiet, DrainedIdle
  <2>2. UNCHANGED <<ptr, plist, bootout, sends>>
    BY <1>5 DEF PruneTarget, disk, service, history
  <2> QED
    BY <2>1, <2>2 DEF IdleStep, ExchangedOnlyIdle
<1>6. CASE PruneMoved
  <2>1. AtRest
    BY <1>6 DEF PruneMoved, AtRest, disk, service, history
  <2> QED
    BY <2>1, RestsIdle
<1>7. CASE PruneMark
  <2>1. AtRest
    BY <1>7 DEF PruneMark, AtRest, disk, service, history
  <2> QED
    BY <2>1, RestsIdle
<1>8. CASE PruneRemove
  <2>1. dirs' # dirs => drain = "prune" /\ ~daemon.work /\ (Up => daemon.drained)
    BY <1>8, AtVersion DEF PruneRemove, At, DeletePcs
  <2>2. UNCHANGED <<ptr, plist, bootout, sends>>
    BY <1>8 DEF PruneRemove, disk, service, history
  <2> QED
    BY <2>1, <2>2 DEF IdleStep, ExchangedOnlyIdle
<1>9. CASE PruneMetadataPhase
  <2>1. AtRest
    BY <1>9 DEF PruneMetadataPhase, AtRest, disk, service, history
  <2> QED
    BY <2>1, RestsIdle
<1>10. CASE PruneMetadata
  <2>1. AtRest
    BY <1>10 DEF PruneMetadata, AtRest, disk, service, history
  <2> QED
    BY <2>1, RestsIdle
<1>11. CASE PruneFinish
  <2>1. AtRest
    BY <1>11 DEF PruneFinish, AtRest, disk, service, history
  <2> QED
    BY <2>1, RestsIdle
<1>12. CASE PruneRelease
  <2>1. AtRest
    BY <1>12 DEF PruneRelease, AtRest, disk, service, history
  <2> QED
    BY <2>1, RestsIdle
<1>13. CASE PruneRestart
  <2>1. AtRest
    BY <1>13 DEF PruneRestart, AtRest, disk, service, history
  <2> QED
    BY <2>1, RestsIdle
<1>14. CASE PruneHealth
  <2>1. AtRest
    BY <1>14 DEF PruneHealth, AtRest, disk, service, history
  <2> QED
    BY <2>1, RestsIdle
<1>15. CASE PruneClear
  <2>1. AtRest
    BY <1>15 DEF PruneClear, AtRest, disk, service, history
  <2> QED
    BY <2>1, RestsIdle
<1> QED
  BY <1>1, <1>2, <1>3, <1>4, <1>5, <1>6, <1>7, <1>8, <1>9, <1>10, <1>11, <1>12, <1>13, <1>14,
     <1>15 DEF PruneStep

\* Every step exchanges, stops and deletes only while nothing is at work.
LEMMA NextIsIdle ==
    ASSUME ReleaseInv, sends <= 1, [PruneNext]_allVars
    PROVE  IdleStep
<1>1. ASSUME NEW kind \in Kinds, NEW v \in Versions, Activate(kind, v), UNCHANGED dirs
      PROVE  AtRest
  BY <1>1 DEF Activate, AtRest, disk, service
<1>2. CASE CaptureBackup /\ UNCHANGED dirs
  <2>1. AtRest
    BY <1>2 DEF CaptureBackup, AtRest, disk, service, history
  <2> QED
    BY <2>1, RestsIdle
<1>3. CASE DrainDaemon /\ UNCHANGED dirs
  <2>1. AtRest
    BY <1>3 DEF DrainDaemon, Drained, AtRest, disk, service, history
  <2> QED
    BY <2>1, RestsIdle
<1>4. CASE CheckIdle /\ UNCHANGED dirs
  <2>1. AtRest
    BY <1>4 DEF CheckIdle, AtRest, disk, service, history
  <2> QED
    BY <2>1, RestsIdle
<1>5. CASE Exchange /\ UNCHANGED dirs
  <2>1. CASE Recovery
    BY <1>5, <2>1, RecoveryRestsIdle, RestsIdle
  <2> QED
    BY <1>2, <1>3, <1>4, <1>5, <2>1, StopIsIdle, TransitionIsIdle DEF Exchange
<1>6. CASE Service /\ UNCHANGED dirs
  BY <1>6, ServiceRestsIdle, RestsIdle
<1>7. CASE (Resume \/ Reinstall \/ Abandon \/ ResumeReviewed \/ ControllerDies) /\ UNCHANGED dirs
  <2>1. ASSUME Resume PROVE AtRest
    BY <1>7, <2>1 DEF Resume, AtRest, disk, service, history
  <2>2. ASSUME Reinstall PROVE AtRest
    BY <1>7, <2>2 DEF Reinstall, AtRest, disk, service, history
  <2>3. ASSUME Abandon PROVE AtRest
    BY <1>7, <2>3 DEF Abandon, AtRest, disk, service, history
  <2>4. ASSUME ResumeReviewed PROVE AtRest
    BY <1>7, <2>4 DEF ResumeReviewed, AtRest, disk, service, history
  <2>5. ASSUME ControllerDies PROVE AtRest
    BY <1>7, <2>5 DEF ControllerDies, AtRest, disk, service, history
  <2> QED
    BY <1>7, <2>1, <2>2, <2>3, <2>4, <2>5, RestsIdle
<1>8. CASE ReleaseNext /\ UNCHANGED dirs
  BY <1>1, <1>5, <1>6, <1>7, <1>8, RestsIdle DEF ReleaseNext
<1>9. ASSUME NEW targets \in SUBSET Versions, NEW retain \in SUBSET Versions, Prune(targets, retain)
      PROVE  AtRest
  BY <1>9 DEF Prune, AtRest, disk, service, history
<1>10. CASE ResumePrune \/ UNCHANGED allVars
  <2>1. AtRest
    BY <1>10 DEF ResumePrune, AtRest, allVars, vars, disk, service, history
  <2> QED
    BY <2>1, RestsIdle
<1> QED
  BY <1>8, <1>9, <1>10, PruneIsIdle, RestsIdle DEF PruneNext

\* Pointer and configuration are exchanged only while no daemon runs, a service is told
\* to stop only while it is drained and idle and once for each intent, and versions are
\* deleted only under prune's own drain, with no work under way.
THEOREM ExchangesAreIdle == PruneSpec => OnlyWhileIdle
<1> DEFINE Inv == ReleaseInv /\ sends <= 1
<1>1. PruneInit => Inv
  BY InitKeeps DEF PruneInit, Init
<1>2. Inv /\ [PruneNext]_allVars => Inv' /\ IdleStep
  BY NextKeeps, NextIsIdle DEF IdleStep, ExchangedOnlyIdle
<1>3. IdleStep => [/\ ExchangedOnlyIdle
                   /\ dirs' # dirs =>
                        drain = "prune" /\ ~daemon.work /\ (Up => daemon.drained)]_allVars
  BY DEF IdleStep
<1> QED
  BY <1>1, <1>2, <1>3, PTL DEF PruneSpec, OnlyWhileIdle

=============================================================================
