-------------------------- MODULE UninstallProofs --------------------------
(***************************************************************************)
(* What is proved about Uninstall: its inductive invariant RemovalInv, kept *)
(* by every step of a run, of its child and of everything around them, and  *)
(* from it that a removal is earned and that the service is stopped once.   *)
(***************************************************************************)
EXTENDS Uninstall, FiniteSetTheorems, TLAPS

\* Where the daemon's lock is the run's, and where the run waits for its child with it.
Guarded == {"identify", "capture", "ask", "probe", "settle", "logout", "erase", "remove", "clean",
            "trees", "unstage", "unstaging", "agent", "empty", "state", "receipts",
            "mark", "unjournal", "unfence", "unmark"}
Emptied == {"receipts", "mark", "unjournal"}      \* the pointer is gone

\* How far the journal is where a run is.
PhasesAt(pc) ==
    CASE pc \in {"stage", "supersede", "admit", "drain", "call", "confirm", "identify"} -> {"prepared"}
      [] pc = "intent" -> {"idle_verified"}
      [] pc \in {"request", "bootout", "await"} -> {"stop_intent"}
      [] pc = "verify" -> Phases \ {"prepared", "idle_verified"}
      [] pc \in {"capture", "ask", "probe", "settle", "logout"} -> {"stopped"}
      [] pc \in {"erase", "remove"} -> {"revoked"}
      [] pc = "clean" -> {"revoked", "cleanup"}
      [] pc \in {"trees", "unstage", "unstaging", "agent", "empty", "state"} \cup Emptied ->
           {"cleanup"}
      [] pc \in {"prepare", "unhelp", "unfence", "unmark"} -> {"none"}
      [] pc = "qualify" -> Phases
      [] OTHER -> Phases \cup {"none"}

\* The journal is where the run is, and nothing was removed before the last phase.
JournalKnows ==
    /\ removal.phase \in PhasesAt(run.pc)
    /\ Touched => \/ removal.phase = "cleanup"
                  \/ removal.phase = "none" /\ "current" \notin kept
    /\ run.pc \in Emptied => "current" \notin kept
    /\ run.pc = "prepare" => kept = Everything

\* A stop request that may be on its way is recorded so, and the process it is for stays as
\* it was found.
RequestKnows ==
    /\ removal.phase \in {"prepared", "idle_verified"} => removal.request = "none"
    /\ Removing /\ removal.request = "prepared" => removal.phase = "stop_intent"
    /\ Removing /\ removal.request \in {"none", "prepared"} => stops = 0
    /\ ~Removing /\ stops # 0 => "current" \notin kept
    /\ Here("request") => removal.request = "prepared"
    /\ Here("bootout") =>
         /\ stops = 0
         /\ unit.up => unit.drained /\ ~unit.work /\ unit.pid = removal.pid
    /\ run.pc \in {"bootout", "await"} => removal.request = "unconfirmed"
    /\ Here("verify") => removal.request # "prepared"

\* The lock is held by one of them.
LockKnows ==
    /\ run.pc \in Guarded => run.guard
    /\ run.guard => ~unit.up /\ (run.pc \notin Waits => child.at \in Ended)
    /\ child.at \notin Ended => ~unit.up
    /\ run = AtRestRun \/ run.pc # "idle"

\* A child goes by what the credential is, which nobody else touches meanwhile.
ChildKnows ==
    /\ child.kind = "probe" => child.at \in {"start"} \cup Ended
    /\ child.at = "recover" => credential = "pending"
    /\ child.at \in {"evidence", "clear", "delete"} => authority # "live"
    /\ run.pc \in {"identify", "probe"} /\ Replied("probe") => child.identity = Identity(credential)
    /\ Here("remove") /\ Replied("remove") => credential = "none"
    /\ authority = "live" => credential \in {"pending", "enrolled"}

\* A credential that is recorded as deleted is, and nobody can make another.
ErasureKnows ==
    /\ Removing /\ removal.erased =>
         /\ removal.phase \in {"stopped", "revoked", "cleanup"}
         /\ credential = "none" /\ ~unit.up
         /\ child.at \notin Ended => child.kind = "probe"
    /\ run.pc \in {"logout", "remove"} => ~removal.erased
    /\ removal.phase = "cleanup" => removal.erased
    /\ removal.phase = "cleanup" \/ Touched =>
         credential = "none" /\ ~unit.up /\ child.at \in Ended

RemovalInv ==
    RemovalTypeOK /\ JournalKnows /\ RequestKnows /\ LockKnows /\ ChildKnows /\ ErasureKnows

Unit == [loaded : BOOLEAN, up : BOOLEAN, pid : 1..2, drained : BOOLEAN, work : BOOLEAN,
         stopping : BOOLEAN, calling : BOOLEAN]
Child == [kind : {"none", "probe", "logout", "remove"}, at : ChildPoints,
          identity : Identities, revoked : Evidence]

\* What may still happen stays counted.
LEMMA HappensTyped ==
    ASSUME RemovalTypeOK, NEW k \in DOMAIN RemovalLimits \ {"faults"}, Happens(k)
    PROVE  events' \in [DOMAIN RemovalLimits -> Nat]
<1> DEFINE fault == k \notin {"jobs", "signins", "adoptions", "drains"}
<1>1. events \in [DOMAIN RemovalLimits -> Nat] /\ events[k] > 0 /\ (fault => events["faults"] > 0)
  BY DEF RemovalTypeOK, Happens
<1>2. "faults" \in DOMAIN RemovalLimits
  BY RemovalAssumption
<1>3. events' = [events EXCEPT ![k] = @ - 1,
                              !["faults"] = IF fault THEN @ - 1 ELSE @]
  BY DEF Happens
<1>4. PICK once : once = [events EXCEPT ![k] = @ - 1]
  OBVIOUS
<1>5. once \in [DOMAIN RemovalLimits -> Nat] /\ once["faults"] = events["faults"]
  BY <1>1, <1>2, <1>4
<1>6. PICK n : n = IF fault THEN once["faults"] - 1 ELSE once["faults"]
  OBVIOUS
<1>7. n \in Nat
  BY <1>1, <1>2, <1>5, <1>6
<1>8. events' = [once EXCEPT !["faults"] = n]
  BY <1>1, <1>2, <1>3, <1>4, <1>5, <1>6
<1> QED
  BY <1>2, <1>5, <1>7, <1>8

\* Every kind of event has its limit.
LEMMA EventKinds ==
    {"jobs", "signins", "adoptions", "drains", "crashes", "deaths", "sessions", "lost", "late"}
      = DOMAIN RemovalLimits \ {"faults"}
BY RemovalAssumption

\* Where a run is at work on a removal, there is one.
LEMMA JournalThere ==
    ASSUME RemovalInv,
           run.pc \in Points \ {"idle", "prepare", "unhelp", "unfence", "unmark", "current"}
    PROVE  removal \in Removal /\ removal # NoRemoval /\ removal.phase \in PhasesAt(run.pc)
<1>1. removal \in Removal \cup {NoRemoval} /\ removal.phase \in PhasesAt(run.pc)
  BY DEF RemovalInv, RemovalTypeOK, JournalKnows
<1>2. "none" \notin PhasesAt(run.pc)
  BY DEF PhasesAt, Points, Phases, Waits, Emptied
<1> QED
  BY <1>1, <1>2 DEF NoRemoval

\* Before the last phase nothing has been removed, and where a run is says which it is.
LEMMA Untouched ==
    ASSUME RemovalInv,
           run.pc \in {"admit", "drain", "call", "confirm", "identify", "intent", "request", "bootout",
                                   "await", "capture", "ask", "probe", "settle", "logout", "erase",
                                   "remove"}
    PROVE  /\ removal \in Removal /\ removal # NoRemoval /\ ~Touched
           /\ run.pc \in {"admit", "drain", "call", "confirm", "identify"} => removal.phase = "prepared"
           /\ run.pc = "intent" => removal.phase = "idle_verified"
           /\ run.pc \in {"request", "bootout", "await"} => removal.phase = "stop_intent"
           /\ run.pc \in {"capture", "ask", "probe", "settle", "logout"} =>
                removal.phase = "stopped"
           /\ run.pc \in {"erase", "remove"} => removal.phase = "revoked"
<1>1. removal \in Removal /\ removal # NoRemoval /\ removal.phase \in PhasesAt(run.pc)
  BY JournalThere DEF Points, Waits
<1>2. run.pc \in {"admit", "drain", "call", "confirm", "identify"} => removal.phase = "prepared"
  BY <1>1 DEF PhasesAt, Phases, Emptied
<1>3. run.pc = "intent" => removal.phase = "idle_verified"
  BY <1>1 DEF PhasesAt, Phases, Emptied
<1>4. run.pc \in {"request", "bootout", "await"} => removal.phase = "stop_intent"
  BY <1>1 DEF PhasesAt, Phases, Emptied
<1>5. run.pc \in {"capture", "ask", "probe", "settle", "logout"} => removal.phase = "stopped"
  BY <1>1 DEF PhasesAt, Phases, Emptied
<1>6. run.pc \in {"erase", "remove"} => removal.phase = "revoked"
  BY <1>1 DEF PhasesAt, Phases, Emptied
<1>7. ~Touched
  BY <1>2, <1>3, <1>4, <1>5, <1>6 DEF RemovalInv, JournalKnows
<1> QED
  BY <1>1, <1>2, <1>3, <1>4, <1>5, <1>6, <1>7
-----------------------------------------------------------------------------
\* A daemon that starts finds no removal, and takes the lock that nobody holds.
LEMMA DaemonStartsKeeps ==
    ASSUME RemovalInv, DaemonStarts
    PROVE  RemovalInv'
<1>1. RemovalTypeOK'
  <2>1. unit' \in Unit
    <3>1. unit \in Unit
      BY DEF RemovalInv, RemovalTypeOK, Unit
    <3>2. PICK u : u = [unit EXCEPT !.up = TRUE, !.drained = (halted # "none")]
      OBVIOUS
    <3>3. u \in Unit
      BY <3>1, <3>2 DEF Unit
    <3>4. unit' = [u EXCEPT !.pid = 2]
      BY <3>1, <3>2 DEF DaemonStarts, Unit
    <3> QED
      BY <3>3, <3>4 DEF Unit
  <2> QED
    BY <2>1 DEF RemovalInv, RemovalTypeOK, Unit, Child, DaemonStarts, files, device
<1>2. JournalKnows'
  BY DEF RemovalInv, JournalKnows, DaemonStarts, files, PhasesAt, Phases, Touched, Emptied,
       Everything, Singles
<1>3. RequestKnows'
  BY DEF RemovalInv, RemovalTypeOK, JournalKnows, RequestKnows, LockKnows, ChildKnows,
       ErasureKnows, DaemonStarts, files, device, Here, AtRestRun, Removing, LockFree, Waits,
       Ended, NoRemoval, PhasesAt, Phases, Emptied
<1>4. LockKnows'
  BY DEF RemovalInv, LockKnows, DaemonStarts, LockFree, Ended, NoRemoval, Guarded
<1>5. ChildKnows'
  BY DEF RemovalInv, ChildKnows, DaemonStarts, device, Here, NoRemoval, Identity, Replied
<1>6. ErasureKnows'
  BY DEF RemovalInv, JournalKnows, ErasureKnows, DaemonStarts, files, Removing, Ended, NoRemoval,
       Touched, Everything
<1> QED
  BY <1>1, <1>2, <1>3, <1>4, <1>5, <1>6 DEF RemovalInv

\* A daemon that crashes leaves the journal and the lock behind.
LEMMA DaemonCrashesKeeps ==
    ASSUME RemovalInv, DaemonCrashes
    PROVE  RemovalInv'
<1>1. RemovalTypeOK'
  <2>1. unit' \in Unit
    BY DEF RemovalInv, RemovalTypeOK, DaemonCrashes, DaemonStops, Unit
  <2>2. events' \in [DOMAIN RemovalLimits -> Nat]
    BY HappensTyped, EventKinds DEF RemovalInv, RemovalTypeOK, DaemonCrashes, DaemonStops
  <2> QED
    BY <2>1, <2>2 DEF RemovalInv, RemovalTypeOK, Unit, Child, DaemonCrashes, DaemonStops, files,
         device
<1>2. JournalKnows'
  BY DEF RemovalInv, JournalKnows, DaemonCrashes, files, Touched, Emptied, Everything, Singles
<1>3. RequestKnows'
  BY DEF RemovalInv, RemovalTypeOK, RequestKnows, DaemonCrashes, DaemonStops, files, Here,
       Removing, NoRemoval
<1>4. LockKnows'
  BY DEF RemovalInv, LockKnows, DaemonCrashes, Ended, Guarded
<1>5. ChildKnows'
  BY DEF RemovalInv, RemovalTypeOK, ChildKnows, DaemonCrashes, device, Here, Ended, Identity,
       Replied
<1>6. ErasureKnows'
  BY DEF RemovalInv, ErasureKnows, DaemonCrashes, files, Removing, NoRemoval, Touched, Everything
<1> QED
  BY <1>1, <1>2, <1>3, <1>4, <1>5, <1>6 DEF RemovalInv

\* Work begins only in a daemon that is open, and so in none that is being stopped.
LEMMA JobBeginsKeeps ==
    ASSUME RemovalInv, JobBegins
    PROVE  RemovalInv'
<1>1. RemovalTypeOK'
  <2>1. unit' \in Unit
    BY DEF RemovalInv, RemovalTypeOK, JobBegins, Unit
  <2>2. events' \in [DOMAIN RemovalLimits -> Nat]
    BY HappensTyped, EventKinds DEF RemovalInv, RemovalTypeOK, JobBegins
  <2> QED
    BY <2>1, <2>2 DEF RemovalInv, RemovalTypeOK, Unit, Child, JobBegins, files, device
<1>2. JournalKnows'
  BY DEF RemovalInv, JournalKnows, JobBegins, files, Touched, Emptied, Everything, Singles
<1>3. RequestKnows'
  BY DEF RemovalInv, RequestKnows, JobBegins, files, Here, Removing
<1>4. LockKnows'
  BY DEF RemovalInv, LockKnows, JobBegins, Guarded
<1>5. ChildKnows'
  BY DEF RemovalInv, RemovalTypeOK, ChildKnows, JobBegins, device, Here, Identity, Replied
<1>6. ErasureKnows'
  BY DEF RemovalInv, ErasureKnows, JobBegins, files, Removing, Touched, Everything
<1> QED
  BY <1>1, <1>2, <1>3, <1>4, <1>5, <1>6 DEF RemovalInv

\* The end of a job touches nothing of a removal.
LEMMA JobEndsKeeps ==
    ASSUME RemovalInv, JobEnds
    PROVE  RemovalInv'
<1>1. RemovalTypeOK'
  <2>1. unit' \in Unit
    BY DEF RemovalInv, RemovalTypeOK, JobEnds, Unit
  <2> QED
    BY <2>1 DEF RemovalInv, RemovalTypeOK, Unit, Child, JobEnds, files, device
<1>2. JournalKnows'
  BY DEF RemovalInv, JournalKnows, JobEnds, files, Touched, Everything, Singles
<1>3. RequestKnows'
  BY DEF RemovalInv, RequestKnows, JobEnds, files, Here, Removing
<1>4. LockKnows'
  BY DEF RemovalInv, LockKnows, JobEnds
<1>5. ChildKnows'
  BY DEF RemovalInv, ChildKnows, JobEnds, device, Here, Replied
<1>6. ErasureKnows'
  BY DEF RemovalInv, ErasureKnows, JobEnds, files, Removing, Touched, Everything
<1> QED
  BY <1>1, <1>2, <1>3, <1>4, <1>5, <1>6 DEF RemovalInv

\* Somebody else's drain closes the daemon and touches nothing of a removal.
LEMMA AsksToDrainKeeps ==
    ASSUME RemovalInv, AsksToDrain
    PROVE  RemovalInv'
<1>1. RemovalTypeOK'
  <2>1. unit' \in Unit
    BY DEF RemovalInv, RemovalTypeOK, AsksToDrain, Unit
  <2>2. events' \in [DOMAIN RemovalLimits -> Nat]
    BY HappensTyped, EventKinds DEF RemovalInv, RemovalTypeOK, AsksToDrain
  <2> QED
    BY <2>1, <2>2 DEF RemovalInv, RemovalTypeOK, Unit, Child, AsksToDrain, files, device
<1>2. JournalKnows'
  BY DEF RemovalInv, JournalKnows, AsksToDrain, files, Touched, Emptied, Everything, Singles
<1>3. RequestKnows'
  BY DEF RemovalInv, RemovalTypeOK, RequestKnows, AsksToDrain, files, Here, Removing
<1>4. LockKnows'
  BY DEF RemovalInv, LockKnows, AsksToDrain, Guarded
<1>5. ChildKnows'
  BY DEF RemovalInv, RemovalTypeOK, ChildKnows, AsksToDrain, device, Here, Identity, Replied
<1>6. ErasureKnows'
  BY DEF RemovalInv, ErasureKnows, AsksToDrain, files, Removing, Touched, Everything
<1> QED
  BY <1>1, <1>2, <1>3, <1>4, <1>5, <1>6 DEF RemovalInv

\* Nor does the marker it writes.
LEMMA WritesDrainKeeps ==
    ASSUME RemovalInv, WritesDrain
    PROVE  RemovalInv'
<1>1. RemovalTypeOK'
  <2>1. unit' \in Unit
    BY DEF RemovalInv, RemovalTypeOK, WritesDrain, Unit
  <2>2. halted' \in Marker
    BY DEF RemovalInv, RemovalTypeOK, WritesDrain, Marker
  <2> QED
    BY <2>1, <2>2 DEF RemovalInv, RemovalTypeOK, Unit, Child, WritesDrain, device
<1>2. JournalKnows'
  BY DEF RemovalInv, JournalKnows, WritesDrain, Touched, Emptied, Everything, Singles
<1>3. RequestKnows'
  BY DEF RemovalInv, RemovalTypeOK, RequestKnows, WritesDrain, Here, Removing
<1>4. LockKnows'
  BY DEF RemovalInv, LockKnows, WritesDrain, Guarded
<1>5. ChildKnows'
  BY DEF RemovalInv, RemovalTypeOK, ChildKnows, WritesDrain, device, Here, Identity, Replied
<1>6. ErasureKnows'
  BY DEF RemovalInv, ErasureKnows, WritesDrain, device, Removing, Touched, Everything
<1> QED
  BY <1>1, <1>2, <1>3, <1>4, <1>5, <1>6 DEF RemovalInv

\* A sign-in needs a daemon that is up: none is, once a credential is to be deleted.
LEMMA SignInKeeps ==
    ASSUME RemovalInv, SignIn
    PROVE  RemovalInv'
<1>1. RemovalTypeOK'
  <2>1. credential' \in Credentials
    BY DEF RemovalInv, RemovalTypeOK, SignIn, Credentials
  <2>2. authority' \in {"none", "live", "revoked"}
    BY DEF RemovalInv, RemovalTypeOK, SignIn, Credentials
  <2>3. events' \in [DOMAIN RemovalLimits -> Nat]
    BY HappensTyped, EventKinds DEF RemovalInv, RemovalTypeOK, SignIn
  <2> QED
    BY <2>1, <2>2, <2>3 DEF RemovalInv, RemovalTypeOK, Unit, Child, SignIn, files, procs
<1>2. JournalKnows'
  BY DEF RemovalInv, JournalKnows, SignIn, files, Touched, Emptied, Everything, Singles
<1>3. RequestKnows'
  BY DEF RemovalInv, RequestKnows, SignIn, files, procs, Here, Removing
<1>4. LockKnows'
  BY DEF RemovalInv, LockKnows, SignIn, procs, Guarded
<1>5. ChildKnows'
  <2>1. unit.up /\ child.at \in Ended
    BY DEF SignIn, RemovalInv, LockKnows
  <2>2. run.pc \notin Guarded
    BY <2>1 DEF RemovalInv, LockKnows
  <2>3. authority' = "live" => credential' \in {"pending", "enrolled"}
    BY DEF SignIn
  <2>4. UNCHANGED <<child, run>>
    BY DEF SignIn, procs
  <2> QED
    BY <2>1, <2>2, <2>3, <2>4 DEF RemovalInv, ChildKnows, Ended, Guarded, Here
<1>6. ErasureKnows'
  BY DEF RemovalInv, ErasureKnows, SignIn, files, Removing, Touched, Everything
<1> QED
  BY <1>1, <1>2, <1>3, <1>4, <1>5, <1>6 DEF RemovalInv

\* The bootout that was asked for ends the daemon.
LEMMA BootoutEndsKeeps ==
    ASSUME RemovalInv, BootoutEnds
    PROVE  RemovalInv'
<1>1. RemovalTypeOK'
  <2>1. unit' \in Unit
    BY DEF RemovalInv, RemovalTypeOK, BootoutEnds, DaemonStops, Unit
  <2> QED
    BY <2>1 DEF RemovalInv, RemovalTypeOK, Unit, Child, BootoutEnds, DaemonStops, files, device
<1>2. JournalKnows'
  BY DEF RemovalInv, JournalKnows, BootoutEnds, files, Touched, Emptied, Everything, Singles
<1>3. RequestKnows'
  BY DEF RemovalInv, RequestKnows, BootoutEnds, DaemonStops, files, Here, Removing
<1>4. LockKnows'
  BY DEF RemovalInv, LockKnows, BootoutEnds, DaemonStops, Guarded
<1>5. ChildKnows'
  BY DEF RemovalInv, ChildKnows, BootoutEnds, device, Here, Replied
<1>6. ErasureKnows'
  BY DEF RemovalInv, ErasureKnows, BootoutEnds, DaemonStops, files, device, Removing, Touched,
       Everything
<1> QED
  BY <1>1, <1>2, <1>3, <1>4, <1>5, <1>6 DEF RemovalInv

\* The end or the begin of a login session starts no daemon.
LEMMA SessionChangesKeeps ==
    ASSUME RemovalInv, SessionChanges
    PROVE  RemovalInv'
<1>1. RemovalTypeOK'
  <2>1. unit' \in Unit
    BY DEF RemovalInv, RemovalTypeOK, SessionChanges, DaemonStops, Unit
  <2>2. events' \in [DOMAIN RemovalLimits -> Nat]
    BY HappensTyped, EventKinds DEF RemovalInv, RemovalTypeOK, SessionChanges, DaemonStops
  <2> QED
    BY <2>1, <2>2 DEF RemovalInv, RemovalTypeOK, Unit, Child, SessionChanges, DaemonStops, files,
         device
<1>2. JournalKnows'
  BY DEF RemovalInv, JournalKnows, SessionChanges, files, Touched, Emptied, Everything, Singles
<1>3. RequestKnows'
  BY DEF RemovalInv, RemovalTypeOK, RequestKnows, SessionChanges, DaemonStops, files, Here,
       Removing, NoRemoval
<1>4. LockKnows'
  BY DEF RemovalInv, RemovalTypeOK, LockKnows, SessionChanges, DaemonStops, Waits, Ended, Guarded
<1>5. ChildKnows'
  BY DEF RemovalInv, RemovalTypeOK, ChildKnows, SessionChanges, device, Here, Ended, Identity,
       Replied
<1>6. ErasureKnows'
  BY DEF RemovalInv, RemovalTypeOK, JournalKnows, RequestKnows, LockKnows, ChildKnows,
       ErasureKnows, SessionChanges, DaemonStops, Happens, files, device, Here, AtRestRun,
       Removing, Waits, Ended, NoRemoval, Touched, Everything, PhasesAt, Phases, Replied
<1> QED
  BY <1>1, <1>2, <1>3, <1>4, <1>5, <1>6 DEF RemovalInv

\* A run that dies leaves its journal, and its child at work.
LEMMA RunCrashesKeeps ==
    ASSUME RemovalInv, RunCrashes
    PROVE  RemovalInv'
<1>1. RemovalTypeOK'
  <2>1. run' \in [pc : Points, guard : BOOLEAN]
    BY DEF RemovalInv, RemovalTypeOK, RunCrashes, Exit, AtRestRun, Points, Waits
  <2>2. events' \in [DOMAIN RemovalLimits -> Nat]
    BY HappensTyped, EventKinds DEF RemovalInv, RemovalTypeOK, RunCrashes
  <2> QED
    BY <2>1, <2>2 DEF RemovalInv, RemovalTypeOK, Unit, Child, RunCrashes, files, device, procs
<1>2. JournalKnows'
  BY DEF RemovalInv, RemovalTypeOK, JournalKnows, RequestKnows, LockKnows, ChildKnows,
       ErasureKnows, RunCrashes, Happens, files, device, procs, Here, Exit, AtRestRun, Removing,
       Waits, Ended, NoRemoval, PhasesAt, Phases, Touched, Emptied, Everything, Singles
<1>3. RequestKnows'
  BY DEF RemovalInv, RemovalTypeOK, JournalKnows, RequestKnows, LockKnows, ChildKnows,
       ErasureKnows, RunCrashes, Happens, files, device, procs, Here, Exit, AtRestRun, Removing,
       Waits, Ended, NoRemoval, PhasesAt, Phases, Emptied
<1>4. LockKnows'
  BY DEF RemovalInv, RemovalTypeOK, JournalKnows, RequestKnows, LockKnows, ChildKnows,
       ErasureKnows, RunCrashes, Happens, files, device, procs, Here, Exit, AtRestRun, Removing,
       Waits, Ended, NoRemoval, Guarded
<1>5. ChildKnows'
  BY DEF RemovalInv, RemovalTypeOK, JournalKnows, RequestKnows, LockKnows, ChildKnows,
       ErasureKnows, RunCrashes, Happens, files, device, procs, Here, Exit, AtRestRun, Removing,
       Waits, Ended, NoRemoval, Identity, Replied
<1>6. ErasureKnows'
  BY DEF RemovalInv, RemovalTypeOK, JournalKnows, RequestKnows, LockKnows, ChildKnows,
       ErasureKnows, RunCrashes, Happens, files, device, procs, Here, Exit, AtRestRun, Removing,
       Waits, Ended, NoRemoval, Touched, Everything, PhasesAt, Phases, Replied
<1> QED
  BY <1>1, <1>2, <1>3, <1>4, <1>5, <1>6 DEF RemovalInv

\* A run begins a removal where nothing has been removed.
LEMMA BeginsKeeps ==
    ASSUME RemovalInv, Begins
    PROVE  RemovalInv'
<1>1. RemovalTypeOK'
  BY RemovalAssumption DEF RemovalInv, RemovalTypeOK, Begins, device, procs, Go, Ended, NoRemoval,
       Removal, Phases, Points, ChildPoints, Credentials, Evidence, Identities, Everything,
       Singles
<1>2. JournalKnows'
  BY DEF RemovalInv, JournalKnows, Begins, Go, Removing, NoRemoval, PhasesAt, Phases, Touched,
       Emptied, Everything, Singles
<1>3. RequestKnows'
  BY DEF RemovalInv, RequestKnows, Begins, procs, Go, Here, Removing
<1>4. LockKnows'
  BY DEF RemovalInv, LockKnows, Begins, procs, Go, Here, Waits, Ended, NoRemoval, Guarded
<1>5. ChildKnows'
  BY DEF RemovalInv, ChildKnows, Begins, device, procs, Go, Here, NoRemoval, Identity, Replied
<1>6. ErasureKnows'
  BY DEF RemovalInv, ErasureKnows, Begins, device, procs, Go, Removing, NoRemoval, Touched,
       Everything
<1> QED
  BY <1>1, <1>2, <1>3, <1>4, <1>5, <1>6 DEF RemovalInv

\* The first journal says what is there, and that nothing was requested.
LEMMA PreparesKeeps ==
    ASSUME RemovalInv, Prepares
    PROVE  RemovalInv'
<1>1. RemovalTypeOK'
  BY RemovalAssumption DEF RemovalInv, RemovalTypeOK, Prepares, files, device, procs, Go, Save,
       Waits, Ended, NoRemoval, Removal, Phases, Points, ChildPoints, Credentials, Evidence,
       Identities, Everything, Singles
<1>2. JournalKnows'
  BY DEF RemovalInv, JournalKnows, Prepares, files, Go, Here, Save, PhasesAt, Phases, Touched,
       Emptied, Everything, Singles
<1>3. RequestKnows'
  <2>1. removal.phase = "none" /\ kept = Everything
    BY DEF RemovalInv, JournalKnows, Prepares, Here, PhasesAt
  <2>2. "current" \in Everything
    BY DEF Everything, Singles
  <2>3. ~Removing
    BY <2>1 DEF RemovalInv, RemovalTypeOK, Removing, Removal, Phases
  <2>4. stops = 0
    BY <2>1, <2>2, <2>3 DEF RemovalInv, RequestKnows
  <2>5. removal'.phase = "prepared" /\ removal'.request = "none"
    BY DEF Prepares, Save
  <2>6. run'.pc = "qualify" /\ UNCHANGED stops
    BY DEF Prepares, Go, RemovalInv, RemovalTypeOK, procs
  <2> QED
    BY <2>4, <2>5, <2>6 DEF RequestKnows, Removing, Here, NoRemoval
<1>4. LockKnows'
  BY DEF RemovalInv, LockKnows, Prepares, procs, Go, AtRestRun, Waits, Ended, Guarded
<1>5. ChildKnows'
  BY DEF RemovalInv, ChildKnows, Prepares, device, procs, Go, Here, Ended, Identity, Replied
<1>6. ErasureKnows'
  BY DEF RemovalInv, ErasureKnows, Prepares, files, Save, Removing, Ended, NoRemoval, Touched,
       Everything
<1> QED
  BY <1>1, <1>2, <1>3, <1>4, <1>5, <1>6 DEF RemovalInv

\* A run takes up a journal in whichever phase it is.
LEMMA ResumesKeeps ==
    ASSUME RemovalInv, Resumes
    PROVE  RemovalInv'
<1>1. RemovalTypeOK'
  BY RemovalAssumption DEF RemovalInv, RemovalTypeOK, Resumes, files, device, procs, Go, Waits,
       Ended, NoRemoval, Removal, Phases, Points, ChildPoints, Credentials, Evidence, Identities,
       Everything, Singles
<1>2. JournalKnows'
  <2>1. removal.phase \in Phases
    BY DEF Resumes, Removing, RemovalInv, RemovalTypeOK, Removal
  <2>2. run'.pc = "qualify" /\ UNCHANGED <<removal, kept, tree>>
    BY DEF Resumes, Go, RemovalInv, RemovalTypeOK, files
  <2> QED
    BY <2>1, <2>2 DEF RemovalInv, JournalKnows, PhasesAt, Emptied, Touched
<1>3. RequestKnows'
  BY DEF RemovalInv, RequestKnows, Resumes, procs, Go, Here, Removing, NoRemoval
<1>4. LockKnows'
  BY DEF RemovalInv, LockKnows, Resumes, procs, Go, Here, Removing, Waits, Ended, NoRemoval,
       Guarded
<1>5. ChildKnows'
  BY DEF RemovalInv, ChildKnows, Resumes, device, procs, Go, Here, Ended, NoRemoval, Identity,
       Replied
<1>6. ErasureKnows'
  BY DEF RemovalInv, ErasureKnows, Resumes, files, device, procs, Go, Ended, NoRemoval, Touched,
       Everything
<1> QED
  BY <1>1, <1>2, <1>3, <1>4, <1>5, <1>6 DEF RemovalInv

\* A newer release adopts a removal of which nothing has been done.
LEMMA AdoptsKeeps ==
    ASSUME RemovalInv, Adopts
    PROVE  RemovalInv'
<1>1. RemovalTypeOK'
  <2>1. {fence', helper', context', staged'} \subseteq BOOLEAN /\ halted' \in Marker
    BY DEF RemovalInv, RemovalTypeOK, Adopts, Go, Here
  <2>2. run' \in [pc : Points, guard : BOOLEAN]
    BY DEF RemovalInv, RemovalTypeOK, Adopts, Go, Here, Points, Waits
  <2>3. events' \in [DOMAIN RemovalLimits -> Nat]
    BY HappensTyped, EventKinds DEF RemovalInv, RemovalTypeOK, Adopts
  <2> QED
    BY <2>1, <2>2, <2>3 DEF RemovalInv, RemovalTypeOK, Unit, Child, Adopts, device, procs
<1>2. JournalKnows'
  BY DEF RemovalInv, RemovalTypeOK, JournalKnows, LockKnows, Adopts, Go, Here, Removing,
       NoRemoval, PhasesAt, Phases, Touched, Emptied, Everything, Singles
<1>3. RequestKnows'
  BY DEF RemovalInv, RemovalTypeOK, RequestKnows, Adopts, procs, Go, Here, Removing, NoRemoval
<1>4. LockKnows'
  BY DEF RemovalInv, LockKnows, Adopts, procs, Go, Here, Removing, Waits, Ended, NoRemoval,
       Guarded
<1>5. ChildKnows'
  BY DEF RemovalInv, RemovalTypeOK, ChildKnows, Adopts, device, procs, Go, Here, Removing, Ended,
       NoRemoval, Identity, Replied
<1>6. ErasureKnows'
  BY DEF RemovalInv, ErasureKnows, Adopts, device, procs, Ended, NoRemoval, Touched, Everything
<1> QED
  BY <1>1, <1>2, <1>3, <1>4, <1>5, <1>6 DEF RemovalInv

\* The payload of the adopting release is staged.
LEMMA StagesReleaseKeeps ==
    ASSUME RemovalInv, StagesRelease
    PROVE  RemovalInv'
<1>1. RemovalTypeOK'
  BY RemovalAssumption DEF RemovalInv, RemovalTypeOK, StagesRelease, device, procs, Go, NoRemoval,
       Removal, Phases, Points, ChildPoints, Credentials, Evidence, Identities, Everything,
       Singles
<1>2. JournalKnows'
  BY DEF RemovalInv, JournalKnows, StagesRelease, Go, Here, PhasesAt, Touched, Emptied,
       Everything, Singles
<1>3. RequestKnows'
  BY DEF RemovalInv, RequestKnows, StagesRelease, procs, Go, Here, Removing
<1>4. LockKnows'
  BY DEF RemovalInv, LockKnows, StagesRelease, procs, Go, Here, Waits, Ended, Guarded
<1>5. ChildKnows'
  BY DEF RemovalInv, ChildKnows, StagesRelease, device, procs, Go, Here, Replied
<1>6. ErasureKnows'
  BY DEF RemovalInv, ErasureKnows, StagesRelease, device, procs, Go, Removing, NoRemoval, Touched,
       Everything
<1> QED
  BY <1>1, <1>2, <1>3, <1>4, <1>5, <1>6 DEF RemovalInv

\* The journal is written again for the adopting release.
LEMMA SupersedesKeeps ==
    ASSUME RemovalInv, Supersedes
    PROVE  RemovalInv'
<1>1. RemovalTypeOK'
  <2>1. removal' \in Removal \cup {NoRemoval}
    BY JournalThere DEF RemovalInv, RemovalTypeOK, Supersedes, Go, Here, Save, Waits, Points,
         Removal, Phases, Evidence, Identities
  <2>2. run' \in [pc : Points, guard : BOOLEAN]
    BY DEF RemovalInv, RemovalTypeOK, Supersedes, Go, Here, Save, Points, Waits
  <2> QED
    BY <2>1, <2>2 DEF RemovalInv, RemovalTypeOK, Unit, Child, Supersedes, files, device, procs
<1>2. JournalKnows'
  BY DEF RemovalInv, JournalKnows, Supersedes, files, Go, Here, Save, PhasesAt, Phases, Touched,
       Emptied, Everything, Singles
<1>3. RequestKnows'
  BY DEF RemovalInv, RemovalTypeOK, JournalKnows, RequestKnows, LockKnows, ChildKnows,
       ErasureKnows, Supersedes, files, device, procs, Go, Here, Save, AtRestRun, Removing, Waits,
       Ended, NoRemoval, PhasesAt, Phases, Emptied
<1>4. LockKnows'
  BY DEF RemovalInv, LockKnows, Supersedes, procs, Go, Here, AtRestRun, Waits, Ended, Guarded
<1>5. ChildKnows'
  BY DEF RemovalInv, ChildKnows, Supersedes, device, procs, Go, Here, Ended, Identity, Replied
<1>6. ErasureKnows'
  BY DEF RemovalInv, ErasureKnows, Supersedes, files, device, procs, Go, Save, Removing, Ended,
       NoRemoval, Touched, Everything
<1> QED
  BY <1>1, <1>2, <1>3, <1>4, <1>5, <1>6 DEF RemovalInv

\* The run goes on where the journal says.
LEMMA QualifiesKeeps ==
    ASSUME RemovalInv, Qualifies
    PROVE  RemovalInv'
<1>1. RemovalTypeOK'
  BY RemovalAssumption DEF RemovalInv, RemovalTypeOK, Qualifies, StopPoint, device, procs, Go,
       Waits, Ended, NoRemoval, Removal, Phases, Points, ChildPoints, Credentials, Evidence,
       Identities, Everything, Singles
<1>2. JournalKnows'
  BY DEF RemovalInv, RemovalTypeOK, JournalKnows, RequestKnows, LockKnows, ChildKnows,
       ErasureKnows, Qualifies, StopPoint, Undispatched, device, procs, Go, Here, AtRestRun,
       Removing, Waits, Ended, NoRemoval, PhasesAt, Phases, Touched, Emptied, Everything, Singles
<1>3. RequestKnows'
  BY DEF RemovalInv, RequestKnows, Qualifies, StopPoint, procs, Go, Here, Removing, NoRemoval
<1>4. LockKnows'
  BY DEF RemovalInv, LockKnows, Qualifies, StopPoint, procs, Go, Here, AtRestRun, Waits, Ended,
       Guarded
<1>5. ChildKnows'
  BY DEF RemovalInv, ChildKnows, Qualifies, StopPoint, device, procs, Go, Here, Ended, Identity,
       Replied
<1>6. ErasureKnows'
  BY DEF RemovalInv, ErasureKnows, Qualifies, StopPoint, device, procs, Go, Removing, Ended,
       NoRemoval, Touched, Everything
<1> QED
  BY <1>1, <1>2, <1>3, <1>4, <1>5, <1>6 DEF RemovalInv

\* A stopped service is admitted under its lock, and the child is asked what is there.
LEMMA AdmitsStoppedKeeps ==
    ASSUME RemovalInv, AdmitsStopped
    PROVE  RemovalInv'
<1>1. RemovalTypeOK'
  <2>1. run' \in [pc : Points, guard : BOOLEAN]
    BY DEF RemovalInv, RemovalTypeOK, AdmitsStopped, Spawn, Here, Points, Waits
  <2>2. child' \in Child
    BY JournalThere DEF RemovalInv, RemovalTypeOK, AdmitsStopped, Spawn, Here, Waits, Points,
         Child, ChildPoints, Ended, Identities, Evidence, Credentials, Removal
  <2>3. {fence', helper', context', staged'} \subseteq BOOLEAN /\ halted' \in Marker
    BY DEF RemovalInv, RemovalTypeOK, AdmitsStopped, Spawn, Here
  <2> QED
    BY <2>1, <2>2, <2>3 DEF RemovalInv, RemovalTypeOK, Unit, Child, AdmitsStopped, Spawn, device
<1>2. JournalKnows'
  BY DEF RemovalInv, JournalKnows, AdmitsStopped, Spawn, Here, PhasesAt, Phases, Touched, Emptied,
       Everything, Singles
<1>3. RequestKnows'
  BY DEF RemovalInv, RequestKnows, AdmitsStopped, Spawn, Here, Removing, NoRemoval
<1>4. LockKnows'
  BY DEF RemovalInv, LockKnows, AdmitsStopped, Spawn, LockFree, Waits, Ended, Guarded
<1>5. ChildKnows'
  BY DEF RemovalInv, ChildKnows, AdmitsStopped, Spawn, device, Replied
<1>6. ErasureKnows'
  <2>1. removal \in Removal /\ removal # NoRemoval /\ removal.phase = "prepared" /\ ~Touched
    BY Untouched DEF AdmitsStopped, Here
  <2>2. ~removal.erased /\ ~Touched'
    BY <2>1 DEF RemovalInv, ErasureKnows, Removing, AdmitsStopped, Spawn, Touched
  <2>3. UNCHANGED removal /\ run'.pc = "identify"
    BY DEF AdmitsStopped, Spawn
  <2> QED
    BY <2>1, <2>2, <2>3 DEF ErasureKnows
<1> QED
  BY <1>1, <1>2, <1>3, <1>4, <1>5, <1>6 DEF RemovalInv

\* A service that runs is admitted to be drained.
LEMMA AdmitsRunningKeeps ==
    ASSUME RemovalInv, AdmitsRunning
    PROVE  RemovalInv'
<1>1. RemovalTypeOK'
  BY RemovalAssumption DEF RemovalInv, RemovalTypeOK, AdmitsRunning, files, device, procs, Go,
       Ended, NoRemoval, Removal, Phases, Points, ChildPoints, Credentials, Evidence, Identities,
       Everything, Singles
<1>2. JournalKnows'
  BY DEF RemovalInv, JournalKnows, AdmitsRunning, files, Go, Here, PhasesAt, Phases, Touched,
       Emptied, Everything, Singles
<1>3. RequestKnows'
  BY DEF RemovalInv, RequestKnows, AdmitsRunning, files, procs, Go, Here, Removing, NoRemoval
<1>4. LockKnows'
  BY DEF RemovalInv, LockKnows, AdmitsRunning, procs, Go, Waits, Ended, Guarded
<1>5. ChildKnows'
  BY DEF RemovalInv, ChildKnows, AdmitsRunning, device, procs, Go, Here, Identity, Replied
<1>6. ErasureKnows'
  BY DEF RemovalInv, ErasureKnows, AdmitsRunning, files, Go, Removing, Ended, NoRemoval, Touched,
       Everything
<1> QED
  BY <1>1, <1>2, <1>3, <1>4, <1>5, <1>6 DEF RemovalInv

\* Where there is no marker, the run goes on to ask for one.
LEMMA FindsNoMarkerKeeps ==
    ASSUME RemovalInv, FindsNoMarker
    PROVE  RemovalInv'
<1>1. RemovalTypeOK'
  BY RemovalAssumption DEF RemovalInv, RemovalTypeOK, FindsNoMarker, files, device, procs, Go,
       Ended, NoRemoval, Removal, Phases, Points, ChildPoints, Credentials, Evidence, Identities,
       Everything, Singles
<1>2. JournalKnows'
  BY DEF RemovalInv, JournalKnows, FindsNoMarker, files, Go, Here, PhasesAt, Phases, Touched,
       Emptied, Everything, Singles
<1>3. RequestKnows'
  BY DEF RemovalInv, RequestKnows, FindsNoMarker, files, procs, Go, Here, Removing, NoRemoval
<1>4. LockKnows'
  BY DEF RemovalInv, LockKnows, FindsNoMarker, procs, Go, Here, Waits, Ended, Guarded
<1>5. ChildKnows'
  BY DEF RemovalInv, ChildKnows, FindsNoMarker, device, procs, Go, Here, Identity, Replied
<1>6. ErasureKnows'
  BY DEF RemovalInv, ErasureKnows, FindsNoMarker, files, device, procs, Go, Removing, Ended,
       NoRemoval, Touched, Everything
<1> QED
  BY <1>1, <1>2, <1>3, <1>4, <1>5, <1>6 DEF RemovalInv

\* The drain is durable even if its answer is lost.
LEMMA DrainsKeeps ==
    ASSUME RemovalInv, Drains
    PROVE  RemovalInv'
<1>1. RemovalTypeOK'
  <2>1. {fence', helper', context', staged'} \subseteq BOOLEAN /\ halted' \in Marker
    BY DEF RemovalInv, RemovalTypeOK, Drains, Marker
  <2>2. unit' \in Unit
    BY DEF RemovalInv, RemovalTypeOK, Drains, Go, Here, Exit, AtRestRun, Unit
  <2>3. run' \in [pc : Points, guard : BOOLEAN]
    <3>1. CASE Go("confirm")
      BY <3>1 DEF RemovalInv, RemovalTypeOK, Go, Points, Waits
    <3>2. CASE Exit
      BY <3>2 DEF Exit, AtRestRun, Points, Waits
    <3> QED
      BY <3>1, <3>2 DEF Drains
  <2>4. events' \in [DOMAIN RemovalLimits -> Nat]
    BY HappensTyped, EventKinds DEF RemovalInv, RemovalTypeOK, Drains
  <2> QED
    BY <2>1, <2>2, <2>3, <2>4 DEF RemovalInv, RemovalTypeOK, Unit, Child, Drains, device
<1>2. JournalKnows'
  <2>1. UNCHANGED <<removal, kept, tree, credential, authority, child, stops>>
    BY DEF Drains, device
  <2>2. unit'.up = unit.up /\ unit.up /\ removal.phase = "prepared" /\ removal # NoRemoval
    BY Untouched DEF Drains, Here, RemovalInv, RemovalTypeOK
  <2>3. run.guard = FALSE
    BY <2>2 DEF RemovalInv, RemovalTypeOK, LockKnows
  <2>4. /\ run'.pc \in {"confirm", "idle"} /\ run'.guard = FALSE
        /\ run'.pc = "idle" => run' = AtRestRun
    <3>1. CASE Go("confirm")
      BY <2>3, <3>1 DEF Go, RemovalInv, RemovalTypeOK
    <3>2. CASE Exit
      BY <3>2 DEF Exit, AtRestRun
    <3> QED
      BY <3>1, <3>2 DEF Drains
  <2> QED
    BY <2>1, <2>2, <2>4 DEF RemovalInv, JournalKnows, PhasesAt, Phases, Emptied, Touched, Waits
<1>3. RequestKnows'
  <2>1. UNCHANGED <<removal, kept, tree, credential, authority, child, stops>>
    BY DEF Drains, device
  <2>2. unit'.up = unit.up /\ unit.up /\ removal.phase = "prepared" /\ removal # NoRemoval
    BY Untouched DEF Drains, Here, RemovalInv, RemovalTypeOK
  <2>3. run.guard = FALSE
    BY <2>2 DEF RemovalInv, RemovalTypeOK, LockKnows
  <2>4. /\ run'.pc \in {"confirm", "idle"} /\ run'.guard = FALSE
        /\ run'.pc = "idle" => run' = AtRestRun
    <3>1. CASE Go("confirm")
      BY <2>3, <3>1 DEF Go, RemovalInv, RemovalTypeOK
    <3>2. CASE Exit
      BY <3>2 DEF Exit, AtRestRun
    <3> QED
      BY <3>1, <3>2 DEF Drains
  <2> QED
    BY <2>1, <2>2, <2>4 DEF RemovalInv, RequestKnows, Here, Removing
<1>4. LockKnows'
  <2>1. UNCHANGED <<removal, kept, tree, credential, authority, child, stops>>
    BY DEF Drains, device
  <2>2. unit'.up = unit.up /\ unit.up /\ removal.phase = "prepared" /\ removal # NoRemoval
    BY Untouched DEF Drains, Here, RemovalInv, RemovalTypeOK
  <2>3. run.guard = FALSE
    BY <2>2 DEF RemovalInv, RemovalTypeOK, LockKnows
  <2>4. /\ run'.pc \in {"confirm", "idle"} /\ run'.guard = FALSE
        /\ run'.pc = "idle" => run' = AtRestRun
    <3>1. CASE Go("confirm")
      BY <2>3, <3>1 DEF Go, RemovalInv, RemovalTypeOK
    <3>2. CASE Exit
      BY <3>2 DEF Exit, AtRestRun
    <3> QED
      BY <3>1, <3>2 DEF Drains
  <2> QED
    BY <2>1, <2>2, <2>4 DEF RemovalInv, LockKnows, Guarded, Waits
<1>5. ChildKnows'
  <2>1. UNCHANGED <<removal, kept, tree, credential, authority, child, stops>>
    BY DEF Drains, device
  <2>2. unit'.up = unit.up /\ unit.up /\ removal.phase = "prepared" /\ removal # NoRemoval
    BY Untouched DEF Drains, Here, RemovalInv, RemovalTypeOK
  <2>3. run.guard = FALSE
    BY <2>2 DEF RemovalInv, RemovalTypeOK, LockKnows
  <2>4. /\ run'.pc \in {"confirm", "idle"} /\ run'.guard = FALSE
        /\ run'.pc = "idle" => run' = AtRestRun
    <3>1. CASE Go("confirm")
      BY <2>3, <3>1 DEF Go, RemovalInv, RemovalTypeOK
    <3>2. CASE Exit
      BY <3>2 DEF Exit, AtRestRun
    <3> QED
      BY <3>1, <3>2 DEF Drains
  <2> QED
    BY <2>1, <2>4 DEF RemovalInv, ChildKnows, Here, Replied
<1>6. ErasureKnows'
  <2>1. UNCHANGED <<removal, kept, tree, credential, authority, child, stops>>
    BY DEF Drains, device
  <2>2. unit'.up = unit.up /\ unit.up /\ removal.phase = "prepared" /\ removal # NoRemoval
    BY Untouched DEF Drains, Here, RemovalInv, RemovalTypeOK
  <2>3. run.guard = FALSE
    BY <2>2 DEF RemovalInv, RemovalTypeOK, LockKnows
  <2>4. /\ run'.pc \in {"confirm", "idle"} /\ run'.guard = FALSE
        /\ run'.pc = "idle" => run' = AtRestRun
    <3>1. CASE Go("confirm")
      BY <2>3, <3>1 DEF Go, RemovalInv, RemovalTypeOK
    <3>2. CASE Exit
      BY <3>2 DEF Exit, AtRestRun
    <3> QED
      BY <3>1, <3>2 DEF Drains
  <2> QED
    BY <2>1, <2>2, <2>4 DEF RemovalInv, ErasureKnows, Removing, Touched
<1> QED
  BY <1>1, <1>2, <1>3, <1>4, <1>5, <1>6 DEF RemovalInv

\* A drain of an earlier run of the removal is taken as it is.
LEMMA AlreadyDrainedKeeps ==
    ASSUME RemovalInv, AlreadyDrained
    PROVE  RemovalInv'
<1>1. RemovalTypeOK'
  BY RemovalAssumption DEF RemovalInv, RemovalTypeOK, AlreadyDrained, files, device, procs, Go,
       Ended, NoRemoval, Removal, Phases, Points, ChildPoints, Credentials, Evidence, Identities,
       Everything, Singles
<1>2. JournalKnows'
  BY DEF RemovalInv, JournalKnows, AlreadyDrained, files, Go, Here, PhasesAt, Phases, Touched,
       Emptied, Everything, Singles
<1>3. RequestKnows'
  BY DEF RemovalInv, RequestKnows, AlreadyDrained, files, procs, Go, Here, Removing, NoRemoval
<1>4. LockKnows'
  BY DEF RemovalInv, LockKnows, AlreadyDrained, procs, Go, Here, Waits, Ended, Guarded
<1>5. ChildKnows'
  BY DEF RemovalInv, ChildKnows, AlreadyDrained, device, procs, Go, Here, Identity, Replied
<1>6. ErasureKnows'
  BY DEF RemovalInv, ErasureKnows, AlreadyDrained, files, device, procs, Go, Removing, Ended,
       NoRemoval, Touched, Everything
<1> QED
  BY <1>1, <1>2, <1>3, <1>4, <1>5, <1>6 DEF RemovalInv

\* The process that was found drained and idle is recorded.
LEMMA ConfirmsKeeps ==
    ASSUME RemovalInv, Confirms
    PROVE  RemovalInv'
<1>1. RemovalTypeOK'
  <2>1. removal' \in Removal \cup {NoRemoval}
    <3>1. unit.pid \in 0..2 /\ removal \in Removal
      BY JournalThere DEF RemovalInv, RemovalTypeOK, Confirms, Here, Points
    <3> QED
      BY <3>1 DEF Confirms, Save, Removal, Phases
  <2>2. run' \in [pc : Points, guard : BOOLEAN]
    BY DEF RemovalInv, RemovalTypeOK, Confirms, FoundIdle, Go, Here, Save, Points, Waits
  <2> QED
    BY <2>1, <2>2 DEF RemovalInv, RemovalTypeOK, Unit, Child, Confirms, FoundIdle, files, device,
         procs
<1>2. JournalKnows'
  BY DEF RemovalInv, JournalKnows, Confirms, files, Go, Here, Save, PhasesAt, Phases, Touched,
       Emptied, Everything, Singles
<1>3. RequestKnows'
  BY DEF RemovalInv, RemovalTypeOK, JournalKnows, RequestKnows, LockKnows, ChildKnows,
       ErasureKnows, Confirms, FoundIdle, files, device, procs, Go, Here, Save, AtRestRun,
       Removing, Waits, Ended, NoRemoval, PhasesAt, Phases, Emptied
<1>4. LockKnows'
  BY DEF RemovalInv, LockKnows, Confirms, procs, Go, Here, Save, AtRestRun, Waits, Ended, Guarded
<1>5. ChildKnows'
  BY DEF RemovalInv, ChildKnows, Confirms, device, procs, Go, Here, Save, Ended, Identity, Replied
<1>6. ErasureKnows'
  BY DEF RemovalInv, RemovalTypeOK, JournalKnows, RequestKnows, LockKnows, ChildKnows,
       ErasureKnows, Confirms, FoundIdle, files, device, procs, Go, Here, Save, AtRestRun,
       Removing, Waits, Ended, NoRemoval, Touched, Everything, PhasesAt, Phases, Replied
<1> QED
  BY <1>1, <1>2, <1>3, <1>4, <1>5, <1>6 DEF RemovalInv

\* The intent to stop is recorded before the request.
LEMMA IntendsKeeps ==
    ASSUME RemovalInv, Intends
    PROVE  RemovalInv'
<1>1. RemovalTypeOK'
  <2>1. removal' \in Removal \cup {NoRemoval}
    BY JournalThere DEF RemovalInv, RemovalTypeOK, Intends, Go, Here, Save, Waits, Points,
         Removal, Phases, Evidence, Identities
  <2>2. run' \in [pc : Points, guard : BOOLEAN]
    BY DEF RemovalInv, RemovalTypeOK, Intends, Go, Here, Save, Points, Waits
  <2> QED
    BY <2>1, <2>2 DEF RemovalInv, RemovalTypeOK, Unit, Child, Intends, files, device, procs
<1>2. JournalKnows'
  BY DEF RemovalInv, JournalKnows, Intends, files, Go, Here, Save, PhasesAt, Phases, Touched,
       Emptied, Everything, Singles
<1>3. RequestKnows'
  BY DEF RemovalInv, RemovalTypeOK, JournalKnows, RequestKnows, LockKnows, ChildKnows,
       ErasureKnows, Intends, files, device, procs, Go, Here, Save, AtRestRun, Removing, Waits,
       Ended, NoRemoval, PhasesAt, Phases, Emptied
<1>4. LockKnows'
  BY DEF RemovalInv, LockKnows, Intends, procs, Go, Here, AtRestRun, Waits, Ended, Guarded
<1>5. ChildKnows'
  BY DEF RemovalInv, ChildKnows, Intends, device, procs, Go, Here, Ended, Identity, Replied
<1>6. ErasureKnows'
  <2>1. removal \in Removal /\ removal # NoRemoval /\ removal.phase = "idle_verified" /\ ~Touched
    BY Untouched DEF Intends, Here
  <2>2. removal'.phase = "stop_intent" /\ removal'.erased = removal.erased
    BY <2>1 DEF Intends, Save, Removal
  <2>3. ~removal.erased
    BY <2>1 DEF RemovalInv, ErasureKnows, Removing
  <2>4. run'.pc = "request" /\ ~Touched'
    BY <2>1 DEF Intends, Go, Touched, files, RemovalInv, RemovalTypeOK
  <2> QED
    BY <2>2, <2>3, <2>4 DEF ErasureKnows
<1> QED
  BY <1>1, <1>2, <1>3, <1>4, <1>5, <1>6 DEF RemovalInv

\* The request is recorded as uncertain before it is sent.
LEMMA RequestsStopKeeps ==
    ASSUME RemovalInv, RequestsStop
    PROVE  RemovalInv'
<1>1. RemovalTypeOK'
  BY RemovalAssumption DEF RemovalInv, RemovalTypeOK, RequestsStop, files, device, procs, Go,
       Save, Waits, Ended, NoRemoval, Removal, Phases, Points, ChildPoints, Credentials, Evidence,
       Identities, Everything, Singles
<1>2. JournalKnows'
  BY DEF RemovalInv, RemovalTypeOK, JournalKnows, RequestsStop, files, Go, Here, Save, PhasesAt,
       Phases, Touched, Emptied, Everything, Singles
<1>3. RequestKnows'
  BY DEF RemovalInv, RemovalTypeOK, JournalKnows, RequestKnows, LockKnows, ChildKnows,
       ErasureKnows, RequestsStop, FoundIdle, ExactlyIdle, files, device, procs, Go, Here, Save, AtRestRun,
       Removing, Waits, Ended, NoRemoval, PhasesAt, Phases, Emptied
<1>4. LockKnows'
  BY DEF RemovalInv, RemovalTypeOK, LockKnows, RequestsStop, procs, Go, Here, Save, AtRestRun,
       Waits, Ended, Guarded
<1>5. ChildKnows'
  BY DEF RemovalInv, RemovalTypeOK, ChildKnows, RequestsStop, device, procs, Go, Here, Save,
       Ended, Identity, Replied
<1>6. ErasureKnows'
  BY DEF RemovalInv, RemovalTypeOK, ErasureKnows, RequestsStop, files, device, procs, Go, Here,
       Save, Removing, Ended, NoRemoval, Touched, Everything
<1> QED
  BY <1>1, <1>2, <1>3, <1>4, <1>5, <1>6 DEF RemovalInv

\* The request is sent: the journal has said so before.
LEMMA BootsOutKeeps ==
    ASSUME RemovalInv, BootsOut
    PROVE  RemovalInv'
<1>1. RemovalTypeOK'
  BY RemovalAssumption DEF RemovalInv, RemovalTypeOK, BootsOut, files, device, Go, NoRemoval,
       Removal, Phases, Points, ChildPoints, Credentials, Evidence, Identities, Everything,
       Singles
<1>2. JournalKnows'
  BY DEF RemovalInv, JournalKnows, BootsOut, files, Go, Here, PhasesAt, Touched, Emptied,
       Everything, Singles
<1>3. RequestKnows'
  BY DEF RemovalInv, RemovalTypeOK, JournalKnows, RequestKnows, LockKnows, ChildKnows,
       ErasureKnows, BootsOut, files, device, Go, Here, AtRestRun, Removing, Waits, Ended,
       NoRemoval, PhasesAt, Phases, Emptied
<1>4. LockKnows'
  BY DEF RemovalInv, LockKnows, BootsOut, Go, Here, Waits, Ended, Guarded
<1>5. ChildKnows'
  BY DEF RemovalInv, ChildKnows, BootsOut, device, Go, Here, Replied
<1>6. ErasureKnows'
  BY DEF RemovalInv, ErasureKnows, BootsOut, files, device, Go, Removing, NoRemoval, Touched,
       Everything
<1> QED
  BY <1>1, <1>2, <1>3, <1>4, <1>5, <1>6 DEF RemovalInv

\* A request that was not spawned is recorded as not sent, and none was.
LEMMA CannotSpawnKeeps ==
    ASSUME RemovalInv, CannotSpawn
    PROVE  RemovalInv'
<1>1. RemovalTypeOK'
  <2>1. removal' \in Removal \cup {NoRemoval}
    BY JournalThere DEF RemovalInv, RemovalTypeOK, CannotSpawn, Here, Save, Waits, Points,
         Removal, Phases, Evidence, Identities
  <2>2. run' \in [pc : Points, guard : BOOLEAN]
    BY DEF RemovalInv, RemovalTypeOK, CannotSpawn, Here, Save, Exit, AtRestRun, Points, Waits
  <2>3. events' \in [DOMAIN RemovalLimits -> Nat]
    BY HappensTyped, EventKinds DEF RemovalInv, RemovalTypeOK, CannotSpawn
  <2> QED
    BY <2>1, <2>2, <2>3 DEF RemovalInv, RemovalTypeOK, Unit, Child, CannotSpawn, files, device,
         procs
<1>2. JournalKnows'
  <2>1. removal \in Removal /\ removal # NoRemoval /\ removal.phase = "stop_intent" /\ ~Touched
    BY Untouched DEF CannotSpawn, Here
  <2>2. /\ removal'.phase = "stop_intent" /\ removal'.request = "prepared"
        /\ removal'.erased = removal.erased
    BY <2>1 DEF CannotSpawn, Save, Removal
  <2>3. run'.pc = "idle" /\ ~Touched' /\ UNCHANGED <<kept, stops, unit, credential>>
    BY <2>1 DEF CannotSpawn, Exit, AtRestRun, Touched, files, device, procs
  <2> QED
    BY <2>2, <2>3 DEF JournalKnows, PhasesAt, Phases, Waits, Emptied
<1>3. RequestKnows'
  <2>1. removal \in Removal /\ removal # NoRemoval /\ removal.phase = "stop_intent" /\ ~Touched
    BY Untouched DEF CannotSpawn, Here
  <2>2. /\ removal'.phase = "stop_intent" /\ removal'.request = "prepared"
        /\ removal'.erased = removal.erased
    BY <2>1 DEF CannotSpawn, Save, Removal
  <2>3. run'.pc = "idle" /\ ~Touched' /\ UNCHANGED <<kept, stops, unit, credential>>
    BY <2>1 DEF CannotSpawn, Exit, AtRestRun, Touched, files, device, procs
  <2>4. stops = 0
    BY DEF RemovalInv, RequestKnows, CannotSpawn, Here
  <2> QED
    BY <2>2, <2>3, <2>4 DEF RequestKnows, Removing, Here, NoRemoval
<1>4. LockKnows'
  BY DEF RemovalInv, RemovalTypeOK, JournalKnows, RequestKnows, LockKnows, ChildKnows,
       ErasureKnows, CannotSpawn, Happens, files, device, procs, Here, Save, Exit, AtRestRun,
       Removing, Waits, Ended, NoRemoval, Guarded
<1>5. ChildKnows'
  BY DEF RemovalInv, RemovalTypeOK, JournalKnows, RequestKnows, LockKnows, ChildKnows,
       ErasureKnows, CannotSpawn, Happens, files, device, procs, Here, Save, Exit, AtRestRun,
       Removing, Waits, Ended, NoRemoval, Identity, Replied
<1>6. ErasureKnows'
  <2>1. removal \in Removal /\ removal # NoRemoval /\ removal.phase = "stop_intent" /\ ~Touched
    BY Untouched DEF CannotSpawn, Here
  <2>2. /\ removal'.phase = "stop_intent" /\ removal'.request = "prepared"
        /\ removal'.erased = removal.erased
    BY <2>1 DEF CannotSpawn, Save, Removal
  <2>3. run'.pc = "idle" /\ ~Touched' /\ UNCHANGED <<kept, stops, unit, credential>>
    BY <2>1 DEF CannotSpawn, Exit, AtRestRun, Touched, files, device, procs
  <2>4. ~removal.erased
    BY <2>1 DEF RemovalInv, ErasureKnows, Removing
  <2> QED
    BY <2>2, <2>3, <2>4 DEF ErasureKnows
<1> QED
  BY <1>1, <1>2, <1>3, <1>4, <1>5, <1>6 DEF RemovalInv

\* A request that had no effect stays recorded as uncertain.
LEMMA BootoutFailsKeeps ==
    ASSUME RemovalInv, BootoutFails
    PROVE  RemovalInv'
<1>1. RemovalTypeOK'
  <2>1. unit' \in Unit
    BY DEF RemovalInv, RemovalTypeOK, BootoutFails, Here, Exit, AtRestRun, Unit
  <2>2. run' \in [pc : Points, guard : BOOLEAN]
    BY DEF RemovalInv, RemovalTypeOK, BootoutFails, Here, Exit, AtRestRun, Points, Waits
  <2>3. events' \in [DOMAIN RemovalLimits -> Nat]
    BY HappensTyped, EventKinds DEF RemovalInv, RemovalTypeOK, BootoutFails
  <2> QED
    BY <2>1, <2>2, <2>3 DEF RemovalInv, RemovalTypeOK, Unit, Child, BootoutFails, files, device
<1>2. JournalKnows'
  BY DEF RemovalInv, RemovalTypeOK, JournalKnows, RequestKnows, LockKnows, ChildKnows,
       ErasureKnows, BootoutFails, Happens, files, device, Here, Exit, AtRestRun, Removing, Waits,
       Ended, NoRemoval, PhasesAt, Phases, Touched, Emptied, Everything, Singles
<1>3. RequestKnows'
  BY DEF RemovalInv, RemovalTypeOK, JournalKnows, RequestKnows, LockKnows, ChildKnows,
       ErasureKnows, BootoutFails, Happens, files, device, Here, Exit, AtRestRun, Removing, Waits,
       Ended, NoRemoval, PhasesAt, Phases, Emptied
<1>4. LockKnows'
  BY DEF RemovalInv, RemovalTypeOK, JournalKnows, RequestKnows, LockKnows, ChildKnows,
       ErasureKnows, BootoutFails, Happens, files, device, Here, Exit, AtRestRun, Removing, Waits,
       Ended, NoRemoval, Guarded
<1>5. ChildKnows'
  BY DEF RemovalInv, RemovalTypeOK, JournalKnows, RequestKnows, LockKnows, ChildKnows,
       ErasureKnows, BootoutFails, Happens, files, device, Here, Exit, AtRestRun, Removing, Waits,
       Ended, NoRemoval, Identity, Replied
<1>6. ErasureKnows'
  BY DEF RemovalInv, RemovalTypeOK, JournalKnows, RequestKnows, LockKnows, ChildKnows,
       ErasureKnows, BootoutFails, Happens, files, device, Here, Exit, AtRestRun, Removing, Waits,
       Ended, NoRemoval, Touched, Everything, PhasesAt, Phases, Replied
<1> QED
  BY <1>1, <1>2, <1>3, <1>4, <1>5, <1>6 DEF RemovalInv

\* The answer of the request says nothing about the service.
LEMMA AwaitedKeeps ==
    ASSUME RemovalInv, Awaited
    PROVE  RemovalInv'
<1>1. RemovalTypeOK'
  BY RemovalAssumption DEF RemovalInv, RemovalTypeOK, Awaited, files, device, procs, Go, Ended,
       NoRemoval, Removal, Phases, Points, ChildPoints, Credentials, Evidence, Identities,
       Everything, Singles
<1>2. JournalKnows'
  BY DEF RemovalInv, JournalKnows, Awaited, files, Go, Here, PhasesAt, Phases, Touched, Emptied,
       Everything, Singles
<1>3. RequestKnows'
  BY DEF RemovalInv, RequestKnows, Awaited, files, procs, Go, Here, Removing, NoRemoval
<1>4. LockKnows'
  BY DEF RemovalInv, LockKnows, Awaited, procs, Go, Here, Waits, Ended, Guarded
<1>5. ChildKnows'
  BY DEF RemovalInv, ChildKnows, Awaited, device, procs, Go, Here, Identity, Replied
<1>6. ErasureKnows'
  BY DEF RemovalInv, ErasureKnows, Awaited, files, device, procs, Go, Removing, Ended, NoRemoval,
       Touched, Everything
<1> QED
  BY <1>1, <1>2, <1>3, <1>4, <1>5, <1>6 DEF RemovalInv

\* Whoever sees the service unloaded holds its lock from then on.
LEMMA VerifiesKeeps ==
    ASSUME RemovalInv, Verifies
    PROVE  RemovalInv'
<1>1. RemovalTypeOK'
  BY RemovalAssumption DEF RemovalInv, RemovalTypeOK, Verifies, files, device, procs, Save,
       SaveIn, LockFree, Waits, Ended, NoRemoval, Removal, Phases, Points, ChildPoints,
       Credentials, Evidence, Identities, Everything, Singles
<1>2. JournalKnows'
  BY DEF RemovalInv, JournalKnows, Verifies, files, Here, Save, SaveIn, LockFree, Ended, PhasesAt,
       Phases, Touched, Emptied, Everything, Singles
<1>3. RequestKnows'
  BY DEF RemovalInv, RemovalTypeOK, JournalKnows, RequestKnows, LockKnows, ChildKnows,
       ErasureKnows, Verifies, Unloaded, files, device, procs, Here, Save, SaveIn, AtRestRun,
       Removing, LockFree, Waits, Ended, NoRemoval, PhasesAt, Phases, Emptied
<1>4. LockKnows'
  BY DEF RemovalInv, LockKnows, Verifies, Unloaded, procs, SaveIn, AtRestRun, LockFree, Waits,
       Ended, Guarded
<1>5. ChildKnows'
  BY DEF RemovalInv, ChildKnows, Verifies, device, procs, Here, SaveIn, LockFree, Ended, Identity,
       Replied
<1>6. ErasureKnows'
  BY DEF RemovalInv, ErasureKnows, Verifies, files, device, procs, Save, SaveIn, Removing,
       LockFree, Ended, NoRemoval, Touched, Everything
<1> QED
  BY <1>1, <1>2, <1>3, <1>4, <1>5, <1>6 DEF RemovalInv

\* A run whose conditions fail leaves everything as it was.
LEMMA RefusesKeeps ==
    ASSUME RemovalInv, Refuses
    PROVE  RemovalInv'
<1>1. RemovalTypeOK'
  BY RemovalAssumption DEF RemovalInv, RemovalTypeOK, Refuses, files, device, procs, Exit,
       AtRestRun, LockFree, Waits, Ended, NoRemoval, Removal, Phases, Points, ChildPoints,
       Credentials, Evidence, Identities, Everything, Singles
<1>2. JournalKnows'
  BY DEF RemovalInv, JournalKnows, Refuses, files, Exit, AtRestRun, LockFree, Ended, PhasesAt,
       Phases, Touched, Emptied, Everything, Singles
<1>3. RequestKnows'
  BY DEF RemovalInv, RequestKnows, Refuses, files, procs, Here, Exit, AtRestRun, Removing,
       LockFree, Ended, NoRemoval
<1>4. LockKnows'
  BY DEF RemovalInv, LockKnows, Refuses, procs, Exit, AtRestRun, LockFree, Waits, Ended, Guarded
<1>5. ChildKnows'
  BY DEF RemovalInv, ChildKnows, Refuses, device, procs, Here, Exit, AtRestRun, LockFree, Ended,
       Identity, Replied
<1>6. ErasureKnows'
  BY DEF RemovalInv, ErasureKnows, Refuses, files, device, procs, Exit, AtRestRun, Removing,
       LockFree, Ended, NoRemoval, Touched, Everything
<1> QED
  BY <1>1, <1>2, <1>3, <1>4, <1>5, <1>6 DEF RemovalInv

\* The child's answer about a service that was never started decides what is erased.
LEMMA ChecksPreparedStoppedKeeps ==
    ASSUME RemovalInv, ChecksPreparedStopped
    PROVE  RemovalInv'
<1>1. RemovalTypeOK'
  <2>1. removal' \in Removal \cup {NoRemoval}
    BY JournalThere DEF RemovalInv, RemovalTypeOK, ChecksPreparedStopped, Replied, Takes, Known,
         Go, Here, Save, Waits, Points, Removal, Phases, Evidence, Identities
  <2>2. run' \in [pc : Points, guard : BOOLEAN]
    BY DEF RemovalInv, RemovalTypeOK, ChecksPreparedStopped, Replied, Takes, Known, Go, Here,
         Save, Points, Waits
  <2>3. {fence', helper', context', staged'} \subseteq BOOLEAN /\ halted' \in Marker
    BY DEF RemovalInv, RemovalTypeOK, ChecksPreparedStopped, Replied, Takes, Known, Go, Here, Save
  <2>4. child' \in Child
    BY DEF RemovalInv, RemovalTypeOK, ChecksPreparedStopped, Replied, Takes, Known, Go, Here,
         Save, Child, ChildPoints, Ended, Identities, Evidence, Credentials, NoChild
  <2> QED
    BY <2>1, <2>2, <2>3, <2>4 DEF RemovalInv, RemovalTypeOK, Unit, Child, ChecksPreparedStopped,
         Replied, Takes, Known, device
<1>2. JournalKnows'
  BY DEF RemovalInv, JournalKnows, ChecksPreparedStopped, Takes, Go, Here, Save, NoChild,
       PhasesAt, Phases, Touched, Emptied, Everything, Singles
<1>3. RequestKnows'
  BY DEF RemovalInv, RemovalTypeOK, JournalKnows, RequestKnows, LockKnows, ChildKnows,
       ErasureKnows, ChecksPreparedStopped, Replied, Takes, Known, device, Go, Here, Save,
       AtRestRun, Removing, Waits, Ended, NoRemoval, NoChild, PhasesAt, Phases, Emptied
<1>4. LockKnows'
  BY DEF RemovalInv, LockKnows, ChecksPreparedStopped, Takes, Go, Here, Save, AtRestRun, Waits,
       Ended, NoChild, Guarded
<1>5. ChildKnows'
  BY DEF RemovalInv, ChildKnows, ChecksPreparedStopped, Takes, device, Go, Here, Save, Ended,
       NoChild, Identity
<1>6. ErasureKnows'
  <2>1. removal \in Removal /\ removal # NoRemoval /\ removal.phase = "prepared" /\ ~Touched
    BY Untouched DEF ChecksPreparedStopped, Here
  <2>2. /\ ~Touched' /\ UNCHANGED <<credential, unit>> /\ run'.pc = "capture"
        /\ child'.at \in Ended
    BY <2>1 DEF ChecksPreparedStopped, Takes, Go, Touched, device, NoChild, Ended, RemovalInv,
                RemovalTypeOK
  <2>3. removal'.phase = "stopped"
    BY <2>1 DEF ChecksPreparedStopped, Takes, Save, Known, Removal
  <2>4. CASE child.identity = "absent"
    <3>1. credential = "none"
      BY <2>4 DEF RemovalInv, ChildKnows, ChecksPreparedStopped, Here, Identity
    <3>2. ~unit.up
      BY DEF RemovalInv, LockKnows, ChecksPreparedStopped, Here, Guarded
    <3> QED
      BY <2>2, <2>3, <3>1, <3>2 DEF ErasureKnows
  <2>5. CASE child.identity # "absent"
    <3>1. removal'.erased = removal.erased
      BY <2>1, <2>5 DEF ChecksPreparedStopped, Takes, Save, Known, Removal
    <3>2. ~removal.erased
      BY <2>1 DEF RemovalInv, ErasureKnows, Removing
    <3> QED
      BY <2>2, <2>3, <3>1, <3>2 DEF ErasureKnows
  <2> QED
    BY <2>4, <2>5
<1> QED
  BY <1>1, <1>2, <1>3, <1>4, <1>5, <1>6 DEF RemovalInv

\* The state is captured before a credential is touched.
LEMMA CapturesKeeps ==
    ASSUME RemovalInv, Captures
    PROVE  RemovalInv'
<1>1. RemovalTypeOK'
  <2>1. removal' \in Removal \cup {NoRemoval}
    BY JournalThere DEF RemovalInv, RemovalTypeOK, Captures, Go, Here, Save, Waits, Points,
         Removal, Phases, Evidence, Identities
  <2>2. run' \in [pc : Points, guard : BOOLEAN]
    BY DEF RemovalInv, RemovalTypeOK, Captures, Go, Here, Save, Points, Waits
  <2> QED
    BY <2>1, <2>2 DEF RemovalInv, RemovalTypeOK, Unit, Child, Captures, files, device, procs
<1>2. JournalKnows'
  BY DEF RemovalInv, JournalKnows, Captures, files, Go, Here, Save, PhasesAt, Phases, Touched,
       Emptied, Everything, Singles
<1>3. RequestKnows'
  BY DEF RemovalInv, RemovalTypeOK, JournalKnows, RequestKnows, LockKnows, ChildKnows,
       ErasureKnows, Captures, files, device, procs, Go, Here, Save, AtRestRun, Removing, Waits,
       Ended, NoRemoval, PhasesAt, Phases, Emptied
<1>4. LockKnows'
  BY DEF RemovalInv, LockKnows, Captures, procs, Go, Here, AtRestRun, Waits, Ended, Guarded
<1>5. ChildKnows'
  BY DEF RemovalInv, ChildKnows, Captures, device, procs, Go, Here, Ended, Identity, Replied
<1>6. ErasureKnows'
  BY DEF RemovalInv, ErasureKnows, Captures, files, device, procs, Go, Save, Removing, Ended,
       NoRemoval, Touched, Everything
<1> QED
  BY <1>1, <1>2, <1>3, <1>4, <1>5, <1>6 DEF RemovalInv

\* The child is asked what credential there is.
LEMMA AsksKeeps ==
    ASSUME RemovalInv, Asks
    PROVE  RemovalInv'
<1>1. RemovalTypeOK'
  <2>1. run' \in [pc : Points, guard : BOOLEAN]
    BY DEF RemovalInv, RemovalTypeOK, Asks, Spawn, Here, Points, Waits
  <2>2. child' \in Child
    BY JournalThere DEF RemovalInv, RemovalTypeOK, Asks, Spawn, Here, Waits, Points, Child,
         ChildPoints, Ended, Identities, Evidence, Credentials, Removal
  <2>3. {fence', helper', context', staged'} \subseteq BOOLEAN /\ halted' \in Marker
    BY DEF RemovalInv, RemovalTypeOK, Asks, Spawn, Here
  <2> QED
    BY <2>1, <2>2, <2>3 DEF RemovalInv, RemovalTypeOK, Unit, Child, Asks, Spawn, device
<1>2. JournalKnows'
  BY DEF RemovalInv, JournalKnows, Asks, Spawn, Here, PhasesAt, Touched, Emptied, Everything,
       Singles
<1>3. RequestKnows'
  BY DEF RemovalInv, RequestKnows, Asks, Spawn, Here, Removing
<1>4. LockKnows'
  BY DEF RemovalInv, LockKnows, Asks, Spawn, Here, Waits, Guarded
<1>5. ChildKnows'
  BY DEF RemovalInv, ChildKnows, Asks, Spawn, device, Replied
<1>6. ErasureKnows'
  <2>1. removal \in Removal /\ removal # NoRemoval /\ removal.phase = "stopped" /\ ~Touched
    BY Untouched DEF Asks, Here
  <2>2. ~Touched' /\ UNCHANGED <<removal, credential, unit>> /\ run'.pc = "probe"
    BY <2>1 DEF Asks, Spawn, Touched, device
  <2>3. child'.kind = "probe"
    BY DEF Asks, Spawn
  <2> QED
    BY <2>1, <2>2, <2>3 DEF RemovalInv, ErasureKnows, Removing
<1> QED
  BY <1>1, <1>2, <1>3, <1>4, <1>5, <1>6 DEF RemovalInv

\* The child's answer is what the credential is: nobody else touches it.
LEMMA IdentifiesKeeps ==
    ASSUME RemovalInv, Identifies
    PROVE  RemovalInv'
<1>1. RemovalTypeOK'
  <2>1. removal' \in Removal \cup {NoRemoval}
    BY JournalThere DEF RemovalInv, RemovalTypeOK, Identifies, Replied, Takes, Known, Go, Here,
         Save, Waits, Points, Removal, Phases, Evidence, Identities
  <2>2. run' \in [pc : Points, guard : BOOLEAN]
    BY DEF RemovalInv, RemovalTypeOK, Identifies, Replied, Takes, Known, Go, Here, Save, Points,
         Waits
  <2>3. {fence', helper', context', staged'} \subseteq BOOLEAN /\ halted' \in Marker
    BY DEF RemovalInv, RemovalTypeOK, Identifies, Replied, Takes, Known, Go, Here, Save
  <2>4. child' \in Child
    BY DEF RemovalInv, RemovalTypeOK, Identifies, Replied, Takes, Known, Go, Here, Save, Child,
         ChildPoints, Ended, Identities, Evidence, Credentials, NoChild
  <2> QED
    BY <2>1, <2>2, <2>3, <2>4 DEF RemovalInv, RemovalTypeOK, Unit, Child, Identifies, Replied,
         Takes, Known, device
<1>2. JournalKnows'
  BY DEF RemovalInv, JournalKnows, Identifies, Takes, Known, Go, Here, Save, NoChild, PhasesAt,
       Phases, Touched, Emptied, Everything, Singles
<1>3. RequestKnows'
  <2>1. removal \in Removal /\ removal # NoRemoval /\ removal.phase = "stopped" /\ ~Touched
    BY Untouched DEF Identifies, Here
  <2>2. removal'.phase = "stopped" /\ removal'.request = removal.request
    BY <2>1 DEF Identifies, Takes, Save, Known, Removal
  <2>3. run'.pc \in {"settle", "logout"} /\ UNCHANGED stops
    BY DEF Identifies, Takes, Go, RemovalInv, RemovalTypeOK
  <2> QED
    BY <2>1, <2>2, <2>3 DEF RemovalInv, RequestKnows, Removing, Here, NoRemoval
<1>4. LockKnows'
  BY DEF RemovalInv, LockKnows, Identifies, Takes, Go, Here, Save, AtRestRun, Waits, Ended,
       NoChild, Guarded
<1>5. ChildKnows'
  BY DEF RemovalInv, ChildKnows, Identifies, Takes, device, Go, Here, Save, Ended, NoChild,
       Identity
<1>6. ErasureKnows'
  <2>1. removal \in Removal /\ removal # NoRemoval /\ removal.phase = "stopped" /\ ~Touched
    BY Untouched DEF Identifies, Here
  <2>2. /\ ~Touched' /\ UNCHANGED <<credential, unit>> /\ child'.at \in Ended
        /\ run'.pc = IF child.identity = "absent" THEN "settle" ELSE "logout"
    BY <2>1 DEF Identifies, Takes, Go, Touched, device, NoChild, Ended, RemovalInv, RemovalTypeOK
  <2>3. removal'.phase = "stopped"
    BY <2>1 DEF Identifies, Takes, Save, Known, Removal
  <2>4. child.identity = Identity(credential)
    BY DEF RemovalInv, ChildKnows, Identifies, Here
  <2>5. CASE child.identity = "absent"
    <3>1. credential = "none"
      BY <2>4, <2>5 DEF Identity
    <3>2. ~unit.up
      BY DEF RemovalInv, LockKnows, Identifies, Here, Guarded
    <3> QED
      BY <2>2, <2>3, <2>5, <3>1, <3>2 DEF ErasureKnows
  <2>6. CASE child.identity # "absent"
    <3>1. removal'.erased = removal.erased
      BY <2>1, <2>6 DEF Identifies, Takes, Save, Known, Removal
    <3>2. ~removal.erased
      BY <2>1, <2>4, <2>6 DEF RemovalInv, ErasureKnows, Removing, Identity
    <3> QED
      BY <2>2, <2>3, <3>1, <3>2 DEF ErasureKnows
  <2> QED
    BY <2>5, <2>6
<1> QED
  BY <1>1, <1>2, <1>3, <1>4, <1>5, <1>6 DEF RemovalInv

\* The child is asked to revoke the device.
LEMMA LogsOutKeeps ==
    ASSUME RemovalInv, LogsOut
    PROVE  RemovalInv'
<1>1. RemovalTypeOK'
  <2>1. run' \in [pc : Points, guard : BOOLEAN]
    BY DEF RemovalInv, RemovalTypeOK, LogsOut, Spawn, Here, Points, Waits
  <2>2. child' \in Child
    BY JournalThere DEF RemovalInv, RemovalTypeOK, LogsOut, Spawn, Here, Waits, Points, Child,
         ChildPoints, Ended, Identities, Evidence, Credentials, Removal
  <2>3. {fence', helper', context', staged'} \subseteq BOOLEAN /\ halted' \in Marker
    BY DEF RemovalInv, RemovalTypeOK, LogsOut, Spawn, Here
  <2> QED
    BY <2>1, <2>2, <2>3 DEF RemovalInv, RemovalTypeOK, Unit, Child, LogsOut, Spawn, device
<1>2. JournalKnows'
  BY DEF RemovalInv, JournalKnows, LogsOut, Spawn, Here, Touched, Emptied, Everything, Singles
<1>3. RequestKnows'
  BY DEF RemovalInv, RequestKnows, LogsOut, Spawn, Here, Removing
<1>4. LockKnows'
  BY DEF RemovalInv, LockKnows, LogsOut, Spawn, Here, Waits, Guarded
<1>5. ChildKnows'
  BY DEF RemovalInv, ChildKnows, LogsOut, Spawn, device, Replied
<1>6. ErasureKnows'
  BY DEF RemovalInv, RemovalTypeOK, JournalKnows, RequestKnows, LockKnows, ChildKnows,
       ErasureKnows, LogsOut, Spawn, device, Here, AtRestRun, Removing, Waits, Ended, NoRemoval,
       Touched, Everything, PhasesAt, Phases, Replied
<1> QED
  BY <1>1, <1>2, <1>3, <1>4, <1>5, <1>6 DEF RemovalInv

\* The child's answer to the revocation is recorded, with its evidence.
LEMMA LoggedOutKeeps ==
    ASSUME RemovalInv, LoggedOut
    PROVE  RemovalInv'
<1>1. RemovalTypeOK'
  <2>1. removal' \in Removal \cup {NoRemoval}
    BY JournalThere DEF RemovalInv, RemovalTypeOK, LoggedOut, Replied, Takes, Go, Here, Save,
         Waits, Points, Removal, Phases, Evidence, Identities
  <2>2. run' \in [pc : Points, guard : BOOLEAN]
    BY DEF RemovalInv, RemovalTypeOK, LoggedOut, Replied, Takes, Go, Here, Save, Points, Waits
  <2>3. {fence', helper', context', staged'} \subseteq BOOLEAN /\ halted' \in Marker
    BY DEF RemovalInv, RemovalTypeOK, LoggedOut, Replied, Takes, Go, Here, Save
  <2>4. child' \in Child
    BY DEF RemovalInv, RemovalTypeOK, LoggedOut, Replied, Takes, Go, Here, Save, Child,
         ChildPoints, Ended, Identities, Evidence, Credentials, NoChild
  <2> QED
    BY <2>1, <2>2, <2>3, <2>4 DEF RemovalInv, RemovalTypeOK, Unit, Child, LoggedOut, Replied,
         Takes, device
<1>2. JournalKnows'
  BY DEF RemovalInv, JournalKnows, LoggedOut, Takes, Go, Here, Save, NoChild, PhasesAt, Phases,
       Touched, Emptied, Everything, Singles
<1>3. RequestKnows'
  <2>1. removal \in Removal /\ removal # NoRemoval /\ removal.phase = "stopped" /\ ~Touched
    BY Untouched DEF LoggedOut, Here
  <2>2. removal'.phase = "revoked" /\ removal'.request = removal.request
    BY <2>1 DEF LoggedOut, Takes, Save, Removal
  <2>3. run'.pc = "erase" /\ UNCHANGED stops
    BY DEF LoggedOut, Takes, Go, RemovalInv, RemovalTypeOK
  <2> QED
    BY <2>1, <2>2, <2>3 DEF RemovalInv, RequestKnows, Removing, Here, NoRemoval
<1>4. LockKnows'
  BY DEF RemovalInv, LockKnows, LoggedOut, Takes, Go, Here, AtRestRun, Waits, Ended, NoChild,
       Guarded
<1>5. ChildKnows'
  BY DEF RemovalInv, ChildKnows, LoggedOut, Takes, device, Go, Here, Ended, NoChild, Identity
<1>6. ErasureKnows'
  BY DEF RemovalInv, ErasureKnows, LoggedOut, Takes, device, Here, Save, Removing, Ended,
       NoRemoval, NoChild, Touched, Everything
<1> QED
  BY <1>1, <1>2, <1>3, <1>4, <1>5, <1>6 DEF RemovalInv

\* Without a credential there is nothing to revoke.
LEMMA SettlesAbsenceKeeps ==
    ASSUME RemovalInv, SettlesAbsence
    PROVE  RemovalInv'
<1>1. RemovalTypeOK'
  <2>1. removal' \in Removal \cup {NoRemoval}
    BY JournalThere DEF RemovalInv, RemovalTypeOK, SettlesAbsence, Go, Here, Save, SaveIn, Waits,
         Points, Removal, Phases, Evidence, Identities
  <2>2. run' \in [pc : Points, guard : BOOLEAN]
    BY DEF RemovalInv, RemovalTypeOK, SettlesAbsence, Go, Here, Save, SaveIn, Points, Waits
  <2> QED
    BY <2>1, <2>2 DEF RemovalInv, RemovalTypeOK, Unit, Child, SettlesAbsence, files, device, procs
<1>2. JournalKnows'
  BY DEF RemovalInv, JournalKnows, SettlesAbsence, files, Go, Here, Save, SaveIn, PhasesAt,
       Phases, Touched, Emptied, Everything, Singles
<1>3. RequestKnows'
  BY DEF RemovalInv, RemovalTypeOK, JournalKnows, RequestKnows, LockKnows, ChildKnows,
       ErasureKnows, SettlesAbsence, files, device, procs, Go, Here, Save, SaveIn, AtRestRun,
       Removing, Waits, Ended, NoRemoval, PhasesAt, Phases, Emptied
<1>4. LockKnows'
  BY DEF RemovalInv, LockKnows, SettlesAbsence, procs, Go, Here, SaveIn, AtRestRun, Waits, Ended,
       Guarded
<1>5. ChildKnows'
  BY DEF RemovalInv, ChildKnows, SettlesAbsence, device, procs, Go, Here, SaveIn, Ended, Identity,
       Replied
<1>6. ErasureKnows'
  BY DEF RemovalInv, RemovalTypeOK, JournalKnows, RequestKnows, LockKnows, ChildKnows,
       ErasureKnows, SettlesAbsence, files, device, procs, Go, Here, Save, SaveIn, AtRestRun,
       Removing, Waits, Ended, NoRemoval, Touched, Everything, PhasesAt, Phases, Replied
<1> QED
  BY <1>1, <1>2, <1>3, <1>4, <1>5, <1>6 DEF RemovalInv

\* The credential is deleted by a child, or was deleted before.
LEMMA ErasesKeeps ==
    ASSUME RemovalInv, Erases
    PROVE  RemovalInv'
<1>1. RemovalTypeOK'
  <2>1. run' \in [pc : Points, guard : BOOLEAN]
    <3>1. CASE Go("clean")
      BY <3>1 DEF RemovalInv, RemovalTypeOK, Go, Points, Waits
    <3>2. CASE Spawn("remove", "remove", TRUE)
      BY <3>2 DEF Spawn, Points, Waits
    <3> QED
      BY <3>1, <3>2 DEF Erases
  <2>2. child' \in Child
    BY JournalThere
       DEF RemovalInv, RemovalTypeOK, Erases, Spawn, Here, Points, Waits, Child, ChildPoints, Ended,
           Removal, procs
  <2>3. {fence', helper', context', staged'} \subseteq BOOLEAN /\ halted' \in Marker
    BY DEF RemovalInv, RemovalTypeOK, Erases, Spawn, files
  <2> QED
    BY <2>1, <2>2, <2>3 DEF RemovalInv, RemovalTypeOK, Unit, Child, Erases, Spawn, files, device,
         procs
<1>2. JournalKnows'
  BY DEF RemovalInv, RemovalTypeOK, JournalKnows, Erases, Spawn, files, Go, Here, PhasesAt,
       Phases, Touched, Emptied, Everything, Singles
<1>3. RequestKnows'
  BY DEF RemovalInv, RemovalTypeOK, RequestKnows, Erases, Spawn, files, procs, Go, Here, Removing,
       NoRemoval
<1>4. LockKnows'
  BY DEF RemovalInv, RemovalTypeOK, LockKnows, Erases, Spawn, procs, Go, Here, AtRestRun, Waits,
       Ended, Guarded
<1>5. ChildKnows'
  BY DEF RemovalInv, RemovalTypeOK, ChildKnows, Erases, Spawn, device, procs, Go, Here, Ended,
       Identity, Replied
<1>6. ErasureKnows'
  BY DEF RemovalInv, RemovalTypeOK, JournalKnows, RequestKnows, LockKnows, ChildKnows,
       ErasureKnows, Erases, Spawn, files, device, procs, Go, Here, AtRestRun, Removing, Waits,
       Ended, NoRemoval, Touched, Everything, PhasesAt, Phases, Replied
<1> QED
  BY <1>1, <1>2, <1>3, <1>4, <1>5, <1>6 DEF RemovalInv

\* A deletion is recorded when the child has answered it.
LEMMA ErasedKeeps ==
    ASSUME RemovalInv, Erased
    PROVE  RemovalInv'
<1>1. RemovalTypeOK'
  <2>1. removal' \in Removal \cup {NoRemoval}
    BY JournalThere DEF RemovalInv, RemovalTypeOK, Erased, Replied, Takes, Go, Here, Save, Waits,
         Points, Removal, Phases, Evidence, Identities
  <2>2. run' \in [pc : Points, guard : BOOLEAN]
    BY DEF RemovalInv, RemovalTypeOK, Erased, Replied, Takes, Go, Here, Save, Points, Waits
  <2>3. {fence', helper', context', staged'} \subseteq BOOLEAN /\ halted' \in Marker
    BY DEF RemovalInv, RemovalTypeOK, Erased, Replied, Takes, Go, Here, Save
  <2>4. child' \in Child
    BY DEF RemovalInv, RemovalTypeOK, Erased, Replied, Takes, Go, Here, Save, Child, ChildPoints,
         Ended, Identities, Evidence, Credentials, NoChild
  <2> QED
    BY <2>1, <2>2, <2>3, <2>4 DEF RemovalInv, RemovalTypeOK, Unit, Child, Erased, Replied, Takes,
         device
<1>2. JournalKnows'
  BY DEF RemovalInv, JournalKnows, Erased, Takes, Go, Here, Save, NoChild, PhasesAt, Phases,
       Touched, Emptied, Everything, Singles
<1>3. RequestKnows'
  BY DEF RemovalInv, RemovalTypeOK, JournalKnows, RequestKnows, LockKnows, ChildKnows,
       ErasureKnows, Erased, Replied, Takes, device, Go, Here, Save, AtRestRun, Removing, Waits,
       Ended, NoRemoval, NoChild, PhasesAt, Phases, Emptied
<1>4. LockKnows'
  BY DEF RemovalInv, LockKnows, Erased, Takes, Go, Here, AtRestRun, Waits, Ended, NoChild, Guarded
<1>5. ChildKnows'
  BY DEF RemovalInv, ChildKnows, Erased, Takes, device, Ended, NoChild, Identity
<1>6. ErasureKnows'
  <2>1. removal \in Removal /\ removal # NoRemoval /\ removal.phase = "revoked" /\ ~Touched
    BY Untouched DEF Erased, Here
  <2>2. /\ ~Touched' /\ UNCHANGED <<credential, unit>> /\ child'.at \in Ended
        /\ run'.pc = "clean"
    BY <2>1 DEF Erased, Takes, Go, Touched, device, NoChild, Ended, RemovalInv, RemovalTypeOK
  <2>3. removal'.phase = "revoked"
    BY <2>1 DEF Erased, Takes, Save, Removal
  <2>4. credential = "none" /\ ~unit.up
    BY DEF RemovalInv, ChildKnows, LockKnows, Erased, Here, Guarded
  <2> QED
    BY <2>2, <2>3, <2>4 DEF ErasureKnows
<1> QED
  BY <1>1, <1>2, <1>3, <1>4, <1>5, <1>6 DEF RemovalInv

\* A run that waits no longer leaves the child, which holds the lock.
LEMMA StopsWaitingKeeps ==
    ASSUME RemovalInv, StopsWaiting
    PROVE  RemovalInv'
<1>1. RemovalTypeOK'
  <2>1. run' \in [pc : Points, guard : BOOLEAN]
    BY DEF RemovalInv, RemovalTypeOK, StopsWaiting, Exit, AtRestRun, Points, Waits
  <2>2. events' \in [DOMAIN RemovalLimits -> Nat]
    BY HappensTyped, EventKinds DEF RemovalInv, RemovalTypeOK, StopsWaiting
  <2> QED
    BY <2>1, <2>2 DEF RemovalInv, RemovalTypeOK, Unit, Child, StopsWaiting, files, device, procs
<1>2. JournalKnows'
  BY DEF RemovalInv, RemovalTypeOK, JournalKnows, RequestKnows, LockKnows, ChildKnows,
       ErasureKnows, StopsWaiting, Happens, files, device, procs, Here, Exit, AtRestRun, Removing,
       Waits, Ended, NoRemoval, PhasesAt, Phases, Touched, Emptied, Everything, Singles
<1>3. RequestKnows'
  BY DEF RemovalInv, RemovalTypeOK, JournalKnows, RequestKnows, LockKnows, ChildKnows,
       ErasureKnows, StopsWaiting, Happens, files, device, procs, Here, Exit, AtRestRun, Removing,
       Waits, Ended, NoRemoval, PhasesAt, Phases, Emptied
<1>4. LockKnows'
  BY DEF RemovalInv, RemovalTypeOK, JournalKnows, RequestKnows, LockKnows, ChildKnows,
       ErasureKnows, StopsWaiting, Happens, files, device, procs, Here, Exit, AtRestRun, Removing,
       Waits, Ended, NoRemoval, Guarded
<1>5. ChildKnows'
  BY DEF RemovalInv, ChildKnows, StopsWaiting, device, procs, AtRestRun, Waits, Ended, Identity,
       Replied
<1>6. ErasureKnows'
  BY DEF RemovalInv, RemovalTypeOK, JournalKnows, RequestKnows, LockKnows, ChildKnows,
       ErasureKnows, StopsWaiting, Happens, files, device, procs, Here, Exit, AtRestRun, Removing,
       Waits, Ended, NoRemoval, Touched, Everything, PhasesAt, Phases, Replied
<1> QED
  BY <1>1, <1>2, <1>3, <1>4, <1>5, <1>6 DEF RemovalInv

\* A child that failed ends the run, and nothing else.
LEMMA ChildFailedKeeps ==
    ASSUME RemovalInv, ChildFailed
    PROVE  RemovalInv'
<1>1. RemovalTypeOK'
  BY RemovalAssumption DEF RemovalInv, RemovalTypeOK, ChildFailed, files, device, Exit, AtRestRun,
       Ended, NoRemoval, NoChild, Removal, Phases, Points, ChildPoints, Credentials, Evidence,
       Identities, Everything, Singles
<1>2. JournalKnows'
  BY DEF RemovalInv, JournalKnows, ChildFailed, files, Exit, AtRestRun, NoChild, PhasesAt, Phases,
       Touched, Emptied, Everything, Singles
<1>3. RequestKnows'
  BY DEF RemovalInv, RequestKnows, ChildFailed, files, Here, Exit, AtRestRun, Removing, Waits,
       NoRemoval, NoChild
<1>4. LockKnows'
  BY DEF RemovalInv, LockKnows, ChildFailed, Exit, AtRestRun, Ended, NoChild, Guarded
<1>5. ChildKnows'
  BY DEF RemovalInv, ChildKnows, ChildFailed, device, Ended, NoChild, Identity, Replied
<1>6. ErasureKnows'
  BY DEF RemovalInv, ErasureKnows, ChildFailed, files, device, Exit, AtRestRun, Removing, Waits,
       Ended, NoRemoval, NoChild, Touched, Everything, Replied
<1> QED
  BY <1>1, <1>2, <1>3, <1>4, <1>5, <1>6 DEF RemovalInv

\* The child goes by the credential as it reads it, in the context of its request.
LEMMA ChildReadsKeeps ==
    ASSUME RemovalInv, ChildReads
    PROVE  RemovalInv'
<1>1. RemovalTypeOK'
  <2>1. child' \in Child
    BY DEF RemovalInv, RemovalTypeOK, ChildReads, LogoutPoint, Attested, ChildTo, Child,
         ChildPoints, Ended, Identities, Evidence, Identity, Credentials
  <2> QED
    BY <2>1 DEF RemovalInv, RemovalTypeOK, Unit, Child, ChildReads, LogoutPoint, Attested,
         ChildTo, files, device
<1>2. JournalKnows'
  BY DEF RemovalInv, RemovalTypeOK, JournalKnows, RequestKnows, LockKnows, ChildKnows,
       ErasureKnows, ChildReads, LogoutPoint, Attested, ChildTo, files, device, Here, AtRestRun,
       Removing, Waits, Ended, NoRemoval, PhasesAt, Phases, Touched, Emptied, Everything, Singles
<1>3. RequestKnows'
  BY DEF RemovalInv, RemovalTypeOK, JournalKnows, RequestKnows, LockKnows, ChildKnows,
       ErasureKnows, ChildReads, LogoutPoint, Attested, ChildTo, files, device, Here, AtRestRun,
       Removing, Waits, Ended, NoRemoval, PhasesAt, Phases, Emptied
<1>4. LockKnows'
  BY DEF RemovalInv, RemovalTypeOK, JournalKnows, RequestKnows, LockKnows, ChildKnows,
       ErasureKnows, ChildReads, LogoutPoint, Attested, ChildTo, files, device, Here, AtRestRun,
       Removing, Waits, Ended, NoRemoval, Guarded
<1>5. ChildKnows'
  <2>1. child \in Child /\ UNCHANGED <<run, credential, authority>>
    BY DEF ChildReads, RemovalInv, RemovalTypeOK, Child, device
  <2>2. LogoutPoint \in {"recover", "send", "clear"}
        /\ (LogoutPoint = "recover" => credential = "pending")
        /\ (LogoutPoint = "clear" => credential \notin {"pending", "enrolled"})
    BY DEF LogoutPoint
  <2>3. /\ child'.kind = child.kind /\ child'.at \in Ended \cup {LogoutPoint}
        /\ child'.at \notin Ended => child.kind # "probe"
        /\ child'.at = "answered" => \/ child.kind = "probe" /\ child'.identity = Identity(credential)
                                     \/ child.kind # "probe" /\ credential = "none"
    BY <2>1, <2>2 DEF ChildReads, ChildTo, Child, Ended
  <2>4. authority = "live" => credential \in {"pending", "enrolled"}
    BY DEF RemovalInv, ChildKnows
  <2> QED
    BY <2>1, <2>2, <2>3, <2>4 DEF ChildKnows, Replied, Here, Ended, Identity
<1>6. ErasureKnows'
  BY DEF RemovalInv, RemovalTypeOK, JournalKnows, RequestKnows, LockKnows, ChildKnows,
       ErasureKnows, ChildReads, LogoutPoint, Attested, ChildTo, files, device, Here, AtRestRun,
       Removing, Waits, Ended, NoRemoval, Touched, Everything, PhasesAt, Phases, Replied
<1> QED
  BY <1>1, <1>2, <1>3, <1>4, <1>5, <1>6 DEF RemovalInv

\* A sign-in whose answer is missing is recovered before its device is revoked.
LEMMA ChildRecoversKeeps ==
    ASSUME RemovalInv, ChildRecovers
    PROVE  RemovalInv'
<1>1. RemovalTypeOK'
  <2>1. credential' \in Credentials
    BY DEF RemovalInv, RemovalTypeOK, ChildRecovers, ChildTo, Credentials
  <2>2. authority' \in {"none", "live", "revoked"}
    BY DEF RemovalInv, RemovalTypeOK, ChildRecovers, ChildTo, Credentials
  <2>3. child' \in Child
    BY DEF RemovalInv, RemovalTypeOK, ChildRecovers, ChildTo, Child, ChildPoints, Ended,
         Identities, Evidence, Credentials
  <2>4. events' \in [DOMAIN RemovalLimits -> Nat]
    BY HappensTyped, EventKinds DEF RemovalInv, RemovalTypeOK, ChildRecovers
  <2> QED
    BY <2>1, <2>2, <2>3, <2>4 DEF RemovalInv, RemovalTypeOK, Unit, Child, ChildRecovers, ChildTo,
         files
<1>2. JournalKnows'
  BY DEF RemovalInv, JournalKnows, ChildRecovers, files, Touched, Emptied, Everything, Singles
<1>3. RequestKnows'
  BY DEF RemovalInv, RequestKnows, ChildRecovers, files, Here, Removing
<1>4. LockKnows'
  BY DEF RemovalInv, LockKnows, ChildRecovers, Ended, Guarded
<1>5. ChildKnows'
  BY DEF RemovalInv, RemovalTypeOK, ChildKnows, ChildRecovers, ChildTo, Ended, Identity, Replied
<1>6. ErasureKnows'
  BY DEF RemovalInv, ChildKnows, ErasureKnows, ChildRecovers, ChildTo, files, Removing, Ended,
       NoRemoval, Touched, Everything
<1> QED
  BY <1>1, <1>2, <1>3, <1>4, <1>5, <1>6 DEF RemovalInv

\* The backend revokes the device, whether or not its answer arrives.
LEMMA ChildRevokesKeeps ==
    ASSUME RemovalInv, ChildRevokes
    PROVE  RemovalInv'
<1>1. RemovalTypeOK'
  <2>1. authority' \in {"none", "live", "revoked"}
    BY DEF RemovalInv, RemovalTypeOK, ChildRevokes, ChildTo, Credentials
  <2>2. child' \in Child
    BY DEF RemovalInv, RemovalTypeOK, ChildRevokes, ChildTo, Child, ChildPoints, Ended,
         Identities, Evidence, Credentials
  <2>3. events' \in [DOMAIN RemovalLimits -> Nat]
    BY HappensTyped, EventKinds DEF RemovalInv, RemovalTypeOK, ChildRevokes
  <2> QED
    BY <2>1, <2>2, <2>3 DEF RemovalInv, RemovalTypeOK, Unit, Child, ChildRevokes, ChildTo, files
<1>2. JournalKnows'
  BY DEF RemovalInv, JournalKnows, ChildRevokes, files, Touched, Emptied, Everything, Singles
<1>3. RequestKnows'
  BY DEF RemovalInv, RequestKnows, ChildRevokes, files, Here, Removing
<1>4. LockKnows'
  BY DEF RemovalInv, LockKnows, ChildRevokes, Ended, Guarded
<1>5. ChildKnows'
  BY DEF RemovalInv, RemovalTypeOK, ChildKnows, ChildRevokes, ChildTo, Ended, Identity, Replied
<1>6. ErasureKnows'
  BY DEF RemovalInv, RemovalTypeOK, ErasureKnows, ChildRevokes, ChildTo, files, Removing, Ended,
       NoRemoval, Touched, Everything
<1> QED
  BY <1>1, <1>2, <1>3, <1>4, <1>5, <1>6 DEF RemovalInv

\* The evidence of the revocation replaces the credential.
LEMMA ChildSavesEvidenceKeeps ==
    ASSUME RemovalInv, ChildSavesEvidence
    PROVE  RemovalInv'
<1>1. RemovalTypeOK'
  <2>1. credential' \in Credentials
    BY DEF RemovalInv, RemovalTypeOK, ChildSavesEvidence, Credentials
  <2>2. child' \in Child
    BY DEF RemovalInv, RemovalTypeOK, ChildSavesEvidence, Child, ChildPoints, Ended, Identities,
         Evidence, Credentials
  <2> QED
    BY <2>1, <2>2 DEF RemovalInv, RemovalTypeOK, Unit, Child, ChildSavesEvidence, files
<1>2. JournalKnows'
  BY DEF RemovalInv, JournalKnows, ChildSavesEvidence, files, Touched, Singles
<1>3. RequestKnows'
  BY DEF RemovalInv, RequestKnows, ChildSavesEvidence, files, Here, Removing
<1>4. LockKnows'
  BY DEF RemovalInv, LockKnows, ChildSavesEvidence, Ended
<1>5. ChildKnows'
  BY DEF RemovalInv, ChildKnows, ChildSavesEvidence, Ended, Replied
<1>6. ErasureKnows'
  BY DEF RemovalInv, ChildKnows, ErasureKnows, ChildSavesEvidence, files, Removing, Ended,
       NoRemoval, Touched, Everything
<1> QED
  BY <1>1, <1>2, <1>3, <1>4, <1>5, <1>6 DEF RemovalInv

\* What is cleared is a credential whose device is not alive.
LEMMA ClearsKeeps ==
    ASSUME RemovalInv, Clears
    PROVE  RemovalInv'
<1>1. RemovalTypeOK'
  <2>1. credential' \in Credentials
    BY DEF RemovalInv, RemovalTypeOK, Clears, Attested, Credentials
  <2>2. child' \in Child
    BY DEF RemovalInv, RemovalTypeOK, Clears, Attested, Child, ChildPoints, Ended, Identities,
         Evidence, Identity, Credentials
  <2> QED
    BY <2>1, <2>2 DEF RemovalInv, RemovalTypeOK, Unit, Child, Clears, Attested, files
<1>2. JournalKnows'
  BY DEF RemovalInv, JournalKnows, Clears, files, Touched, Everything, Singles
<1>3. RequestKnows'
  BY DEF RemovalInv, RequestKnows, Clears, files, Here, Removing
<1>4. LockKnows'
  BY DEF RemovalInv, LockKnows, Clears, Ended
<1>5. ChildKnows'
  BY DEF RemovalInv, ChildKnows, Clears, Ended, Replied
<1>6. ErasureKnows'
  BY DEF RemovalInv, ChildKnows, ErasureKnows, Clears, files, Removing, Ended, NoRemoval, Touched,
       Everything
<1> QED
  BY <1>1, <1>2, <1>3, <1>4, <1>5, <1>6 DEF RemovalInv

\* What is deleted is a credential whose device is not alive.
LEMMA DeletesKeeps ==
    ASSUME RemovalInv, Deletes
    PROVE  RemovalInv'
<1>1. RemovalTypeOK'
  BY RemovalAssumption DEF RemovalInv, RemovalTypeOK, Deletes, ChildTo, files, Ended, Removal,
       Phases, Points, ChildPoints, Credentials, Evidence, Identities, Everything, Singles
<1>2. JournalKnows'
  BY DEF RemovalInv, JournalKnows, Deletes, files, Touched, Everything, Singles
<1>3. RequestKnows'
  BY DEF RemovalInv, RequestKnows, Deletes, files, Here, Removing
<1>4. LockKnows'
  BY DEF RemovalInv, LockKnows, Deletes, Ended
<1>5. ChildKnows'
  BY DEF RemovalInv, ChildKnows, Deletes, ChildTo, Ended, Replied
<1>6. ErasureKnows'
  BY DEF RemovalInv, ErasureKnows, Deletes, ChildTo, files, Removing, Ended, Touched, Everything
<1> QED
  BY <1>1, <1>2, <1>3, <1>4, <1>5, <1>6 DEF RemovalInv

\* A child that dies has ended: its run will hear of no answer.
LEMMA ChildCrashesKeeps ==
    ASSUME RemovalInv, ChildCrashes
    PROVE  RemovalInv'
<1>1. RemovalTypeOK'
  <2>1. child' \in Child
    BY DEF RemovalInv, RemovalTypeOK, ChildCrashes, ChildTo, Child, ChildPoints, Ended,
         Identities, Evidence, Credentials
  <2>2. events' \in [DOMAIN RemovalLimits -> Nat]
    BY HappensTyped, EventKinds DEF RemovalInv, RemovalTypeOK, ChildCrashes
  <2> QED
    BY <2>1, <2>2 DEF RemovalInv, RemovalTypeOK, Unit, Child, ChildCrashes, ChildTo, files, device
<1>2. JournalKnows'
  BY DEF RemovalInv, JournalKnows, ChildCrashes, files, Phases, Touched, Emptied, Everything,
       Singles
<1>3. RequestKnows'
  BY DEF RemovalInv, RequestKnows, ChildCrashes, files, Here, Removing, Ended, NoRemoval
<1>4. LockKnows'
  BY DEF RemovalInv, LockKnows, ChildCrashes, Ended, Guarded
<1>5. ChildKnows'
  BY DEF RemovalInv, RemovalTypeOK, ChildKnows, ChildCrashes, ChildTo, device, Ended, Identity,
       Replied
<1>6. ErasureKnows'
  BY DEF RemovalInv, RemovalTypeOK, JournalKnows, RequestKnows, LockKnows, ChildKnows,
       ErasureKnows, ChildCrashes, Happens, ChildTo, files, device, Here, AtRestRun, Removing,
       Waits, Ended, NoRemoval, Touched, Everything, PhasesAt, Phases, Replied
<1> QED
  BY <1>1, <1>2, <1>3, <1>4, <1>5, <1>6 DEF RemovalInv

\* The last phase begins when the revocation and the deletion are on record.
LEMMA CleansKeeps ==
    ASSUME RemovalInv, Cleans
    PROVE  RemovalInv'
<1>1. RemovalTypeOK'
  BY RemovalAssumption DEF RemovalInv, RemovalTypeOK, Cleans, files, device, procs, Go, Save,
       SaveIn, Waits, Ended, NoRemoval, Removal, Phases, Points, ChildPoints, Credentials,
       Evidence, Identities, Everything, Singles
<1>2. JournalKnows'
  BY DEF RemovalInv, JournalKnows, Cleans, Go, Save, SaveIn, PhasesAt, Phases, Touched, Emptied,
       Everything, Singles
<1>3. RequestKnows'
  BY DEF RemovalInv, RequestKnows, Cleans, procs, Go, Here, Save, SaveIn, Removing, NoRemoval
<1>4. LockKnows'
  BY DEF RemovalInv, LockKnows, Cleans, procs, Go, Here, SaveIn, AtRestRun, Waits, Ended, Guarded
<1>5. ChildKnows'
  BY DEF RemovalInv, ChildKnows, Cleans, device, procs, Go, Here, SaveIn, Ended, Identity, Replied
<1>6. ErasureKnows'
  <2>1. /\ removal \in Removal /\ removal # NoRemoval /\ removal.erased
    BY JournalThere DEF Cleans, Here, Points
  <2>2. removal'.phase = "cleanup" /\ removal'.erased
    BY <2>1 DEF Cleans, SaveIn, Save, Removal
  <2>3. run'.pc = "trees" /\ UNCHANGED <<credential, unit, child>>
    BY DEF Cleans, Go, RemovalInv, RemovalTypeOK, device, procs
  <2>4. child.at \in Ended
    BY DEF RemovalInv, LockKnows, Cleans, Here, Guarded, Waits
  <2> QED
    BY <2>1, <2>2, <2>3, <2>4 DEF RemovalInv, ErasureKnows, Removing
<1> QED
  BY <1>1, <1>2, <1>3, <1>4, <1>5, <1>6 DEF RemovalInv

\* A version directory is moved, recorded, marked and deleted in the last phase.
LEMMA RemovesTreeKeeps ==
    ASSUME RemovalInv, RemovesTree
    PROVE  RemovalInv'
<1>a. Here("trees") /\ Go("trees") /\ UNCHANGED <<device, procs, events>>
  BY DEF RemovesTree, DiskStep
<1>b. removal \in Removal /\ removal # NoRemoval /\ removal.phase = "cleanup"
  BY <1>a, JournalThere DEF Here, Points, PhasesAt, Emptied
<1>c. UNCHANGED <<closing, fence, helper, context, halted, kept, staged>>
  BY DEF RemovesTree, Moves, RecordsMove, RecordsDeletion, DeletesTree, Tree, files
<1>d. PICK t \in Trees : Moves(t) \/ RecordsMove(t) \/ RecordsDeletion(t) \/ DeletesTree(t)
  BY DEF RemovesTree
<1>e. tree' \in [Trees -> {"installed", "moved", "partial", "gone"}]
  <2>1. tree' = tree \/ \E s \in {"moved", "partial", "gone"} : tree' = [tree EXCEPT ![t] = s]
    BY <1>d DEF Moves, RecordsMove, RecordsDeletion, DeletesTree, Tree, files
  <2> QED
    BY <2>1 DEF RemovalInv, RemovalTypeOK
<1>f. /\ removal' \in Removal /\ removal'.phase = removal.phase
      /\ removal'.request = removal.request /\ removal'.erased = removal.erased
      /\ removal'.pid = removal.pid
  <2>1. CASE removal' = removal
    BY <1>b, <2>1
  <2>2. CASE removal' = [removal EXCEPT !.moved = @ \cup {t}]
    BY <1>b, <1>d, <2>2 DEF Removal
  <2>3. CASE removal' = [removal EXCEPT !.deleting = @ \cup {t}]
    BY <1>b, <1>d, <2>3 DEF Removal
  <2> QED
    BY <1>d, <2>1, <2>2, <2>3 DEF Moves, RecordsMove, RecordsDeletion, DeletesTree, Tree, Save
<1>g. removal' # NoRemoval
  BY <1>f, <1>b DEF NoRemoval, Removal, Phases
<1>h. run' = run
  BY <1>a DEF Here, Go, RemovalInv, RemovalTypeOK
<1>1. RemovalTypeOK'
  BY <1>a, <1>c, <1>e, <1>f, <1>h DEF RemovalInv, RemovalTypeOK, device, procs
<1>2. JournalKnows'
  BY <1>a, <1>b, <1>c, <1>f, <1>h DEF RemovalInv, JournalKnows, Here, Emptied
<1>3. RequestKnows'
  BY <1>a, <1>b, <1>c, <1>f, <1>g, <1>h DEF RemovalInv, RequestKnows, Removing, Here, procs
<1>4. LockKnows'
  BY <1>a, <1>c, <1>h DEF RemovalInv, LockKnows, device, procs
<1>5. ChildKnows'
  BY <1>a, <1>c, <1>h DEF RemovalInv, ChildKnows, Replied, Here, device, procs
<1>6. ErasureKnows'
  BY <1>a, <1>b, <1>c, <1>f, <1>g, <1>h DEF RemovalInv, ErasureKnows, Removing, Here, device,
       procs
<1> QED
  BY <1>1, <1>2, <1>3, <1>4, <1>5, <1>6 DEF RemovalInv

\* All version directories are gone and recorded as moved.
LEMMA TreesGoneKeeps ==
    ASSUME RemovalInv, TreesGone
    PROVE  RemovalInv'
<1>1. RemovalTypeOK'
  BY RemovalAssumption DEF RemovalInv, RemovalTypeOK, TreesGone, DiskStep, files, device, procs,
       Go, Here, Removing, Waits, Ended, NoRemoval, Removal, Phases, Points, ChildPoints,
       Credentials, Evidence, Identities, Everything, Singles
<1>2. JournalKnows'
  BY DEF RemovalInv, JournalKnows, TreesGone, DiskStep, Go, Here, Removing, NoRemoval, PhasesAt,
       Phases, Touched, Emptied, Everything, Singles
<1>3. RequestKnows'
  BY DEF RemovalInv, RequestKnows, TreesGone, DiskStep, files, procs, Go, Here, Removing,
       NoRemoval
<1>4. LockKnows'
  BY DEF RemovalInv, LockKnows, TreesGone, DiskStep, procs, Go, Here, AtRestRun, Removing, Waits,
       Ended, NoRemoval, Guarded
<1>5. ChildKnows'
  BY DEF RemovalInv, ChildKnows, TreesGone, DiskStep, device, procs, Go, Here, Removing, Ended,
       NoRemoval, Identity, Replied
<1>6. ErasureKnows'
  BY DEF RemovalInv, ErasureKnows, TreesGone, DiskStep, files, device, procs, Go, Here, Removing,
       Ended, NoRemoval, Touched, Everything
<1> QED
  BY <1>1, <1>2, <1>3, <1>4, <1>5, <1>6 DEF RemovalInv

\* The removal of the staged payload is recorded first.
LEMMA UnstagesKeeps ==
    ASSUME RemovalInv, Unstages
    PROVE  RemovalInv'
<1>1. RemovalTypeOK'
  <2>1. removal' \in Removal \cup {NoRemoval}
    BY JournalThere DEF RemovalInv, RemovalTypeOK, Unstages, DiskStep, Go, Here, Save, Waits,
         Points, Removal, Phases, Evidence, Identities
  <2>2. run' \in [pc : Points, guard : BOOLEAN]
    BY DEF RemovalInv, RemovalTypeOK, Unstages, DiskStep, Go, Here, Save, Points, Waits
  <2> QED
    BY <2>1, <2>2 DEF RemovalInv, RemovalTypeOK, Unit, Child, Unstages, DiskStep, files, device,
         procs
<1>2. JournalKnows'
  BY DEF RemovalInv, JournalKnows, Unstages, DiskStep, Go, Here, Save, PhasesAt, Phases, Touched,
       Emptied, Everything, Singles
<1>3. RequestKnows'
  BY DEF RemovalInv, RemovalTypeOK, JournalKnows, RequestKnows, LockKnows, ChildKnows,
       ErasureKnows, Unstages, DiskStep, files, device, procs, Go, Here, Save, AtRestRun,
       Removing, Waits, Ended, NoRemoval, PhasesAt, Phases, Emptied
<1>4. LockKnows'
  BY DEF RemovalInv, LockKnows, Unstages, DiskStep, procs, Go, Here, Save, AtRestRun, Waits,
       Ended, Guarded
<1>5. ChildKnows'
  BY DEF RemovalInv, ChildKnows, Unstages, DiskStep, device, procs, Go, Here, Save, Ended,
       Identity, Replied
<1>6. ErasureKnows'
  BY DEF RemovalInv, ErasureKnows, Unstages, DiskStep, files, device, procs, Go, Save, Removing,
       Ended, NoRemoval, Touched, Everything
<1> QED
  BY <1>1, <1>2, <1>3, <1>4, <1>5, <1>6 DEF RemovalInv

\* The staged payload is removed.
LEMMA RemovesStageKeeps ==
    ASSUME RemovalInv, RemovesStage
    PROVE  RemovalInv'
<1>1. RemovalTypeOK'
  <2>1. {fence', helper', context', staged'} \subseteq BOOLEAN /\ halted' \in Marker
    BY DEF RemovalInv, RemovalTypeOK, RemovesStage, DiskStep, Go, Here
  <2>2. run' \in [pc : Points, guard : BOOLEAN]
    BY DEF RemovalInv, RemovalTypeOK, RemovesStage, DiskStep, Go, Here, Points, Waits
  <2> QED
    BY <2>1, <2>2 DEF RemovalInv, RemovalTypeOK, Unit, Child, RemovesStage, DiskStep, device,
         procs
<1>2. JournalKnows'
  BY DEF RemovalInv, JournalKnows, RemovesStage, DiskStep, Go, Here, PhasesAt, Phases, Touched,
       Emptied, Everything, Singles
<1>3. RequestKnows'
  BY DEF RemovalInv, RequestKnows, RemovesStage, DiskStep, procs, Go, Here, Removing, NoRemoval
<1>4. LockKnows'
  BY DEF RemovalInv, LockKnows, RemovesStage, DiskStep, procs, Go, Here, Waits, Ended, Guarded
<1>5. ChildKnows'
  BY DEF RemovalInv, ChildKnows, RemovesStage, DiskStep, device, procs, Go, Here, Identity,
       Replied
<1>6. ErasureKnows'
  BY DEF RemovalInv, ErasureKnows, RemovesStage, DiskStep, device, procs, Go, Removing, Ended,
       NoRemoval, Touched, Everything
<1> QED
  BY <1>1, <1>2, <1>3, <1>4, <1>5, <1>6 DEF RemovalInv

\* The configuration of the service is removed.
LEMMA RemovesAgentKeeps ==
    ASSUME RemovalInv, RemovesAgent
    PROVE  RemovalInv'
<1>1. RemovalTypeOK'
  BY RemovalAssumption DEF RemovalInv, RemovalTypeOK, RemovesAgent, DiskStep, Unlinks, device,
       procs, Go, Waits, Ended, NoRemoval, Removal, Phases, Points, ChildPoints, Credentials,
       Evidence, Identities, Everything, Singles
<1>2. JournalKnows'
  BY DEF RemovalInv, JournalKnows, RemovesAgent, DiskStep, Unlinks, Go, Here, PhasesAt, Phases,
       Touched, Emptied, Everything, Singles
<1>3. RequestKnows'
  BY DEF RemovalInv, RequestKnows, RemovesAgent, DiskStep, Unlinks, procs, Go, Here, Removing,
       NoRemoval
<1>4. LockKnows'
  BY DEF RemovalInv, LockKnows, RemovesAgent, DiskStep, procs, Go, Here, AtRestRun, Waits, Ended,
       Guarded
<1>5. ChildKnows'
  BY DEF RemovalInv, ChildKnows, RemovesAgent, DiskStep, device, procs, Go, Here, Ended, Identity,
       Replied
<1>6. ErasureKnows'
  BY DEF RemovalInv, RemovalTypeOK, JournalKnows, RequestKnows, LockKnows, ChildKnows,
       ErasureKnows, RemovesAgent, DiskStep, Unlinks, device, procs, Go, Here, AtRestRun,
       Removing, Waits, Ended, NoRemoval, Touched, Everything, PhasesAt, Phases, Replied
<1> QED
  BY <1>1, <1>2, <1>3, <1>4, <1>5, <1>6 DEF RemovalInv

\* The emptying of the state directory is recorded first.
LEMMA StartsEmptyingKeeps ==
    ASSUME RemovalInv, StartsEmptying
    PROVE  RemovalInv'
<1>1. RemovalTypeOK'
  <2>1. removal' \in Removal \cup {NoRemoval}
    BY JournalThere DEF RemovalInv, RemovalTypeOK, StartsEmptying, DiskStep, Go, Here, Save,
         Waits, Points, Removal, Phases, Evidence, Identities
  <2>2. run' \in [pc : Points, guard : BOOLEAN]
    BY DEF RemovalInv, RemovalTypeOK, StartsEmptying, DiskStep, Go, Here, Save, Points, Waits
  <2> QED
    BY <2>1, <2>2 DEF RemovalInv, RemovalTypeOK, Unit, Child, StartsEmptying, DiskStep, files,
         device, procs
<1>2. JournalKnows'
  BY DEF RemovalInv, JournalKnows, StartsEmptying, DiskStep, Go, Here, Save, PhasesAt, Phases,
       Touched, Emptied, Everything, Singles
<1>3. RequestKnows'
  BY DEF RemovalInv, RemovalTypeOK, JournalKnows, RequestKnows, LockKnows, ChildKnows,
       ErasureKnows, StartsEmptying, DiskStep, files, device, procs, Go, Here, Save, AtRestRun,
       Removing, Waits, Ended, NoRemoval, PhasesAt, Phases, Emptied
<1>4. LockKnows'
  BY DEF RemovalInv, LockKnows, StartsEmptying, DiskStep, procs, Go, Here, Save, AtRestRun, Waits,
       Ended, Guarded
<1>5. ChildKnows'
  BY DEF RemovalInv, ChildKnows, StartsEmptying, DiskStep, device, procs, Go, Here, Save, Ended,
       Identity, Replied
<1>6. ErasureKnows'
  BY DEF RemovalInv, ErasureKnows, StartsEmptying, DiskStep, files, device, procs, Go, Save,
       Removing, Ended, NoRemoval, Touched, Everything
<1> QED
  BY <1>1, <1>2, <1>3, <1>4, <1>5, <1>6 DEF RemovalInv

\* The files of the state directory are removed one by one.
LEMMA RemovesStateKeeps ==
    ASSUME RemovalInv, RemovesState
    PROVE  RemovalInv'
<1>1. RemovalTypeOK'
  <2>1. {fence', helper', context', staged'} \subseteq BOOLEAN /\ halted' \in Marker
    BY DEF RemovalInv, RemovalTypeOK, RemovesState, Unlinks, Marker
  <2>2. kept' \subseteq Everything
    BY DEF RemovalInv, RemovalTypeOK, RemovesState, DiskStep, Unlinks, Go, Here, Everything,
         Singles
  <2>3. run' \in [pc : Points, guard : BOOLEAN]
    BY DEF RemovalInv, RemovalTypeOK, RemovesState, DiskStep, Unlinks, Go, Here, Points, Waits
  <2> QED
    BY <2>1, <2>2, <2>3 DEF RemovalInv, RemovalTypeOK, Unit, Child, RemovesState, DiskStep,
         Unlinks, device, procs
<1>2. JournalKnows'
  BY DEF RemovalInv, JournalKnows, RemovesState, DiskStep, Unlinks, Go, Here, PhasesAt, Phases,
       Touched, Emptied, Everything, Singles
<1>3. RequestKnows'
  BY DEF RemovalInv, RequestKnows, RemovesState, DiskStep, Unlinks, procs, Go, Here, Removing,
       NoRemoval
<1>4. LockKnows'
  BY DEF RemovalInv, LockKnows, RemovesState, DiskStep, procs, Go, Here, AtRestRun, Waits, Ended,
       Guarded
<1>5. ChildKnows'
  BY DEF RemovalInv, ChildKnows, RemovesState, DiskStep, device, procs, Go, Here, Ended, Identity,
       Replied
<1>6. ErasureKnows'
  BY DEF RemovalInv, RemovalTypeOK, JournalKnows, RequestKnows, LockKnows, ChildKnows,
       ErasureKnows, RemovesState, DiskStep, Unlinks, device, procs, Go, Here, AtRestRun,
       Removing, Waits, Ended, NoRemoval, Touched, Everything, PhasesAt, Phases, Replied
<1> QED
  BY <1>1, <1>2, <1>3, <1>4, <1>5, <1>6 DEF RemovalInv

\* The pointer is removed last of the installation.
LEMMA RemovesCurrentKeeps ==
    ASSUME RemovalInv, RemovesCurrent
    PROVE  RemovalInv'
<1>1. RemovalTypeOK'
  BY RemovalAssumption DEF RemovalInv, RemovalTypeOK, RemovesCurrent, DiskStep, Unlinks, device,
       procs, Go, Waits, Ended, NoRemoval, Removal, Phases, Points, ChildPoints, Credentials,
       Evidence, Identities, Everything, Singles
<1>2. JournalKnows'
  BY DEF RemovalInv, JournalKnows, RemovesCurrent, DiskStep, Unlinks, Go, Here, PhasesAt, Phases,
       Touched, Emptied, Everything, Singles
<1>3. RequestKnows'
  BY DEF RemovalInv, RequestKnows, RemovesCurrent, DiskStep, Unlinks, procs, Go, Here, Removing,
       NoRemoval
<1>4. LockKnows'
  BY DEF RemovalInv, LockKnows, RemovesCurrent, DiskStep, procs, Go, Here, AtRestRun, Waits,
       Ended, Guarded
<1>5. ChildKnows'
  BY DEF RemovalInv, ChildKnows, RemovesCurrent, DiskStep, device, procs, Go, Here, Ended,
       Identity, Replied
<1>6. ErasureKnows'
  BY DEF RemovalInv, RemovalTypeOK, JournalKnows, RequestKnows, LockKnows, ChildKnows,
       ErasureKnows, RemovesCurrent, DiskStep, Unlinks, device, procs, Go, Here, AtRestRun,
       Removing, Waits, Ended, NoRemoval, Touched, Everything, PhasesAt, Phases, Replied
<1> QED
  BY <1>1, <1>2, <1>3, <1>4, <1>5, <1>6 DEF RemovalInv

\* The receipts are removed after the pointer.
LEMMA RemovesReceiptsKeeps ==
    ASSUME RemovalInv, RemovesReceipts
    PROVE  RemovalInv'
<1>1. RemovalTypeOK'
  <2>1. kept' \subseteq Everything
    BY DEF RemovalInv, RemovalTypeOK, RemovesReceipts, DiskStep, Unlinks, Go, Here, Everything,
         Singles
  <2>2. run' \in [pc : Points, guard : BOOLEAN]
    BY DEF RemovalInv, RemovalTypeOK, RemovesReceipts, DiskStep, Unlinks, Go, Here, Points, Waits
  <2> QED
    BY <2>1, <2>2 DEF RemovalInv, RemovalTypeOK, Unit, Child, RemovesReceipts, DiskStep, Unlinks,
         device, procs
<1>2. JournalKnows'
  BY DEF RemovalInv, RemovalTypeOK, JournalKnows, RequestKnows, LockKnows, ChildKnows,
       ErasureKnows, RemovesReceipts, DiskStep, Unlinks, device, procs, Go, Here, AtRestRun,
       Removing, Waits, Ended, NoRemoval, PhasesAt, Phases, Touched, Emptied, Everything, Singles
<1>3. RequestKnows'
  BY DEF RemovalInv, RemovalTypeOK, RequestKnows, RemovesReceipts, DiskStep, Unlinks, procs, Go,
       Here, Removing, NoRemoval
<1>4. LockKnows'
  BY DEF RemovalInv, RemovalTypeOK, LockKnows, RemovesReceipts, DiskStep, procs, Go, Here,
       AtRestRun, Waits, Ended, Guarded
<1>5. ChildKnows'
  BY DEF RemovalInv, RemovalTypeOK, ChildKnows, RemovesReceipts, DiskStep, device, procs, Go,
       Here, Ended, Identity, Replied
<1>6. ErasureKnows'
  <2>1. removal.phase = "cleanup"
    BY JournalThere DEF RemovesReceipts, Here, Points, PhasesAt, Emptied
  <2>2. UNCHANGED <<removal, credential, unit, child>>
    BY DEF RemovesReceipts, Unlinks, DiskStep, device, procs
  <2>3. run'.pc \in {"receipts", "mark"}
    BY DEF RemovesReceipts, DiskStep, Go, RemovalInv, RemovalTypeOK
  <2> QED
    BY <2>1, <2>2, <2>3 DEF RemovalInv, ErasureKnows, Removing
<1> QED
  BY <1>1, <1>2, <1>3, <1>4, <1>5, <1>6 DEF RemovalInv

\* The marker of the end is written before the journal goes.
LEMMA MarksKeeps ==
    ASSUME RemovalInv, Marks
    PROVE  RemovalInv'
<1>1. RemovalTypeOK'
  BY RemovalAssumption DEF RemovalInv, RemovalTypeOK, Marks, DiskStep, device, procs, Go, Ended,
       NoRemoval, Removal, Phases, Points, ChildPoints, Credentials, Evidence, Identities,
       Everything, Singles
<1>2. JournalKnows'
  BY DEF RemovalInv, JournalKnows, Marks, DiskStep, Go, Here, PhasesAt, Phases, Touched, Emptied,
       Everything, Singles
<1>3. RequestKnows'
  BY DEF RemovalInv, RequestKnows, Marks, DiskStep, procs, Go, Here, Removing, NoRemoval
<1>4. LockKnows'
  BY DEF RemovalInv, LockKnows, Marks, DiskStep, procs, Go, Here, Waits, Ended, Guarded
<1>5. ChildKnows'
  BY DEF RemovalInv, ChildKnows, Marks, DiskStep, device, procs, Go, Here, Identity, Replied
<1>6. ErasureKnows'
  BY DEF RemovalInv, ErasureKnows, Marks, DiskStep, device, procs, Go, Removing, Ended, NoRemoval,
       Touched, Everything
<1> QED
  BY <1>1, <1>2, <1>3, <1>4, <1>5, <1>6 DEF RemovalInv

\* The journal goes when only the marker is needed.
LEMMA RemovesJournalKeeps ==
    ASSUME RemovalInv, RemovesJournal
    PROVE  RemovalInv'
<1>1. RemovalTypeOK'
  BY RemovalAssumption DEF RemovalInv, RemovalTypeOK, RemovesJournal, DiskStep, files, device,
       procs, Go, Save, Waits, Ended, NoRemoval, Removal, Phases, Points, ChildPoints,
       Credentials, Evidence, Identities, Everything, Singles
<1>2. JournalKnows'
  BY DEF RemovalInv, JournalKnows, RemovesJournal, DiskStep, files, Go, Here, Save, NoRemoval,
       PhasesAt, Phases, Touched, Emptied, Everything, Singles
<1>3. RequestKnows'
  BY DEF RemovalInv, RemovalTypeOK, JournalKnows, RequestKnows, LockKnows, ChildKnows,
       ErasureKnows, RemovesJournal, DiskStep, files, device, procs, Go, Here, Save, AtRestRun,
       Removing, Waits, Ended, NoRemoval, PhasesAt, Phases, Emptied
<1>4. LockKnows'
  BY DEF RemovalInv, LockKnows, RemovesJournal, DiskStep, procs, Go, Here, Save, AtRestRun, Waits,
       Ended, NoRemoval, Guarded
<1>5. ChildKnows'
  BY DEF RemovalInv, ChildKnows, RemovesJournal, DiskStep, device, procs, Go, Here, Save, Ended,
       NoRemoval, Identity, Replied
<1>6. ErasureKnows'
  BY DEF RemovalInv, ErasureKnows, RemovesJournal, DiskStep, files, device, procs, Go, Save,
       Removing, Ended, NoRemoval, Touched, Everything
<1> QED
  BY <1>1, <1>2, <1>3, <1>4, <1>5, <1>6 DEF RemovalInv

\* The marker alone takes a run to the end.
LEMMA FinishesKeeps ==
    ASSUME RemovalInv, Finishes
    PROVE  RemovalInv'
<1>1. RemovalTypeOK'
  BY RemovalAssumption DEF RemovalInv, RemovalTypeOK, Finishes, files, device, procs, Go, Waits,
       Ended, NoRemoval, Removal, Phases, Points, ChildPoints, Credentials, Evidence, Identities,
       Everything, Singles
<1>2. JournalKnows'
  BY DEF RemovalInv, JournalKnows, Finishes, files, Go, Removing, NoRemoval, PhasesAt, Phases,
       Touched, Emptied, Everything, Singles
<1>3. RequestKnows'
  BY DEF RemovalInv, RequestKnows, Finishes, files, procs, Go, Here, Removing, NoRemoval
<1>4. LockKnows'
  BY DEF RemovalInv, LockKnows, Finishes, procs, Go, Here, Removing, Waits, Ended, NoRemoval,
       Guarded
<1>5. ChildKnows'
  BY DEF RemovalInv, ChildKnows, Finishes, device, procs, Go, Here, Ended, NoRemoval, Identity,
       Replied
<1>6. ErasureKnows'
  BY DEF RemovalInv, ErasureKnows, Finishes, files, device, procs, Go, Removing, Ended, NoRemoval,
       Touched, Everything
<1> QED
  BY <1>1, <1>2, <1>3, <1>4, <1>5, <1>6 DEF RemovalInv

\* The helper is removed under the lock.
LEMMA RemovesHelperKeeps ==
    ASSUME RemovalInv, RemovesHelper
    PROVE  RemovalInv'
<1>1. RemovalTypeOK'
  <2>1. {fence', helper', context', staged'} \subseteq BOOLEAN /\ halted' \in Marker
    BY DEF RemovalInv, RemovalTypeOK, RemovesHelper, Unloaded, Here
  <2>2. run' \in [pc : Points, guard : BOOLEAN]
    BY DEF RemovalInv, RemovalTypeOK, RemovesHelper, Unloaded, Here, Points, Waits
  <2> QED
    BY <2>1, <2>2 DEF RemovalInv, RemovalTypeOK, Unit, Child, RemovesHelper, Unloaded, device,
         procs
<1>2. JournalKnows'
  BY DEF RemovalInv, JournalKnows, RemovesHelper, Here, PhasesAt, Phases, Touched, Emptied,
       Everything, Singles
<1>3. RequestKnows'
  BY DEF RemovalInv, RequestKnows, RemovesHelper, procs, Here, Removing, Ended, NoRemoval
<1>4. LockKnows'
  BY DEF RemovalInv, LockKnows, RemovesHelper, Unloaded, procs, Here, LockFree, Waits, Ended,
       Guarded
<1>5. ChildKnows'
  BY DEF RemovalInv, ChildKnows, RemovesHelper, device, procs, Here, Identity, Replied
<1>6. ErasureKnows'
  BY DEF RemovalInv, ErasureKnows, RemovesHelper, device, procs, Removing, Ended, NoRemoval,
       Touched, Everything
<1> QED
  BY <1>1, <1>2, <1>3, <1>4, <1>5, <1>6 DEF RemovalInv

\* The fence is removed after the helper.
LEMMA RemovesFenceKeeps ==
    ASSUME RemovalInv, RemovesFence
    PROVE  RemovalInv'
<1>1. RemovalTypeOK'
  <2>1. {fence', helper', context', staged'} \subseteq BOOLEAN /\ halted' \in Marker
    BY DEF RemovalInv, RemovalTypeOK, RemovesFence, DiskStep, Go, Here
  <2>2. run' \in [pc : Points, guard : BOOLEAN]
    BY DEF RemovalInv, RemovalTypeOK, RemovesFence, DiskStep, Go, Here, Points, Waits
  <2> QED
    BY <2>1, <2>2 DEF RemovalInv, RemovalTypeOK, Unit, Child, RemovesFence, DiskStep, device,
         procs
<1>2. JournalKnows'
  BY DEF RemovalInv, JournalKnows, RemovesFence, DiskStep, Go, Here, PhasesAt, Phases, Touched,
       Emptied, Everything, Singles
<1>3. RequestKnows'
  BY DEF RemovalInv, RequestKnows, RemovesFence, DiskStep, procs, Go, Here, Removing, NoRemoval
<1>4. LockKnows'
  BY DEF RemovalInv, LockKnows, RemovesFence, DiskStep, procs, Go, Here, Waits, Ended, Guarded
<1>5. ChildKnows'
  BY DEF RemovalInv, ChildKnows, RemovesFence, DiskStep, device, procs, Go, Here, Identity,
       Replied
<1>6. ErasureKnows'
  BY DEF RemovalInv, ErasureKnows, RemovesFence, DiskStep, device, procs, Go, Removing, Ended,
       NoRemoval, Touched, Everything
<1> QED
  BY <1>1, <1>2, <1>3, <1>4, <1>5, <1>6 DEF RemovalInv

\* The marker is removed last.
LEMMA UnmarksKeeps ==
    ASSUME RemovalInv, Unmarks
    PROVE  RemovalInv'
<1>1. RemovalTypeOK'
  BY RemovalAssumption DEF RemovalInv, RemovalTypeOK, Unmarks, device, procs, Exit, AtRestRun,
       Ended, NoRemoval, Removal, Phases, Points, ChildPoints, Credentials, Evidence, Identities,
       Everything, Singles
<1>2. JournalKnows'
  BY DEF RemovalInv, JournalKnows, Unmarks, Exit, AtRestRun, PhasesAt, Phases, Touched, Emptied,
       Everything, Singles
<1>3. RequestKnows'
  BY DEF RemovalInv, RequestKnows, Unmarks, procs, Here, Exit, AtRestRun, Removing, NoRemoval
<1>4. LockKnows'
  BY DEF RemovalInv, LockKnows, Unmarks, procs, Exit, AtRestRun, Ended, Guarded
<1>5. ChildKnows'
  BY DEF RemovalInv, ChildKnows, Unmarks, device, procs, Here, Exit, AtRestRun, Identity, Replied
<1>6. ErasureKnows'
  BY DEF RemovalInv, ErasureKnows, Unmarks, device, procs, Exit, AtRestRun, Removing, Ended,
       NoRemoval, Touched, Everything
<1> QED
  BY <1>1, <1>2, <1>3, <1>4, <1>5, <1>6 DEF RemovalInv

-----------------------------------------------------------------------------
\* A removal that has not begun: nothing is removed, no request was sent, nobody is at work
\* with the credential.
LEMMA InitKeeps == RemovalInit => RemovalInv
<1> SUFFICES ASSUME RemovalInit PROVE RemovalInv
  OBVIOUS
<1>1. RemovalTypeOK
  <2>1. tree \in [Trees -> {"installed", "moved", "partial", "gone"}] /\ kept \subseteq Everything
    BY DEF RemovalInit
  <2>2. credential \in Credentials /\ authority \in {"none", "live", "revoked"}
    BY DEF RemovalInit, Credentials
  <2>3. run \in [pc : Points, guard : BOOLEAN] /\ child \in Child
    BY DEF RemovalInit, AtRestRun, NoChild, Child, Points, ChildPoints, Ended, Identities,
         Evidence
  <2>4. unit \in Unit /\ stops \in Nat
    BY DEF RemovalInit, Unit
  <2>5. events \in [DOMAIN RemovalLimits -> Nat]
    BY RemovalAssumption DEF RemovalInit
  <2> QED
    BY <2>1, <2>2, <2>3, <2>4, <2>5 DEF RemovalInit, RemovalTypeOK, Unit, Child, Marker
<1>2. ~Touched
  BY DEF RemovalInit, Touched
<1>3. JournalKnows
  BY <1>2 DEF RemovalInit, JournalKnows, PhasesAt, Phases, Emptied, NoRemoval, AtRestRun
<1>4. RequestKnows
  BY DEF RemovalInit, RequestKnows, Removing, Here, NoRemoval, AtRestRun
<1>5. LockKnows
  BY DEF RemovalInit, LockKnows, AtRestRun, Guarded, Waits, NoChild, Ended
<1>6. ChildKnows
  BY DEF RemovalInit, ChildKnows, Replied, Here, AtRestRun, NoChild, Ended
<1>7. ErasureKnows
  BY <1>2 DEF RemovalInit, ErasureKnows, Removing, NoRemoval, AtRestRun
<1> QED
  BY <1>1, <1>3, <1>4, <1>5, <1>6, <1>7 DEF RemovalInv

\* What happens around a removal keeps the invariant.
LEMMA SurroundingsKeep ==
    RemovalInv /\ (Surroundings \/ DaemonStarts \/ JobEnds \/ WritesDrain \/ BootoutEnds) =>
      RemovalInv'
BY DaemonCrashesKeeps, JobBeginsKeeps, AsksToDrainKeeps, WritesDrainKeeps, SignInKeeps, SessionChangesKeeps, DaemonStartsKeeps,
   JobEndsKeeps, BootoutEndsKeeps DEF Surroundings

\* So does every step of a run.
LEMMA RunKeeps == RemovalInv /\ RunSteps => RemovalInv'
BY PreparesKeeps, StagesReleaseKeeps, SupersedesKeeps, QualifiesKeeps, AdmitsStoppedKeeps,
     AdmitsRunningKeeps, FindsNoMarkerKeeps, DrainsKeeps, AlreadyDrainedKeeps, ConfirmsKeeps, IntendsKeeps,
     RequestsStopKeeps, BootsOutKeeps, CannotSpawnKeeps, BootoutFailsKeeps, AwaitedKeeps,
     VerifiesKeeps, RefusesKeeps, ChecksPreparedStoppedKeeps, CapturesKeeps, AsksKeeps,
     IdentifiesKeeps, LogsOutKeeps, LoggedOutKeeps, SettlesAbsenceKeeps, ErasesKeeps, ErasedKeeps,
     ChildFailedKeeps, CleansKeeps, RemovesTreeKeeps, TreesGoneKeeps, UnstagesKeeps,
     RemovesStageKeeps, RemovesAgentKeeps, StartsEmptyingKeeps, RemovesStateKeeps,
     RemovesCurrentKeeps, RemovesReceiptsKeeps, MarksKeeps, RemovesJournalKeeps,
     RemovesHelperKeeps, RemovesFenceKeeps, UnmarksKeeps
   DEF RunSteps

\* And every step of a child.
LEMMA ChildKeeps == RemovalInv /\ ChildSteps => RemovalInv'
BY ChildReadsKeeps, ChildRecoversKeeps, ChildRevokesKeeps, ChildSavesEvidenceKeeps, ClearsKeeps,
   DeletesKeeps DEF ChildSteps

\* Every step keeps the invariant.
LEMMA NextKeeps == RemovalInv /\ [RemovalNext]_removalVars => RemovalInv'
<1> SUFFICES ASSUME RemovalInv, [RemovalNext]_removalVars PROVE RemovalInv'
  OBVIOUS
<1>1. CASE Surroundings \/ DaemonStarts \/ JobEnds \/ WritesDrain \/ BootoutEnds
  BY <1>1, SurroundingsKeep
<1>2. CASE RunSteps
  BY <1>2, RunKeeps
<1>3. CASE ChildSteps
  BY <1>3, ChildKeeps
<1>4. CASE Begins \/ Adopts \/ Again \/ RunCrashes \/ StopsWaiting \/ ChildCrashes
  BY <1>4, BeginsKeeps, AdoptsKeeps, ResumesKeeps, FinishesKeeps, RunCrashesKeeps,
       StopsWaitingKeeps,
     ChildCrashesKeeps DEF Again
<1>5. CASE UNCHANGED removalVars
  BY <1>5 DEF removalVars, files, device, procs, RemovalInv, RemovalTypeOK, JournalKnows,
       RequestKnows,
              LockKnows, ChildKnows, ErasureKnows, Touched, Removing, Here, Replied
<1> QED
  BY <1>1, <1>2, <1>3, <1>4, <1>5 DEF RemovalNext

\* A removal always has what it relies on: the journal is as far as the run is and
\* nothing was removed before its last phase, a request that may have been sent is
\* recorded so, the lock is held by the run or by its child, and the credential is
\* what the child or the journal says (bootstrap_uninstall.rs, auth.rs:2252-2395).
THEOREM RemovalCorrect == RemovalSpec => []RemovalInv
BY InitKeeps, NextKeeps, PTL DEF RemovalSpec

\* Nothing of the installation is removed, and no credential deleted, while its device
\* may still act: for any version directories and state files, and any number of
\* crashes, lost answers, sign-ins and login sessions.
THEOREM RemovalsEarned == RemovalSpec => []RemovalIsEarned
<1>1. RemovalInv => RemovalIsEarned
  BY DEF RemovalInv, RemovalIsEarned, ChildKnows, LockKnows, ErasureKnows
<1> QED
  BY <1>1, RemovalCorrect, PTL

\* Whatever a run or a child writes, a later run finds a journal it accepts, and every
\* other variable has its type (validate_journal).
THEOREM RemovalTypeCorrect == RemovalSpec => []RemovalTypeOK
<1>1. RemovalInv => RemovalTypeOK
  BY DEF RemovalInv
<1> QED
  BY <1>1, RemovalCorrect, PTL

\* A stop request that may have been sent is never sent again.
LEMMA StopStep == RemovalInv /\ [RemovalNext]_removalVars =>
  (stops' # stops => /\ stops = 0 /\ removal.request = "unconfirmed"
                     /\ unit.up => unit.drained /\ ~unit.work /\ unit.pid = removal.pid)
<1> SUFFICES ASSUME RemovalInv, [RemovalNext]_removalVars, stops' # stops
             PROVE  /\ stops = 0 /\ removal.request = "unconfirmed"
                    /\ unit.up => unit.drained /\ ~unit.work /\ unit.pid = removal.pid
  OBVIOUS
<1>1. BootsOut
  <2>1. CASE Surroundings \/ DaemonStarts \/ JobEnds \/ WritesDrain \/ BootoutEnds
    BY <2>1 DEF Surroundings, DaemonCrashes, JobBegins, AsksToDrain, WritesDrain, SignIn, SessionChanges, DaemonStarts,
         JobEnds,
                BootoutEnds, procs
  <2>2. CASE RunSteps
    BY <2>2 DEF RunSteps, Prepares, StagesRelease, Supersedes, Qualifies, AdmitsStopped,
         AdmitsRunning, FindsNoMarker, Drains, AlreadyDrained, Confirms, Intends, RequestsStop, BootsOut,
         CannotSpawn, BootoutFails, Awaited, Verifies, Refuses, ChecksPreparedStopped, Captures,
         Asks, Identifies, LogsOut, LoggedOut, SettlesAbsence, Erases, Erased, ChildFailed,
         Cleans, RemovesTree, TreesGone, Unstages, RemovesStage, RemovesAgent, StartsEmptying,
         RemovesState, RemovesCurrent, RemovesReceipts, Marks, RemovesJournal, RemovesHelper,
         RemovesFence, Unmarks, Spawn, Takes, Unlinks, DiskStep, Moves, RecordsMove,
         RecordsDeletion, DeletesTree, Tree, procs
  <2>3. CASE ChildSteps
    BY <2>3 DEF ChildSteps, ChildReads, ChildRecovers, ChildRevokes, ChildSavesEvidence, Clears,
         Deletes
  <2>4. CASE Begins \/ Adopts \/ Again \/ RunCrashes \/ StopsWaiting \/ ChildCrashes
    BY <2>4 DEF Begins, Adopts, Again, Resumes, Finishes, RunCrashes, StopsWaiting, ChildCrashes,
         procs
  <2>5. CASE UNCHANGED removalVars
    BY <2>5 DEF removalVars, procs
  <2> QED
    BY <2>1, <2>2, <2>3, <2>4, <2>5 DEF RemovalNext
<1> QED
  BY <1>1 DEF BootsOut, RemovalInv, RequestKnows, Here

\* launchctl is asked at most once to stop the service, and only for the process that
\* was found drained and idle, whatever run or request failed.
THEOREM StopsOnce == RemovalSpec => StopsOnceIdle
<1>1. RemovalInv /\ [RemovalNext]_removalVars =>
        [stops' # stops =>
           /\ stops = 0 /\ removal.request = "unconfirmed"
           /\ unit.up => unit.drained /\ ~unit.work /\ unit.pid = removal.pid]_removalVars
  BY StopStep
<1> QED
  BY <1>1, RemovalCorrect, PTL DEF RemovalSpec, StopsOnceIdle

=============================================================================
