------------------------------ MODULE ReleasePrune ------------------------------
(***************************************************************************)
(* Removal of released versions (lifecycle.rs prune, reconcile_prune): the   *)
(* same journal, lock and daemon as an update.  A version is moved aside,    *)
(* recorded, marked for deletion and deleted file by file; only then it      *)
(* leaves the inventory, and the drain that prune itself put up is released. *)
(***************************************************************************)
EXTENDS ReleaseLifecycle

VARIABLE dirs   \* durable: the directory of each version

allVars == <<vars, dirs>>

PruneInit == Init /\ dirs = [v \in Versions |-> "whole"]

\* The versions of the plan in the order of the plan, and what is left of it.
Done(v) == dirs[v] = "gone" /\ v \in op.moved /\ v \in op.deleting
Todo == {v \in op.targets : ~Done(v)}
First(S) == CHOOSE v \in S : TRUE
At(pc) == ctl.pc = pc /\ op.kind = "prune"
Abort == ctl' = Idle
Ours == drain = "prune"
Quiet == DrainedIdle /\ daemon.version = op.current
Phase(phase) == op' = [op EXCEPT !.phase = phase]

\* prune(): named versions, none of them current, on an idle open daemon.
Prune(targets, retain) ==
    /\ ctl = Idle /\ op.kind # "prune" /\ ~Pending(op) /\ (op.kind \in Kinds => ~op.abandoned)
    /\ targets # {} /\ retain # {} /\ targets \cap retain = {}
    /\ targets \cup retain \subseteq owned \ {ptr}
    /\ Up /\ daemon.version = ptr /\ ~daemon.work /\ ~daemon.drained /\ drain = None
    /\ Spend("prunes")
    /\ op' = [kind |-> "prune", phase |-> "prepared", targets |-> targets, retain |-> retain,
              current |-> ptr, agent |-> plist, moved |-> {}, deleting |-> {}]
    /\ ctl' = [Idle EXCEPT !.pc = "prune", !.by = "prune"]
    /\ UNCHANGED <<disk, service, history, dirs>>

\* resume(), and a further prune, take up the plan wherever it stopped.
ResumePrune ==
    /\ ctl = Idle /\ op.kind = "prune"
    /\ ctl' = [Idle EXCEPT !.pc = "prune", !.by = "prune"]
    /\ UNCHANGED <<disk, op, service, history, left, dirs>>

\* reconcile_prune(), step by step.
PruneBegin ==
    /\ At("prune")
    /\ IF ptr = op.current /\ plist = op.agent
       THEN Goto(IF op.phase = "prepared" THEN "prune_acquire" ELSE "prune_verify")
       ELSE Abort
    /\ UNCHANGED <<disk, op, service, history, left, dirs>>

\* prune_acquire_drain(): only a marker with the key of this plan is accepted.
PruneAcquire ==
    /\ At("prune_acquire")
    /\ \/ /\ drain = None /\ Up /\ drain' = "prune" /\ daemon' = [daemon EXCEPT !.drained = TRUE]
          /\ \/ Goto("prune_acquired") /\ UNCHANGED left
             \/ Abort /\ Spend("lost")
       \/ drain = None /\ ~Up /\ Abort /\ UNCHANGED <<drain, daemon, left>>
       \/ Ours /\ Goto("prune_acquired") /\ UNCHANGED <<drain, daemon, left>>
       \/ drain = "update" /\ Abort /\ UNCHANGED <<drain, daemon, left>>
    /\ UNCHANGED <<ptr, plist, owned, op, label, bootout, history, dirs>>
PruneAcquired ==
    /\ At("prune_acquired")
    /\ IF Ours /\ Quiet THEN Phase("draining") /\ Goto("prune_verify")
                        ELSE Abort /\ UNCHANGED op
    /\ UNCHANGED <<disk, service, history, left, dirs>>
PruneVerify ==
    /\ At("prune_verify")
    /\ ctl' = IF op.phase \notin {"drain_release_pending", "completed"} /\ ~(Ours /\ Quiet)
              THEN Idle
              ELSE [ctl EXCEPT !.pc = IF owned \cap op.targets = {} THEN "prune_finish"
                                      ELSE "prune_targets"]
    /\ UNCHANGED <<disk, op, service, history, left, dirs>>

\* A target is moved aside, and recorded as moved, in two steps.
Move(v) == /\ dirs[v] = "whole" /\ v \notin op.moved
           /\ dirs' = [dirs EXCEPT ![v] = "aside"] /\ Goto("prune_moved") /\ UNCHANGED op
Moved(v) == op' = [op EXCEPT !.phase = "deleting", !.moved = @ \cup {v}]
PruneTarget ==
    /\ At("prune_targets") /\ Todo # {}
    /\ LET v == First(Todo)
           known == dirs[v] \in {"aside", "partial"} /\ v \in op.moved
       IN \/ ~(Ours /\ Quiet) /\ Abort /\ UNCHANGED <<op, dirs>>
          \/ Ours /\ Quiet /\ Move(v)
          \/ /\ Ours /\ Quiet /\ dirs[v] = "aside" /\ v \notin op.moved
             /\ Moved(v) /\ Goto("prune_delete") /\ UNCHANGED dirs
          \/ Ours /\ Quiet /\ known /\ Goto("prune_delete") /\ UNCHANGED <<op, dirs>>
          \/ /\ Ours /\ Quiet /\ dirs[v] = "gone" /\ Abort /\ UNCHANGED <<op, dirs>>
    /\ UNCHANGED <<disk, service, history, left>>
PruneMoved ==
    /\ At("prune_moved") /\ Moved(First(Todo)) /\ Goto("prune_delete")
    /\ UNCHANGED <<disk, service, history, left, dirs>>

\* Mutant of PruneMark: files are deleted before the journal says so.
MarkAfter ==
    /\ At("prune_delete") /\ Goto("prune_remove")
    /\ UNCHANGED <<disk, op, service, history, left, dirs>>

\* The deletion is journaled before the first file goes; an incomplete directory
\* is believed only then.
PruneMark ==
    /\ At("prune_delete")
    /\ LET v == First(Todo) IN
       IF dirs[v] = "aside" \/ v \in op.deleting
       THEN op' = [op EXCEPT !.deleting = @ \cup {v}] /\ Goto("prune_remove")
       ELSE Abort /\ UNCHANGED op
    /\ UNCHANGED <<disk, service, history, left, dirs>>
PruneRemove ==
    /\ At("prune_remove")
    /\ LET v == First(Todo) IN
       \/ dirs[v] = "aside" /\ dirs' = [dirs EXCEPT ![v] = "partial"] /\ UNCHANGED ctl
       \/ dirs[v] = "partial" /\ dirs' = [dirs EXCEPT ![v] = "gone"] /\ Goto("prune_targets")
    /\ UNCHANGED <<disk, op, service, history, left>>

PruneMetadataPhase ==
    /\ At("prune_targets") /\ Todo = {}
    /\ Phase("metadata") /\ Goto("prune_metadata")
    /\ UNCHANGED <<disk, service, history, left, dirs>>
PruneMetadata ==
    /\ At("prune_metadata") /\ owned' = owned \ op.targets /\ Goto("prune_finish")
    /\ UNCHANGED <<ptr, plist, drain, op, service, history, left, dirs>>
PruneFinish ==
    /\ At("prune_finish")
    /\ \/ op.phase = "completed" /\ Goto("prune_clear") /\ UNCHANGED op
       \/ /\ op.phase # "completed" /\ \A v \in op.targets : dirs[v] = "gone"
          /\ Phase("drain_release_pending") /\ Goto("prune_release")
       \/ /\ op.phase # "completed" /\ \E v \in op.targets : dirs[v] # "gone"
          /\ Abort /\ UNCHANGED op
    /\ UNCHANGED <<disk, service, history, left, dirs>>

\* Mutant of PruneRelease: a marker that is already removed is not accepted.
ReleaseOwnMarker ==
    /\ At("prune_release")
    /\ LET known == Up /\ daemon.version = op.current /\ ~daemon.work /\ plist = op.agent
       IN \/ known /\ daemon.drained /\ Ours /\ drain' = None /\ Goto("prune_restart")
          \/ known /\ ~daemon.drained /\ drain = None /\ UNCHANGED drain /\ Goto("prune_health")
          \/ /\ ~known \/ (daemon.drained /\ ~Ours) \/ (~daemon.drained /\ drain # None)
             /\ Abort /\ UNCHANGED drain
    /\ UNCHANGED <<ptr, plist, owned, op, service, history, left, dirs>>

\* prune_release_drain()
PruneRelease ==
    /\ At("prune_release")
    /\ LET known == Up /\ daemon.version = op.current /\ ~daemon.work /\ plist = op.agent
       IN \/ /\ known /\ daemon.drained /\ drain # "update"
             /\ drain' = None /\ Goto("prune_restart")
          \/ known /\ ~daemon.drained /\ drain = None /\ UNCHANGED drain /\ Goto("prune_health")
          \/ /\ ~known \/ drain = "update" \/ (~daemon.drained /\ drain # None)
             /\ Abort /\ UNCHANGED drain
    /\ UNCHANGED <<ptr, plist, owned, op, service, history, left, dirs>>
PruneRestart ==
    /\ At("prune_restart")
    /\ \/ /\ label = "loaded" /\ daemon' = (IF daemon.stray THEN daemon ELSE NoDaemon)
          /\ Goto("prune_health") /\ UNCHANGED left
       \/ Abort /\ Spend("lost") /\ UNCHANGED daemon
       \/ label # "loaded" /\ Abort /\ UNCHANGED <<daemon, left>>
    /\ UNCHANGED <<disk, op, label, bootout, history, dirs>>
PruneHealth ==
    /\ At("prune_health")
    /\ \/ Healthy(op.current) /\ Phase("completed") /\ Goto("prune_clear") /\ UNCHANGED left
       \/ Unhealthy(op.current) /\ Abort /\ UNCHANGED op
    /\ UNCHANGED <<disk, service, history, dirs>>
PruneClear ==
    /\ At("prune_clear") /\ op' = NoOperation /\ Abort
    /\ UNCHANGED <<disk, service, history, left, dirs>>

PruneStep == \/ PruneBegin \/ PruneAcquire \/ PruneAcquired \/ PruneVerify \/ PruneTarget
             \/ PruneMoved \/ PruneMark \/ PruneRemove \/ PruneMetadataPhase \/ PruneMetadata
             \/ PruneFinish \/ PruneRelease \/ PruneRestart \/ PruneHealth \/ PruneClear
PruneNext ==
    \/ ReleaseNext /\ UNCHANGED dirs
    \/ \E targets, retain \in SUBSET Versions : Prune(targets, retain)
    \/ ResumePrune \/ PruneStep

PruneSpec == PruneInit /\ [][PruneNext]_allVars
PruneFairness == /\ WF_allVars((Exchange /\ UNCHANGED dirs) \/ PruneStep)
                 /\ WF_allVars((Resume /\ UNCHANGED dirs) \/ ResumePrune)
                 /\ WF_allVars(LaunchdStart /\ UNCHANGED dirs) /\ WF_allVars(WorkEnds /\ UNCHANGED dirs)
                 /\ WF_allVars(BootoutTerminates /\ UNCHANGED dirs)
                 /\ WF_allVars(DaemonExits /\ UNCHANGED dirs)
                 /\ WF_allVars(BootoutUnloads /\ UNCHANGED dirs)
PruneFairSpec == PruneSpec /\ PruneFairness

-----------------------------------------------------------------------------
\* What the inventory lists is on disk, whole, except for a target of the plan
\* that is under way; a partial directory is one the plan already marked for
\* deletion; the current version and the retained ones are never touched; a plan
\* that is completed removed all its targets (reconcile_prune, through a crash
\* between any two of its steps).
InventoryHonest ==
    /\ dirs[ptr] = "whole"
    /\ \A v \in owned : dirs[v] = "whole" \/ (op.kind = "prune" /\ v \in op.targets)
    /\ \A v \in Versions : dirs[v] = "partial" => op.kind = "prune" /\ v \in op.deleting
    /\ op.kind = "prune" => \A v \in op.retain : v \in owned /\ dirs[v] = "whole"
    /\ op.kind = "prune" /\ op.phase = "completed" =>
          /\ owned \cap op.targets = {} /\ \A v \in op.targets : dirs[v] = "gone"

\* What a settled exchange and a settled removal of versions leave on disk.
DiskAgrees == SettledAgrees /\ InventoryHonest

\* The service is exchanged only while no daemon runs, stopped only while it is
\* drained and idle and once for each intent, and versions are deleted only under prune's own drain, with
\* no work under way in a daemon that was drained before.
OnlyWhileIdle ==
    [][/\ ExchangedOnlyIdle
       /\ dirs' # dirs => drain = "prune" /\ ~daemon.work /\ (Up => daemon.drained)]_allVars

\* As long as someone keeps resuming it, a pending update, rollback, abandonment
\* or removal comes to an end, whatever crash or lost answer interrupted it,
\* unless it reaches one of the states that need a person and stays there.
Settles == Pending(op) ~> ~Pending(op) \/ []Stranded

=============================================================================
