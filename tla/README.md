# Loomex runner: a verification development

TLA+ models of the Loomex runner (the per-user Rust daemon under `src/`), the
TLC configurations that check them on small instances, and proofs, checked by
TLAPS, of the properties that matter most for every instance. Paths below are
relative to `src/src` unless they start with `docs/`, which is `src/docs`.

1. [Inventory](#1-inventory): the parts of the system
2. [Modules](#2-modules-and-the-code): what models what
3. [Runs](#3-runs): what each run checks, its bounds, its fairness
4. [Disagreements](#4-disagreements-between-code-and-documents)
5. [Proofs](#5-proofs)
6. [Limits](#6-what-is-not-shown)
7. [Plan](#7-plan)

## 1. Inventory

The daemon is one process with one tokio runtime. It leases jobs from the
backend over HTTPS, runs them as managed process groups or as HTTP exchanges,
and serves a credential-free local client over a Unix socket. Almost every
state that matters is a small JSON file replaced atomically, so that a crash
falls between two writes; the difficulty is in what may happen between them.

### Jobs (`jobs/mod.rs`, `journal.rs`, `execution.rs`, `recovery.rs`, `delivery.rs`)

- *State.* One directory per job with `journal.json`: phase, lease fence
  (session, lease version), recovery session, error, result, guardian identity,
  terminal key. In memory: the owner of each job and its cancellation token.
- *Operations.* Lease, register, authorize, mark start pending, ask the backend
  to start, record the spawn intent, spawn the guardian, release the target,
  observe the exit, finalize, reclaim, submit, acknowledge or block; renewal
  and the authority watch beside them; recovery of every unsettled directory
  when a session opens; purge when a run is deleted.
- *Interaction.* Workers belong to an organization's session, recovery tasks to
  the supervisor; both call the backend under a fence the backend may replace.
- *Hard.* Crashes between two writes, lost replies of calls that took effect,
  leases repeated or expired, panics with a half written record, a deletion
  that finds the job between its record and its token.
- *Correct when.* A target is launched at most once and only after an accepted
  start; what is reported is true; one terminal key carries one body; what was
  recorded is eventually delivered.

### Organization supervisor (`jobs/supervisor.rs`) and admission (`control.rs`)

- *State.* Flags `draining`, `logout_requested`, `stopping`,
  `lifecycle_draining`, one admission lock, three counters; durable `drain.json`,
  logout intent and enrolments.
- *Operations.* Spawn, admit, open and close sessions; admit workers and
  recovery tasks; admit control writers; drain; logout; select an organization;
  shut down; join.
- *Hard.* Every guard lowers its counter whenever its task ends, in any order;
  flags set for one reason are cleared for another; an installer replaces the
  daemon on the strength of one status read.
- *Correct when.* Counters are exact, "drained and idle" is final, a durable
  drain is never reopened, logout records its intent only when nothing runs,
  shutdown takes no more work and ends.

### Output and progress events (`jobs/transfer.rs`, `progress.rs`)

- *State.* Per stream the acknowledged offset and the pending chunk, the
  progress decoder and the progress lines of the pending chunk, all in the
  journal; one sender lock per job.
- *Operations.* The live output task sends chunks while the command runs; the
  terminal drain sends the rest. Both journal a chunk before sending it, and
  its acknowledgement after.
- *Hard.* The live task is aborted at any await while its blocking write goes
  on; replies are lost; the daemon restarts between chunk and acknowledgement.
- *Correct when.* A chunk identity names one body, streams arrive end to end,
  progress events follow exactly the output that carries them, a finished drain
  left nothing behind, and a drain ends.

### Run starts (`control.rs`, `operation_cache.rs`)

- *State.* A sealed preparation file with the consumed authorization, start
  handoff files with a lifecycle, one cache record per idempotency key, one
  reservation lock per preparation.
- *Operations.* `runs.prepare`, `runs.commit`, start handoff issue, approve,
  commit and get; replay of uncertain mutations.
- *Hard.* A commit awaits the network three times while holding a stale copy;
  its answer may be lost after the backend created the run; the daemon may die
  after any write; a retry takes another path than the first call.
- *Correct when.* One preparation starts one run, a grant once consumed is not
  replaced, nothing is resent without proof, and a started run surfaces.

### Operations on the backend (`operation_cache.rs`, `control.rs`)

- *State.* One cache record per idempotency key: digest, state (not dispatched,
  uncertain, accepted, rejected, completed, expired), answer or its spool.
- *Operations.* A mutation is recorded uncertain, sent, and its answer stored; a
  repeated call replays the record, resends, reconciles with the backend or
  refuses, by a rule of its own for each method.
- *Hard.* Concurrent calls share a weak singleflight lock; an answer is lost; the
  sweep removes what a caller is about to replay.
- *Correct when.* A key has one effect and one request, nothing is resent that may
  have taken effect and is not replayed there, the outcome surfaces.

### Authorization (`auth.rs`)

- *State.* Device credential and one child credential per organization in the
  credential store, one durable pending request, receipts, a logout intent.
- *Operations.* Sign-in, enrollment, refresh and rotation, recovery of a pending
  request, logout and cleanup.
- *Hard.* A rotation whose answer is lost leaves an old and maybe a new
  generation; a save can arrive late; a crash falls between any two of them.
- *Correct when.* A valid credential stays within reach, receipts say what
  happened, what pends settles.

### A managed command (`executor.rs`, `jobs/execution.rs`)

- *State.* The executor's loop, the guardian process with its private pipe, the
  target and its descendants in one process group, `target-status.json`, the
  cancellation flag with its cause.
- *Hard.* Observations through `ps` are old when used, the guardian may be killed,
  the daemon may die, two tasks and the backend race for the cause.
- *Correct when.* A result names the target's own end and the group is gone, the
  first cause is reported, no signal hits a foreign group, nothing runs on.

### Host chats (`follow.rs`, `presentation.rs`, `recovery.rs`, `jobs/persona_memory.rs`, `memory_wire.rs`)

- *State.* Three SQLite files (follow sessions with generations, hooks and
  handoffs; views and deliveries with revisions; automations with operations and
  receipts) and pages of persona memory held for one chat.
- *Operations.* Each method is one transaction; hooks read, then decide, then
  write; a memory read is admitted, ticketed, published page by page.
- *Hard.* Readers with stale revisions, calls sent again much later, sweeps after
  thirty days, selection of another organization in the middle of a read.
- *Correct when.* A chat is paused or let go only when earned, a prompt is
  accepted once, one automation is created, pages are those of one revision.

### Release lifecycle (`lifecycle.rs`, `bootstrap_*.rs`, `bootstrap_uninstall/`, `uninstall_state.rs`)

- *State.* A journaled transaction (update, rollback, abandonment, prune,
  removal), version directories, the pointer, configuration, launchd's service.
- *Operations.* Stop the daemon under a drain, exchange, activate, retry; prune
  through a quarantine; remove with maintenance children that sign out.
- *Hard.* A crash at every checkpoint, a daemon that dies or another that was
  started by hand, a stop request whose answer is lost.
- *Correct when.* Only an idle service is stopped or replaced, what is on disk
  agrees with the journal, removal is earned by revocation, what is resumed ends.

### Status of every component

| component | state and operations | status |
| --- | --- | --- |
| jobs, journal, recovery, delivery | above | `JobJournal`, `JobLifecycle` |
| supervisor, control admission, drain, logout, selection | above | `Supervisor` |
| output and progress events | above | `OutputEvents` |
| run starts | above | `PreparedStart` |
| operation cache | above | `OperationCache` |
| managed executor and guardian | above | `CommandGroup` |
| authorization | above | `AuthRotation`; scope upgrades and organization profiles left out |
| persona memory reads | above | `MemoryReads`; the job's own memory server left out |
| presentation | above | `PresentationViews`, `PresentationDeliveries` |
| following | above | `FollowSessions` |
| host automation | above | `HostAutomation` |
| update, rollback, prune | above | `ReleaseLifecycle`, `ReleasePrune` |
| uninstall, maintenance children | above | `Uninstall`; the separate removal of retained work left out |
| job authorization (`jobs/authorization.rs`) | pure comparison with the sealed preparation | one choice of `JobLifecycle` |
| HTTP jobs (`jobs/http.rs`) | dispatch flag, exchange, body file | steps of `JobLifecycle` |
| backend client (`api.rs`) | request proofs, one retry | folded into calls |
| retention (`retention.rs`) | sweeps, tombstones | deletion in `JobLifecycle`, expiry in `OperationCache` |
| state files (`state.rs`) | atomic replacement | every write is one step |
| artifact upload (`jobs/transfer.rs`) | resumable parts under a lease | not modelled |
| public status (`jobs/public_status.rs`) | latest, pending, sequence | unreachable in this revision (`public_status.rs:18`) |
| providers, fingerprints, workspace sets, power | pure checks, one child process | not modelled |
| command line, installer, packaging, contracts | sequential file work | not modelled |

`PROJECT.json` lists every component with its status, and under `hazards` the
lines where each hard behaviour bites with the properties that watch it.

## 2. Modules and the code

| module | models |
| --- | --- |
| `JobJournal` | the durable record of a job, its phases and legal transitions (`jobs/journal.rs`) |
| `JobLifecycle` | one organization's session, its workers, recovery tasks, journals and the backend's fences |
| `JobRecovery` | `JobLifecycle` with the reading of a record and the claim of its job as two steps |
| `CommandGroup` | one managed command: executor, guardian, target, what cancels it |
| `OutputStream` | abstract: what the output channel promises the backend |
| `OutputEvents` | the two senders of a job, their lock and journal; implements `OutputStream` |
| `Supervisor` | admission, counters, drain, logout, selection, shutdown |
| `PreparedStart` | one sealed preparation and everything that may start it |
| `OperationCache` | one key of a backend mutation and the calls that share it |
| `AuthRotation` | device and organization credentials, their pending request, recovery, logout |
| `FollowSessions` | what a host chat follows: generations, hooks, handoffs |
| `MemoryReads` | reads of persona memory, page by page, for one chat |
| `PresentationViews`, `PresentationDeliveries` | views with operations; deliveries of a prompt to a card |
| `HostAutomation` | the journal of a host's own schedule |
| `ReleaseLifecycle`, `ReleasePrune` | update, rollback, abandonment; removal of versions (extends the former) |
| `Uninstall` | removal of the installation |
| `MCJobs`, `MCEnds`, `MCAdmission`, `MCStores`, `MCServices`, `MCRelease` | hosts of several components for TLC |
| `MCJobLifecycle`, `MCJobRecovery`, `MCSupervisor`, `MCPreparedStart`, `MCRemoval` | small constants for TLC |
| `JobLifecycleProofs` | theorems about `JobLifecycle` and `CommandGroup` |
| `SupervisorProofs` | theorems about `Supervisor` and `OutputEvents` |
| `PreparedStartProofs`, `AuthProofs`, `UninstallProofs` | theorems about `PreparedStart`, `AuthRotation`, `Uninstall` |
| `ReleaseProofs` | theorems about `ReleaseLifecycle` and `ReleasePrune` |
| `StoreProofs` | theorems about `PresentationDeliveries`, `HostAutomation` and `OperationCache`, one section each |
| `SessionProofs` | theorems about `FollowSessions`, `MemoryReads` and `PresentationViews`, one section each |

`map` in `PROJECT.json` gives the source lines of each definition. Definitions
whose comment calls them a mutant are broken variants of the definition they
stand beside; no specification uses them.

A host lets one of its components be at work per behaviour (`atWork`): they share
no state, or one fences the other, so their product would show nothing more than
their union; where they do meet, the module that needs the other's state has it
(`Supervisor` has the login state, `ReleaseLifecycle` the idle answer of a drain). The
host of `JobLifecycle` also lets one job at a time be at work, because jobs meet only in
the session.

### JobLifecycle

One variable per kind of state: `journal` and `onDisk` (the file and its copy
in memory, which is the same while a task runs, since updates are written before
they are published), `pc`, `owner` and `cancel` (where the task that owns the
job stands, who it is, its token), `launched`, `alive`, `sent` (history and the
managed group), the session (`sid`, `sst`, `reconnect`, `draining`), `deleted`,
and the backend (`be`, `late`). A task's step is one action from one await to
the next together with the write that ends it; `Persist` names the record
written, `Goto`, `Finish`, `Abandon` where the task goes. `late` holds a request
whose caller gave up and which may still arrive. `Crash` drops every task and
keeps the files. `Panic` runs the code's panic handler, which writes an
indeterminate error and delivers it as a `panicked` owner.

Fences are pairs of session and version; a reclaim gives the job a new pair.
The backend is external: it accepts a call under the fence it holds, replays a
submission by its key, lets a lease run out, cancels, deletes. What a result
contains, which workspace or provider it needed and how long anything takes is
left out. Fault kinds are bounded by the constant `Faults`: a budget per kind.

`OpenSession` reads the records and claims their jobs in one step. `recover()` reads a
record (`recovery.rs:13`) before it claims the job (`:31`), and a task of an earlier
session may write the record and end in between. `JobRecovery` takes the two steps apart;
what it shows is in section 4. The properties of `JobLifecycle` are those of a daemon in
which nothing comes between them.

### CommandGroup

`exec` is the executor's call with what it saw last, `guardian`, `target` and
`statusFile` are the processes and what the guardian writes, `token` and
`watchers` the cancellation and the two tasks that find the lease expired. The
loop is `CheckToken`, `ReadStatus`, `Sample` and one of the decisions after it, so that
every decision is made on an old observation. `ps` is an atomic snapshot and a
signal to a group is atomic; one to a group of zombies may fail (`EPERM` on macOS)
and the call then returns early. A process that leaves the group is out of scope,
as the code itself says (`descendant_cleanup: indeterminate`). Faults are a
failed observation, spool, record, status write or spawn, an aborted task, a dead
daemon and a dead guardian. An error makes no result.

### OutputEvents

`made` counts the bytes in the spools, `offset`, `pending`, `decoded` and
`progress` are the journal, `task` is where each of the two senders stands, `io`
the journal write on the blocking thread and `lock` who holds a share of the
sender lock: an aborted task leaves its write's share behind, exactly as the
owned guard moved into the blocking closure does. A byte is its position; every
second byte of stdout ends a progress line. `Reliable` instantiates
`OutputStream` with the set of chunks the backend has received. Public status
takes the same lock within its own time budget and is not modelled.

### Supervisor

Flags, counters, `drain.json`, the run loop, one session task per organization,
the owner of each job, each control call and the login state. A call is one
idempotency key. The admission lock makes each admission one step; what follows
an await is another. `shutdown` sets two flags, in one step here. A job is only
what keeps a counter up. `SeeIdle` is the installer's status read after an
accepted drain (`lifecycle.rs`, `drain_and_require_idle`). Connections that were
open at SIGTERM are still served, as in the code. The gate of a logout is one flag for all
of them, and a logout that ends clears it without asking (`control.rs:137`); the history
variable `exposed` holds the waiting logouts that this happened to. No action reads it.

### PreparedStart

`prep` is the preparation file (the consumed key, the rejection mark, the
result), `handoff` the lifecycle of each start handoff, `cache` the record of
each direct key, `lock` the reservation lock, `pc` and `copy` each suspended
call and the record it read, `sent` the commits on their way that nothing has
proved rejected and `accepted` those the backend turned into a run. `commit()`
is seven actions, one between each pair of awaits or writes: read, recheck,
authorize, send, answer, rejection, result. `EnterReservation` is the first call's
path through the lock; `Call` is the path of a repeated call, which for an uncertain
record re-enters `commit()` without the lock, as `dispatch_body` does. The history variable
`raced` becomes true when a commit writes its authorization while another one has passed
its recheck too and one of the two is a repeated call: the one race the lock would exclude
(section 4). No action reads it.

A handoff is named by its issue key, which is the key its commit sends.
`stale` folds the expiry of the review and differences of workspace and
provider, which come and go. Refusals before the authorization are the failing
branch of `CommitRead`. A client that disconnects does not cancel its call. The
cache entry of `start_handoff.commit` itself, follow activation, run bindings,
retention of cached answers and the builder and editor commits are left out.

### OperationCache

`record` and `journal` are the files of each key, `call` what each caller's dispatch
holds, `sweep` what a retention task has read, `wire` and `executed` the requests on
their way and done. A call looks up, waits for the lock, records uncertainty, sends
and stores the answer, one action between two awaits. A method is one of six classes
(`start`, `persona`, `receipt`, `patch`, `prepare`, `plain`), which differ in what a
repeated call may do. Bodies are left out.

### AuthRotation

`keychain` is the protected state with the pending request and the receipts, `late` a
save whose caller gave up, `op` the one operation that runs and its copy, `transit`,
`tx`, `issued`, `minted` and `barred` the backend, which never gives out a generation of a
credential twice (`minted` counts them). A request has a number of its own, that of a sign-in the
negated number of its flow. What the backend does is assumed: recovery of the newest
request returns what it issued, as often as it is asked for, until the backend refuses it
for good (`barred`: its deadline, or a rule of its own); logout accepts historical tokens.
A refusal may meet any request, a browser cancellation included, which then stays pending
with its receipts marked (`AdoptRejection`); one that is answered, but not confirmed, puts
back what it displaced (`NotCanceled`).
Scope upgrades, profiles and legacy stores are left out.

### FollowSessions, MemoryReads

A hook is three steps, read, decide, write, and two of them interleave. Handoffs
move a chat from a run to its successor, closures end it. Initial states in which a
chat already follows let two hooks reach what needs three. The thirty-day sweep,
duplicate hook deliveries, monitoring and offline retirement are left out. A memory
read is admission, ticket, pages and release, disturbed by a selection, a logout,
an invalidation or a lost credential; size limits and the memory jobs' own server
are left out.

### PresentationViews, PresentationDeliveries, HostAutomation

One transaction per method, preceded by the sweep, which is three statements and one
step here. Operation keys are fresh per call. The outcome that a card of the first version
recorded (`former`) is in its view's state, and goes when that view is swept, updated or
deleted (`FormerGoes`); the history variable `forgotten` counts the prompts that were
delivered and whose outcome was gone when the delivery was derived. Projections, origins, field validation and persona delivery checks are left
out. `HostAutomation` has one binding; a host task reports as successful only what it
saw at the host; any call may be sent again, any time later.

### ReleaseLifecycle, ReleasePrune, Uninstall

Every journal write is a step and a crash may follow each. The daemon, launchd and
other processes are external: the daemon may die, be started by hand (`stray`),
refuse, lose its answer. `ReleasePrune` adds the removal of versions to the actions of
`ReleaseLifecycle`. `Uninstall` follows the journal's checkpoints (`prepared`,
`idle_verified`, `stop_intent`, `stopped`, `revoked`, `cleanup`, marker) with the
maintenance children that sign out and remove credentials, and adoption of the
removal by a newer release; trees go in the journal's order. `drain.json` carries a key:
an operator may ask for a drain at any time, `FindsNoMarker` is the look at the marker
before the removal asks for its own, and `AlreadyDrained` wants the removal's key, as
`bootstrap_uninstall.rs:1009` does. An operator's drain beside an update or a prune is not
modelled: an update goes on under any drain, and prune refuses one that is not its own
(`PRUNE_DRAIN_IDENTITY_MISMATCH`, `lifecycle.rs:5573`). First installation, older journal schemas, receipt
repair and `bootstrap_uninstall/work.rs` are left out.

## 3. Runs

| run | module, configuration | instance and bounds | question |
| --- | --- | --- | --- |
| `job_crash` | `MCJobs`, `MCJobCrash` | one command or one HTTP request; one each of crash, expiry, loss, failed write, panic, deletion, renewal, repeated lease. Or a command with its processes and two lease watchers; two faults | all safety properties of a job |
| `job_delivery` | `MCJobs`, `MCJobDelivery` | one HTTP request; two losses, one each of crash, cancel, renewal, drain, refused credential. Or a command with its processes; one fault | every record settles; a command ends |
| `job_expiry` | `MCJobLifecycle`, `MCJobExpiry` | one command; one crash, one expiry | violated, section 4 |
| `job_unwritten` | `MCJobLifecycle`, `MCJobUnwritten` | one HTTP request; one failed write | violated, section 4 |
| `ends` | `MCEnds`, `MCEnds` | one organization, one job, a drain, two logouts, a shutdown. Or two bytes a stream, two bytes a read; one crash, one loss, one failed write | drain, logout and shutdown end; output arrives as a reliable stream |
| `supervisor_admission` | `MCAdmission`, `MCAdmission` | one organization, one job, a drain, a selection, a cancellation, two logouts, one crash, one early logout failure. Or two views, three calls, one window | counters, idle, drain, logout; operations of views are kept |
| `start` | `MCPreparedStart`, `MCStart` | one direct key called three times, two handoffs; one crash, two losses | one start, no blind resend, agreement, surfacing |
| `start_replay` | `MCPreparedStart`, `MCStartReplay` | one direct key called twice, one handoff; no fault | violated, section 4 |
| `services` | `MCServices`, `MCServices` | one key, two callers, two requests, two crashes, three losses, a denial, an expiry. Or one organization, one recovery key, one sign-in, four requests, any three events | a key is honoured, a credential is reachable, answers arrive |
| `operations_prepare` | `MCServices`, `MCPrepare` | as `services` | violated, section 4 |
| `stores` | `MCStores`, `MCStores` | two chats, one run, two hooks, one fault. Or two memory reads of three pages, one disturbance. Or one delivery, two cards. Or three calls on an automation, one window | what chats are told and let do is earned |
| `release` | `MCRelease`, `MCRelease` | three versions, one activation, one prune, one of each event and any two faults. Or a removal of two trees and one state file, one of each event, an operator's drain among them, and any two faults | only what is idle is stopped, disk and journal agree, removal is earned and ends |

These are the runs `PROJECT.json` lists. Eight more configurations each reproduce one further
disagreement of section 4; TLC finds the property violated within seconds:

| run | module, configuration | instance and bounds | violated |
| --- | --- | --- | --- |
| `job_recovery` | `MCJobRecovery`, `MCJobRecovery` | one command; faults as in `job_delivery` | `TransitionsAreLegal` |
| `supervisor_logouts` | `MCSupervisor`, `MCSupervisorLogouts` | two logouts, one early failure | `LogoutIsQuiet` |
| `supervisor_select` | `MCSupervisor`, `MCSupervisorSelect` | one selection | `ShutdownClosesAdmission` |
| `start_reserved` | `MCPreparedStart`, `MCStartReserved` | one direct key called twice, one handoff; no fault | `ReservationKept` |
| `operations_tombstone` | `MCServices`, `MCTombstone` | as `services` | `TombstonesStay` |
| `auth_recovery` | `MCServices`, `MCAuthRecovery` | as `services` | `RecoveredOnce` |
| `stores_legacy` | `PresentationDeliveries`, `MCLegacy` | one delivery, one card | `LegacyNeverReplays` |
| `removal_drained` | `MCRemoval`, `MCRemoval` | a removal of one tree and one state file, one drain by an operator, no fault | `DrainedIsRemoved` |

A run is repeated with `tlc -config MCStart.cfg MCPreparedStart`, a proof with
`tlapm PreparedStartProofs.tla`.

**What they show.** `job_crash`: whatever interleaves, the journal file is
enough evidence to launch at most once and to say nothing false, but of a request whose
record could not be written (section 4); the transition
table never has to refuse; a swept run is not launched even between the first
record of its job and the registration of its token; and what the executor concludes
from observations that are old by then is still true. `job_delivery`: nothing
recorded is forgotten as long as a lease outlasts the recovery task that
reclaimed it. `ends`: the pending chunk is the right unit of retry, and giving the
blocking write its own share of the lock keeps two writers apart.
`supervisor_admission`: no counter leaks and none is counted twice, so an idle
answer under a drain is final across a restart; a logout that nobody interferes with
records its intent over nothing. `start`: the consumed authorization decides which key may
start the run, even when the call is repeated, the answer is lost or the daemon dies at any
write, with the one race of `start_replay` excepted. `services`: the record written before the send, and the pending
request saved before the send, are enough to recover through losses, late writes
and crashes. `stores`: fencing by revision is enough although every call may be sent
again. `release`: each checkpoint can be resumed, except from the states listed
under "What may stay pending", which need a person.

**Bounds and why they are enough.** A job has one owner, so jobs influence each
other only through the session; one job reaches every point of its own life.
One fault of each kind reaches every recovery path, because each leaves a record
in a phase recovery handles in one way; two lost answers allow a loss during the
retry of a loss. Two bytes allow a chunk of two, two chunks of one and a chunk that
grew between two attempts. Two owners of a counter are the least that can be confused:
a job and a call, or two calls. One direct key and two handoffs are the least for one to
take another's place with a bystander left, and three calls of the direct key let it be
refused, replayed and replayed again. Two logouts are the least that share a gate. Two callers and two
requests are the least for a digest conflict. In `AuthRotation` an operation is
admitted while `begins + 3 <= MaxBegins`, which leaves reconciliation its requests.
Two chats and two hooks allow each to be stale for the other; larger instances of
`MemoryReads` (three reads, two disturbances, 6.6 million states) were checked by hand.
In `release` two faults allow one during the recovery from the other. The longest
sequence of stops the code provides for (`Len(Stops) = 2`) and `SwitchPointer`'s failure
are not reached in any state of the instances: both are defensive branches.

**Deadlock** is not checked (`CHECK_DEADLOCK FALSE`): the models stop when
their bounded inputs and faults are spent and all work is settled, and so may
the system; waiting forever is what the liveness properties exclude.

**Fairness.** Every condition is on a step the code, a process or an operator takes
by itself; nothing forces a crash, a loss, a call or a signal:

- `JobLifecycle`: weak fairness for each task and for the session loop (tokio
  polls what is ready; every backend call has a timeout; commands are assumed to
  end), for a lease that nobody renews to run out at the backend, and for a
  drain to be lifted.
- `CommandGroup`: the executor's loop, the guardian, the grace period, a watcher that
  holds the gate. The target is free to ignore TERM and to run for ever.
  `CommandEnds` has one exception: daemon and guardian both dead.
- `OutputEvents`: weak fairness for both senders, the blocking write and
  arrivals; strong fairness for taking the lock, because tokio's mutex is FIFO.
  No fairness for writing output or for the process to end.
- `Supervisor`: weak fairness for session steps, calls, the end of jobs and the
  run loop.
- `PreparedStart`: weak fairness for the steps of a commit and of a handoff's
  call; strong fairness for a direct call's steps (FIFO lock) and for reading a
  handoff again, which `docs/operations.md:73` tells the client to do until the
  state is known. No fairness for the backend to accept or for owners to approve.
- `OperationCache`: a dispatch that has begun runs on, the lock is handed on (strong:
  FIFO), and a client repeats its call once a record exists.
- `AuthRotation`: steps of the operation, saves, answers or timeouts; strong fairness
  for somebody to reconcile while something pends. The repeated recovery this needs is what
  the code does and two documents deny (section 4); `PendingSettles` says that it works as
  long as the backend takes it, not that it should be there.
- `ReleaseLifecycle`, `ReleasePrune`, `Uninstall`: an operator who resumes what is
  pending, the run and its child, launchd, and work that ends.

**What may stay pending.** The liveness properties promise the end of what was begun
unless the system stays, for ever, in one of these states; each needs a person, and the
properties name it instead of excluding the behaviours that come near it:

- `Stranded`, of an update or rollback: a daemon run by hand holds the lock; an
  abandonment names a drained process that is gone before its stop was recorded; an
  exchange for the version already installed failed after its drain was removed, and
  resumes in a branch that wants another error (`lifecycle.rs:5213`); a rollback's target came
  up drained; a stop that was sent, unconfirmed, and may not be sent again
  (`docs/operations.md:108`) while launchd keeps the service loaded.
- `RemovalStranded`, of a removal: a loaded service that does not run, since its daemon
  refuses to start while a removal is recorded (`control.rs:6166`); work that only that
  daemon could finish; a stop request that nobody may repeat; a sign-in that a drained
  daemon no longer completes; another installation than the recorded one; and a service
  drained by somebody else (section 4).
- `Blocked`, of a credential request: the backend refuses it for good, or it is an
  enrollment whose device token has expired (`auth.rs:2615`).
- The daemon and the guardian both dead, of a command (`CommandEnds`); a lease that runs out
  under the recovery task that reclaimed it, of a job (`EvidenceSettles`, which `job_expiry`
  shows).

**Mutants.** For each property of a passing run `PROJECT.json` names a plausible
bug in one definition under which the run finds the property violated, so that no
property holds merely by the shape of the model.

## 4. Disagreements between code and documents

Shown by a run (the first four by runs that `PROJECT.json` lists, the others by the further
configurations of section 3):

- `job_expiry` (`jobs/recovery.rs:48`). `recover()` drops the result of
  `deliver()`. A recovery task whose reclaimed lease runs out ends with
  `RUNNER_JOB_RECOVERY_SESSION_REQUIRED`, which only workers turn into a
  reconnection; with a healthy session nothing delivers the record again.
  `docs/architecture.md:147` says other delivery failures retry after a delay.
- `job_unwritten` (`jobs/mod.rs:203`). When the record of an HTTP exchange that took place
  cannot be written, the untyped error is taken for the proof that nothing was sent, and
  the backend is told `known_not_dispatched`, contrary to `docs/operations.md:82`.
  `HonestNonLaunch` says that this step is the only one that misreports a launched job.
- `start_replay` (`control.rs:3938`). A repeated call takes no reservation lock
  (`control.rs:889`), so a replay and another key can both pass the recheck before either
  writes its authorization, and the second replaces the first, contrary to the comment at `control.rs:3908`: two keys are sent, and the record
  names one. `AuthorizationKept` and `OneStart` except this race (`raced`), and nothing else.
- `operations_prepare` (`control.rs:2732`). `prepare()` checks the grant again after
  the backend has answered and fails with the error that `dispatch_body` takes
  as proof that nothing was sent (comment at `control.rs:1082`).
- `job_recovery` (`jobs/recovery.rs:13`). A session reads a record, a recovery task of an
  earlier session has it acknowledged and ends, the session claims the job and writes
  what it read: an acknowledged record becomes pending again, over no edge of the
  transition table (`docs/architecture.md:182`). The submission is then replayed under its key.
- `supervisor_logouts` (`control.rs:137`). The gate is one flag for all logouts. The first
  of two that ends clears it, a session opens, and the second, which has already seen that
  nothing runs, records its intent over it, contrary to `docs/operations.md:48`.
- `supervisor_select` (`control.rs:1550`). A selection that ends after SIGTERM
  clears the draining flag shutdown had set; the session, which does not look at
  `stopping`, goes on leasing. `docs/architecture.md:203` says shutdown closes
  admission.
- `start_reserved` (`control.rs:889`). A repeated `runs.commit` whose record is
  uncertain re-enters `commit()` without the reservation lock and check of the
  first call, so a start refused because a handoff holds the preparation goes
  through when it is called again, contrary to the comment at `control.rs:1738`.
  `ReservationHeld` is stated of a commit that holds the lock.
- `operations_tombstone` (`control.rs:1047`). Retention, or the deletion of a run, replaces a
  result by a tombstone without the key's lock; a call that had read the record completes
  its copy and writes the result over it, contrary to `docs/architecture.md:155`.
- `auth_recovery` (`auth.rs:590`). `can_recover` is always true, so every operation recovers
  what pends again, while `docs/architecture.md:39` and `docs/operations.md:46` speak of one
  recovery and `:75` says that a repeated one is intentionally blocked. That a pending
  request settles rests on it: with one recovery, two lost answers in a row leave it.
- `stores_legacy` (`presentation.rs:939`). The view in whose state a card of the first version
  recorded a delivery is swept like any other, also when a later card has not imported
  the outcome yet; the prompt is then ready to be sent again. The test
  `legacy_delivery_import_never_replays_or_copies_prompt_text` covers only a view that is
  there. `PromptedOnce` counts such prompts apart (`forgotten`).
- `removal_drained` (`bootstrap_uninstall.rs:1012`). After an operator's `loomex drain`
  (`docs/operations.md:100`) the marker has another key than the removal, and each attempt
  ends with `uninstall drain identity mismatch` although the service is idle and drained
  (`README.md:74` of the repository).

Found while reading or by instances that are not kept, in the order of the modules:

- A failed patch validation leaves a key uncertain without a patch journal, hence
  `OPERATION_RECONCILIATION_REQUIRED` for ever; `interactions.draft.update` has a
  receipt descriptor but no branch that reconciles it.
- `auth.rs:2615`: an enrollment whose answer has no child credential, or whose device
  token expires meanwhile, fences every organization until logout (`Blocked`).
- `docs/operations.md:118`: "a live Stop continues while its exact event drain, handoff,
  or terminal-result delivery remains due" fails for a chat that follows two runs, of
  which the newer one lets it stop; `FollowEarned` speaks of chats with one.
- `follow.rs`: a successor activated again by a later prompt makes its predecessor's
  closure unprovable, which blocks uninstall; `decide` does not look at the lifecycle,
  so a late hook reopens a terminal row of its generation; a duplicate hook
  delivery gets `IDEMPOTENCY_CONFLICT` because the digest contains the revision read
  afresh, contrary to the comment on `lifecycle_key`.
- `docs/operations.md:13` says deleting a run removes its views; `delete_entities`
  keeps them, resolved, for thirty days.
- `lifecycle.rs:5213`: a same-version operation that fails after its drain was removed
  resumes in a branch that needs another error, and stays pending (`Stranded`); a kickstart can
  end work that began between the removal of the drain and the restart
  (`lifecycle.rs:3399`).
- `control.rs:6166`: a loaded service whose daemon refuses to start while a removal is
  recorded needs a manual bootout, while `docs/lifecycle-recovery.md` says the same
  operation can continue.
- `bootstrap_uninstall`: a crash after the helper was copied, followed by an update,
  makes every later uninstall refuse its evidence.

## 5. Proofs

All are checked by TLAPS without open leaves, for every value of the constants
under the named assumptions of the modules: disjoint sets of names
(`JobsAssumption`, `KeysAssumption`), natural bounds (`FaultsAssumption`,
`OutputBoundsAssumption`, `DeliveryAssumption`, ...), finite sets where something is
counted (`FiniteAssumption`, `OpAssumption`). The bounds on faults, losses and
crashes are only guards, so every result holds for any number of them, of repeated
calls and of concurrent logouts; no theorem has an assumption beside these. Each
inductive invariant was an invariant of a TLC run before it was proved.

| module | theorem | states |
| --- | --- | --- |
| `JobLifecycleProofs` | `TypeCorrect` | `TypeOK` |
| | `LedgerCorrect` | `LedgerInv` |
| | `LaunchedOnce`, `NonLaunchHonest`, `KeyUsedForOneBody` | `AtMostOneLaunch`, `HonestNonLaunch`, `OneBodyPerTerminalKey` |
| | `EvidenceCorrect` | `EvidenceInv`: `Evidence` of every job, with `LedgerInv` |
| | `RecordsTrue`, `TransitionsLegal`, `LaunchAuthorized` | `RecordsAreTrue`, `TransitionsAreLegal`, `LaunchIsAuthorized` |
| | `GroupCorrect`, `CommandTrue` | `GroupInv`, `CommandIsTrue` |
| `SupervisorProofs` | `DrainStays` | `DrainHolds` |
| | `IdleCorrect`, `IdleFinal` | `IdleInv`, `IdleIsFinal` |
| | `OutputCorrect`, `OutputExact`, `OutputReliable` | `OutputInv`, `OutputArrivesExact`, the refinement of `OutputStream` |
| `PreparedStartProofs` | `StartTypeCorrect`, `ResendNeedsProof`, `ApprovedUnsent` | `TypeOK`, `NoBlindResend`, `ApprovedMeansUnsent` |
| | `StartCorrect`, `StartedOnce`, `AuthorizationStays` | `StartInv`, `OneStart`, `AuthorizationKept` |
| | `LockedStartsReserved` | `ReservationHeld` |
| `AuthProofs` | `SavesCorrect`, `ReceiptsAreExact` | `SaveInv`, `ReceiptsExact` |
| | `CredentialsReachable` | `CredentialReachable`, by `ReachInv` |
| `StoreProofs` | `DeliveryCorrect`, `DeliveredOnce` | `DeliveryInv`, `PromptedOnce` |
| | `HostCorrect`, `AutomationOnce` | `HostInv`, `AutomatedOnce` |
| | `CacheCorrect`, `CacheTyped`, `OneEffect` | `OpInv`, `OpTypeOK`, `KeyHonoured` |
| `SessionProofs` | `FollowsEarned` | `FollowEarned`, by `FollowInv` |
| | `PagesOrdered` | `PagesInOrder`, by `MemoryInv` |
| | `OperationsHold` | `OperationsKept`, by `ViewInv` |
| `ReleaseProofs` | `ReleaseCorrect`, `ReleaseTypeCorrect` | `ReleaseInv`, `TypeOK` |
| | `DiskFollowsJournal`, `ExchangesAreIdle` | `DiskAgrees`, `OnlyWhileIdle` |
| `UninstallProofs` | `RemovalCorrect`, `RemovalTypeCorrect` | `RemovalInv`, `RemovalTypeOK` |
| | `RemovalsEarned`, `StopsOnce` | `RemovalIsEarned`, `StopsOnceIdle` |

**Launches** (`JobLifecycleProofs`). None of the three properties is inductive: that a
lease is refused does not say why there was no earlier launch. The invariant
`LedgerInv` says for each job what its file is evidence of:

- `LaunchLedger`: without a file either the run is gone at the backend, so that
  nobody leases the job again, or nothing was launched and nothing sent; before
  the launch the history is empty and no error is recorded.
- `HonestyLedger`: a command past the gate has its guardian's identity on
  record, and `not_launched`, recorded or sent, implies that nothing was.
- `KeyLedger`: nothing is sent while the job executes; once a body was sent the
  record is terminal and its outcome is that body.

Each action either keeps the ledger of every other job untouched (`Kept`) and
re-establishes its own, or is one of the session steps. Requests are outside
`HonestyLedger`: their untyped errors are taken for a non-dispatch even after the first
poll (section 4). `NonLaunchHonest` is therefore a theorem about steps: whatever makes a
launched job one that is reported without effect is the failed write of a running
request's record. A claim is recorded on the way to the launch only, and a submission
repeats what is recorded, so no other step makes one.

**What the journal says of a job** (`JobLifecycleProofs`). The ledger bounds what was
sent; it does not say that a record is true, because a record says something of the
backend, which moves by itself. `Evidence` adds four parts: where a task stands when
its record is in a phase (`PhaseLedger`), that a result is recorded of an ended group
only and a live group is on record (`GroupLedger`), that whatever the backend holds or
is still sent comes from the runner (`WireLedger`), and that no fence on disk is newer
than the backend's (`Fenced`). From the last one follows that a launch is one the
backend has started under the record's own fence, unless it has handed the job on
since, and never one of a swept run. A step is `Proper` for a job if it keeps this
and writes a legal edge; one lemma shows it for each action.

**A command's processes** (`JobLifecycleProofs`). The executor acts on observations
that may be old. `ObservationHolds` says which of them cannot have become false: that
the guardian is gone, and, if it is or a status is there, that nobody else is left in
the group; it needs that a target exists only behind the open gate (`TargetFollows`),
that the group's identity is kept until the guardian is waited for (`GuardianKept`) and
that nobody signals a command that is neither canceled nor broken (`Undisturbed`).
`CauseAgrees` makes the expiry flag and its gate tell who canceled first.

**Output** (`SupervisorProofs`). `OneSender` is the lock together with the share the
blocking write owns: whoever is busy knows the record (`SenderKnows`, `WriteKnows`).
`WireKnown` says that whatever was ever sent is the pending chunk, or lies before the
acknowledged bytes and has been received. With both, every step of the two senders is
a step of `OutputStream` or a stutter (`OutputReliable`).

**Admission** (`SupervisorProofs`). `DrainHolds` needs that a lifecycle drain implies a
closed admission and that a drain call past its admission has set the flag already
(`DrainMarking`), because the marker is written long after the flags. The counters are
exact by a count of finite owner sets: `Weight` is what a session adds in each state,
and each step changes the sets and the counters by as much (`SessionTurns`,
`CallTurns`). That idle is final is not a fact about counters: `IdleInv` adds that it
was read under a durable drain, under which nothing is admitted, and `LogoutKnown`,
that the gate of a waiting logout is still shut unless another logout opened it
(`exposed`), which it then did before this one was done.

**Run starts** (`PreparedStartProofs`). The reservation lock cannot carry these, since a
replay does not take it. `RetryInv` says instead that a key sent, or about to be, has
consumed the authorization on disk and is not marked rejected (`SentConsumes`); that a
call inside `commit()` still has the record it acted on (`PointAgrees`); and that a
handoff's lifecycle bounds where its call can be and excludes that an approved one
was sent (`LifecycleAgrees`).

That one key at most starts the run does rest on the lock, of which a replay has no share.
`StartInv` says first who holds it (`LockHeld`: whoever is inside `commit()` on a first
call or for a handoff). It then says what those inside know (`Truth`): past its recheck a
call's copy is what is on disk (`InsideKnows`), and every key sent is the one the
preparation is consumed for, which a result, a handoff or a cached record that says
accepted names (`PreparationTrue`). A replay beside the holder cannot make this false by
itself: whoever is behind in the recheck fails, and two that have passed it are the race
that `raced` records, after which `Truth` is given up. The keys, handoffs, calls, crashes
and losses are any number.

**Recovery keys** (`AuthProofs`). A receipt is marked in a write that comes long after
the decision, and a write given up may land after the operation has stopped. `SaveInv`
says that the Keychain has not moved meanwhile: an operation that is not saving holds the
Keychain as it is, nobody is let in while a write may still land, and what is saved, on
time or late, `Follows` from it.

**Credentials** (`AuthProofs`). A credential is within reach through whichever state is
in the Keychain when the daemon comes back, and that may be the one before a save, the
saved one, or one whose save lands late. `ReachInv` therefore says of all three the same:
each is `Sound`. It is well-formed (`Formed`); it reaches what the backend holds valid
(`Reached`); what it takes for refused or revoked is so (`Ended`, `Evident`); and whatever
request may still take effect is the one that pends in it (`Covers`). That a refusal for
good of a sign-in says nothing of an enrollment needs their numbers apart. A step of the backend
keeps this of all states at once, because only a covered request issues anything; a step
of the operation shows it of what it saves. That needs generations that are never given
out twice, which is why the model counts them.

**Stores** (`StoreProofs`). In all three a caller acts on something it read earlier.

- `DeliveryInv`: a card between its begin and the host holds the row as it left it, or
  the row refuses what it will say (`CardKnows`); two cards never share an attempt
  (`KeysApart`); a row that may be begun has not been delivered, but for what was forgotten
  before the row was there (`DeliveryKnown`).
- `HostInv`: an operation is in flight exactly while the record names it, and every
  permission ever given is accounted for by its record (`StoreKnown`); a host reports
  only what it saw done (`NotesKnown`). Repeated calls need `Remembers`: a method
  forgets nothing that may still happen.
- `OpInv`: what a record, the patch journal (`OutcomeKnown`), a suspended call
  (`CallKnown`) and a sweep (`SweepKnown`) know of the backend is true, and a key has one
  lock holder (`OneHolder`), through which alone a request leaves.

**Sessions** (`SessionProofs`). Again whoever acts has read something earlier.

- `FollowInv`: what a hook goes by when it decides is final - what was shown, has ended
  or is followed stays so (`Knows`) - and a receipt is given out once, before the request
  it is of is answered (`HandoffsApart`).
- `MemoryInv`: the transition counter is the number of transitions under way and fences
  every lease (`LeasesFenced`); two reads have no serial in common (`TicketsApart`); what a
  read has still to write continues what its chat was given (`Progress`), as does every
  document nobody reads (`DocumentsAgree`), unless the generation has moved on.
- `ViewInv`: a view has a deadline exactly when it is retired and nothing is open, an open
  operation is held by a view that the sweep keeps, and a revision that has moved on is
  never given back, so that a repeated update finds the receipt or a conflict.

**Update, rollback and prune** (`ReleaseProofs`). `ReleaseInv` says for each point a
controller can be at what the journal, the disk and the service owe it. `JournalKnows`:
what a journal means with nobody at work, in particular that an intent which has not been
dispatched was not sent. `ControllerKnows`: who may be where in which journal, and that
whoever switches holds `daemon.lock`. `SendKnows`: who is about to send a stop has a
drained, idle service, or holds the lock. `SwitchKnows`: how far pointer and configuration
are at each point after the stop. `TreesKnow`: what is left of each version directory, and
that whoever deletes has its own drain and no work beside it. Most steps only go on with
the journal as it is; one lemma covers them (`GoesKeeps`), one the steps that fail
(`FailKeeps`), one those that turn to a restoration (`RestoresKeeps`).

**Removal** (`UninstallProofs`). A run may die at any point and leave a child that goes on
by itself. `RemovalInv` says which phases a point implies (`JournalKnows`), that a stop
request which may be on its way is recorded so and its process is still as it was found,
drained under whichever key (`RequestKnows`), that run, child and daemon share one lock (`LockKnows`), that what a
child has read of the credential is still so (`ChildKnows`), and that a credential recorded
as deleted is, and nobody can make another (`ErasureKnows`). The last is why files may go.

**Out of the prover's reach**, hence only model-checked: the liveness properties
(`JobsSettle`, `WorkEnds`, `AcceptedStartSurfaces`, `AnswersArrive`, `LifecycleEnds`),
anything with `ENABLED`, and induction over data.

The histories `raced`, `exposed` and `forgotten` are what keeps these theorems free of
assumptions: they say which single interference of the code with itself is excepted, and a
violation run shows that it happens. The type invariants of the `MC` modules conjoin those
of their components, most of which the invariants above contain.

## 6. What is not shown

- The order of reading and claiming in `recover()` is in `JobRecovery` alone: what else than
  the transition table it may break was not asked.
- The backend is modelled by the answers the code handles; that it keeps them
  is assumed. In particular a submission is replayed by its key.
- Atomic file replacement is taken as atomic; a write may fail, but not half way.
  A SQLite transaction is one step.
- No property depends on time: timeouts, cadences and rate limits are choices.
- The content of results, artifacts, prompts and answers is left out, and with
  it every parser, schema and formatter.
- The credential store, the process table, launchd and the network are choices of
  the environment.
- Hazards without a property: a recovery task has no cancellation token
  (`jobs/mod.rs:238`), and a resumed artifact part (`jobs/transfer.rs:320`). Seen while
  reading the latter: a late part that is not answered idempotently makes a good
  result `ARTIFACT_FINALIZATION_FAILED`, because the protocol error is not retryable.
- Not modelled, though it has state and crashes: the removal of retained work
  (`bootstrap_uninstall/work.rs`: owner record, reserved attempts, child that inherits
  the singleton lock; a crash between spawning the child and saving its pid
  leaves `UNINSTALL_WORK_MAINTENANCE_PENDING` unless a result appears), artifact upload,
  the distribution installer, first installation, maintenance repair.
- Parts of modelled components that are left out are named in section 2.

## 7. Plan

Everything section 1 lists as modelled is; what is left, in order of worth:

1. An abstract specification of `OperationCache` (one key, one effect, one answer) and
   the refinement, for which `OpInv` has what is needed.
2. A run with a purge under a recovery task (a refused reclaim writes the removed record
   again as `delivery_blocked`), and the properties of `JobLifecycle` over `JobRecovery`.
3. Models of the removal of retained work and of artifact upload (section 6).
