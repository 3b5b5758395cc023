--------------------------- MODULE FollowSessions ---------------------------
(***************************************************************************)
(* The follow store of the daemon (src/src/follow.rs).  A chat of the host *)
(* follows a run: its hooks report prompts, finished tool calls, stops and *)
(* interrupts, and the answer to a stop tells the host whether the turn    *)
(* may end.  A hook takes the store's lock several times and awaits the    *)
(* backend in between, so hooks of one chat interleave.  A run started or  *)
(* answered in the app leaves a pending handoff, which the first chat that *)
(* waits for the run takes over.  Times are within the thirty days of      *)
(* retention, and nobody resolves continuations by hand (that needs a      *)
(* stopped daemon), so every live record is eligible.                      *)
(***************************************************************************)
EXTENDS Integers, FiniteSets

CONSTANTS Chats,          \* host sessions
          Runs,           \* runs that may be followed
          Tools,          \* tools of the plugin whose calls the host reports
          MaxRequests,    \* bound on the human requests of a run
          MaxHooks,       \* bound on the hooks the host sends
          MaxFollowFaults \* bound on restarts and failed reads of the backend

ToolKind == [run_wait |-> "wait", run_get |-> "wait", run_events |-> "drain_events",
             interaction_view |-> "handoff", run_result |-> "result_read"]

ASSUME FollowAssumption ==
    /\ Tools \subseteq DOMAIN ToolKind
    /\ MaxRequests \in Nat /\ MaxHooks \in Nat /\ MaxFollowFaults \in Nat

Delivering == {"interaction_view", "run_result"}       \* their response is the point
Receipts == [run : Runs, request : 0..MaxRequests]     \* 0: the run's own start
Hooks == 1..2                                          \* handled at once, at most

VARIABLES
    run,        \* external: what the backend says of each run
    receipts,     \* continuation receipts handed out
    calling,    \* receipts of answers whose call still has to record the handoff
    handoff,    \* durable: the record of each app handoff
    native,     \* durable: the record of each chat and run
    lineage,    \* durable: which chat took over which handoff, as which generation
    resumed,    \* durable: generations that began with an accepted answer
    closed,     \* durable: handoffs closed because their successor ended
    hook,       \* the hooks being handled, and how far each is
    sent,       \* how many hooks the host has sent
    shown,      \* external: the tool responses each chat has got
    allowed,    \* external: chats whose last turn was allowed to end
    followFaults \* faults that have struck

followVars == <<run, receipts, calling, handoff, native, lineage, resumed, closed, hook,
                sent, shown, allowed, followFaults>>

Needs == {"none"} \cup {ToolKind[t] : t \in DOMAIN ToolKind}
Lives == {"none", "active", "input_pending", "suspended", "terminal", "superseded"}

\* request and receipt are those of an interaction tool and of a prompt.
Event == [kind : {"prompt", "tool", "stop", "interrupt"}, chat : Chats, run : Runs,
          tool : Tools \cup {"none"}, request : 0..MaxRequests]
Record == [life : Lives, gen : Nat, rev : Nat, need : Needs, pend : 0..MaxRequests]
Signal == [kind : {"none", "event_page", "active", "input", "terminal", "interrupted"},
           request : 0..MaxRequests]
Handling == [event : Event, at : {"target", "observe", "bind", "read", "decide",
                                  "verify", "get", "activate"},
             run : Runs, seen : Signal, gen : Nat, rev : Nat]

Unfollowed == [life |-> "none", gen |-> 0, rev |-> 0, need |-> "none", pend |-> 0]
NoSignal == [kind |-> "none", request |-> 0]
Idle == [at |-> "idle"]
Response == [chat : Chats, run : Runs, tool : Delivering, request : 0..MaxRequests]

FollowTypeOK ==
    /\ run \in [Runs -> [asked : 0..MaxRequests, state : {"active", "input", "terminal"}]]
    /\ receipts \in SUBSET Receipts /\ calling \in SUBSET receipts
    /\ handoff \in [Receipts -> {"none", "handoff_pending", "superseded"}]
    /\ native \in [Chats -> [Runs -> Record]]
    /\ lineage \in SUBSET [from : Receipts, chat : Chats, gen : Nat]
    /\ resumed \in SUBSET [chat : Chats, run : Runs, from : Nat, request : 0..MaxRequests]
    /\ closed \in SUBSET Receipts
    /\ \A e \in Hooks : hook[e] = Idle \/ hook[e] \in Handling
    /\ sent \in 0..MaxHooks
    /\ shown \in SUBSET Response /\ allowed \in SUBSET Chats
    /\ followFaults \in 0..MaxFollowFaults

\* A new generation of a record: what is due and what was shown is forgotten.
NextGeneration(record) ==
    [Unfollowed EXCEPT !.life = "active", !.gen = record.gen + 1, !.rev = record.rev + 1]

\* The runs have been started, and their receipts are out.  A chat (any of them) may
\* follow a run already, after its prompt or after a first wait, which took over the
\* app's handoff.
FollowInit ==
    /\ run = [r \in Runs |-> [asked |-> 0, state |-> "active"]]
    /\ receipts = {rc \in Receipts : rc.request = 0} /\ calling = {}
    /\ \E followed \in SUBSET receipts, first \in Chats :
         /\ Cardinality(followed) <= 1
         /\ native = [h \in Chats |-> [r \in Runs |->
                        IF h = first /\ \E rc \in followed : rc.run = r
                        THEN NextGeneration(Unfollowed) ELSE Unfollowed]]
         /\ lineage \in SUBSET {[from |-> rc, chat |-> first, gen |-> 1] :
                                 rc \in followed}
    /\ handoff = [rc \in Receipts |->
                    IF \E l \in lineage : l.from = rc THEN "superseded" ELSE "none"]
    /\ resumed = {} /\ closed = {}
    /\ hook = [e \in Hooks |-> Idle] /\ sent = 0
    /\ shown = {} /\ allowed = {}
    /\ followFaults = 0

store == <<handoff, native, lineage, resumed, closed>>
host == <<sent, shown, allowed>>

FollowStrike == followFaults < MaxFollowFaults /\ followFaults' = followFaults + 1
-----------------------------------------------------------------------------
\* The run asks, ends, or is answered somewhere else than through this runner.
RunGoesOn(r) ==
    /\ run[r].state # "terminal"
    /\ \/ /\ run[r].state = "active" /\ run[r].asked < MaxRequests
          /\ run' = [run EXCEPT ![r] = [asked |-> @.asked + 1, state |-> "input"]]
       \/ run[r].state = "input" /\ run' = [run EXCEPT ![r].state = "active"]
       \/ run' = [run EXCEPT ![r].state = "terminal"]
    /\ UNCHANGED <<receipts, calling, store, hook, host, followFaults>>

\* interactions.respond: accepted, and attach_follow_continuation receipts its receipt.
Respond(r) ==
    /\ run[r].state = "input"
    /\ run' = [run EXCEPT ![r].state = "active"]
    /\ LET rc == [run |-> r, request |-> run[r].asked] IN
         receipts' = receipts \cup {rc} /\ calling' = calling \cup {rc}
    /\ UNCHANGED <<store, hook, host, followFaults>>

\* activate_ui_handoff: recorded active by the shared activation, then pending; no hook
\* sees it in between.  finish_committed_start_handoff repeats it for a start.
RecordHandoff(rc) ==
    /\ (rc \in receipts /\ rc.request = 0) \/ rc \in calling
    /\ handoff[rc] = "none"
    /\ handoff' = [handoff EXCEPT ![rc] = "handoff_pending"]
    /\ calling' = calling \ {rc}
    /\ UNCHANGED <<run, receipts, native, lineage, resumed, closed, hook, host, followFaults>>
-----------------------------------------------------------------------------
\* The host sends a hook; an interaction tool has shown a request of the run.
Sent(kind, h, r, tool, k) ==
    [event |-> [kind |-> kind, chat |-> h, run |-> r, tool |-> tool, request |-> k],
     at |-> CASE kind = "prompt" -> "verify" [] kind = "interrupt" -> "bind"
              [] OTHER -> "target",
     run |-> r, seen |-> NoSignal, gen |-> 0, rev |-> 0]

Hook(h, r) ==
    /\ sent < MaxHooks /\ sent' = sent + 1
    /\ allowed' = allowed \ {h}
    /\ \E e \in Hooks :
         LET Enter(entry) == hook' = [hook EXCEPT ![e] = entry]
             Uses(tool, k) ==
                /\ Enter(Sent("tool", h, r, tool, k))
                /\ shown' = IF tool \in Delivering
                            THEN shown \cup {[chat |-> h, run |-> r, tool |-> tool, request |-> k]}
                            ELSE shown
         IN /\ hook[e] = Idle /\ \A x \in Hooks : x < e => hook[x] # Idle
            /\ \/ \E t \in Tools, k \in 0..run[r].asked :
                    (t = "interaction_view" <=> k > 0) /\ Uses(t, k)
               \/ /\ \/ \E rc \in receipts : /\ rc.run = r
                                            /\ Enter(Sent("prompt", h, r, "none", rc.request))
                     \/ \E kind \in {"stop", "interrupt"} : Enter(Sent(kind, h, r, "none", 0))
                  /\ UNCHANGED shown
    /\ UNCHANGED <<run, receipts, calling, store, followFaults>>

Advance(e, at) == hook' = [hook EXCEPT ![e].at = at] /\ UNCHANGED allowed

\* A stop that is answered "allow" ends the turn.
Answer(e, answer) ==
    /\ hook' = [hook EXCEPT ![e] = Idle]
    /\ allowed' = IF hook[e].event.kind = "stop" /\ answer = "allow"
                  THEN allowed \cup {hook[e].event.chat} ELSE allowed

Followed(h) == {r \in Runs : native[h][r].life # "none"}

\* Who a hook is about: a tool names its run, a stop needs the only one.
Bound(event) ==
    IF event.kind = "tool"
    THEN {r \in {event.run} : native[event.chat][r].life = "active"}
    ELSE {r \in Followed(event.chat) : /\ Followed(event.chat) = {r}
                                       /\ native[event.chat][r].life = "active"}

Pending(r) ==
    {rc \in Receipts : rc.run = r /\ handoff[rc] = "handoff_pending" /\ rc \notin closed}

\* Mutant of MayTake: any pending handoff resumes a paused chat.
MayTakeAny(record, rc) ==
    \/ record.life = "none" /\ rc.request = 0
    \/ record.life = "input_pending"

\* An answer resumes the chat paused on that request; it starts no follow.
MayTake(record, rc) ==
    \/ record.life = "none" /\ rc.request = 0
    \/ record.life = "input_pending" /\ rc.request = record.pend

\* promote_pending_ui_handoff, in one transaction: the handoff is used up.
TakeOver(h, rc) ==
    LET r == rc.run
        old == native[h][r]
    IN /\ native' = [native EXCEPT ![h][r] = NextGeneration(old)]
       /\ handoff' = [handoff EXCEPT ![rc] = "superseded"]
       /\ lineage' = lineage \cup {[from |-> rc, chat |-> h, gen |-> old.gen + 1]}
       /\ resumed' = IF old.life = "none" THEN resumed
                     ELSE resumed \cup {[chat |-> h, run |-> r, from |-> old.gen,
                                         request |-> rc.request]}
       /\ UNCHANGED closed

\* binding_for_event, once before the backend is asked and once after.
BindHook(e) ==
    LET event == hook[e].event
        next == IF hook[e].at = "target" THEN "observe" ELSE "read"
        none == IF hook[e].at = "target"
                THEN Advance(e, "bind")
                ELSE Answer(e, "allow")
        promotes == event.tool = "run_wait" /\ Cardinality(Pending(event.run)) = 1
    IN /\ hook[e].at \in {"target", "bind"}
       /\ \/ \E r \in Bound(event) :
               /\ hook' = [hook EXCEPT ![e].at = next, ![e].run = r]
               /\ UNCHANGED <<store, allowed>>
          \/ Bound(event) = {} /\ ~promotes /\ none /\ UNCHANGED store
          \/ /\ Bound(event) = {} /\ promotes
             /\ \E rc \in Pending(event.run) :
                  IF MayTake(native[event.chat][event.run], rc)
                  THEN TakeOver(event.chat, rc) /\ Advance(e, next)
                  ELSE Answer(e, "error") /\ UNCHANGED store
       /\ UNCHANGED <<run, receipts, calling, sent, shown, followFaults>>

\* What a read finds: pages left, the state of the run, or a queue without worker.
Readings(r) ==
    LET state == run[r].state IN
    {[kind |-> state, request |-> IF state = "input" THEN run[r].asked ELSE 0],
     [kind |-> "event_page", request |-> 0]} \cup
    (IF state = "active" THEN {[kind |-> "interrupted", request |-> 0]} ELSE {})

\* The backend is read; the read may fail, or say nothing about the run.
ObserveRun(e) ==
    /\ hook[e].at = "observe"
    /\ \/ \E s \in Readings(hook[e].run) :
            /\ hook' = [hook EXCEPT ![e].at = "bind", ![e].seen = s]
            /\ UNCHANGED <<allowed, followFaults>>
       \/ /\ FollowStrike
          /\ \/ Answer(e, "error")
             \/ Advance(e, "bind")
    /\ UNCHANGED <<run, receipts, calling, store, sent, shown>>

\* get(): the generation and the revision the decision will be fenced by.
ReadRecord(e) ==
    /\ hook[e].at = "read"
    /\ LET record == native[hook[e].event.chat][hook[e].run] IN
         hook' = [hook EXCEPT ![e].at = "decide", ![e].gen = record.gen,
                              ![e].rev = record.rev]
    /\ UNCHANGED <<run, receipts, calling, store, host, followFaults>>

\* The response of the tool is the one the observation asks for.
Shown(event, seen) ==
    \/ /\ event.tool = "interaction_view" /\ seen.kind = "input"
       /\ seen.request = event.request
    \/ event.tool = "run_result" /\ seen.kind = "terminal"

\* A stop that learnt nothing goes on; an interrupt does not look.
SignalOf(entry) ==
    CASE entry.event.kind = "interrupt" -> [kind |-> "interrupted", request |-> 0]
      [] entry.event.kind = "stop" /\ entry.seen.kind = "none" ->
            [kind |-> "active", request |-> 0]
      [] OTHER -> entry.seen

ActionOf(entry) ==
    LET event == entry.event IN
    IF event.kind # "tool" THEN "none"
    ELSE IF event.tool \in Delivering /\ ~Shown(event, entry.seen)
         THEN "none" ELSE ToolKind[event.tool]

\* decision_for: the life of the record after a signal, and what is then due.
Outcome(kind, action) ==
    CASE kind = "event_page" -> [life |-> "active", need |-> "drain_events"]
      [] kind = "active" -> [life |-> "active", need |-> "wait"]
      [] kind = "input" /\ action = "handoff" -> [life |-> "input_pending", need |-> "none"]
      [] kind = "input" -> [life |-> "active", need |-> "handoff"]
      [] kind = "terminal" /\ action = "result_read" -> [life |-> "terminal", need |-> "none"]
      [] kind = "terminal" -> [life |-> "active", need |-> "result_read"]
      [] OTHER -> [life |-> "suspended", need |-> "none"]

\* maintenance_generation_path: only accepted answers lie between the two.
AnsweredPath(h, r, from, to) ==
    \A g \in from..to - 1 : \E t \in resumed : t.chat = h /\ t.run = r /\ t.from = g

\* resolve_predecessors: what an ended follow had taken over is closed.
Closes(h, r, record) ==
    {rc \in Receipts :
        /\ record.life = "terminal" /\ record.pend = 0
        /\ rc \notin closed /\ handoff[rc] = "superseded"
        /\ \E l \in lineage : /\ l.from = rc /\ l.chat = h /\ rc.run = r
                              /\ AnsweredPath(h, r, l.gen, record.gen)}

\* Mutant of Inert: nothing is decided without an observation, stops included.
InertUnseen(entry) ==
    \/ entry.seen.kind = "none"
    \/ /\ entry.event.tool = "interaction_view" /\ entry.seen.kind = "input"
       /\ entry.seen.request # entry.event.request

\* An interaction tool that showed another request is no progress at all.
Inert(entry) ==
    /\ entry.event.kind = "tool"
    /\ \/ entry.seen.kind = "none"
       \/ /\ entry.event.tool = "interaction_view" /\ entry.seen.kind = "input"
          /\ entry.seen.request # entry.event.request

StillFenced(entry, record) == record.gen = entry.gen /\ record.rev = entry.rev

DecideHook(e) ==
    LET entry == hook[e]
        h == entry.event.chat
        r == entry.run
        old == native[h][r]
        signal == SignalOf(entry)
        action == ActionOf(entry)
        after == Outcome(signal.kind, action)
        record == [old EXCEPT !.life = after.life, !.need = after.need, !.rev = @ + 1,
                              !.pend = IF signal.kind = "input" THEN signal.request ELSE @]
        refused == \/ ~StillFenced(entry, old)
                   \/ entry.event.kind = "tool" /\ old.need \notin {"none", action}
    IN /\ entry.at = "decide"
       /\ \/ Inert(entry) /\ Answer(e, "allow") /\ UNCHANGED store
          \/ ~Inert(entry) /\ refused /\ Answer(e, "error") /\ UNCHANGED store
          \/ /\ ~Inert(entry) /\ ~refused
             /\ native' = [native EXCEPT ![h][r] = record]
             /\ closed' = closed \cup Closes(h, r, record)
             /\ Answer(e, IF after.life = "active" THEN "continue" ELSE "allow")
             /\ UNCHANGED <<handoff, lineage, resumed>>
       /\ UNCHANGED <<run, receipts, calling, sent, shown, followFaults>>
-----------------------------------------------------------------------------
\* A prompt carries a receipt of the run: verify_continuation, then get().
Verify(e) ==
    /\ hook[e].at = "verify"
    /\ IF [run |-> hook[e].run, request |-> hook[e].event.request] \in receipts \ closed
       THEN Advance(e, "get") ELSE Answer(e, "error")
    /\ UNCHANGED <<run, receipts, calling, store, sent, shown, followFaults>>

ReadGeneration(e) ==
    /\ hook[e].at = "get"
    /\ hook' = [hook EXCEPT ![e].at = "activate",
                            ![e].gen = native[hook[e].event.chat][hook[e].run].gen]
    /\ UNCHANGED <<run, receipts, calling, store, host, followFaults>>

\* activate(): the next generation, or a new follow that replaces idle ones.
Activate(e) ==
    LET h == hook[e].event.chat
        r == hook[e].run
        old == native[h][r]
        replaced(q) == /\ old.life = "none" /\ q # r
                       /\ native[h][q].life = "active" /\ native[h][q].need = "none"
    IN /\ hook[e].at = "activate"
       /\ IF old.gen # hook[e].gen
          THEN Answer(e, "error") /\ UNCHANGED native
          ELSE /\ Answer(e, "continue")
               /\ native' = [native EXCEPT ![h] = [q \in Runs |->
                     IF q = r THEN NextGeneration(old)
                     ELSE IF replaced(q) THEN [@[q] EXCEPT !.life = "superseded"]
                     ELSE @[q]]]
       /\ UNCHANGED <<run, receipts, calling, handoff, lineage, resumed, closed, sent, shown,
                      followFaults>>

\* The daemon is restarted: its calls and hooks are gone; open() makes a handoff that
\* was recorded active a pending one.
FollowCrash ==
    /\ FollowStrike /\ (calling # {} \/ \E e \in Hooks : hook[e] # Idle)
    /\ calling' = {}
    /\ \E recorded \in SUBSET calling :
         handoff' = [rc \in Receipts |->
                       IF rc \in recorded THEN "handoff_pending" ELSE handoff[rc]]
    /\ hook' = [e \in Hooks |-> Idle]
    /\ UNCHANGED <<run, receipts, native, lineage, resumed, closed, host>>
-----------------------------------------------------------------------------
HookStep(e) == \/ BindHook(e) \/ ObserveRun(e) \/ ReadRecord(e) \/ DecideHook(e)
               \/ Verify(e) \/ ReadGeneration(e) \/ Activate(e)

FollowNext ==
    \/ \E r \in Runs : RunGoesOn(r) \/ Respond(r)
    \/ \E rc \in Receipts : RecordHandoff(rc)
    \/ \E h \in Chats, r \in Runs : Hook(h, r)
    \/ \E e \in Hooks : hook[e] # Idle /\ HookStep(e)
    \/ FollowCrash
-----------------------------------------------------------------------------
Showed(h, r, tool, k) == [chat |-> h, run |-> r, tool |-> tool, request |-> k] \in shown

StopAllowed(h) == h \notin allowed /\ h \in allowed'

FollowsGrounded ==
    /\ \A h \in Chats, r \in Runs :
         /\ native[h][r].life = "input_pending" =>
              Showed(h, r, "interaction_view", native[h][r].pend)
         /\ native[h][r].life = "terminal" =>
              run[r].state = "terminal" /\ Showed(h, r, "run_result", 0)
    /\ \A l, m \in lineage : l.from = m.from => l = m
    /\ \A t \in resumed : Showed(t.chat, t.run, "interaction_view", t.request)
    /\ \A l \in lineage :
         l.from.request > 0 => Showed(l.chat, l.from.run, "interaction_view", l.from.request)
    /\ \A rc \in closed : \E l \in lineage :
         l.from = rc /\ run[rc.run].state = "terminal" /\ Showed(l.chat, rc.run, "run_result", 0)

(***************************************************************************)
(* "A handoff receipt is written only after its response and pending       *)
(* request identity agree": a chat pauses on the request it was shown, and *)
(* its follow ends when the run has ended and its result was read there.   *)
(* "The transaction consumes the UI record": a handoff is taken over once, *)
(* the one of an answer only by the chat that had shown its request; and   *)
(* it is closed only when the chat that took it over has read the result.  *)
(* "It must not let the host end the chat turn": a chat that has followed  *)
(* one run only may stop when that follow is not active, whatever else was *)
(* under way when its stop was looked at.                                  *)
(***************************************************************************)
FollowEarned ==
    [][/\ FollowsGrounded'
       /\ \A h \in Chats, r \in Runs :
            Followed(h) = {r} /\ StopAllowed(h) => native'[h][r].life # "active"]_followVars
=============================================================================
