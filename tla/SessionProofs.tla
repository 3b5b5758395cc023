--------------------------- MODULE SessionProofs ---------------------------
(***************************************************************************)
(* Theorems about FollowSessions, MemoryReads and PresentationViews, for   *)
(* every set of chats, runs, hooks, readers, accounts and views, and every *)
(* bound: a follow is earned and ends when it should, the pages of a       *)
(* document are handed over in order and to their owner, and an operation  *)
(* that a view journals is kept while it is open.                          *)
(*                                                                         *)
(* The first two invariants say what a task that is not alone may rely on. *)
(* A hook knows that a response was shown or that a run has ended because  *)
(* neither is ever undone; a read knows that its chat's document is as it  *)
(* left it while the table still has the flight with its serial, which no  *)
(* other read ever had.  The third says what outlives a receipt: the       *)
(* revision that an update has moved on is never given back, so the call   *)
(* is refused when it is sent again.                                       *)
(***************************************************************************)
EXTENDS FollowSessions, MemoryReads, PresentationViews, FiniteSetTheorems, TLAPS

FollowSpec == FollowInit /\ [][FollowNext]_followVars

\* A receipt is given out once: no earlier one is of the request that is open now.
HandoffsApart ==
    /\ \A rc \in Receipts : rc.request = 0 => rc \in receipts
    /\ \A rc \in Receipts : handoff[rc] # "none" => rc \in receipts \ calling
    /\ \A rc \in receipts :
         /\ rc.request <= run[rc.run].asked
         /\ run[rc.run].state = "input" => rc.request < run[rc.run].asked
    /\ \A l \in lineage : handoff[l.from] = "superseded"

\* What a hook that is handled goes by: its tool's response has been shown, the end it
\* has seen is final, and the record it is about to decide on is there.
Knows(entry) ==
    LET event == entry.event
    IN entry # Idle =>
         /\ entry.at \in {"verify", "get", "activate"} <=> event.kind = "prompt"
         /\ event.kind = "tool" =>
              /\ entry.run = event.run /\ event.tool \in Tools
              /\ event.tool \in Delivering =>
                   Showed(event.chat, event.run, event.tool, event.request)
              /\ event.tool # "interaction_view" => event.request = 0
              /\ entry.seen.kind = "terminal" => run[entry.run].state = "terminal"
         /\ event.kind # "tool" => event.tool = "none"
         /\ entry.at \in {"read", "decide"} => native[event.chat][entry.run].life # "none"

FollowInv ==
    /\ FollowTypeOK /\ DOMAIN hook = Hooks
    /\ HandoffsApart
    /\ \A e \in Hooks : Knows(hook[e])
    /\ FollowsGrounded
-----------------------------------------------------------------------------
\* What a hook knows stays true: what was shown, has ended or is followed stays so.
LEMMA KnowsStays ==
    ASSUME NEW m, Knows(m), m = Idle \/ m \in Handling, shown \subseteq shown',
           \A r \in Runs : run[r].state = "terminal" => run'[r].state = "terminal",
           \A h \in Chats, r \in Runs :
             native[h][r].life # "none" => native'[h][r].life # "none"
    PROVE  Knows(m)'
BY DEF Knows, Showed, Handling, Event

\* A hook goes on, and the store may have moved.
LEMMA HookAnd ==
    ASSUME FollowInv, NEW e \in Hooks, NEW entry, entry = Idle \/ entry \in Handling,
           Knows(entry)', hook' = [hook EXCEPT ![e] = entry],
           UNCHANGED <<run, receipts, calling, shown>>,
           sent' \in 0..MaxHooks, allowed' \in SUBSET Chats,
           followFaults' \in 0..MaxFollowFaults,
           native' \in [Chats -> [Runs -> Record]],
           handoff' \in [Receipts -> {"none", "handoff_pending", "superseded"}],
           lineage' \in SUBSET [from : Receipts, chat : Chats, gen : Nat],
           resumed' \in SUBSET [chat : Chats, run : Runs, from : Nat, request : 0..MaxRequests],
           closed' \in SUBSET Receipts,
           HandoffsApart', FollowsGrounded',
           \A h \in Chats, r \in Runs :
             native[h][r].life # "none" => native'[h][r].life # "none"
    PROVE  FollowInv'
<1>1. \A x \in Hooks : hook[x] = Idle \/ hook[x] \in Handling
  BY DEF FollowInv, FollowTypeOK
<1>2. \A x \in Hooks : hook'[x] = IF x = e THEN entry ELSE hook[x]
  BY DEF FollowInv
<1>3. DOMAIN hook' = Hooks
  BY DEF FollowInv
<1>4. FollowTypeOK'
  BY <1>1, <1>2 DEF FollowInv, FollowTypeOK
<1>5. ASSUME NEW x \in Hooks PROVE Knows(hook[x])'
  <2>1. CASE x = e
    <3>1. hook'[x] = entry
      BY <2>1, <1>2
    <3> QED
      BY <3>1 DEF Knows
  <2>2. CASE x # e
    <3> DEFINE n == hook[x]
    <3>1. hook'[x] = hook[x] /\ Knows(n)
      BY <2>2, <1>2 DEF FollowInv
    <3>2. PICK m : m = hook[x]
      OBVIOUS
    <3>3. Knows(m) /\ (m = Idle \/ m \in Handling)
      BY <3>1, <3>2, <1>1
    <3>4. Knows(m)'
      BY <3>3, KnowsStays
    <3> QED
      BY <3>1, <3>2, <3>4 DEF Knows
  <2> QED
    BY <2>1, <2>2
<1> QED
  BY <1>3, <1>4, <1>5 DEF FollowInv

\* The store is as it was, so what every other hook knows is.
LEMMA HookOnly ==
    ASSUME FollowInv, NEW e \in Hooks, NEW entry, entry = Idle \/ entry \in Handling,
           Knows(entry), hook' = [hook EXCEPT ![e] = entry],
           UNCHANGED <<run, receipts, calling, store, shown, sent>>,
           allowed' \in SUBSET Chats, followFaults' \in 0..MaxFollowFaults
    PROVE  FollowInv'
<1>1. Knows(entry)'
  BY DEF Knows, Showed, store
<1>2. HandoffsApart' /\ FollowsGrounded'
  BY DEF FollowInv, HandoffsApart, FollowsGrounded, Showed, store
<1> QED
  BY <1>1, <1>2, HookAnd DEF store, FollowInv, FollowTypeOK
-----------------------------------------------------------------------------
\* No follow is a record, and a new generation of any record is an active one.
LEMMA Generations ==
    /\ Unfollowed \in Record /\ Unfollowed.life = "none"
    /\ \A record \in Record : /\ NextGeneration(record) \in Record
                              /\ NextGeneration(record).life = "active"
<1>1. Unfollowed \in Record /\ Unfollowed.life = "none"
  BY FollowAssumption DEF Unfollowed, Record, Lives, Needs
<1>2. ASSUME NEW record \in Record
      PROVE  NextGeneration(record) \in Record /\ NextGeneration(record).life = "active"
  <2>1. record.gen + 1 \in Nat /\ record.rev + 1 \in Nat
    BY DEF Record
  <2>2. PICK g \in Nat, v \in Nat : g = record.gen + 1 /\ v = record.rev + 1
    BY <2>1
  <2>3. NextGeneration(record) = [Unfollowed EXCEPT !.life = "active", !.gen = g, !.rev = v]
    BY <2>2 DEF NextGeneration
  <2>4. "active" \in Lives
    BY DEF Lives
  <2> QED
    BY <1>1, <2>3, <2>4 DEF Record
<1> QED
  BY <1>1, <1>2

\* A store that is opened holds only follows whose receipts were taken over.
LEMMA FollowInits ==
    FollowInit => FollowInv
<1> SUFFICES ASSUME FollowInit PROVE FollowInv
  OBVIOUS
<1>1. PICK followed \in SUBSET receipts, first \in Chats :
         /\ native = [h \in Chats |-> [r \in Runs |->
                        IF h = first /\ \E rc \in followed : rc.run = r
                        THEN NextGeneration(Unfollowed) ELSE Unfollowed]]
         /\ lineage \in SUBSET {[from |-> rc, chat |-> first, gen |-> 1] :
                                 rc \in followed}
  BY DEF FollowInit
<1>2. receipts = {rc \in Receipts : rc.request = 0}
  BY DEF FollowInit
<1>3. Unfollowed \in Record /\ NextGeneration(Unfollowed) \in Record
      /\ Unfollowed.life = "none" /\ NextGeneration(Unfollowed).life = "active"
  BY Generations
<1>4. native \in [Chats -> [Runs -> Record]]
  BY <1>1, <1>3
<1>5. /\ lineage \in SUBSET [from : Receipts, chat : Chats, gen : Nat]
      /\ \A l \in lineage : l.from.request = 0 /\ l.from \in Receipts /\ l.chat = first /\ l.gen = 1
  BY <1>1, <1>2
<1>6. handoff \in [Receipts -> {"none", "handoff_pending", "superseded"}]
  BY DEF FollowInit
<1>7. FollowTypeOK /\ DOMAIN hook = Hooks
  BY <1>4, <1>5, <1>6, FollowAssumption DEF FollowInit, FollowTypeOK, Receipts
<1>8. HandoffsApart
  BY <1>2, <1>5, FollowAssumption DEF FollowInit, HandoffsApart, Receipts
<1>9. \A e \in Hooks : Knows(hook[e])
  BY DEF FollowInit, Knows
<1>10. FollowsGrounded
  <2>1. \A h \in Chats, r \in Runs : native[h][r].life \in {"none", "active"}
    BY <1>1, <1>3
  <2>2. \A l, m \in lineage : l.from = m.from => l = m
    BY <1>5
  <2> QED
    BY <2>1, <2>2, <1>5 DEF FollowInit, FollowsGrounded
<1> QED
  BY <1>7, <1>8, <1>9, <1>10 DEF FollowInv

\* A run goes on at the backend, or answers: what was given out stays the runner's.
LEMMA RunKeeps ==
    ASSUME FollowInv, NEW r \in Runs, RunGoesOn(r) \/ Respond(r)
    PROVE  FollowInv'
<1>1. /\ UNCHANGED <<store, hook, host, followFaults>>
      /\ native' = native /\ shown' = shown /\ hook' = hook
  BY DEF RunGoesOn, Respond, store, host
<1>2. \A q \in Runs : run[q].state = "terminal" => run'[q].state = "terminal"
  BY DEF RunGoesOn, Respond, FollowInv, FollowTypeOK
<1>3. \A e \in Hooks : Knows(hook[e])'
  <2>1. TAKE e \in Hooks
  <2>2. PICK m : m = hook[e]
    OBVIOUS
  <2>3. Knows(m) /\ (m = Idle \/ m \in Handling)
    BY <2>2 DEF FollowInv, FollowTypeOK
  <2>4. Knows(m)'
    BY <2>3, <1>1, <1>2, KnowsStays
  <2> QED
    BY <2>2, <2>4, <1>1 DEF Knows
<1>4. FollowsGrounded'
  <2>1. FollowsGrounded /\ closed \subseteq Receipts /\ \A rc \in Receipts : rc.run \in Runs
    BY DEF FollowInv, FollowTypeOK, Receipts
  <2>2. UNCHANGED <<native, lineage, resumed, closed, shown>>
    BY <1>1 DEF store
  <2>3. \A h, r1, tool, k : Showed(h, r1, tool, k)' <=> Showed(h, r1, tool, k)
    BY <2>2 DEF Showed
  <2>4. ASSUME NEW rc \in closed'
        PROVE  \E l \in lineage' :
                 /\ l.from = rc /\ run'[rc.run].state = "terminal"
                 /\ Showed(l.chat, rc.run, "run_result", 0)'
    <3>1. PICK l \in lineage : /\ l.from = rc /\ run[rc.run].state = "terminal"
                              /\ Showed(l.chat, rc.run, "run_result", 0)
      BY <2>1, <2>2 DEF FollowsGrounded
    <3>2. run'[rc.run].state = "terminal" /\ l \in lineage'
      BY <2>1, <2>2, <3>1, <1>2
    <3> QED
      BY <2>3, <3>1, <3>2
  <2>5. ASSUME NEW h \in Chats, NEW q \in Runs
        PROVE  /\ native'[h][q].life = "input_pending" =>
                    Showed(h, q, "interaction_view", native[h][q].pend)'
               /\ native'[h][q].life = "terminal" =>
                    run'[q].state = "terminal" /\ Showed(h, q, "run_result", 0)'
    BY <2>1, <2>2, <2>3, <1>2 DEF FollowsGrounded
  <2> QED
    BY <2>1, <2>2, <2>3, <2>4, <2>5 DEF FollowsGrounded
<1>5. run' \in [Runs -> [asked : 0..MaxRequests, state : {"active", "input", "terminal"}]]
  BY FollowAssumption DEF RunGoesOn, Respond, FollowInv, FollowTypeOK
<1>6. CASE RunGoesOn(r)
  <2>1. UNCHANGED <<receipts, calling>>
    BY <1>6 DEF RunGoesOn
  <2>2. FollowTypeOK'
    BY <2>1, <1>1, <1>5 DEF FollowInv, FollowTypeOK, store, host
  <2>3. ASSUME NEW rc \in receipts
        PROVE  /\ rc.request <= run'[rc.run].asked
               /\ run'[rc.run].state = "input" => rc.request < run'[rc.run].asked
    <3>1. /\ rc.request \in Nat /\ rc.run \in Runs /\ run[rc.run].asked \in Nat
          /\ rc.request <= run[rc.run].asked
          /\ run[rc.run].state = "input" => rc.request < run[rc.run].asked
      BY FollowAssumption DEF FollowInv, FollowTypeOK, Receipts, HandoffsApart
    <3>2. \/ run'[rc.run] = run[rc.run]
          \/ run'[rc.run].asked = run[rc.run].asked + 1
          \/ run'[rc.run].asked = run[rc.run].asked /\ run'[rc.run].state # "input"
      BY <3>1, <1>6 DEF RunGoesOn, FollowInv, FollowTypeOK
    <3> QED
      BY <3>1, <3>2
  <2>4. HandoffsApart'
    BY <2>1, <2>3, <1>1 DEF FollowInv, HandoffsApart, store
  <2> QED
    BY <2>2, <2>4, <1>1, <1>3, <1>4 DEF FollowInv
<1>7. CASE Respond(r)
  <2> DEFINE new == [run |-> r, request |-> run[r].asked]
  <2>1. /\ new \in Receipts /\ run[r].state = "input" /\ new \notin receipts
        /\ receipts' = receipts \cup {new} /\ calling' = calling \cup {new}
        /\ run' = [run EXCEPT ![r].state = "active"]
    <3>1. run[r].asked \in 0..MaxRequests /\ new \in Receipts
      BY DEF FollowInv, FollowTypeOK, Receipts
    <3>2. \A rc \in receipts : run[rc.run].state = "input" => rc.request < run[rc.run].asked
      BY DEF FollowInv, HandoffsApart
    <3> QED
      BY <3>1, <3>2, <1>7, FollowAssumption DEF Respond
  <2>2. FollowTypeOK'
    BY <2>1, <1>1, <1>5 DEF FollowInv, FollowTypeOK, store, host
  <2>3. ASSUME NEW rc \in receipts'
        PROVE  /\ rc.request <= run'[rc.run].asked
               /\ run'[rc.run].state = "input" => rc.request < run'[rc.run].asked
    <3>1. \/ rc = new
          \/ rc \in receipts /\ rc.request <= run[rc.run].asked
             /\ (run[rc.run].state = "input" => rc.request < run[rc.run].asked)
      BY <2>1 DEF FollowInv, HandoffsApart
    <3>2. rc.run \in Runs /\ rc.request \in Nat
      BY <2>2, FollowAssumption DEF FollowTypeOK, Receipts
    <3>3. run'[rc.run].asked = run[rc.run].asked
          /\ (run'[rc.run].state = "input" => run[rc.run].state = "input" /\ rc.run # r)
      BY <2>1, <3>2 DEF FollowInv, FollowTypeOK
    <3>4. run[rc.run].asked \in Nat
      BY <3>2, FollowAssumption DEF FollowInv, FollowTypeOK
    <3> QED
      BY <3>1, <3>2, <3>3, <3>4
  <2>4. \A rc \in Receipts : handoff[rc] # "none" => rc \in receipts' \ calling'
    BY <2>1 DEF FollowInv, HandoffsApart
  <2>5. HandoffsApart'
    BY <2>1, <2>3, <2>4, <1>1 DEF FollowInv, HandoffsApart, store
  <2> QED
    BY <2>2, <2>5, <1>1, <1>3, <1>4 DEF FollowInv
<1> QED
  BY <1>6, <1>7

\* A receipt becomes a pending handoff while its call is still open.
LEMMA RecordKeeps ==
    ASSUME FollowInv, NEW rc \in Receipts, RecordHandoff(rc)
    PROVE  FollowInv'
<1>1. /\ rc \in receipts /\ handoff[rc] = "none"
      /\ handoff' = [handoff EXCEPT ![rc] = "handoff_pending"] /\ calling' = calling \ {rc}
      /\ UNCHANGED <<run, receipts, native, lineage, resumed, closed, hook, sent, shown, allowed,
                     followFaults>>
  BY DEF RecordHandoff, FollowInv, FollowTypeOK, host
<1>2. FollowTypeOK' /\ DOMAIN hook' = Hooks
  BY <1>1 DEF FollowInv, FollowTypeOK
<1>3. HandoffsApart'
  BY <1>1 DEF FollowInv, FollowTypeOK, HandoffsApart
<1>4. \A e \in Hooks : Knows(hook[e])'
  BY <1>1 DEF FollowInv, Knows, Showed
<1>5. FollowsGrounded'
  BY <1>1 DEF FollowInv, FollowsGrounded, Showed
<1> QED
  BY <1>2, <1>3, <1>4, <1>5 DEF FollowInv

\* The daemon restarts: no hook is handled any more, and what was given out is pending
\* or lost with its answer.
LEMMA CrashKeeps ==
    ASSUME FollowInv, FollowCrash
    PROVE  FollowInv'
<1>1. PICK recorded \in SUBSET calling :
        handoff' = [rc \in Receipts |->
                       IF rc \in recorded THEN "handoff_pending" ELSE handoff[rc]]
  BY DEF FollowCrash
<1>2. /\ calling' = {} /\ hook' = [e \in Hooks |-> Idle]
      /\ UNCHANGED <<run, receipts, native, lineage, resumed, closed, sent, shown, allowed>>
      /\ followFaults' \in 0..MaxFollowFaults
  BY FollowAssumption DEF FollowCrash, host, FollowStrike, FollowInv, FollowTypeOK
<1>3. FollowTypeOK' /\ DOMAIN hook' = Hooks
  BY <1>1, <1>2 DEF FollowInv, FollowTypeOK
<1>4. HandoffsApart'
  BY <1>1, <1>2 DEF FollowInv, FollowTypeOK, HandoffsApart
<1>5. \A e \in Hooks : Knows(hook[e])'
  BY <1>2 DEF Knows
<1>6. FollowsGrounded'
  BY <1>2 DEF FollowInv, FollowsGrounded, Showed
<1> QED
  BY <1>3, <1>4, <1>5, <1>6 DEF FollowInv

\* The host sends a hook about a tool's response it has shown, or about nothing.
LEMMA SentKeeps ==
    ASSUME FollowInv, NEW h \in Chats, NEW r \in Runs, Hook(h, r)
    PROVE  FollowInv'
<1>1. PICK e \in Hooks, kind \in {"prompt", "tool", "stop", "interrupt"},
           tool \in Tools \cup {"none"}, k \in 0..MaxRequests :
        /\ hook[e] = Idle /\ hook' = [hook EXCEPT ![e] = Sent(kind, h, r, tool, k)]
        /\ shown' = IF tool \in Delivering
                    THEN shown \cup {[chat |-> h, run |-> r, tool |-> tool, request |-> k]}
                    ELSE shown
        /\ kind # "tool" => tool = "none"
        /\ kind = "tool" => tool \in Tools /\ (tool # "interaction_view" => k = 0)
  <2>1. \A k \in 0..run[r].asked : k \in 0..MaxRequests /\ (k > 0 \/ k = 0)
    BY FollowAssumption DEF FollowInv, FollowTypeOK
  <2>2. \A rc \in receipts : rc.request \in 0..MaxRequests
    BY DEF FollowInv, FollowTypeOK, Receipts
  <2>3. 0 \in 0..MaxRequests /\ "none" \notin Delivering
    BY FollowAssumption DEF Delivering
  <2>4. PICK e \in Hooks :
          /\ hook[e] = Idle
          /\ \/ \E t \in Tools, k \in 0..run[r].asked :
                   /\ t = "interaction_view" <=> k > 0
                   /\ hook' = [hook EXCEPT ![e] = Sent("tool", h, r, t, k)]
                   /\ shown' = IF t \in Delivering
                               THEN shown \cup {[chat |-> h, run |-> r, tool |-> t, request |-> k]}
                               ELSE shown
             \/ /\ \/ \E rc \in receipts :
                         hook' = [hook EXCEPT ![e] = Sent("prompt", h, r, "none", rc.request)]
                   \/ \E kind \in {"stop", "interrupt"} :
                         hook' = [hook EXCEPT ![e] = Sent(kind, h, r, "none", 0)]
                /\ shown' = shown
    BY DEF Hook, Delivering
  <2> QED
    BY <2>1, <2>2, <2>3, <2>4 DEF Delivering
<1> DEFINE entry == Sent(kind, h, r, tool, k)
<1>2. entry \in Handling
  BY FollowAssumption DEF Sent, Handling, Event, Signal, NoSignal
<1>3. /\ entry # Idle /\ entry.event.kind = kind /\ entry.event.tool = tool
      /\ entry.event.chat = h /\ entry.event.run = r /\ entry.event.request = k
      /\ entry.run = r /\ entry.seen.kind = "none"
      /\ entry.at \in {"verify", "bind", "target"} /\ (entry.at = "verify" <=> kind = "prompt")
  BY DEF Sent, Idle, NoSignal
<1>4. /\ sent' \in 0..MaxHooks /\ allowed' \in SUBSET Chats
      /\ UNCHANGED <<run, receipts, calling, store, followFaults>>
  BY FollowAssumption DEF Hook, FollowInv, FollowTypeOK
<1> HIDE DEF entry
<1>5. /\ shown' \in SUBSET Response /\ shown \subseteq shown'
      /\ tool \in Delivering => Showed(h, r, tool, k)'
  BY <1>1, FollowAssumption DEF FollowInv, FollowTypeOK, Response, Showed
<1>6. Knows(entry)'
  BY <1>1, <1>3, <1>5 DEF Knows
<1>7. \A x \in Hooks : hook'[x] = IF x = e THEN entry ELSE hook[x]
  BY <1>1 DEF FollowInv, entry
<1>8. DOMAIN hook' = Hooks
  BY <1>1 DEF FollowInv
<1>9. FollowTypeOK'
  BY <1>2, <1>4, <1>5, <1>7 DEF FollowInv, FollowTypeOK, store
<1>10. HandoffsApart'
  BY <1>4 DEF FollowInv, HandoffsApart, store
<1>11. ASSUME NEW x \in Hooks PROVE Knows(hook[x])'
  <2>1. CASE x = e
    BY <2>1, <1>6, <1>7 DEF Knows
  <2>2. CASE x # e
    <3>1. PICK m : m = hook[x]
      OBVIOUS
    <3>2. Knows(m) /\ (m = Idle \/ m \in Handling)
      BY <3>1 DEF FollowInv, FollowTypeOK
    <3>3. Knows(m)'
      BY <3>2, <1>4, <1>5, KnowsStays DEF store
    <3> QED
      BY <3>1, <3>3, <2>2, <1>7 DEF Knows
  <2> QED
    BY <2>1, <2>2
<1>12. FollowsGrounded'
  BY <1>4, <1>5 DEF FollowInv, FollowTypeOK, FollowsGrounded, Showed, store
<1> QED
  BY <1>8, <1>9, <1>10, <1>11, <1>12 DEF FollowInv

\* An answer, and a step that only moves the hook, leave the rest as it is.
LEMMA AnswerEarns ==
    ASSUME FollowInv, NEW e \in Hooks, hook[e] # Idle, NEW answer, Answer(e, answer)
    PROVE  hook' = [hook EXCEPT ![e] = Idle] /\ allowed' \in SUBSET Chats
BY DEF Answer, FollowInv, FollowTypeOK, Handling, Event, Idle

\* A hook reads the run, the record or the generation, and changes nothing but itself.
LEMMA ReadKeeps ==
    ASSUME FollowInv, NEW e \in Hooks, hook[e] # Idle,
           ObserveRun(e) \/ ReadRecord(e) \/ Verify(e) \/ ReadGeneration(e)
    PROVE  FollowInv'
<1> DEFINE m == hook[e]
<1>1. m \in Handling /\ Knows(m)
  BY DEF FollowInv, FollowTypeOK
<1>2. /\ UNCHANGED <<run, receipts, calling, store, shown, sent>>
      /\ followFaults' \in 0..MaxFollowFaults
  BY FollowAssumption DEF ObserveRun, ReadRecord, Verify, ReadGeneration, host,
       FollowStrike,
       FollowInv, FollowTypeOK
<1>3. CASE hook' = [hook EXCEPT ![e] = Idle] /\ allowed' \in SUBSET Chats
  BY <1>2, <1>3, HookOnly DEF Knows
<1>4. CASE Advance(e, "bind") /\ m.at = "observe"
  <2>1. [m EXCEPT !.at = "bind"] \in Handling /\ Knows([m EXCEPT !.at = "bind"])
    BY <1>1, <1>4 DEF Handling, Knows, Showed
  <2>2. hook' = [hook EXCEPT ![e] = [m EXCEPT !.at = "bind"]] /\ allowed' \in SUBSET Chats
    BY <1>4 DEF Advance, FollowInv, FollowTypeOK
  <2> QED
    BY <2>1, <2>2, <1>2, HookOnly
<1>5. CASE Advance(e, "get") /\ m.at = "verify"
  <2>1. [m EXCEPT !.at = "get"] \in Handling /\ Knows([m EXCEPT !.at = "get"])
    BY <1>1, <1>5 DEF Handling, Knows, Showed
  <2>2. hook' = [hook EXCEPT ![e] = [m EXCEPT !.at = "get"]] /\ allowed' \in SUBSET Chats
    BY <1>5 DEF Advance, FollowInv, FollowTypeOK
  <2> QED
    BY <2>1, <2>2, <1>2, HookOnly
<1>6. ASSUME NEW s \in Readings(m.run), m.at = "observe", UNCHANGED allowed,
             hook' = [hook EXCEPT ![e].at = "bind", ![e].seen = s]
      PROVE  FollowInv'
  <2> DEFINE entry == [m EXCEPT !.at = "bind", !.seen = s]
  <2>1. s \in Signal /\ (s.kind = "terminal" => run[m.run].state = "terminal")
    BY <1>1, FollowAssumption DEF Readings, Signal, FollowInv, FollowTypeOK, Handling
  <2>2. /\ entry \in Handling /\ entry.at = "bind" /\ entry.seen = s /\ entry.event = m.event
        /\ entry.run = m.run
    BY <2>1, <1>1 DEF Handling
  <2>3. Knows(entry)
    BY <2>1, <2>2, <1>1, <1>6 DEF Knows, Idle
  <2>4. hook' = [hook EXCEPT ![e] = entry] /\ allowed' \in SUBSET Chats
    BY <1>6 DEF FollowInv, FollowTypeOK
  <2> QED
    BY <2>2, <2>3, <2>4, <1>2, HookOnly
<1>7. ASSUME NEW at \in {"decide", "activate"}, NEW gen \in Nat, NEW rev \in Nat,
             \/ m.at = "read" /\ at = "decide"
             \/ m.at = "get" /\ at = "activate",
             hook' = [hook EXCEPT ![e] = [m EXCEPT !.at = at, !.gen = gen, !.rev = rev]],
             UNCHANGED allowed
      PROVE  FollowInv'
  <2> DEFINE entry == [m EXCEPT !.at = at, !.gen = gen, !.rev = rev]
  <2>1. /\ entry \in Handling /\ entry.at = at /\ entry.seen = m.seen /\ entry.event = m.event
        /\ entry.run = m.run
    BY <1>1 DEF Handling
  <2>2. Knows(entry)
    BY <2>1, <1>1, <1>7 DEF Knows, Idle
  <2>3. allowed' \in SUBSET Chats
    BY <1>7 DEF FollowInv, FollowTypeOK
  <2> QED
    BY <2>1, <2>2, <2>3, <1>2, <1>7, HookOnly
<1>8. CASE ObserveRun(e)
  BY <1>8, <1>3, <1>4, <1>6, AnswerEarns DEF ObserveRun
<1>9. CASE Verify(e)
  BY <1>9, <1>3, <1>5, AnswerEarns DEF Verify
<1>10. native[m.event.chat][m.run] \in Record /\ m.gen \in Nat /\ m.rev \in Nat
  BY <1>1 DEF FollowInv, FollowTypeOK, Handling, Event
<1>11. CASE ReadRecord(e)
  <2> DEFINE record == native[m.event.chat][m.run]
  <2>1. record.gen \in Nat /\ record.rev \in Nat
    BY <1>10 DEF Record
  <2>2. hook' = [hook EXCEPT ![e] = [m EXCEPT !.at = "decide", !.gen = record.gen,
                                              !.rev = record.rev]]
        /\ UNCHANGED allowed /\ m.at = "read"
    BY <1>11 DEF ReadRecord, host, FollowInv
  <2> QED
    BY <2>1, <2>2, <1>7
<1>12. CASE ReadGeneration(e)
  <2> DEFINE record == native[m.event.chat][m.run]
  <2>1. record.gen \in Nat
    BY <1>10 DEF Record
  <2>2. hook' = [hook EXCEPT ![e] = [m EXCEPT !.at = "activate", !.gen = record.gen,
                                              !.rev = m.rev]]
        /\ UNCHANGED allowed /\ m.at = "get"
    BY <1>1, <1>12 DEF ReadGeneration, host, FollowInv, Handling
  <2> QED
    BY <2>1, <2>2, <1>7, <1>10
<1> QED
  BY <1>8, <1>9, <1>11, <1>12

\* A pending handoff is used up, by a chat that may take it.
LEMMA TakeOverKeeps ==
    ASSUME FollowInv, NEW h \in Chats, NEW rc \in Receipts, handoff[rc] = "handoff_pending",
           MayTake(native[h][rc.run], rc), TakeOver(h, rc),
           UNCHANGED <<run, receipts, calling, shown>>
    PROVE  /\ native' \in [Chats -> [Runs -> Record]]
           /\ handoff' \in [Receipts -> {"none", "handoff_pending", "superseded"}]
           /\ lineage' \in SUBSET [from : Receipts, chat : Chats, gen : Nat]
           /\ resumed' \in SUBSET [chat : Chats, run : Runs, from : Nat, request : 0..MaxRequests]
           /\ closed' \in SUBSET Receipts
           /\ HandoffsApart' /\ FollowsGrounded'
           /\ \A g \in Chats, q \in Runs :
                native[g][q].life # "none" => native'[g][q].life # "none"
           /\ native'[h][rc.run].life = "active"
<1> DEFINE r == rc.run
           old == native[h][r]
           new == NextGeneration(old)
<1>1. /\ r \in Runs /\ rc.request \in 0..MaxRequests /\ old \in Record /\ old.gen \in Nat
      /\ native \in [Chats -> [Runs -> Record]]
  BY DEF Receipts, Record, FollowInv, FollowTypeOK
<1>2. new \in Record /\ new.life = "active"
  BY <1>1, Generations
<1>3. /\ native' = [native EXCEPT ![h][r] = new]
      /\ handoff' = [handoff EXCEPT ![rc] = "superseded"]
      /\ lineage' = lineage \cup {[from |-> rc, chat |-> h, gen |-> old.gen + 1]}
      /\ resumed' = IF old.life = "none" THEN resumed
                    ELSE resumed \cup {[chat |-> h, run |-> r, from |-> old.gen,
                                        request |-> rc.request]}
      /\ closed' = closed
  BY DEF TakeOver
<1> HIDE DEF new
<1>4. \A g \in Chats, q \in Runs :
        native'[g][q] = IF g = h /\ q = r THEN new ELSE native[g][q]
  BY <1>1, <1>3
<1>5. \/ old.life = "none" /\ rc.request = 0
      \/ old.life = "input_pending" /\ rc.request = old.pend
         /\ Showed(h, r, "interaction_view", rc.request)
  BY <1>1 DEF MayTake, FollowInv, FollowsGrounded
<1>6. native' \in [Chats -> [Runs -> Record]]
  BY <1>1, <1>2, <1>3
<1>7. /\ handoff' \in [Receipts -> {"none", "handoff_pending", "superseded"}]
      /\ resumed' \in SUBSET [chat : Chats, run : Runs, from : Nat, request : 0..MaxRequests]
      /\ closed' \in SUBSET Receipts
  BY <1>1, <1>3 DEF FollowInv, FollowTypeOK
<1>8. lineage' \in SUBSET [from : Receipts, chat : Chats, gen : Nat]
  <2>1. PICK n \in Nat : n = old.gen + 1
    BY <1>1
  <2> QED
    BY <2>1, <1>3 DEF FollowInv, FollowTypeOK
<1>9. HandoffsApart'
  BY <1>3 DEF FollowInv, FollowTypeOK, HandoffsApart
<1>10. \A l \in lineage : l.from # rc
  BY DEF FollowInv, HandoffsApart
<1>11. FollowsGrounded'
  <2>1. \A g \in Chats, q \in Runs :
          /\ native'[g][q].life = "input_pending" =>
               Showed(g, q, "interaction_view", native'[g][q].pend)
          /\ native'[g][q].life = "terminal" =>
               run[q].state = "terminal" /\ Showed(g, q, "run_result", 0)
    BY <1>2, <1>4 DEF FollowInv, FollowsGrounded
  <2>2. PICK n : n = old.gen + 1
    OBVIOUS
  <2>3. lineage' = lineage \cup {[from |-> rc, chat |-> h, gen |-> n]}
    BY <2>2, <1>3
  <2>4. \A l, m \in lineage' : l.from = m.from => l = m
    BY <2>3, <1>10 DEF FollowInv, FollowsGrounded
  <2>5. \A t \in resumed' : Showed(t.chat, t.run, "interaction_view", t.request)
    BY <1>3, <1>5 DEF FollowInv, FollowsGrounded
  <2>6. \A l \in lineage' :
          l.from.request > 0 => Showed(l.chat, l.from.run, "interaction_view", l.from.request)
    BY <2>3, <1>5 DEF FollowInv, FollowsGrounded
  <2>7. \A c \in closed' : \E l \in lineage' :
          l.from = c /\ run[c.run].state = "terminal" /\ Showed(l.chat, c.run, "run_result", 0)
    BY <2>3, <1>3 DEF FollowInv, FollowsGrounded
  <2> QED
    BY <2>1, <2>4, <2>5, <2>6, <2>7 DEF FollowsGrounded, Showed
<1>12. native'[h][rc.run].life = "active"
  BY <1>1, <1>2, <1>4
<1>13. \A g \in Chats, q \in Runs : native[g][q].life # "none" => native'[g][q].life # "none"
  BY <1>2, <1>4
<1> QED
  BY <1>6, <1>7, <1>8, <1>9, <1>11, <1>12, <1>13

\* A hook that is answered leaves the store as it is.
LEMMA AnswerKeeps ==
    ASSUME FollowInv, NEW e \in Hooks, hook[e] # Idle, NEW answer, Answer(e, answer),
           UNCHANGED <<run, receipts, calling, store, shown, sent, followFaults>>
    PROVE  FollowInv'
<1>1. Knows(Idle)
  BY DEF Knows
<1> QED
  BY <1>1, AnswerEarns, HookOnly DEF FollowInv, FollowTypeOK

\* Binding takes over at most a pending handoff of the hook's own chat and run.
LEMMA BindKeeps ==
    ASSUME FollowInv, NEW e \in Hooks, hook[e] # Idle, BindHook(e)
    PROVE  FollowInv'
<1> DEFINE m == hook[e]
           event == m.event
           next == IF m.at = "target" THEN "observe" ELSE "read"
<1>1. /\ m \in Handling /\ Knows(m) /\ m.at \in {"target", "bind"}
      /\ event \in Event /\ event.chat \in Chats
      /\ event.kind # "prompt" /\ DOMAIN hook = Hooks
  BY DEF FollowInv, FollowTypeOK, BindHook, Knows, Handling, Event
<1>2. UNCHANGED <<run, receipts, calling, sent, shown, followFaults>>
  BY DEF BindHook
<1>3. ASSUME NEW r \in Bound(event), UNCHANGED <<store, allowed>>,
             hook' = [hook EXCEPT ![e].at = next, ![e].run = r]
      PROVE  FollowInv'
  <2> DEFINE entry == [m EXCEPT !.at = next, !.run = r]
  <2>1. /\ r \in Runs /\ native[event.chat][r].life = "active"
        /\ event.kind = "tool" => r = event.run
    BY <1>1 DEF Bound, Event, Followed
  <2>2. /\ entry \in Handling /\ entry.at = next /\ entry.run = r /\ entry.event = event
        /\ entry.seen = m.seen
    BY <2>1, <1>1 DEF Handling
  <2>3. Knows(entry)
    BY <2>1, <2>2, <1>1 DEF Knows, Idle
  <2>4. hook' = [hook EXCEPT ![e] = entry]
    BY <1>3, <1>1
  <2> QED
    BY <2>2, <2>3, <2>4, <1>2, <1>3, HookOnly DEF FollowInv, FollowTypeOK
<1>4. ASSUME Advance(e, "bind"), UNCHANGED store
      PROVE  FollowInv'
  <2>1. [m EXCEPT !.at = "bind"] \in Handling /\ Knows([m EXCEPT !.at = "bind"])
    BY <1>1 DEF Handling, Knows, Showed, Idle
  <2>2. hook' = [hook EXCEPT ![e] = [m EXCEPT !.at = "bind"]] /\ allowed' \in SUBSET Chats
    BY <1>1, <1>4 DEF Advance, FollowInv, FollowTypeOK
  <2> QED
    BY <2>1, <2>2, <1>2, <1>4, HookOnly DEF FollowInv, FollowTypeOK
<1>5. ASSUME NEW rc \in Pending(event.run), event.tool = "run_wait",
             MayTake(native[event.chat][event.run], rc),
             TakeOver(event.chat, rc), Advance(e, next)
      PROVE  FollowInv'
  <2>0. PICK entry : entry = [m EXCEPT !.at = next]
    OBVIOUS
  <2>1. /\ rc \in Receipts /\ rc.run = event.run /\ handoff[rc] = "handoff_pending"
        /\ event.kind = "tool" /\ m.run = event.run
    BY <1>1, <1>5 DEF Pending, Knows
  <2>2. /\ native' \in [Chats -> [Runs -> Record]]
        /\ handoff' \in [Receipts -> {"none", "handoff_pending", "superseded"}]
        /\ lineage' \in SUBSET [from : Receipts, chat : Chats, gen : Nat]
        /\ resumed' \in SUBSET [chat : Chats, run : Runs, from : Nat, request : 0..MaxRequests]
        /\ closed' \in SUBSET Receipts
        /\ HandoffsApart' /\ FollowsGrounded'
        /\ \A g \in Chats, q \in Runs :
             native[g][q].life # "none" => native'[g][q].life # "none"
        /\ native'[event.chat][event.run].life = "active"
    BY <2>1, <1>1, <1>2, <1>5, TakeOverKeeps
  <2>3. /\ entry \in Handling /\ entry.at = next /\ entry.run = m.run /\ entry.event = event
        /\ entry.seen = m.seen
    BY <2>0, <1>1 DEF Handling
  <2>9. PICK known : known = event
    OBVIOUS
  <2>4. Knows(entry)'
    <3>1. /\ entry.event = known /\ known.kind = "tool" /\ known.tool = "run_wait"
          /\ entry.at \in {"observe", "read"} /\ entry.run = known.run
          /\ known.request = 0 /\ known.tool \in Tools
          /\ entry.seen.kind = "terminal" => run[entry.run].state = "terminal"
      BY <2>1, <2>3, <2>9, <1>1, <1>5 DEF Knows
    <3>2. native'[known.chat][known.run].life = "active"
      BY <2>2, <2>9
    <3> QED
      BY <3>1, <3>2, <1>2 DEF Knows, Delivering
  <2>5. hook' = [hook EXCEPT ![e] = entry] /\ allowed' \in SUBSET Chats
    BY <2>0, <1>1, <1>5 DEF Advance, FollowInv, FollowTypeOK
  <2>6. sent' \in 0..MaxHooks /\ followFaults' \in 0..MaxFollowFaults
    BY <1>2 DEF FollowInv, FollowTypeOK
  <2> QED
    BY <2>2, <2>3, <2>4, <2>5, <2>6, <1>2, HookAnd
<1>6. ASSUME NEW answer, Answer(e, answer), UNCHANGED store
      PROVE  FollowInv'
  BY <1>2, <1>6, AnswerKeeps
<1>7. \/ \E r \in Bound(event) : /\ hook' = [hook EXCEPT ![e].at = next, ![e].run = r]
                                 /\ UNCHANGED <<store, allowed>>
      \/ Advance(e, "bind") /\ UNCHANGED store
      \/ \E answer : Answer(e, answer) /\ UNCHANGED store
      \/ \E rc \in Pending(event.run) :
           /\ event.tool = "run_wait" /\ MayTake(native[event.chat][event.run], rc)
           /\ TakeOver(event.chat, rc) /\ Advance(e, next)
  BY DEF BindHook
<1> QED
  BY <1>3, <1>4, <1>5, <1>6, <1>7

\* The decision changes the record only on what the hook has seen and shown.
LEMMA DecideKeeps ==
    ASSUME FollowInv, NEW e \in Hooks, hook[e] # Idle, DecideHook(e)
    PROVE  FollowInv'
<1> DEFINE m == hook[e]
           event == m.event
           h == event.chat
           r == m.run
           old == native[h][r]
           signal == SignalOf(m)
           action == ActionOf(m)
           after == Outcome(signal.kind, action)
           record == [old EXCEPT !.life = after.life, !.need = after.need, !.rev = @ + 1,
                                 !.pend = IF signal.kind = "input" THEN signal.request ELSE @]
<1>1. /\ m \in Handling /\ Knows(m) /\ m.at = "decide"
      /\ event \in Event /\ h \in Chats /\ r \in Runs /\ old \in Record
      /\ event.kind # "prompt" /\ old.life # "none"
  <2>1. m \in Handling /\ Knows(m) /\ m.at = "decide"
    BY DEF FollowInv, FollowTypeOK, DecideHook
  <2>2. event \in Event /\ h \in Chats /\ r \in Runs
    BY <2>1 DEF Handling, Event
  <2>3. old \in Record
    BY <2>2 DEF FollowInv, FollowTypeOK
  <2>4. event.kind # "prompt" /\ old.life # "none"
    BY <2>1 DEF Knows
  <2> QED
    BY <2>1, <2>2, <2>3, <2>4
<1>2. UNCHANGED <<run, receipts, calling, sent, shown, followFaults>>
  BY DEF DecideHook
<1>3. CASE (\E answer : Answer(e, answer)) /\ UNCHANGED store
  BY <1>2, <1>3, AnswerKeeps
<1>4. CASE /\ native' = [native EXCEPT ![h][r] = record]
           /\ closed' = closed \cup Closes(h, r, record)
           /\ \E answer : Answer(e, answer)
           /\ UNCHANGED <<handoff, lineage, resumed>>
  <2>1. signal \in Signal
    BY <1>1, FollowAssumption DEF SignalOf, Signal, Handling
  <2>2. /\ after.life \in {"active", "input_pending", "terminal", "suspended"}
        /\ after.need \in Needs
        /\ after.life = "input_pending" => signal.kind = "input" /\ action = "handoff"
        /\ after.life = "terminal" => signal.kind = "terminal" /\ action = "result_read"
    BY DEF Outcome, Needs, ToolKind
  <2>3. /\ action = "handoff" => /\ event.kind = "tool" /\ event.tool = "interaction_view"
                                 /\ Shown(event, m.seen)
        /\ action = "result_read" => /\ event.kind = "tool" /\ event.tool = "run_result"
                                     /\ Shown(event, m.seen)
    <3>1. event.tool \in DOMAIN ToolKind \cup {"none"}
      BY <1>1, FollowAssumption DEF Event
    <3>4. event.kind = "tool" => event.tool \in DOMAIN ToolKind
      BY <1>1, FollowAssumption DEF Knows, Idle, Handling
    <3>5. event.kind = "tool" => event.tool # "none"
      BY <3>4 DEF ToolKind
    <3>2. event.tool \in {"run_wait", "run_get", "run_events", "interaction_view",
                       "run_result", "none"}
      BY <3>1 DEF ToolKind
    <3>3. event.tool # "none" =>
            \/ ToolKind[event.tool] = "handoff" /\ event.tool = "interaction_view"
            \/ ToolKind[event.tool] = "result_read" /\ event.tool = "run_result"
            \/ ToolKind[event.tool] \in {"wait", "drain_events"}
      BY <3>2 DEF ToolKind
    <3> QED
      BY <3>5, <3>2, <3>3 DEF ActionOf, Delivering
  <2>4. event.kind = "tool" => signal = m.seen
    BY DEF SignalOf
  <2>5. /\ after.life = "input_pending" =>
             signal.kind = "input" /\ Showed(h, r, "interaction_view", signal.request)
        /\ after.life = "terminal" =>
             run[r].state = "terminal" /\ Showed(h, r, "run_result", 0)
    BY <2>2, <2>3, <2>4, <1>1 DEF Knows, Shown, Delivering
  <2>6. PICK v \in Nat, p \in 0..MaxRequests :
          /\ record = [old EXCEPT !.life = after.life, !.need = after.need, !.rev = v, !.pend = p]
          /\ signal.kind = "input" => p = signal.request
    <3>1. old.rev + 1 \in Nat /\ old.pend \in 0..MaxRequests /\ signal.request \in 0..MaxRequests
      BY <2>1, <1>1 DEF Record, Signal
    <3> QED
      BY <3>1
  <2> HIDE DEF record, after, signal, action
  <2>7. record \in Record /\ record.life = after.life /\ record.pend = p
    BY <2>2, <2>6, <1>1 DEF Record, Lives
  <2>8. \A g \in Chats, q \in Runs :
          native'[g][q] = IF g = h /\ q = r THEN record ELSE native[g][q]
    BY <1>1, <1>4 DEF FollowInv, FollowTypeOK
  <2>9. native' \in [Chats -> [Runs -> Record]]
    BY <2>7, <1>1, <1>4 DEF FollowInv, FollowTypeOK
  <2>10. closed' \in SUBSET Receipts
    BY <1>4 DEF Closes, FollowInv, FollowTypeOK
  <2>11. HandoffsApart'
    BY <1>2, <1>4 DEF FollowInv, HandoffsApart
  <2>12. FollowsGrounded'
    <3>1. \A g \in Chats, q \in Runs :
            /\ native'[g][q].life = "input_pending" =>
                 Showed(g, q, "interaction_view", native'[g][q].pend)
            /\ native'[g][q].life = "terminal" =>
                 run[q].state = "terminal" /\ Showed(g, q, "run_result", 0)
      <4>1. ASSUME NEW g \in Chats, NEW q \in Runs, g = h, q = r
            PROVE  /\ native'[g][q].life = "input_pending" =>
                        Showed(g, q, "interaction_view", native'[g][q].pend)
                   /\ native'[g][q].life = "terminal" =>
                        run[q].state = "terminal" /\ Showed(g, q, "run_result", 0)
        <5>1. native'[g][q] = record
          BY <2>8, <4>1
        <5>2. native'[g][q].life = after.life /\ native'[g][q].pend = p
          BY <5>1, <2>7
        <5> QED
          BY <5>2, <4>1, <2>5, <2>6
      <4>2. ASSUME NEW g \in Chats, NEW q \in Runs, g # h \/ q # r
            PROVE  native'[g][q] = native[g][q]
        BY <4>2, <2>8
      <4> QED
        BY <4>1, <4>2 DEF FollowInv, FollowsGrounded
    <3>2. \A c \in Closes(h, r, record) : \E l \in lineage :
            l.from = c /\ run[c.run].state = "terminal" /\ Showed(l.chat, c.run, "run_result", 0)
      BY <2>5, <2>7 DEF Closes
    <3> QED
      BY <3>1, <3>2, <1>2, <1>4 DEF FollowInv, FollowsGrounded, Showed
  <2>13. \A g \in Chats, q \in Runs :
           native[g][q].life # "none" => native'[g][q].life # "none"
    BY <2>2, <2>7, <2>8
  <2>14. hook' = [hook EXCEPT ![e] = Idle] /\ allowed' \in SUBSET Chats
    BY <1>4, AnswerEarns
  <2>15. Knows(Idle)'
    BY DEF Knows
  <2>16. /\ handoff' \in [Receipts -> {"none", "handoff_pending", "superseded"}]
         /\ lineage' \in SUBSET [from : Receipts, chat : Chats, gen : Nat]
         /\ resumed' \in SUBSET [chat : Chats, run : Runs, from : Nat, request : 0..MaxRequests]
         /\ sent' \in 0..MaxHooks /\ followFaults' \in 0..MaxFollowFaults
    BY <1>2, <1>4 DEF FollowInv, FollowTypeOK
  <2> QED
    BY <2>9, <2>10, <2>11, <2>12, <2>13, <2>14, <2>15, <2>16, <1>2, HookAnd
<1> QED
  BY <1>3, <1>4 DEF DecideHook

\* A prompt activates a follow of a run that its chat was given.
LEMMA ActivateKeeps ==
    ASSUME FollowInv, NEW e \in Hooks, hook[e] # Idle, Activate(e)
    PROVE  FollowInv'
<1> DEFINE h == hook[e].event.chat
           r == hook[e].run
           old == native[h][r]
           new == NextGeneration(old)
<1>1. /\ hook[e] \in Handling /\ h \in Chats /\ r \in Runs
      /\ native \in [Chats -> [Runs -> Record]] /\ old \in Record
  BY DEF FollowInv, FollowTypeOK, Handling, Event
<1>2. /\ UNCHANGED <<run, receipts, calling, handoff, lineage, resumed, closed, sent, shown,
                     followFaults>>
      /\ \E answer : Answer(e, answer)
  BY DEF Activate
<1>3. CASE native' = native
  BY <1>2, <1>3, AnswerKeeps DEF store
<1>4. CASE native' # native
  <2>1. new \in Record /\ new.life = "active"
    BY <1>1, Generations
  <2> HIDE DEF new
  <2>2. PICK gone \in SUBSET Runs :
          native' = [native EXCEPT ![h] = [q \in Runs |->
                      IF q = r THEN new
                      ELSE IF q \in gone THEN [@[q] EXCEPT !.life = "superseded"]
                      ELSE @[q]]]
    <3> DEFINE replaced(q) == /\ old.life = "none" /\ q # r
                              /\ native[h][q].life = "active" /\ native[h][q].need = "none"
               gone == {q \in Runs : replaced(q)}
    <3>1. native' = [native EXCEPT ![h] = [q \in Runs |->
                      IF q = r THEN new
                      ELSE IF replaced(q) THEN [@[q] EXCEPT !.life = "superseded"]
                      ELSE @[q]]]
      BY <1>4 DEF Activate, new
    <3>2. native' = [native EXCEPT ![h] = [q \in Runs |->
                      IF q = r THEN new
                      ELSE IF q \in gone THEN [@[q] EXCEPT !.life = "superseded"]
                      ELSE @[q]]]
      BY <3>1
    <3> QED
      BY <3>2
  <2>3. \A g \in Chats, q \in Runs :
          \/ native'[g][q] = native[g][q]
          \/ native'[g][q] \in Record /\ native'[g][q].life \in {"active", "superseded"}
    <3>1. TAKE g \in Chats, q \in Runs
    <3>2. native[g][q] \in Record
      BY <1>1
    <3>3. /\ [native[g][q] EXCEPT !.life = "superseded"] \in Record
          /\ [native[g][q] EXCEPT !.life = "superseded"].life = "superseded"
      BY <3>2 DEF Record, Lives
    <3>4. native'[g][q] \in {native[g][q], new, [native[g][q] EXCEPT !.life = "superseded"]}
      BY <2>2, <1>1
    <3> QED
      BY <2>1, <3>3, <3>4
  <2>4. native' \in [Chats -> [Runs -> Record]]
    <3>1. DOMAIN native' = Chats /\ \A g \in Chats : DOMAIN native'[g] = Runs
      BY <2>2, <1>1
    <3>2. native' = [g \in Chats |-> native'[g]]
      BY <2>2, <1>1
    <3>3. \A g \in Chats : native'[g] \in [Runs -> Record]
      <4>1. TAKE g \in Chats
      <4>2. native'[g] = [q \in Runs |-> native'[g][q]]
        BY <2>2, <1>1
      <4>3. \A q \in Runs : native'[g][q] \in Record
        BY <2>3, <1>1
      <4> QED
        BY <4>2, <4>3
    <3> QED
      BY <3>2, <3>3
  <2>5. /\ lineage' \in SUBSET [from : Receipts, chat : Chats, gen : Nat]
        /\ resumed' \in SUBSET [chat : Chats, run : Runs, from : Nat, request : 0..MaxRequests]
        /\ handoff' \in [Receipts -> {"none", "handoff_pending", "superseded"}]
        /\ closed' \in SUBSET Receipts
        /\ sent' \in 0..MaxHooks /\ followFaults' \in 0..MaxFollowFaults
    BY <1>2 DEF FollowInv, FollowTypeOK
  <2>6. HandoffsApart'
    BY <1>2 DEF FollowInv, HandoffsApart
  <2>7. FollowsGrounded'
    BY <2>3, <1>2 DEF FollowInv, FollowsGrounded, Showed
  <2>8. \A g \in Chats, q \in Runs :
           native[g][q].life # "none" => native'[g][q].life # "none"
    BY <2>3
  <2>9. hook' = [hook EXCEPT ![e] = Idle] /\ allowed' \in SUBSET Chats
    BY <1>2, AnswerEarns
  <2>10. Knows(Idle)'
    BY DEF Knows
  <2> QED
    BY <2>4, <2>5, <2>6, <2>7, <2>8, <2>9, <2>10, <1>2, HookAnd
<1> QED
  BY <1>3, <1>4

\* Every step keeps the invariant.
LEMMA FollowSteps ==
    FollowInv /\ [FollowNext]_followVars => FollowInv'
<1> SUFFICES ASSUME FollowInv, [FollowNext]_followVars PROVE FollowInv'
  OBVIOUS
<1>1. CASE UNCHANGED followVars
  <2>1. FollowTypeOK' /\ HandoffsApart' /\ FollowsGrounded' /\ DOMAIN hook' = Hooks
    BY <1>1 DEF FollowInv, followVars, FollowTypeOK, HandoffsApart, FollowsGrounded, Showed
  <2>2. \A e \in Hooks : Knows(hook[e])'
    BY <1>1 DEF FollowInv, followVars, Knows, Showed
  <2> QED
    BY <2>1, <2>2 DEF FollowInv
<1>2. CASE \E r \in Runs : RunGoesOn(r) \/ Respond(r)
  BY <1>2, RunKeeps
<1>3. CASE \E rc \in Receipts : RecordHandoff(rc)
  BY <1>3, RecordKeeps
<1>4. CASE \E h \in Chats, r \in Runs : Hook(h, r)
  BY <1>4, SentKeeps
<1>5. CASE \E e \in Hooks : hook[e] # Idle /\ HookStep(e)
  BY <1>5, BindKeeps, ReadKeeps, DecideKeeps, ActivateKeeps DEF HookStep
<1>6. CASE FollowCrash
  BY <1>6, CrashKeeps
<1> QED
  BY <1>1, <1>2, <1>3, <1>4, <1>5, <1>6 DEF FollowNext

\* A chat that has followed one run may end its turn only when that follow is not active.
LEMMA StopsEarned ==
    ASSUME FollowInv, FollowNext, NEW h \in Chats, NEW r \in Runs,
           Followed(h) = {r}, StopAllowed(h)
    PROVE  native'[h][r].life # "active"
<1>1. PICK e \in Hooks : /\ hook[e] # Idle /\ HookStep(e)
                         /\ hook[e].event.kind = "stop" /\ hook[e].event.chat = h
                         /\ Answer(e, "allow")
  <2>1. h \notin allowed /\ h \in allowed'
    BY DEF StopAllowed
  <2>2. PICK e \in Hooks : hook[e] # Idle /\ HookStep(e)
    BY <2>1 DEF FollowNext, RunGoesOn, Respond, RecordHandoff, Hook, FollowCrash, host
  <2>3. PICK answer : Answer(e, answer)
    BY <2>1, <2>2 DEF HookStep, BindHook, ObserveRun, ReadRecord, DecideHook, Verify,
         ReadGeneration, Activate, host, Advance
  <2>4. hook[e].event.kind = "stop" /\ answer = "allow" /\ hook[e].event.chat = h
    BY <2>1, <2>3 DEF Answer
  <2> QED
    BY <2>2, <2>3, <2>4
<1> DEFINE m == hook[e]
<1>2. /\ m \in Handling /\ Knows(m) /\ m.run \in Runs
      /\ m.at \notin {"verify", "get", "activate"} /\ m.event.tool = "none"
      /\ m.at \in {"read", "decide"} => native[h][m.run].life # "none"
      /\ native \in [Chats -> [Runs -> Record]]
  BY <1>1 DEF FollowInv, FollowTypeOK, Knows, Handling
<1>3. hook' = [hook EXCEPT ![e] = Idle] /\ hook'[e] = Idle
  BY <1>1 DEF Answer, FollowInv
<1>4. CASE BindHook(e)
  <2>1. Bound(m.event) = {} /\ UNCHANGED store
    <3>1. ASSUME NEW q \in Runs, hook' = [hook EXCEPT ![e].at = "observe", ![e].run = q]
          PROVE  FALSE
      BY <3>1, <1>2, <1>3 DEF Handling, Idle, FollowInv
    <3>2. ASSUME NEW q \in Runs, hook' = [hook EXCEPT ![e].at = "read", ![e].run = q]
          PROVE  FALSE
      BY <3>2, <1>2, <1>3 DEF Handling, Idle, FollowInv
    <3>3. Bound(m.event) \subseteq Runs
      BY <1>1 DEF Bound, Followed
    <3> QED
      BY <3>1, <3>2, <3>3, <1>2, <1>4 DEF BindHook
  <2>2. native[h][r].life # "active"
    BY <2>1, <1>1 DEF Bound
  <2> QED
    BY <2>1, <2>2 DEF store
<1>5. CASE DecideHook(e)
  <2>1. m.run = r
    BY <1>2, <1>5 DEF DecideHook, Followed
  <2>2. ~Inert(m)
    BY <1>1 DEF Inert
  <2> DEFINE after == Outcome(SignalOf(m).kind, ActionOf(m))
  <2>3. PICK answer :
          /\ Answer(e, answer)
          /\ \/ answer = "error"
             \/ /\ answer = IF after.life = "active" THEN "continue" ELSE "allow"
                /\ \E v, p : native' = [native EXCEPT ![h][r] =
                     [native[h][r] EXCEPT !.life = after.life, !.need = after.need, !.rev = v,
                                          !.pend = p]]
    BY <1>1, <2>1, <2>2, <1>5 DEF DecideHook
  <2>4. answer = "allow"
    BY <2>3, <1>1 DEF Answer, StopAllowed
  <2>5. after.life # "active"
    BY <2>3, <2>4
  <2> HIDE DEF after
  <2>6. PICK v, p : native' = [native EXCEPT ![h][r] =
                       [native[h][r] EXCEPT !.life = after.life, !.need = after.need, !.rev = v,
                                            !.pend = p]]
    BY <2>3, <2>4
  <2>7. native[h][r] \in Record
    BY <1>2
  <2>8. native'[h][r] = [native[h][r] EXCEPT !.life = after.life, !.need = after.need, !.rev = v,
                                             !.pend = p]
    BY <2>6, <1>2
  <2> QED
    BY <2>5, <2>7, <2>8 DEF Record
<1> QED
  BY <1>1, <1>2, <1>4, <1>5 DEF HookStep, ObserveRun, ReadRecord, Verify, ReadGeneration,
       Activate,
     host, StopAllowed, Answer, Advance

\* A follow pauses on the request its chat was shown and ends with a result read there, a
\* handoff is taken over once, and a chat that follows one run may stop only when that
\* follow is not active, whatever was under way when its stop was looked at (lifecycle,
\* decide and promote_pending_ui_handoff).
THEOREM FollowsEarned ==
    FollowSpec => []FollowTypeOK /\ FollowEarned
<1>1. FollowInv => FollowTypeOK
  BY DEF FollowInv
<1>2. ASSUME FollowInv, [FollowNext]_followVars
      PROVE  [/\ FollowsGrounded'
              /\ \A h \in Chats, r \in Runs :
                   Followed(h) = {r} /\ StopAllowed(h) => native'[h][r].life # "active"]_followVars
  <2>1. FollowsGrounded'
    BY <1>2, FollowSteps DEF FollowInv
  <2> QED
    BY <2>1, <1>2, StopsEarned
<1> QED
  BY <1>1, <1>2, FollowInits, FollowSteps, PTL DEF FollowSpec, FollowEarned
-----------------------------------------------------------------------------
MemorySpec == MemoryInit /\ [][MemoryNext]_memoryVars

\* Transitions under way: of the reads that found nobody signed in, and of the switch.
Disposing == {r \in Readers : read[r].at = "dispose"}
SwitchHolds == CASE switch = "none" -> 0 [] switch = "disposing" -> 2 [] OTHER -> 1

\* Only a lease of the generation is current: a switch leaves none, and a read that is
\* ready under one is of the owner who is signed in.
Leased(entry) ==
    entry # NoRead =>
      /\ entry.lease <= life.gen
      /\ switch # "none" => entry.lease # life.gen
      /\ entry.at \notin {"admitted", "dispose"} => entry.ticket.owner # Nobody
      /\ entry.at = "ready" /\ entry.lease = life.gen => signedIn = entry.ticket.owner

LeasesFenced ==
    /\ life.transitions = Cardinality(Disposing) + SwitchHolds
    /\ pageStore.gen <= life.gen
    /\ \A r \in Readers : Leased(read[r])

Underway(entry) == entry.at \notin {"free", "admitted", "dispose", "begin"}

\* No two reads have a serial in common, and what is kept is of a chat in the table.
TicketsApart ==
    /\ \A r \in Readers : Underway(read[r]) => read[r].ticket.serial <= pageStore.serial
    /\ \A r, q \in Readers : /\ Underway(read[r]) /\ Underway(read[q])
                             /\ read[r].ticket.serial = read[q].ticket.serial
                             => r = q
    /\ \A f \in pageStore.flights : Handled(f) /\ f.scope \in pageStore.contexts
    /\ \A d \in pageStore.documents : d.scope \in pageStore.contexts
    /\ IsFiniteSet(pageStore.contexts)

\* A document is as far as its chat was given, until a read has kept the next page of it.
UpToDate == pageStore.gen = life.gen
Agrees(d) == /\ given[d.scope].rev = d.rev /\ given[d.scope].next = d.next
             /\ given[d.scope].owner = pageStore.owner

Untouched(entry) ==
    \/ entry.at \in {"fetch", "verify", "finish", "release"}
    \/ entry.at \in {"confirm", "ready"} /\ entry.answer # "page"
PageKept(entry) == entry.at \in {"confirm", "ready"} /\ entry.answer = "page"

Progress(entry) ==
    LET scope == entry.ticket.scope
    IN /\ entry.at = "finish" => entry.answer \in {"page", "refused"}
       /\ entry.at = "verify" => entry.answer # "none"
       /\ Underway(entry) /\ Matches(entry.ticket) => entry.lease = pageStore.gen
       /\ Underway(entry) /\ Matches(entry.ticket) /\ UpToDate =>
            /\ Untouched(entry) => \A d \in pageStore.documents : d.scope = scope => Agrees(d)
            /\ PageKept(entry) =>
                 /\ \A d \in pageStore.documents :
                      d.scope = scope => d.rev = entry.rev /\ d.next = entry.page + 1
                 /\ entry.page > 0 =>
                      /\ given[scope].next = entry.page /\ given[scope].rev = entry.rev
                      /\ given[scope].owner = pageStore.owner

DocumentsAgree ==
    /\ \A d \in pageStore.documents :
         (\E f \in pageStore.flights : f.scope = d.scope) \/ ~UpToDate \/ Agrees(d)
    /\ \A s \in Scopes : given[s].owner = given[s].bound

MemoryInv ==
    /\ MemoryTypeOK /\ DOMAIN read = Readers /\ DOMAIN pageStore = DOMAIN EmptyStore
    /\ LeasesFenced
    /\ TicketsApart
    /\ \A r \in Readers : Progress(read[r])
    /\ DocumentsAgree
-----------------------------------------------------------------------------
\* No read is under way, and a document is where its chat was given it.
LEMMA MemoryInits ==
    MemoryInit => MemoryInv
<1> SUFFICES ASSUME MemoryInit PROVE MemoryInv
  OBVIOUS
<1>1. /\ read = [r \in Readers |-> NoRead] /\ switch = "none" /\ signedIn \in Owners
      /\ life = [gen |-> 0, transitions |-> 0] /\ revision = 1
      /\ memoryLeft \in [MemoryEvents -> Nat]
      /\ \A r \in Readers : read[r].at = "free"
  BY MemoryAssumption DEF MemoryInit, NoRead
<1>2. PICK contexts \in SUBSET Scopes, documents \in SUBSET Document :
        /\ DOMAIN pageStore = DOMAIN EmptyStore
        /\ pageStore.epoch = 0 /\ pageStore.gen = 0 /\ pageStore.serial = 0
        /\ pageStore.owner \in {Nobody, signedIn}
        /\ pageStore.contexts = contexts /\ pageStore.documents = documents
        /\ pageStore.flights = {}
        /\ IsFiniteSet(contexts) /\ Cardinality(contexts) <= 1
        /\ \A d \in documents : d.scope \in contexts
        /\ \A x, y \in documents : x.scope = y.scope => x = y
        /\ \A d \in documents : Agrees(d)
  <2>1. CASE pageStore = EmptyStore
    BY <2>1, FS_EmptySet DEF EmptyStore
  <2>2. CASE \E s \in Scopes :
            /\ pageStore = [EmptyStore EXCEPT !.owner = signedIn, !.contexts = {s},
                                !.documents = {[scope |-> s, rev |-> 1, next |-> 1]}]
            /\ given = [t \in Scopes |-> IF t # s THEN Nothing ELSE
                          [rev |-> 1, next |-> 1, owner |-> signedIn, bound |-> signedIn]]
    <3>1. PICK s \in Scopes :
            /\ pageStore = [EmptyStore EXCEPT !.owner = signedIn, !.contexts = {s},
                                !.documents = {[scope |-> s, rev |-> 1, next |-> 1]}]
            /\ given = [t \in Scopes |-> IF t # s THEN Nothing ELSE
                          [rev |-> 1, next |-> 1, owner |-> signedIn, bound |-> signedIn]]
      BY <2>2
    <3>2. IsFiniteSet({s}) /\ Cardinality({s}) = 1
      BY FS_Singleton
    <3>3. {[scope |-> s, rev |-> 1, next |-> 1]} \in SUBSET Document
      BY DEF Document
    <3>4. /\ DOMAIN pageStore = DOMAIN EmptyStore
          /\ pageStore.epoch = 0 /\ pageStore.gen = 0 /\ pageStore.serial = 0
          /\ pageStore.owner = signedIn /\ pageStore.flights = {}
          /\ pageStore.contexts = {s}
          /\ pageStore.documents = {[scope |-> s, rev |-> 1, next |-> 1]}
      BY <3>1 DEF EmptyStore
    <3>5. given[s].rev = 1 /\ given[s].next = 1 /\ given[s].owner = signedIn
      BY <3>1
    <3> QED
      BY <3>2, <3>3, <3>4, <3>5 DEF Agrees
  <2> QED
    BY <2>1, <2>2 DEF MemoryInit
<1>3. given \in [Scopes -> [rev : Nat, next : Nat, owner : Owners \cup {Nobody},
                            bound : Owners \cup {Nobody}]]
      /\ \A s \in Scopes : given[s].owner = given[s].bound
  <2>1. /\ Nothing \in [rev : Nat, next : Nat, owner : Owners \cup {Nobody},
                        bound : Owners \cup {Nobody}]
        /\ Nothing.owner = Nothing.bound
    BY DEF Nothing
  <2> DEFINE first == [rev |-> 1, next |-> 1, owner |-> signedIn, bound |-> signedIn]
  <2>2. /\ first \in [rev : Nat, next : Nat, owner : Owners \cup {Nobody},
                      bound : Owners \cup {Nobody}]
        /\ first.owner = first.bound
    BY <1>1
  <2>3. \/ given = [s \in Scopes |-> Nothing]
        \/ \E s \in Scopes : given = [t \in Scopes |-> IF t # s THEN Nothing ELSE first]
    BY DEF MemoryInit
  <2> HIDE DEF first
  <2> QED
    BY <2>1, <2>2, <2>3
<1>4. Cardinality(contexts) <= MaxContexts
  BY <1>2, FS_CardinalityType, MemoryAssumption
<1>5. MemoryTypeOK
  BY <1>1, <1>2, <1>3, <1>4 DEF MemoryTypeOK, Flight
<1>6. LeasesFenced
  <2>1. Disposing = {}
    BY <1>1 DEF Disposing
  <2>2. Cardinality(Disposing) = 0
    BY <2>1, FS_EmptySet
  <2> QED
    BY <2>2, <1>1, <1>2 DEF LeasesFenced, Leased, SwitchHolds
<1>7. TicketsApart
  BY <1>1, <1>2 DEF TicketsApart, Underway
<1>8. \A r \in Readers : Progress(read[r])
  BY <1>1 DEF Progress, Underway
<1>9. DocumentsAgree
  BY <1>2, <1>3 DEF DocumentsAgree
<1> QED
  BY <1>1, <1>2, <1>5, <1>6, <1>7, <1>8, <1>9 DEF MemoryInv
-----------------------------------------------------------------------------
\* What a read is doing, while it does something.
LEMMA ReadingFields ==
    ASSUME MemoryInv, NEW r \in Readers, read[r].at # "free"
    PROVE  /\ read[r] \in Reading /\ read[r] # NoRead
           /\ read[r].lease \in Nat /\ read[r].rev \in Nat /\ read[r].page \in Nat
           /\ read[r].ticket.serial \in Nat /\ read[r].ticket.scope \in Scopes
           /\ read[r].ticket.epoch \in Nat
           /\ Leased(read[r]) /\ Progress(read[r])
BY MemoryAssumption DEF MemoryInv, MemoryTypeOK, NoRead, Reading, Ticket, Pages,
     LeasesFenced

\* The rest of the table is as it was: what is kept of a read, and of no read, stays true
\* while the document of its chat, what the chat was given and the generation do, and as
\* soon as the generation moves on.
LEMMA ProgressStays ==
    ASSUME NEW entry, Progress(entry), entry = NoRead \/ entry \in Reading,
           pageStore.gen \in Nat, life.gen \in Nat, life'.gen \in Nat,
           pageStore' = pageStore, given' = given,
           pageStore.gen <= life.gen, life'.gen >= life.gen
    PROVE  Progress(entry)'
<1>1. UpToDate' => UpToDate
  BY DEF UpToDate
<1> QED
  BY <1>1 DEF Progress, Matches, Agrees, Underway, Untouched, PageKept

\* The generation may only move on, and then nothing is claimed of the documents.
LEMMA AgreeStays ==
    ASSUME MemoryInv, life'.gen \in Nat, pageStore' = pageStore, given' = given,
           life'.gen >= life.gen
    PROVE  DocumentsAgree'
<1>1. UpToDate' => UpToDate
  BY DEF UpToDate, MemoryInv, LeasesFenced, MemoryTypeOK
<1> QED
  BY <1>1 DEF MemoryInv, DocumentsAgree, Agrees

\* A lease stays what it was while the generation moves on.
LEMMA LeasedStays ==
    ASSUME NEW entry, entry = NoRead \/ entry \in Reading, Leased(entry),
           life.gen \in Nat, life'.gen \in Nat, life'.gen >= life.gen,
           switch' = switch \/ life'.gen > life.gen,
           signedIn' = signedIn \/ life'.gen > life.gen \/ entry.lease # life.gen
    PROVE  Leased(entry)'
BY DEF Leased, Reading, NoRead

\* One read moves, the table stays.
LEMMA ReadMoves ==
    ASSUME MemoryInv, NEW r \in Readers, NEW entry, entry = NoRead \/ entry \in Reading,
           read' = [read EXCEPT ![r] = entry],
           UNCHANGED <<pageStore, switch, signedIn, revision, given>>,
           memoryLeft' \in [MemoryEvents -> Nat],
           life' \in [gen : Nat, transitions : Nat], life'.gen >= life.gen,
           Underway(entry) <=> Underway(read[r]),
           Underway(entry) => entry.ticket = read[r].ticket,
           life'.transitions = Cardinality(Disposing') + SwitchHolds',
           Leased(entry)', Progress(entry)'
    PROVE  MemoryInv'
<1>1. /\ \A q \in Readers : read'[q] = IF q = r THEN entry ELSE read[q]
      /\ DOMAIN read' = Readers
  BY DEF MemoryInv
<1>2. /\ pageStore.gen \in Nat /\ life.gen \in Nat /\ life'.gen \in Nat
      /\ pageStore.gen <= life.gen
  BY DEF MemoryInv, MemoryTypeOK, LeasesFenced
<1>3. \A q \in Readers : read[q] = NoRead \/ read[q] \in Reading
  BY DEF MemoryInv, MemoryTypeOK
<1>4. MemoryTypeOK'
  BY <1>1, <1>3 DEF MemoryInv, MemoryTypeOK
<1>5. ASSUME NEW q \in Readers PROVE Leased(read[q])' /\ Progress(read[q])'
  <2>1. CASE q = r
    <3>1. read'[q] = entry
      BY <2>1, <1>1
    <3> QED
      BY <3>1 DEF Leased, Progress
  <2>2. CASE q # r
    <3>1. PICK m : m = read[q]
      OBVIOUS
    <3>2. /\ m = NoRead \/ m \in Reading
          /\ Leased(m) /\ Progress(m)
      BY <3>1, <1>3 DEF MemoryInv, LeasesFenced
    <3>3. Leased(m)' /\ Progress(m)'
      BY <3>2, <1>2, LeasedStays, ProgressStays
    <3>4. read'[q] = m
      BY <2>2, <3>1, <1>1
    <3> QED
      BY <3>3, <3>4 DEF Leased, Progress
  <2> QED
    BY <2>1, <2>2
<1>6. LeasesFenced'
  BY <1>2, <1>5 DEF LeasesFenced
<1>7. TicketsApart'
  <2>1. \A q \in Readers : /\ Underway(read'[q]) <=> Underway(read[q])
                           /\ Underway(read[q]) => read'[q].ticket = read[q].ticket
    BY <1>1
  <2>2. ASSUME NEW f \in pageStore.flights PROVE Handled(f)'
    <3>1. PICK q \in Readers :
        /\ Underway(read[q])
        /\ read[q].ticket.serial = f.serial /\ read[q].ticket.scope = f.scope
        /\ read[q].ticket.epoch = pageStore.epoch /\ read[q].ticket.owner = pageStore.owner
      BY <1>3 DEF MemoryInv, TicketsApart, Handled, Underway, Reading
    <3>2. read'[q].ticket = read[q].ticket /\ Underway(read'[q])
      BY <2>1, <3>1
    <3> QED
      BY <3>1, <3>2 DEF Handled, Underway, NoRead
  <2> QED
    BY <2>1, <2>2 DEF MemoryInv, TicketsApart, Underway
<1>8. DocumentsAgree'
  BY <1>2, AgreeStays
<1> QED
  BY <1>1, <1>4, <1>5, <1>6, <1>7, <1>8 DEF MemoryInv

\* No read that disposes of the table comes or goes.
LEMMA HoldsSame ==
    ASSUME MemoryInv, NEW r \in Readers, NEW entry, read' = [read EXCEPT ![r] = entry],
           entry.at # "dispose", read[r].at # "dispose",
           life' = life, switch' = switch
    PROVE  /\ life' \in [gen : Nat, transitions : Nat] /\ life'.gen >= life.gen
           /\ life'.transitions = Cardinality(Disposing') + SwitchHolds'
<1>1. Disposing' = Disposing
  BY DEF Disposing, MemoryInv
<1> QED
  BY <1>1 DEF MemoryInv, MemoryTypeOK, LeasesFenced, SwitchHolds

\* The reads are finitely many.
LEMMA Counts ==
    ASSUME MemoryInv
    PROVE  IsFiniteSet(Disposing) /\ Cardinality(Disposing) \in Nat
BY FS_Subset, FS_CardinalityType, MemoryAssumption DEF Disposing

\* What may still happen only gets less.
LEMMA Happening ==
    ASSUME MemoryInv, NEW event \in MemoryEvents, Happens(event)
    PROVE  memoryLeft' \in [MemoryEvents -> Nat]
BY DEF MemoryInv, MemoryTypeOK, Happens
-----------------------------------------------------------------------------
\* A call takes its lease only while no transition is under way.
LEMMA CaptureKeeps ==
    ASSUME MemoryInv, NEW r \in Readers, NEW s \in Scopes, NEW p \in Pages, Capture(r, s, p)
    PROVE  MemoryInv'
<1>0. PICK gen \in Nat, rev \in Nat : gen = life.gen /\ rev = given[s].rev
  BY DEF MemoryInv, MemoryTypeOK
<1> DEFINE entry == [at |-> "admitted", lease |-> gen, gone |-> FALSE, page |-> p,
                     rev |-> rev, answer |-> "none",
                     ticket |-> [epoch |-> 0, serial |-> 0, scope |-> s, owner |-> Nobody]]
<1>1. /\ read[r] = NoRead /\ life.transitions = 0 /\ read' = [read EXCEPT ![r] = entry]
      /\ UNCHANGED <<life, pageStore, switch, signedIn, revision, given>>
      /\ memoryLeft' \in [MemoryEvents -> Nat]
  BY <1>0, Happening DEF Capture, MemoryEvents
<1>2. entry \in Reading /\ entry.at = "admitted" /\ entry.lease = gen
  BY DEF Reading, Ticket, Answers
<1> HIDE DEF entry
<1>3. switch = "none"
  BY <1>1, Counts DEF MemoryInv, MemoryTypeOK, LeasesFenced, SwitchHolds
<1>4. Leased(entry)' /\ Progress(entry)'
  BY <1>0, <1>1, <1>2, <1>3 DEF Leased, Progress, Underway
<1>5. ~Underway(entry) /\ ~Underway(read[r]) /\ read[r].at # "dispose"
  BY <1>1, <1>2 DEF Underway, NoRead
<1>6. /\ life' \in [gen : Nat, transitions : Nat] /\ life'.gen >= life.gen
      /\ life'.transitions = Cardinality(Disposing') + SwitchHolds'
  BY <1>1, <1>2, <1>5, HoldsSame
<1> QED
  BY <1>1, <1>2, <1>4, <1>5, <1>6, ReadMoves

\* A read goes on under its ticket, or goes, and neither table nor lifetime change.
LEMMA TaskMoves ==
    ASSUME MemoryInv, NEW r \in Readers, NEW m, m = read[r], m \in Reading, m.at # "dispose",
           NEW entry, entry = NoRead \/ entry \in Reading, entry.at # "dispose",
           read' = [read EXCEPT ![r] = entry],
           UNCHANGED <<life, pageStore, switch, signedIn, revision, given>>,
           memoryLeft' \in [MemoryEvents -> Nat],
           Underway(entry) <=> Underway(m),
           entry # NoRead =>
             /\ entry.lease = m.lease /\ (Underway(entry) => entry.ticket = m.ticket)
             /\ entry.at \notin {"admitted", "dispose"} => entry.ticket.owner # Nobody
             /\ entry.at = "ready" => m.at = "ready" \/ signedIn = entry.ticket.owner,
           Progress(entry)
    PROVE  MemoryInv'
<1>1. Leased(m) /\ life.gen \in Nat
  BY DEF MemoryInv, LeasesFenced, MemoryTypeOK
<1>2. m # NoRead /\ (entry # NoRead => Underway(entry) \/ entry.at # "ready")
  BY DEF Reading, NoRead, Underway
<1>3. Leased(entry)'
  BY <1>1, <1>2 DEF Leased, Reading, Underway
<1>4. Progress(entry)'
  BY <1>1, ProgressStays DEF MemoryInv, MemoryTypeOK, LeasesFenced
<1>5. /\ life' \in [gen : Nat, transitions : Nat] /\ life'.gen >= life.gen
      /\ life'.transitions = Cardinality(Disposing') + SwitchHolds'
  BY HoldsSame
<1>6. Underway(entry) => entry.ticket = read[r].ticket
  BY DEF Underway, NoRead
<1> QED
  BY <1>3, <1>4, <1>5, <1>6, ReadMoves

\* The caller goes; the task, if any, goes on to its cleanup.
LEMMA LeaveKeeps ==
    ASSUME MemoryInv, NEW r \in Readers, read[r] # NoRead, CallerLeaves(r)
    PROVE  MemoryInv'
<1>1. PICK m : m = read[r]
  OBVIOUS
<1>2. /\ m \in Reading /\ m.at # "dispose" /\ Leased(m) /\ Progress(m)
      /\ UNCHANGED <<life, pageStore, switch, signedIn, revision, given>>
      /\ memoryLeft' \in [MemoryEvents -> Nat]
  BY <1>1, Happening DEF CallerLeaves, MemoryInv, MemoryTypeOK, LeasesFenced, MemoryEvents
<1>3. CASE m.at = "admitted" /\ Ends(r)
  <2>1. ~Underway(m) /\ ~Underway(NoRead) /\ Progress(NoRead) /\ NoRead.at # "dispose"
    BY <1>3 DEF Underway, NoRead, Progress
  <2> QED
    BY <2>1, <1>1, <1>2, <1>3, TaskMoves DEF Ends
<1>4. CASE m.at # "admitted" /\ read' = [read EXCEPT ![r].gone = TRUE]
  <2>1. PICK entry : entry = [m EXCEPT !.gone = TRUE]
    OBVIOUS
  <2>2. /\ entry \in Reading /\ entry.at = m.at /\ entry.lease = m.lease
        /\ entry.ticket = m.ticket /\ entry.answer = m.answer /\ entry.rev = m.rev
        /\ entry.page = m.page
    BY <2>1, <1>2 DEF Reading
  <2>3. read' = [read EXCEPT ![r] = entry]
    BY <2>1, <1>1, <1>4
  <2>4. Underway(entry) <=> Underway(m)
    BY <2>2 DEF Underway
  <2>5. Progress(entry)
    BY <2>2, <1>2 DEF Progress, Underway, Untouched, PageKept, Matches
  <2>6. /\ entry.at \notin {"admitted", "dispose"} => entry.ticket.owner # Nobody
        /\ entry.at = "ready" => m.at = "ready"
    BY <2>2, <1>2 DEF Leased, NoRead, Reading
  <2> QED
    BY <2>2, <2>3, <2>4, <2>5, <2>6, <1>1, <1>2, TaskMoves
<1> QED
  BY <1>1, <1>3, <1>4 DEF CallerLeaves

\* The backend's answer is the read's own until it is kept.
LEMMA FetchKeeps ==
    ASSUME MemoryInv, NEW r \in Readers, Fetch(r)
    PROVE  MemoryInv'
<1>1. PICK m : m = read[r]
  OBVIOUS
<1>2. /\ m \in Reading /\ m.at = "fetch" /\ Leased(m) /\ Progress(m)
      /\ UNCHANGED <<life, pageStore, switch, signedIn, revision, given>>
      /\ memoryLeft' \in [MemoryEvents -> Nat]
  <2>1. m.at = "fetch" /\ UNCHANGED <<life, pageStore, switch, signedIn, revision, given>>
    BY <1>1 DEF Fetch
  <2>4. m \in Reading /\ Leased(m) /\ Progress(m)
    BY <1>1, <2>1 DEF MemoryInv, MemoryTypeOK, LeasesFenced, NoRead
  <2>2. memoryLeft' = memoryLeft \/ Happens("disturbances")
    BY DEF Fetch
  <2>3. memoryLeft' \in [MemoryEvents -> Nat]
    BY <2>2, Happening DEF MemoryEvents, MemoryInv, MemoryTypeOK
  <2> QED
    BY <2>1, <2>3, <2>4
<1>3. ASSUME NEW entry, entry \in Reading, entry.at \in {"abort", "release", "verify"},
             entry.lease = m.lease, entry.ticket = m.ticket,
             entry.at = "verify" => entry.answer # "none",
             read' = [read EXCEPT ![r] = entry]
      PROVE  MemoryInv'
  <2>1. Underway(entry) /\ Underway(m) /\ entry.at # "dispose" /\ m.at # "dispose"
    BY <1>2, <1>3 DEF Underway
  <2>2. Progress(entry)
    BY <1>2, <1>3, <2>1 DEF Progress, Untouched, PageKept, Matches
  <2>3. m.ticket.owner # Nobody
    BY <1>2 DEF Leased, NoRead
  <2> QED
    BY <2>1, <2>2, <2>3, <1>1, <1>2, <1>3, TaskMoves
<1>4. ASSUME NEW at \in {"abort", "release"}, Goes(r, at)
      PROVE  MemoryInv'
  <2>1. PICK entry : entry = [m EXCEPT !.at = at]
    OBVIOUS
  <2>2. entry \in Reading /\ entry.at = at /\ entry.lease = m.lease /\ entry.ticket = m.ticket
    BY <2>1, <1>2 DEF Reading
  <2>3. read' = [read EXCEPT ![r] = entry]
    BY <2>1, <1>1, <1>4 DEF Goes
  <2> QED
    BY <2>2, <2>3, <1>3
<1>5. ASSUME NEW answer \in Answers \ {"none"},
             read' = [read EXCEPT ![r].at = "verify", ![r].answer = answer,
                                  ![r].rev = IF answer = "page" THEN revision ELSE @]
      PROVE  MemoryInv'
  <2>1. PICK rev \in Nat : rev = IF answer = "page" THEN revision ELSE m.rev
    BY <1>2 DEF MemoryInv, MemoryTypeOK, Reading
  <2>2. PICK entry : entry = [m EXCEPT !.at = "verify", !.answer = answer, !.rev = rev]
    OBVIOUS
  <2>3. /\ entry \in Reading /\ entry.at = "verify" /\ entry.lease = m.lease
        /\ entry.ticket = m.ticket /\ entry.answer = answer
    BY <2>2, <1>2 DEF Reading
  <2>4. read' = [read EXCEPT ![r] = entry]
    BY <2>1, <2>2, <1>1, <1>5
  <2> QED
    BY <2>3, <2>4, <1>3
<1> QED
  BY <1>4, <1>5 DEF Fetch

\* A read is ready only once its owner was found signed in.
LEMMA VerifyKeeps ==
    ASSUME MemoryInv, NEW r \in Readers, VerifyOwner(r)
    PROVE  MemoryInv'
<1>1. PICK m : m = read[r]
  OBVIOUS
<1>2. /\ m \in Reading /\ m.at \in {"verify", "confirm"} /\ Leased(m) /\ Progress(m)
      /\ UNCHANGED <<life, pageStore, switch, signedIn, revision, given, memoryLeft>>
      /\ memoryLeft' \in [MemoryEvents -> Nat]
  BY <1>1 DEF VerifyOwner, MemoryInv, MemoryTypeOK, LeasesFenced, NoRead
<1>3. PICK at \in {"abort", "owner", "confirm", "finish", "ready"} :
        /\ Goes(r, at)
        /\ at = "confirm" => m.at = "verify" /\ m.answer = "legacy"
        /\ at = "finish" => m.at = "verify" /\ m.answer # "legacy"
        /\ at = "ready" => m.at = "confirm" /\ signedIn = m.ticket.owner
  BY <1>1 DEF VerifyOwner
<1>4. PICK entry : entry = [m EXCEPT !.at = at]
  OBVIOUS
<1>5. /\ entry \in Reading /\ entry.at = at /\ entry.lease = m.lease /\ entry.ticket = m.ticket
      /\ entry.answer = m.answer /\ entry.rev = m.rev /\ entry.page = m.page
  BY <1>4, <1>2 DEF Reading
<1>6. read' = [read EXCEPT ![r] = entry]
  BY <1>1, <1>3, <1>4 DEF Goes
<1>7. Underway(entry) /\ Underway(m) /\ entry.at # "dispose" /\ m.at # "dispose"
  BY <1>2, <1>3, <1>5 DEF Underway
<1>8. Progress(entry)
  <2>1. m.answer \in {"none", "page", "refused", "legacy"}
    BY <1>2 DEF Reading, Answers
  <2> QED
    BY <2>1, <1>2, <1>3, <1>5, <1>7 DEF Progress, Untouched, PageKept, Matches
<1>9. m.ticket.owner # Nobody
  BY <1>2 DEF Leased, NoRead
<1> QED
  BY <1>1, <1>2, <1>3, <1>5, <1>6, <1>7, <1>8, <1>9, TaskMoves

\* Without a credential the read becomes a transition of its own.
LEMMA BindOwnerKeeps ==
    ASSUME MemoryInv, NEW r \in Readers, BindOwner(r)
    PROVE  MemoryInv'
<1>1. PICK m : m = read[r]
  OBVIOUS
<1>2. /\ m \in Reading /\ m.at = "admitted" /\ Leased(m) /\ Progress(m)
      /\ UNCHANGED <<pageStore, switch, signedIn, revision, given>>
      /\ memoryLeft' \in [MemoryEvents -> Nat]
      /\ life \in [gen : Nat, transitions : Nat] /\ DOMAIN read = Readers
  BY <1>1 DEF BindOwner, MemoryInv, MemoryTypeOK, LeasesFenced, NoRead
<1>3. CASE signedIn # Nobody
  <2>1. PICK entry : entry = [m EXCEPT !.at = "begin", !.ticket.owner = signedIn]
    OBVIOUS
  <2>2. /\ entry \in Reading /\ entry.at = "begin" /\ entry.lease = m.lease
        /\ entry.ticket.owner = signedIn
    BY <2>1, <1>2 DEF Reading, Ticket, MemoryInv, MemoryTypeOK
  <2>3. read' = [read EXCEPT ![r] = entry] /\ life' = life
    BY <2>1, <1>1, <1>3 DEF BindOwner
  <2>4. ~Underway(m) /\ ~Underway(entry) /\ Progress(entry)
    BY <2>2, <1>2 DEF Underway, Progress
  <2> QED
    BY <2>2, <2>3, <2>4, <1>1, <1>2, <1>3, TaskMoves
<1>4. CASE signedIn = Nobody
  <2>1. PICK entry : entry = [m EXCEPT !.at = "dispose"]
    OBVIOUS
  <2>2. /\ entry \in Reading /\ entry.at = "dispose" /\ entry.lease = m.lease
    BY <2>1, <1>2 DEF Reading
  <2>3. read' = [read EXCEPT ![r] = entry] /\ life' = Entered
    BY <2>1, <1>1, <1>4 DEF BindOwner, Goes
  <2>4. ~Underway(m) /\ ~Underway(entry) /\ Progress(entry)'
    BY <2>2, <1>2 DEF Underway, Progress
  <2>5. /\ life' \in [gen : Nat, transitions : Nat] /\ life'.gen = life.gen + 1
        /\ life'.transitions = life.transitions + 1
    BY <2>3, <1>2 DEF Entered
  <2>6. Leased(entry)'
    BY <2>2, <2>5, <1>2 DEF Leased, NoRead, Reading
  <2>7. Cardinality(Disposing') = Cardinality(Disposing) + 1
    <3>1. Disposing' = Disposing \cup {r} /\ r \notin Disposing
      BY <2>2, <2>3, <1>1, <1>2 DEF Disposing
    <3> QED
      BY <3>1, Counts, FS_AddElement
  <2>8. life'.transitions = Cardinality(Disposing') + SwitchHolds'
    <3>1. SwitchHolds' = SwitchHolds /\ SwitchHolds \in Nat
      BY <1>2 DEF SwitchHolds
    <3>2. life.transitions = Cardinality(Disposing) + SwitchHolds
      BY DEF MemoryInv, LeasesFenced
    <3> QED
      BY <3>1, <3>2, <2>5, <2>7, Counts
  <2>9. life'.gen >= life.gen
    BY <2>5, <1>2
  <2> QED
    BY <2>2, <2>3, <2>4, <2>5, <2>6, <2>8, <2>9, <1>1, <1>2, ReadMoves
<1> QED
  BY <1>3, <1>4
-----------------------------------------------------------------------------
\* The table's part of the type.
TableTyped ==
    /\ DOMAIN pageStore = DOMAIN EmptyStore
    /\ pageStore.epoch \in Nat /\ pageStore.gen \in Nat /\ pageStore.serial \in Nat
    /\ pageStore.owner \in Owners \cup {Nobody}
    /\ pageStore.contexts \subseteq Scopes /\ Cardinality(pageStore.contexts) <= MaxContexts
    /\ pageStore.documents \subseteq Document /\ pageStore.flights \subseteq Flight
    /\ \A x, y \in pageStore.documents : x.scope = y.scope => x = y
    /\ \A x, y \in pageStore.flights : x.scope = y.scope => x = y

\* The invariant types the table.
LEMMA Typed == MemoryInv => TableTyped
BY DEF MemoryInv, MemoryTypeOK, TableTyped

\* A read moves, and the table and what its chat was given with it.
LEMMA TableMoves ==
    ASSUME MemoryInv, NEW r \in Readers, NEW entry, entry = NoRead \/ entry \in Reading,
           read' = [read EXCEPT ![r] = entry],
           UNCHANGED <<switch, signedIn, revision, memoryLeft>>,
           given' \in [Scopes -> [rev : Nat, next : Nat, owner : Owners \cup {Nobody},
                                  bound : Owners \cup {Nobody}]],
           life' \in [gen : Nat, transitions : Nat], life'.gen >= life.gen,
           life'.transitions = Cardinality(Disposing') + SwitchHolds',
           TableTyped', pageStore'.gen <= life'.gen, TicketsApart', DocumentsAgree',
           Leased(entry)', Progress(entry)',
           \A q \in Readers : q # r => Progress(read[q])'
    PROVE  MemoryInv'
<1>1. /\ \A q \in Readers : read'[q] = IF q = r THEN entry ELSE read[q]
      /\ DOMAIN read' = Readers
  BY DEF MemoryInv
<1>2. life.gen \in Nat /\ life'.gen \in Nat
  BY DEF MemoryInv, MemoryTypeOK
<1>3. \A q \in Readers : read[q] = NoRead \/ read[q] \in Reading
  BY DEF MemoryInv, MemoryTypeOK
<1>4. MemoryTypeOK'
  BY <1>1, <1>3 DEF MemoryInv, MemoryTypeOK, TableTyped
<1>5. ASSUME NEW q \in Readers PROVE Leased(read[q])' /\ Progress(read[q])'
  <2>1. CASE q = r
    <3>1. read'[q] = entry
      BY <2>1, <1>1
    <3> QED
      BY <3>1 DEF Leased, Progress
  <2>2. CASE q # r
    <3>1. PICK m : m = read[q]
      OBVIOUS
    <3>2. (m = NoRead \/ m \in Reading) /\ Leased(m)
      BY <3>1, <1>3 DEF MemoryInv, LeasesFenced
    <3>3. Leased(m)'
      BY <3>2, <1>2, LeasedStays
    <3>4. read'[q] = m
      BY <2>2, <3>1, <1>1
    <3> QED
      BY <2>2, <3>3, <3>4 DEF Leased
  <2> QED
    BY <2>1, <2>2
<1>6. LeasesFenced'
  BY <1>5 DEF LeasesFenced
<1> QED
  BY <1>1, <1>4, <1>5, <1>6 DEF MemoryInv, TableTyped

\* An empty table belongs to no read.
LEMMA Wiped ==
    ASSUME MemoryInv, pageStore' = Invalidated(pageStore),
           DOMAIN read' = Readers,
           \A q \in Readers : /\ Underway(read'[q]) =>
                                   Underway(read[q]) /\ read'[q].ticket = read[q].ticket
                              /\ read'[q].at \in {"finish", "verify"} => read'[q] = read[q],
           \A s \in Scopes : given'[s].owner = given'[s].bound
    PROVE  /\ TableTyped' /\ TicketsApart' /\ DocumentsAgree'
           /\ \A q \in Readers : Progress(read[q])'
           /\ pageStore'.gen = pageStore.gen
<1>1. /\ DOMAIN pageStore' = DOMAIN EmptyStore
      /\ pageStore'.epoch = pageStore.epoch + 1 /\ pageStore'.gen = pageStore.gen
      /\ pageStore'.serial = pageStore.serial
      /\ pageStore'.owner = Nobody /\ pageStore'.contexts = {} /\ pageStore'.documents = {}
      /\ pageStore'.flights = {}
  BY DEF Invalidated, MemoryInv, EmptyStore
<1>2. TableTyped'
  <2>1. Cardinality({}) <= MaxContexts
    BY FS_EmptySet, MemoryAssumption
  <2> QED
    BY <2>1, <1>1 DEF TableTyped, MemoryInv, MemoryTypeOK
<1>3. TicketsApart'
  BY <1>1, FS_EmptySet DEF MemoryInv, TicketsApart
<1>4. DocumentsAgree'
  BY <1>1 DEF DocumentsAgree
<1>5. ASSUME NEW q \in Readers PROVE Progress(read[q])'
  <2>1. Progress(read[q])
    BY DEF MemoryInv
  <2> QED
    BY <2>1, <1>1 DEF Progress, Matches
<1> QED
  BY <1>1, <1>2, <1>3, <1>4, <1>5

\* The disposal ends, and with it its transition.
LEMMA DisposeKeeps ==
    ASSUME MemoryInv, NEW r \in Readers, Dispose(r)
    PROVE  MemoryInv'
<1>1. /\ read[r].at = "dispose" /\ pageStore' = Invalidated(pageStore) /\ life' = Left
      /\ read' = [read EXCEPT ![r] = NoRead]
      /\ UNCHANGED <<switch, signedIn, revision, given, memoryLeft>>
  BY DEF Dispose, Ends
<1>2. \A q \in Readers : read'[q] = IF q = r THEN NoRead ELSE read[q]
  BY <1>1 DEF MemoryInv
<1>3. /\ TableTyped' /\ TicketsApart' /\ DocumentsAgree'
      /\ \A q \in Readers : Progress(read[q])'
      /\ pageStore'.gen = pageStore.gen
  <2>1. \A q \in Readers : /\ Underway(read'[q]) =>
                                Underway(read[q]) /\ read'[q].ticket = read[q].ticket
                           /\ read'[q].at \in {"finish", "verify"} => read'[q] = read[q]
    BY <1>2 DEF Underway, NoRead
  <2>2. DOMAIN read' = Readers /\ \A s \in Scopes : given'[s].owner = given'[s].bound
    BY <1>1 DEF MemoryInv, DocumentsAgree
  <2> QED
    BY <2>1, <2>2, <1>1, Wiped
<1>4. /\ life \in [gen : Nat, transitions : Nat] /\ pageStore.gen \in Nat
      /\ pageStore.gen <= life.gen
  BY DEF MemoryInv, MemoryTypeOK, LeasesFenced
<1>5. Cardinality(Disposing') = Cardinality(Disposing) - 1 /\ Cardinality(Disposing) \in Nat \ {0}
  <2>1. Disposing' = Disposing \ {r} /\ r \in Disposing
    BY <1>1, <1>2 DEF Disposing, NoRead
  <2>2. Cardinality(Disposing') \in Nat
    BY <2>1, Counts, FS_RemoveElement, FS_CardinalityType
  <2> QED
    BY <2>1, <2>2, Counts, FS_RemoveElement
<1>6. /\ life' \in [gen : Nat, transitions : Nat] /\ life'.gen >= life.gen
      /\ life'.transitions = Cardinality(Disposing') + SwitchHolds'
      /\ pageStore'.gen <= life'.gen
  <2>1. SwitchHolds' = SwitchHolds /\ SwitchHolds \in Nat
    BY <1>1 DEF SwitchHolds
  <2>2. life.transitions = Cardinality(Disposing) + SwitchHolds
    BY DEF MemoryInv, LeasesFenced
  <2>3. life.transitions - 1 \in Nat /\ life.gen + 1 \in Nat
    BY <2>1, <2>2, <1>4, <1>5
  <2>4. /\ life' \in [gen : Nat, transitions : Nat] /\ life'.gen = life.gen + 1
        /\ life'.transitions = life.transitions - 1
    BY <2>3, <1>1 DEF Left
  <2> QED
    BY <2>1, <2>2, <2>4, <1>3, <1>4, <1>5
<1>7. Leased(NoRead)' /\ Progress(NoRead)'
  BY DEF Leased, Progress, Underway, NoRead
<1>8. given' \in [Scopes -> [rev : Nat, next : Nat, owner : Owners \cup {Nobody},
                            bound : Owners \cup {Nobody}]]
  BY <1>1 DEF MemoryInv, MemoryTypeOK
<1> QED
  BY <1>1, <1>3, <1>6, <1>7, <1>8, TableMoves

\* A read of another owner empties the table of its owner only.
LEMMA InvalidateKeeps ==
    ASSUME MemoryInv, NEW r \in Readers, InvalidateOwner(r)
    PROVE  MemoryInv'
<1>1. PICK m : m = read[r]
  OBVIOUS
<1>2. /\ m \in Reading /\ m.at = "owner" /\ Leased(m) /\ Progress(m)
      /\ UNCHANGED <<life, switch, signedIn, revision, given, memoryLeft>>
      /\ memoryLeft' \in [MemoryEvents -> Nat]
  BY <1>1 DEF InvalidateOwner, MemoryInv, MemoryTypeOK, LeasesFenced, NoRead
<1>3. PICK entry : entry = [m EXCEPT !.at = "abort"]
  OBVIOUS
<1>4. /\ entry \in Reading /\ entry.at = "abort" /\ entry.lease = m.lease
      /\ entry.ticket = m.ticket
  BY <1>3, <1>2 DEF Reading
<1>5. read' = [read EXCEPT ![r] = entry]
  BY <1>1, <1>3 DEF InvalidateOwner, Goes
<1>6. /\ Underway(entry) /\ Underway(m) /\ entry.at # "dispose" /\ m.at # "dispose"
      /\ m.ticket.owner # Nobody
  BY <1>2, <1>4 DEF Underway, Leased, NoRead
<1>7. CASE pageStore' = pageStore
  <2>1. Progress(entry)
    BY <1>2, <1>4, <1>6 DEF Progress, Untouched, PageKept, Matches
  <2> QED
    BY <2>1, <1>1, <1>2, <1>4, <1>5, <1>6, <1>7, TaskMoves
<1>8. CASE pageStore' = Invalidated(pageStore)
  <2>1. \A q \in Readers : read'[q] = IF q = r THEN entry ELSE read[q]
    BY <1>5 DEF MemoryInv
  <2>2. \A q \in Readers : /\ Underway(read'[q]) =>
                                Underway(read[q]) /\ read'[q].ticket = read[q].ticket
                           /\ read'[q].at \in {"finish", "verify"} => read'[q] = read[q]
    BY <2>1, <1>1, <1>4, <1>6
  <2>3. DOMAIN read' = Readers /\ \A s \in Scopes : given'[s].owner = given'[s].bound
    BY <1>2, <1>5 DEF MemoryInv, DocumentsAgree
  <2>4. /\ TableTyped' /\ TicketsApart' /\ DocumentsAgree'
        /\ \A q \in Readers : Progress(read[q])'
        /\ pageStore'.gen = pageStore.gen
    BY <2>2, <2>3, <1>8, Wiped
  <2>5. /\ life' \in [gen : Nat, transitions : Nat] /\ life'.gen >= life.gen
        /\ life'.transitions = Cardinality(Disposing') + SwitchHolds'
    BY <1>1, <1>2, <1>5, <1>6, HoldsSame
  <2>6. Leased(entry)' /\ Progress(entry)'
    <3>1. pageStore'.owner = Nobody
      BY <1>8 DEF Invalidated, MemoryInv, EmptyStore
    <3>2. ~Matches(entry.ticket)'
      BY <3>1, <1>4, <1>6 DEF Matches
    <3> QED
      BY <3>2, <1>2, <1>4, <1>6 DEF Leased, Progress, Untouched, PageKept, NoRead
  <2>7. /\ given' \in [Scopes -> [rev : Nat, next : Nat, owner : Owners \cup {Nobody},
                                  bound : Owners \cup {Nobody}]]
        /\ pageStore'.gen <= life'.gen
    BY <2>4, <1>2 DEF MemoryInv, MemoryTypeOK, LeasesFenced
  <2> QED
    BY <2>4, <2>5, <2>6, <2>7, <1>2, <1>4, <1>5, TableMoves
<1> QED
  BY <1>7, <1>8 DEF InvalidateOwner

\* The switch moves on or is over, under a generation of its own.
LEMMA SwitchMoves ==
    ASSUME MemoryInv, UNCHANGED <<read, signedIn, given>>,
           pageStore' \in {pageStore, Invalidated(pageStore)},
           switch' \in {"none", "begun", "disposing", "disposed", "done"}, revision' = revision,
           memoryLeft' \in [MemoryEvents -> Nat], life' \in {Entered, Left},
           life' = Entered => SwitchHolds' = SwitchHolds + 1,
           life' = Left => SwitchHolds' = SwitchHolds - 1,
           SwitchHolds' \in Nat
    PROVE  MemoryInv'
<1>1. /\ life \in [gen : Nat, transitions : Nat] /\ pageStore.gen \in Nat
      /\ pageStore.gen <= life.gen /\ DOMAIN read = Readers
      /\ \A q \in Readers : read[q] = NoRead \/ read[q] \in Reading
  BY DEF MemoryInv, MemoryTypeOK, LeasesFenced
<1>2. Disposing' = Disposing /\ Cardinality(Disposing) \in Nat /\ SwitchHolds \in Nat
  BY Counts DEF Disposing, SwitchHolds
<1>3. life.transitions = Cardinality(Disposing) + SwitchHolds
  BY DEF MemoryInv, LeasesFenced
<1>4. life' = Entered \/ life' = Left
  OBVIOUS
<1>5. /\ life' \in [gen : Nat, transitions : Nat] /\ life'.gen = life.gen + 1
      /\ life'.transitions = Cardinality(Disposing') + SwitchHolds'
  <2>1. CASE life' = Entered
    <3>1. PICK t \in Nat : t = life.transitions + 1
      BY <1>1
    <3>2. life' = [gen |-> life.gen + 1, transitions |-> t]
      BY <2>1, <3>1 DEF Entered
    <3> QED
      BY <2>1, <3>1, <3>2, <1>1, <1>2, <1>3
  <2>2. CASE life' = Left
    <3>1. PICK t \in Nat : t = life.transitions - 1
      BY <2>2, <1>2, <1>3
    <3>2. life' = [gen |-> life.gen + 1, transitions |-> t]
      BY <2>2, <3>1 DEF Left
    <3> QED
      BY <2>2, <3>1, <3>2, <1>1, <1>2, <1>3
  <2> QED
    BY <1>4, <2>1, <2>2
<1>6. life'.gen > life.gen /\ life'.gen \in Nat /\ life.gen \in Nat /\ life'.gen >= life.gen
  BY <1>1, <1>5
<1>7. /\ TableTyped' /\ TicketsApart' /\ DocumentsAgree' /\ pageStore'.gen = pageStore.gen
      /\ \A q \in Readers : Progress(read[q])'
  <2>1. CASE pageStore' = pageStore
    <3>1. TableTyped' /\ TicketsApart'
      BY <2>1, Typed DEF TableTyped, MemoryInv, TicketsApart, Underway, Handled
    <3>2. DocumentsAgree'
      BY <2>1, <1>6, AgreeStays
    <3>3. ASSUME NEW q \in Readers PROVE Progress(read[q])'
      <4>1. PICK m : m = read[q]
        OBVIOUS
      <4>2. Progress(m) /\ (m = NoRead \/ m \in Reading)
        BY <4>1, <1>1 DEF MemoryInv
      <4>3. Progress(m)'
        BY <4>2, <2>1, <1>1, <1>6, ProgressStays
      <4> QED
        BY <4>1, <4>3 DEF Progress
    <3> QED
      BY <2>1, <3>1, <3>2, <3>3
  <2>2. CASE pageStore' = Invalidated(pageStore)
    <3>1. \A s \in Scopes : given'[s].owner = given'[s].bound
      BY DEF MemoryInv, DocumentsAgree
    <3>2. /\ DOMAIN read' = Readers
          /\ \A q \in Readers : read'[q] = read[q]
      BY <1>1
    <3> QED
      BY <2>2, <3>1, <3>2, Wiped
  <2> QED
    BY <2>1, <2>2
<1>8. LeasesFenced'
  <2>1. ASSUME NEW q \in Readers PROVE Leased(read[q])'
    <3>1. PICK m : m = read[q]
      OBVIOUS
    <3>2. Leased(m) /\ (m = NoRead \/ m \in Reading)
      BY <3>1, <1>1 DEF MemoryInv, LeasesFenced
    <3>3. Leased(m)'
      BY <3>2, <1>6, LeasedStays
    <3> QED
      BY <3>1, <3>3 DEF Leased
  <2> QED
    BY <2>1, <1>1, <1>5, <1>6, <1>7 DEF LeasesFenced
<1>9. MemoryTypeOK'
  BY <1>5, <1>7 DEF MemoryInv, MemoryTypeOK, TableTyped
<1> QED
  BY <1>1, <1>7, <1>8, <1>9 DEF MemoryInv, TableTyped

\* A selection or logout counts one transition, and two while it disposes of the table.
LEMMA SwitchKeeps ==
    ASSUME MemoryInv, SwitchBegins \/ DisposeBegins \/ DisposeEnds \/ SwitchEnds
    PROVE  MemoryInv'
<1>1. memoryLeft' \in [MemoryEvents -> Nat]
  <2>1. memoryLeft' = memoryLeft \/ Happens("disturbances")
    BY DEF SwitchBegins, DisposeBegins, DisposeEnds, SwitchEnds
  <2> QED
    BY <2>1, Happening DEF MemoryEvents, MemoryInv, MemoryTypeOK
<1>2. life.transitions \in Nat /\ Entered # Left
  <2>1. life.transitions \in Nat
    BY DEF MemoryInv, MemoryTypeOK
  <2>2. Entered.transitions = life.transitions + 1 /\ Left.transitions = life.transitions - 1
    BY DEF Entered, Left
  <2> QED
    BY <2>1, <2>2
<1>3. CASE SwitchBegins
  BY <1>1, <1>2, <1>3, SwitchMoves DEF SwitchBegins, SwitchHolds
<1>4. CASE DisposeBegins
  BY <1>1, <1>2, <1>4, SwitchMoves DEF DisposeBegins, SwitchHolds
<1>5. CASE DisposeEnds
  BY <1>1, <1>2, <1>5, SwitchMoves DEF DisposeEnds, SwitchHolds
<1>6. CASE SwitchEnds
  BY <1>1, <1>2, <1>6, SwitchMoves DEF SwitchEnds, SwitchHolds
<1> QED
  BY <1>3, <1>4, <1>5, <1>6

\* Who is signed in changes only while no read is ready under a current lease.
LEMMA SignKeeps ==
    ASSUME MemoryInv, SignOut \/ SignIn \/ DocumentChanges
    PROVE  MemoryInv'
<1>1. UNCHANGED <<life, read, pageStore, given>>
  BY DEF SignOut, SignIn, DocumentChanges
<1>2. memoryLeft' \in [MemoryEvents -> Nat]
  <2>1. memoryLeft' = memoryLeft \/ Happens("disturbances")
    BY DEF SignOut, SignIn, DocumentChanges
  <2> QED
    BY <2>1, Happening DEF MemoryEvents, MemoryInv, MemoryTypeOK
<1>3. /\ signedIn' \in Owners \cup {Nobody} /\ revision' \in Nat \ {0}
      /\ switch' \in {"none", "begun", "disposing", "disposed", "done"}
      /\ SwitchHolds' = SwitchHolds
  BY DEF SignOut, SignIn, DocumentChanges, MemoryInv, MemoryTypeOK, SwitchHolds
<1>4. MemoryTypeOK'
  BY <1>1, <1>2, <1>3 DEF MemoryInv, MemoryTypeOK
<1>5. LeasesFenced'
  <2>1. ASSUME NEW q \in Readers PROVE Leased(read[q])'
    <3>1. PICK m : m = read[q]
      OBVIOUS
    <3>2. Leased(m) /\ (m = NoRead \/ m \in Reading)
      BY <3>1 DEF MemoryInv, LeasesFenced, MemoryTypeOK
    <3>3. Leased(m)'
      BY <3>2, <1>1 DEF Leased, SignOut, SignIn, DocumentChanges
    <3> QED
      BY <3>1, <3>3, <1>1 DEF Leased
  <2>2. Disposing' = Disposing
    BY <1>1 DEF Disposing
  <2> QED
    BY <2>1, <2>2, <1>1, <1>3 DEF MemoryInv, LeasesFenced
<1>6. TicketsApart' /\ DocumentsAgree'
  BY <1>1 DEF MemoryInv, TicketsApart, Underway, Handled, DocumentsAgree, Agrees, UpToDate
<1>7. \A q \in Readers : Progress(read[q])'
  BY <1>1 DEF MemoryInv, Progress, Underway, Matches, UpToDate, Untouched, PageKept, Agrees
<1> QED
  BY <1>1, <1>4, <1>5, <1>6, <1>7 DEF MemoryInv
-----------------------------------------------------------------------------
\* A flight of another read, and what its read knows of its chat, outlive a step of r.
FlightKept(f) ==
    /\ pageStore'.epoch = pageStore.epoch /\ pageStore'.owner = pageStore.owner
    /\ pageStore'.gen = pageStore.gen /\ given'[f.scope] = given[f.scope]
    /\ \A d \in pageStore'.documents : d.scope = f.scope => d \in pageStore.documents
    /\ \E g \in pageStore.flights : g.scope = f.scope /\ g.serial = f.serial

FlightOf(f, ticket) ==
    /\ f.scope = ticket.scope /\ f.serial = ticket.serial
    /\ pageStore'.epoch = ticket.epoch /\ pageStore'.owner = ticket.owner

\* What a step of one read does to the table concerns that read's chat alone: every
\* flight left is another read's, as it was, or the read's own.
LEMMA FlightsChange ==
    ASSUME MemoryInv, NEW r \in Readers, NEW m, m = read[r], m \in Reading,
           NEW entry, entry = NoRead \/ entry \in Reading,
           read' = [read EXCEPT ![r] = entry], life' = life,
           TableTyped', pageStore'.serial >= pageStore.serial,
           IsFiniteSet(pageStore'.contexts),
           \A x \in pageStore'.flights \cup pageStore'.documents : x.scope \in pageStore'.contexts,
           Underway(entry) => entry.ticket.serial <= pageStore'.serial,
           Underway(entry) => \/ Underway(m) /\ entry.ticket.serial = m.ticket.serial
                              \/ entry.ticket.serial > pageStore.serial,
           \A f \in pageStore'.flights :
             \/ FlightKept(f) /\ (Underway(m) => f.serial # m.ticket.serial)
             \/ Underway(entry) /\ FlightOf(f, entry.ticket)
    PROVE  /\ TicketsApart'
           /\ \A q \in Readers : q # r => Progress(read[q])'
<1>1. /\ \A q \in Readers : read'[q] = IF q = r THEN entry ELSE read[q]
      /\ \A q \in Readers : read[q] = NoRead \/ read[q] \in Reading
      /\ pageStore.serial \in Nat /\ pageStore'.serial \in Nat
  BY DEF MemoryInv, MemoryTypeOK, TableTyped
<1>2. /\ \A q \in Readers : Underway(read[q]) => read[q] \in Reading
      /\ Underway(entry) => entry \in Reading
      /\ \A n \in Reading : n.ticket.serial \in Nat
  BY <1>1 DEF Underway, NoRead, Reading, Ticket
<1>3. \A q \in Readers : Underway(read[q]) => read[q].ticket.serial <= pageStore.serial
  BY DEF MemoryInv, TicketsApart
<1>4. \A q, p \in Readers : /\ Underway(read[q]) /\ Underway(read[p])
                            /\ read[q].ticket.serial = read[p].ticket.serial
                            => q = p
  BY DEF MemoryInv, TicketsApart
<1>5. \A q \in Readers : /\ Underway(read[q]) /\ Underway(entry)
                         /\ read[q].ticket.serial = entry.ticket.serial
                         => q = r
  <2> SUFFICES ASSUME NEW q \in Readers, Underway(read[q]), Underway(entry),
                      read[q].ticket.serial = entry.ticket.serial
               PROVE  q = r
    OBVIOUS
  <2>1. PICK i \in Nat, j \in Nat : i = entry.ticket.serial /\ j = pageStore.serial
    BY <1>1, <1>2
  <2>2. ~(i > j)
    BY <2>1, <1>3
  <2>3. Underway(read[r]) /\ entry.ticket.serial = read[r].ticket.serial
    BY <2>1, <2>2
  <2> QED
    BY <2>3, <1>4
<1>6. ASSUME NEW q \in Readers, Underway(read'[q])
      PROVE  read'[q].ticket.serial <= pageStore'.serial
  <2>1. CASE q = r
    BY <2>1, <1>1, <1>6
  <2>2. CASE q # r
    <3>1. PICK i \in Nat, j \in Nat, k \in Nat :
            i = read[q].ticket.serial /\ j = pageStore.serial /\ k = pageStore'.serial
      BY <2>2, <1>1, <1>2, <1>6
    <3>2. i <= j /\ k >= j /\ read'[q] = read[q]
      BY <3>1, <2>2, <1>1, <1>3, <1>6
    <3> QED
      BY <3>1, <3>2
  <2> QED
    BY <2>1, <2>2
<1>7. \A q, p \in Readers : /\ Underway(read'[q]) /\ Underway(read'[p])
                            /\ read'[q].ticket.serial = read'[p].ticket.serial
                            => q = p
  BY <1>1, <1>4, <1>5
\* The read a kept flight belongs to is another than r.
<1>8. ASSUME NEW f \in pageStore'.flights, FlightKept(f),
             Underway(m) => f.serial # m.ticket.serial
      PROVE  \E q \in Readers : /\ q # r /\ Underway(read[q])
                                /\ read[q].ticket.serial = f.serial
                                /\ read[q].ticket.scope = f.scope
                                /\ read[q].ticket.epoch = pageStore'.epoch
                                /\ read[q].ticket.owner = pageStore'.owner
  <2>1. PICK g \in pageStore.flights : g.scope = f.scope /\ g.serial = f.serial
    BY <1>8 DEF FlightKept
  <2>2. Handled(g)
    BY DEF MemoryInv, TicketsApart
  <2>3. PICK q \in Readers :
        /\ read[q] # NoRead /\ read[q].at \notin {"admitted", "dispose", "begin"}
        /\ read[q].ticket.serial = g.serial /\ read[q].ticket.scope = g.scope
        /\ read[q].ticket.epoch = pageStore.epoch /\ read[q].ticket.owner = pageStore.owner
    BY <2>2 DEF Handled
  <2>4. Underway(read[q])
    BY <2>3, <1>1 DEF Underway, Reading
  <2>5. q # r
    BY <2>1, <2>3, <2>4, <1>8 DEF FlightKept
  <2> QED
    BY <2>1, <2>3, <2>4, <2>5, <1>8 DEF FlightKept
<1>9. TicketsApart'
  <2>1. ASSUME NEW f \in pageStore'.flights PROVE Handled(f)'
    <3>1. CASE Underway(entry) /\ FlightOf(f, entry.ticket)
      BY <3>1, <1>1 DEF FlightOf, Handled, Underway, NoRead
    <3>2. CASE FlightKept(f) /\ (Underway(m) => f.serial # m.ticket.serial)
      <4>1. PICK q \in Readers : /\ q # r /\ Underway(read[q])
                                 /\ read[q].ticket.serial = f.serial
                                 /\ read[q].ticket.scope = f.scope
                                 /\ read[q].ticket.epoch = pageStore'.epoch
                                 /\ read[q].ticket.owner = pageStore'.owner
        BY <3>2, <1>8
      <4>2. read'[q] = read[q] /\ read[q] # NoRead
        BY <4>1, <1>1 DEF Underway, NoRead
      <4> QED
        BY <4>1, <4>2 DEF Handled, Underway
    <3> QED
      BY <3>1, <3>2
  <2> QED
    BY <2>1, <1>6, <1>7 DEF TicketsApart
<1>10. ASSUME NEW q \in Readers, q # r PROVE Progress(read[q])'
  <2>1. PICK n : n = read[q]
    OBVIOUS
  <2>2. Progress(n) /\ read'[q] = n
    BY <2>1, <1>1, <1>10 DEF MemoryInv
  <2>3. ASSUME Underway(n), Matches(n.ticket)'
        PROVE  /\ Matches(n.ticket) /\ pageStore'.gen = pageStore.gen
               /\ pageStore'.owner = pageStore.owner
               /\ given'[n.ticket.scope] = given[n.ticket.scope]
               /\ \A d \in pageStore'.documents :
                    d.scope = n.ticket.scope => d \in pageStore.documents
    <3>1. PICK f \in pageStore'.flights : f.scope = n.ticket.scope /\ f.serial = n.ticket.serial
      BY <2>3 DEF Matches
    <3>2. ~(Underway(entry) /\ FlightOf(f, entry.ticket))
      BY <3>1, <2>1, <2>3, <1>5, <1>10 DEF FlightOf
    <3>3. FlightKept(f)
      BY <3>2
    <3> QED
      BY <3>1, <3>3, <2>3 DEF FlightKept, Matches
  <2>4. UpToDate' /\ pageStore'.gen = pageStore.gen => UpToDate
    BY DEF UpToDate
  <2>5. Progress(n)'
    BY <2>2, <2>3, <2>4 DEF Progress, Agrees, Untouched, PageKept
  <2> QED
    BY <2>2, <2>5 DEF Progress
<1> QED
  BY <1>9, <1>10

\* ... and all of the invariant.
LEMMA TableChanges ==
    ASSUME MemoryInv, NEW r \in Readers, NEW m, m = read[r], m \in Reading, m.at # "dispose",
           NEW entry, entry = NoRead \/ entry \in Reading, entry.at # "dispose",
           read' = [read EXCEPT ![r] = entry],
           UNCHANGED <<life, switch, signedIn, revision, memoryLeft>>,
           given' \in [Scopes -> [rev : Nat, next : Nat, owner : Owners \cup {Nobody},
                                  bound : Owners \cup {Nobody}]],
           pageStore'.gen <= life.gen, TicketsApart', DocumentsAgree', TableTyped',
           \A q \in Readers : q # r => Progress(read[q])',
           entry # NoRead =>
             entry.lease = m.lease /\ entry.ticket.owner # Nobody /\ entry.at # "ready",
           Progress(entry)'
    PROVE  MemoryInv'
<1>1. /\ life' \in [gen : Nat, transitions : Nat] /\ life'.gen >= life.gen
      /\ life'.transitions = Cardinality(Disposing') + SwitchHolds'
  BY HoldsSame
<1>2. Leased(m) /\ m # NoRead /\ pageStore'.gen <= life'.gen
  BY DEF MemoryInv, LeasesFenced, Reading, NoRead
<1>3. Leased(entry)'
  BY <1>2 DEF Leased
<1> QED
  BY <1>1, <1>2, <1>3, TableMoves
-----------------------------------------------------------------------------
\* A flight of its own is all a read needs to know which flights are of others.
LEMMA OwnFlight ==
    ASSUME MemoryInv, NEW r \in Readers, NEW m, m = read[r], m \in Reading, Underway(m),
           Matches(m.ticket), NEW f \in pageStore.flights
    PROVE  f.serial = m.ticket.serial <=> f.scope = m.ticket.scope
<1>1. PICK g \in pageStore.flights :
        g.scope = m.ticket.scope /\ g.serial = m.ticket.serial
  BY DEF Matches
<1>2. f.scope = m.ticket.scope => f = g
  BY <1>1 DEF MemoryInv, MemoryTypeOK
<1>3. Handled(f)
  BY DEF MemoryInv, TicketsApart
<1>4. PICK q \in Readers : /\ read[q] # NoRead /\ read[q].at \notin {"admitted", "dispose", "begin"}
                           /\ read[q].ticket.serial = f.serial /\ read[q].ticket.scope = f.scope
  BY <1>3 DEF Handled
<1>5. Underway(read[q])
  BY <1>4 DEF Underway, MemoryInv, MemoryTypeOK, Reading
<1>6. f.serial = m.ticket.serial => q = r
  BY <1>4, <1>5 DEF MemoryInv, TicketsApart
<1> QED
  BY <1>1, <1>2, <1>4, <1>6

\* A chat with neither flight nor document leaves the table, the others stay.
LEMMA RemovesEmpty ==
    ASSUME NEW from, DOMAIN from = DOMAIN EmptyStore, NEW s, NEW to, to = RemoveEmpty(from, s)
    PROVE  /\ DOMAIN to = DOMAIN EmptyStore
           /\ to.epoch = from.epoch /\ to.gen = from.gen /\ to.serial = from.serial
           /\ to.owner = from.owner /\ to.flights = from.flights
           /\ to.documents = from.documents /\ to.contexts \subseteq from.contexts
           /\ \A x \in from.flights \cup from.documents :
                x.scope \in from.contexts => x.scope \in to.contexts
BY DEF RemoveEmpty, EmptyStore

\* What release and abort leave of the table: all but the flight, and its document.
LEMMA Grounding ==
    ASSUME MemoryInv, NEW r \in Readers, NEW m, m = read[r], m \in Reading, Underway(m),
           Matches(m.ticket), pageStore' \in {Released(m.ticket), Aborted(m.ticket)}
    PROVE  /\ TableTyped' /\ IsFiniteSet(pageStore'.contexts)
           /\ pageStore'.epoch = pageStore.epoch /\ pageStore'.gen = pageStore.gen
           /\ pageStore'.serial = pageStore.serial /\ pageStore'.owner = pageStore.owner
           /\ pageStore'.flights = {f \in pageStore.flights : f.scope # m.ticket.scope}
           /\ pageStore'.documents \subseteq pageStore.documents
           /\ \A x \in pageStore'.flights \cup pageStore'.documents :
                x.scope \in pageStore'.contexts
<1>1. PICK s \in Scopes : s = m.ticket.scope
  BY DEF Reading, Ticket
<1>2. DOMAIN pageStore = DOMAIN EmptyStore
  BY DEF MemoryInv
<1>3. PICK grounded : grounded = Grounded(pageStore, s)
  OBVIOUS
<1>4. /\ DOMAIN grounded = DOMAIN EmptyStore
      /\ grounded.epoch = pageStore.epoch /\ grounded.gen = pageStore.gen
      /\ grounded.serial = pageStore.serial /\ grounded.owner = pageStore.owner
      /\ grounded.flights = {f \in pageStore.flights : f.scope # s}
      /\ grounded.documents = pageStore.documents /\ grounded.contexts = pageStore.contexts
  BY <1>2, <1>3 DEF Grounded, EmptyStore
<1>5. PICK discarded : discarded = Discarded(grounded, s)
  OBVIOUS
<1>6. /\ DOMAIN discarded = DOMAIN EmptyStore
      /\ discarded.epoch = pageStore.epoch /\ discarded.gen = pageStore.gen
      /\ discarded.serial = pageStore.serial /\ discarded.owner = pageStore.owner
      /\ discarded.flights = {f \in pageStore.flights : f.scope # s}
      /\ discarded.documents = {d \in pageStore.documents : d.scope # s}
      /\ discarded.contexts = pageStore.contexts
  BY <1>4, <1>5 DEF Discarded, EmptyStore
<1>7. PICK from \in {grounded, discarded} : pageStore' = RemoveEmpty(from, s)
  BY <1>1, <1>3, <1>5 DEF Released, Aborted
<1>8. /\ DOMAIN from = DOMAIN EmptyStore
      /\ from.epoch = pageStore.epoch /\ from.gen = pageStore.gen
      /\ from.serial = pageStore.serial /\ from.owner = pageStore.owner
      /\ from.flights = {f \in pageStore.flights : f.scope # s}
      /\ from.documents \subseteq pageStore.documents
      /\ from.contexts = pageStore.contexts
  BY <1>4, <1>6
<1>9. /\ DOMAIN pageStore' = DOMAIN EmptyStore
      /\ pageStore'.epoch = from.epoch /\ pageStore'.gen = from.gen
      /\ pageStore'.serial = from.serial /\ pageStore'.owner = from.owner
      /\ pageStore'.flights = from.flights /\ pageStore'.documents = from.documents
      /\ pageStore'.contexts \subseteq from.contexts
      /\ \A x \in from.flights \cup from.documents :
           x.scope \in from.contexts => x.scope \in pageStore'.contexts
  <2> DEFINE to == RemoveEmpty(from, s)
  <2>1. /\ DOMAIN to = DOMAIN EmptyStore
        /\ to.epoch = from.epoch /\ to.gen = from.gen /\ to.serial = from.serial
        /\ to.owner = from.owner /\ to.flights = from.flights
        /\ to.documents = from.documents /\ to.contexts \subseteq from.contexts
        /\ \A x \in from.flights \cup from.documents :
             x.scope \in from.contexts => x.scope \in to.contexts
    <3> HIDE DEF to
    <3>1. to = RemoveEmpty(from, s)
      BY DEF to
    <3> QED
      BY <3>1, <1>8, RemovesEmpty
  <2> QED
    BY <2>1, <1>7
<1>10. \A x \in pageStore.flights \cup pageStore.documents : x.scope \in pageStore.contexts
  BY DEF MemoryInv, TicketsApart
<1>11. /\ IsFiniteSet(pageStore'.contexts)
       /\ Cardinality(pageStore'.contexts) <= MaxContexts
  <2>1. /\ IsFiniteSet(pageStore.contexts) /\ Cardinality(pageStore.contexts) <= MaxContexts
        /\ MaxContexts \in Nat
    BY MemoryAssumption DEF MemoryInv, MemoryTypeOK, TicketsApart
  <2>2. /\ IsFiniteSet(pageStore'.contexts)
        /\ Cardinality(pageStore'.contexts) <= Cardinality(pageStore.contexts)
    BY <2>1, <1>8, <1>9, FS_Subset
  <2> QED
    BY <2>1, <2>2, FS_CardinalityType
<1>12. TableTyped'
  BY <1>8, <1>9, <1>11 DEF TableTyped, MemoryInv, MemoryTypeOK
<1> QED
  BY <1>1, <1>8, <1>9, <1>10, <1>11, <1>12

\* Once the flight of r is gone from the table, and what its chat was given may have
\* changed with it, r has ended or only aborts.
LEMMA GroundedKeeps ==
    ASSUME MemoryInv, NEW r \in Readers, NEW m, m = read[r], m \in Reading, Underway(m),
           Matches(m.ticket), pageStore' \in {Released(m.ticket), Aborted(m.ticket)},
           NEW entry, entry = NoRead \/ entry = [m EXCEPT !.at = "abort"],
           read' = [read EXCEPT ![r] = entry],
           UNCHANGED <<life, switch, signedIn, revision, memoryLeft>>,
           given' \in [Scopes -> [rev : Nat, next : Nat, owner : Owners \cup {Nobody},
                                  bound : Owners \cup {Nobody}]],
           \A s \in Scopes : given'[s].owner = given'[s].bound,
           \A s \in Scopes : s # m.ticket.scope => given'[s] = given[s],
           UpToDate => \A d \in pageStore'.documents : d.scope = m.ticket.scope => Agrees(d)'
    PROVE  MemoryInv'
<1>1. /\ TableTyped' /\ IsFiniteSet(pageStore'.contexts)
      /\ pageStore'.epoch = pageStore.epoch /\ pageStore'.gen = pageStore.gen
      /\ pageStore'.serial = pageStore.serial /\ pageStore'.owner = pageStore.owner
      /\ pageStore'.flights = {f \in pageStore.flights : f.scope # m.ticket.scope}
      /\ pageStore'.documents \subseteq pageStore.documents
      /\ \A x \in pageStore'.flights \cup pageStore'.documents :
           x.scope \in pageStore'.contexts
  BY Grounding
<1>2. /\ entry = NoRead \/ entry \in Reading
      /\ entry # NoRead => entry.at = "abort" /\ entry.ticket = m.ticket /\ entry.lease = m.lease
  BY DEF Reading
<1>3. /\ m.at # "dispose" /\ m.ticket.owner # Nobody /\ entry.at # "dispose"
      /\ Underway(entry) => entry # NoRead
  <2>1. Leased(m) /\ m # NoRead
    BY DEF MemoryInv, LeasesFenced, Reading, NoRead
  <2> QED
    BY <2>1, <1>2 DEF Underway, Leased, NoRead
<1>4. /\ pageStore.serial \in Nat /\ pageStore.gen <= life.gen
      /\ m.ticket.serial <= pageStore.serial
  BY DEF MemoryInv, MemoryTypeOK, LeasesFenced, TicketsApart
<1>5. ASSUME NEW f \in pageStore'.flights
      PROVE  FlightKept(f) /\ f.serial # m.ticket.serial
  <2>1. f \in pageStore.flights /\ f.scope # m.ticket.scope /\ f.scope \in Scopes
    BY <1>1 DEF MemoryInv, MemoryTypeOK, Flight
  <2>2. f.serial # m.ticket.serial
    BY <2>1, OwnFlight
  <2> QED
    BY <2>1, <2>2, <1>1 DEF FlightKept
<1>6. /\ TicketsApart'
      /\ \A q \in Readers : q # r => Progress(read[q])'
  <2>1. Underway(entry) => /\ entry.ticket.serial <= pageStore'.serial
                           /\ entry.ticket.serial = m.ticket.serial
    BY <1>1, <1>2, <1>3, <1>4
  <2>2. pageStore'.serial >= pageStore.serial
    BY <1>1, <1>4
  <2>3. \A f \in pageStore'.flights :
          \/ FlightKept(f) /\ (Underway(m) => f.serial # m.ticket.serial)
          \/ Underway(entry) /\ FlightOf(f, entry.ticket)
    BY <1>5
  <2>4. /\ life' = life /\ TableTyped' /\ IsFiniteSet(pageStore'.contexts)
        /\ \A x \in pageStore'.flights \cup pageStore'.documents :
             x.scope \in pageStore'.contexts
        /\ entry = NoRead \/ entry \in Reading
    BY <1>1, <1>2
  <2>5. Underway(entry) => \/ Underway(m) /\ entry.ticket.serial = m.ticket.serial
                           \/ entry.ticket.serial > pageStore.serial
    BY <2>1
  <2> QED
    BY <2>1, <2>2, <2>3, <2>4, <2>5, FlightsChange
<1>7. DocumentsAgree'
  <2>1. ASSUME NEW d \in pageStore'.documents, d.scope # m.ticket.scope
        PROVE  (\E f \in pageStore'.flights : f.scope = d.scope) \/ ~UpToDate' \/ Agrees(d)'
    <3>1. d \in pageStore.documents /\ d.scope \in Scopes
      BY <1>1 DEF MemoryInv, MemoryTypeOK, Document
    <3>2. (\E f \in pageStore.flights : f.scope = d.scope) \/ ~UpToDate \/ Agrees(d)
      BY <3>1 DEF MemoryInv, DocumentsAgree
    <3>3. given'[d.scope] = given[d.scope]
      BY <2>1, <3>1
    <3>4. UpToDate' => UpToDate
      BY <1>1 DEF UpToDate
    <3> QED
      BY <2>1, <3>2, <3>3, <3>4, <1>1 DEF Agrees
  <2>2. UpToDate' => UpToDate
    BY <1>1 DEF UpToDate
  <2> QED
    BY <2>1, <2>2 DEF DocumentsAgree
<1>8. Progress(entry)'
  <2>1. CASE entry = NoRead
    BY <2>1 DEF Progress, Underway, NoRead
  <2>2. CASE entry # NoRead
    <3>1. entry.at = "abort" /\ entry.ticket = m.ticket
      BY <2>2, <1>2
    <3>2. ~Matches(entry.ticket)'
      BY <3>1, <1>1 DEF Matches
    <3> QED
      BY <3>1, <3>2 DEF Progress
  <2> QED
    BY <2>1, <2>2
<1>9. pageStore'.gen <= life.gen
  BY <1>1, <1>4
<1> QED
  BY <1>1, <1>2, <1>3, <1>6, <1>7, <1>8, <1>9, TableChanges
-----------------------------------------------------------------------------
\* A read that is given up without its flight leaves the table alone.
LEMMA GivenUp ==
    ASSUME MemoryInv, NEW r \in Readers, NEW m, m = read[r], m \in Reading, Underway(m),
           NEW entry, entry = [m EXCEPT !.at = "abort"], read' = [read EXCEPT ![r] = entry],
           UNCHANGED <<life, pageStore, switch, signedIn, revision, given, memoryLeft>>
    PROVE  MemoryInv'
<1>1. entry \in Reading /\ entry.at = "abort" /\ entry.ticket = m.ticket /\ entry.lease = m.lease
  BY DEF Reading
<1>2. /\ Leased(m) /\ Progress(m) /\ m # NoRead /\ memoryLeft' \in [MemoryEvents -> Nat]
  BY DEF MemoryInv, LeasesFenced, Reading, NoRead, MemoryTypeOK
<1>3. Underway(entry) /\ m.at # "dispose" /\ m.ticket.owner # Nobody
  BY <1>1, <1>2 DEF Underway, Leased
<1>4. Progress(entry)
  BY <1>1, <1>2, <1>3 DEF Progress, Untouched, PageKept, Matches
<1> QED
  BY <1>1, <1>2, <1>3, <1>4, TaskMoves

\* A read's entry ends with its task, which holds no flight any more.
LEMMA TaskEnds ==
    ASSUME MemoryInv, NEW r \in Readers, NEW m, m = read[r], m \in Reading, Underway(m),
           ~Matches(m.ticket), read' = [read EXCEPT ![r] = NoRead],
           UNCHANGED <<life, pageStore, switch, signedIn, revision, given, memoryLeft>>
    PROVE  MemoryInv'
<1>1. /\ Leased(m) /\ m # NoRead /\ TableTyped /\ DOMAIN read = Readers
      /\ pageStore.serial \in Nat /\ pageStore.gen \in Nat /\ life.gen \in Nat
      /\ pageStore.gen <= life.gen
  BY Typed DEF MemoryInv, LeasesFenced, Reading, NoRead, MemoryTypeOK
<1>2. m.at # "dispose" /\ ~Underway(NoRead) /\ NoRead.at # "dispose"
  BY DEF Underway, NoRead
<1>3. ASSUME NEW f \in pageStore.flights
      PROVE  FlightKept(f) /\ f.serial # m.ticket.serial
  <2>1. Handled(f)
    BY DEF MemoryInv, TicketsApart
  <2>2. PICK q \in Readers :
        /\ read[q] # NoRead /\ read[q].at \notin {"admitted", "dispose", "begin"}
        /\ read[q].ticket.serial = f.serial /\ read[q].ticket.scope = f.scope
        /\ read[q].ticket.epoch = pageStore.epoch /\ read[q].ticket.owner = pageStore.owner
    BY <2>1 DEF Handled
  <2>3. Underway(read[q])
    BY <2>2 DEF Underway, MemoryInv, MemoryTypeOK, Reading
  <2>4. q # r
    BY <2>2 DEF Matches
  <2>5. f.serial # m.ticket.serial
    BY <2>2, <2>3, <2>4 DEF MemoryInv, TicketsApart
  <2> QED
    BY <2>5 DEF FlightKept
<1>4. /\ TicketsApart'
      /\ \A q \in Readers : q # r => Progress(read[q])'
  <2>1. /\ TableTyped' /\ IsFiniteSet(pageStore'.contexts) /\ pageStore'.serial >= pageStore.serial
        /\ \A x \in pageStore'.flights \cup pageStore'.documents :
             x.scope \in pageStore'.contexts
    BY <1>1 DEF TableTyped, MemoryInv, TicketsApart
  <2>2. \A f \in pageStore'.flights :
          \/ FlightKept(f) /\ (Underway(m) => f.serial # m.ticket.serial)
          \/ Underway(NoRead) /\ FlightOf(f, NoRead.ticket)
    BY <1>3
  <2> QED
    BY <2>1, <2>2, <1>2, FlightsChange
<1>5. DocumentsAgree'
  BY <1>1, AgreeStays
<1>6. Progress(NoRead)'
  BY <1>2 DEF Progress, NoRead
<1>7. /\ given' \in [Scopes -> [rev : Nat, next : Nat, owner : Owners \cup {Nobody},
                                bound : Owners \cup {Nobody}]]
      /\ TableTyped' /\ pageStore'.gen <= life.gen
  BY <1>1 DEF MemoryInv, MemoryTypeOK, TableTyped
<1> QED
  BY <1>2, <1>4, <1>5, <1>6, <1>7, TableChanges

\* release and abort of a read that ends.
LEMMA CleanupKeeps ==
    ASSUME MemoryInv, NEW r \in Readers, Cleanup(r)
    PROVE  MemoryInv'
<1>1. PICK m : m = read[r]
  OBVIOUS
<1>2. /\ m.at \in {"release", "abort"}
      /\ pageStore' = IF m.at = "release" /\ Current(m) THEN Released(m.ticket)
                      ELSE Aborted(m.ticket)
      /\ read' = [read EXCEPT ![r] = NoRead]
      /\ UNCHANGED <<life, switch, signedIn, revision, given, memoryLeft>>
  BY <1>1 DEF Cleanup, Ends
<1>3. m \in Reading /\ Underway(m) /\ Progress(m)
  BY <1>1, <1>2 DEF MemoryInv, MemoryTypeOK, Underway, NoRead
<1>4. CASE Matches(m.ticket)
  <2>1. pageStore' \in {Released(m.ticket), Aborted(m.ticket)}
    BY <1>2
  <2>2. /\ given' \in [Scopes -> [rev : Nat, next : Nat, owner : Owners \cup {Nobody},
                                  bound : Owners \cup {Nobody}]]
        /\ \A s \in Scopes : given'[s].owner = given'[s].bound /\ given'[s] = given[s]
    BY <1>2 DEF MemoryInv, MemoryTypeOK, DocumentsAgree
  <2>3. ASSUME UpToDate, NEW d \in pageStore'.documents, d.scope = m.ticket.scope
        PROVE  Agrees(d)'
    <3>1. d \in pageStore.documents /\ pageStore'.owner = pageStore.owner
      BY <2>1, <1>1, <1>3, <1>4, Grounding
    <3>2. CASE m.at = "abort"
      <4>1. pageStore' = Aborted(m.ticket)
        BY <3>2, <1>2
      <4>2. d \notin pageStore'.documents
        BY <4>1, <1>4, <2>3 DEF Aborted, RemoveEmpty, Discarded, Grounded, MemoryInv,
             EmptyStore
      <4> QED
        BY <4>2
    <3>3. CASE m.at = "release"
      <4>1. Agrees(d)
        BY <3>1, <3>3, <1>3, <1>4, <2>3 DEF Progress, Untouched
      <4> QED
        BY <4>1, <3>1, <1>2 DEF Agrees
    <3> QED
      BY <3>2, <3>3, <1>2
  <2> QED
    BY <2>1, <2>2, <2>3, <1>1, <1>2, <1>3, <1>4, GroundedKeeps
<1>5. CASE ~Matches(m.ticket)
  <2>1. pageStore' = pageStore
    BY <1>2, <1>5 DEF Released, Aborted
  <2> QED
    BY <2>1, <1>1, <1>2, <1>3, <1>5, TaskEnds
<1> QED
  BY <1>4, <1>5

\* What a chat is given, if anything, is the page its read kept.
LEMMA AcceptKeeps ==
    ASSUME MemoryInv, NEW r \in Readers, Accept(r)
    PROVE  /\ MemoryInv'
           /\ \A s \in Scopes : given'[s].next \notin {1, given[s].next} =>
                given[s] = [given'[s] EXCEPT !.next = @ - 1]
<1>1. PICK m : m = read[r]
  OBVIOUS
<1>2. m.at = "ready" /\ UNCHANGED <<life, switch, signedIn, revision, memoryLeft>>
  BY <1>1 DEF Accept
<1>3. /\ m \in Reading /\ Underway(m) /\ Progress(m) /\ Leased(m) /\ m # NoRead
      /\ life.gen \in Nat /\ signedIn \in Owners \cup {Nobody}
  BY <1>1, <1>2 DEF MemoryInv, MemoryTypeOK, Underway, NoRead, LeasesFenced
<1>4. PICK s \in Scopes, rev \in Nat, page \in Nat, owner \in Owners \cup {Nobody} :
        /\ s = m.ticket.scope /\ rev = m.rev /\ page = m.page /\ owner = m.ticket.owner
  BY <1>3, MemoryAssumption DEF Reading, Ticket, Pages
<1>5. CASE Goes(r, "abort") /\ UNCHANGED <<pageStore, given>>
  <2>1. PICK entry : entry = [m EXCEPT !.at = "abort"]
    OBVIOUS
  <2>2. read' = [read EXCEPT ![r] = entry]
    BY <2>1, <1>1, <1>5 DEF Goes
  <2> QED
    BY <2>1, <2>2, <1>1, <1>2, <1>3, <1>5, GivenUp
<1>6. ASSUME Current(m), Matches(m.ticket), pageStore' = Released(m.ticket),
             given' = [given EXCEPT ![s].rev = IF m.answer = "page" THEN m.rev ELSE @,
                                    ![s].next = IF m.answer = "page" THEN m.page + 1 ELSE @,
                                    ![s].owner = m.ticket.owner, ![s].bound = signedIn],
             Ends(r)
      PROVE  /\ MemoryInv'
             /\ \A t \in Scopes : given'[t].next \notin {1, given[t].next} =>
                  given[t] = [given'[t] EXCEPT !.next = @ - 1]
  <2>1. UpToDate /\ signedIn = owner /\ pageStore.owner = owner
    BY <1>2, <1>3, <1>4, <1>6 DEF Current, Leased, Progress, UpToDate, Matches
  <2>2. PICK next \in Nat, last \in Nat :
          /\ next = IF m.answer = "page" THEN page + 1 ELSE given[s].next
          /\ last = IF m.answer = "page" THEN rev ELSE given[s].rev
    <3>1. given[s].next \in Nat /\ given[s].rev \in Nat /\ page + 1 \in Nat
      BY <1>4 DEF MemoryInv, MemoryTypeOK
    <3> QED
      BY <3>1
  <2>3. PICK now : now = [rev |-> last, next |-> next, owner |-> owner, bound |-> owner]
    OBVIOUS
  <2>4. /\ given[s] \in [rev : Nat, next : Nat, owner : Owners \cup {Nobody},
                         bound : Owners \cup {Nobody}]
        /\ given \in [Scopes -> [rev : Nat, next : Nat, owner : Owners \cup {Nobody},
                                 bound : Owners \cup {Nobody}]]
        /\ \A t \in Scopes : given[t].owner = given[t].bound
    BY DEF MemoryInv, MemoryTypeOK, DocumentsAgree
  <2>5. given' = [given EXCEPT ![s] = now]
    <3>1. given' = [given EXCEPT ![s].rev = last, ![s].next = next, ![s].owner = owner,
                                 ![s].bound = owner]
      BY <2>1, <2>2, <1>4, <1>6
    <3>2. PICK was \in [rev : Nat, next : Nat, owner : Owners \cup {Nobody},
                         bound : Owners \cup {Nobody}] : was = given[s]
      BY <2>4
    <3>3. PICK one : one = [was EXCEPT !.rev = last]
      OBVIOUS
    <3>4. PICK two : two = [one EXCEPT !.next = next]
      OBVIOUS
    <3>5. PICK three : three = [two EXCEPT !.owner = owner]
      OBVIOUS
    <3>6. /\ one \in [rev : Nat, next : Nat, owner : Owners \cup {Nobody},
                      bound : Owners \cup {Nobody}]
          /\ one.rev = last
      BY <3>2, <3>3
    <3>7. /\ two \in [rev : Nat, next : Nat, owner : Owners \cup {Nobody},
                      bound : Owners \cup {Nobody}]
          /\ two.rev = last /\ two.next = next
      BY <3>4, <3>6
    <3>8. /\ three \in [rev : Nat, next : Nat, owner : Owners \cup {Nobody},
                        bound : Owners \cup {Nobody}]
          /\ three.rev = last /\ three.next = next /\ three.owner = owner
      BY <3>5, <3>7
    <3>9. [three EXCEPT !.bound = owner] = now
      BY <3>8, <2>3
    <3> QED
      BY <3>1, <3>2, <3>3, <3>4, <3>5, <3>9, <2>4
  <2>6. /\ now \in [rev : Nat, next : Nat, owner : Owners \cup {Nobody},
                    bound : Owners \cup {Nobody}]
        /\ now.rev = last /\ now.next = next /\ now.owner = owner /\ now.bound = owner
    BY <2>3
  <2>7. /\ given' \in [Scopes -> [rev : Nat, next : Nat, owner : Owners \cup {Nobody},
                                  bound : Owners \cup {Nobody}]]
        /\ \A t \in Scopes : given'[t] = IF t = s THEN now ELSE given[t]
        /\ \A t \in Scopes : given'[t].owner = given'[t].bound
    BY <2>4, <2>5, <2>6
  <2>8. ASSUME NEW d \in pageStore'.documents, d.scope = m.ticket.scope
        PROVE  Agrees(d)'
    <3>1. d \in pageStore.documents /\ pageStore'.owner = pageStore.owner
      BY <2>8, <1>1, <1>3, <1>6, Grounding
    <3>2. given'[d.scope] = now
      BY <2>7, <2>8, <1>4
    <3>3. CASE m.answer = "page"
      <4>1. d.rev = rev /\ d.next = page + 1
        BY <3>1, <3>3, <2>1, <2>8, <1>2, <1>3, <1>4, <1>6 DEF Progress, PageKept
      <4> QED
        BY <4>1, <3>1, <3>2, <3>3, <2>1, <2>2, <2>6 DEF Agrees
    <3>4. CASE m.answer # "page"
      <4>1. Agrees(d)
        BY <3>1, <3>4, <2>1, <2>8, <1>2, <1>3, <1>4, <1>6 DEF Progress, Untouched
      <4> QED
        BY <4>1, <3>1, <3>2, <3>4, <2>1, <2>2, <2>6, <2>8, <1>4 DEF Agrees
    <3> QED
      BY <3>3, <3>4
  <2>9. MemoryInv'
    <3>1. \A t \in Scopes : t # m.ticket.scope => given'[t] = given[t]
      BY <2>7, <1>4
    <3>2. pageStore' \in {Released(m.ticket), Aborted(m.ticket)}
      BY <1>6
    <3>3. UpToDate => \A d \in pageStore'.documents : d.scope = m.ticket.scope => Agrees(d)'
      BY <2>8
    <3>4. read' = [read EXCEPT ![r] = NoRead]
      BY <1>6 DEF Ends
    <3>5. \A t \in Scopes : given'[t].owner = given'[t].bound
      BY <2>7
    <3>6. /\ m = read[r] /\ m \in Reading /\ Underway(m) /\ Matches(m.ticket)
          /\ UNCHANGED <<life, switch, signedIn, revision, memoryLeft>>
          /\ given' \in [Scopes -> [rev : Nat, next : Nat, owner : Owners \cup {Nobody},
                                   bound : Owners \cup {Nobody}]]
      BY <2>7, <1>1, <1>2, <1>3, <1>6
    <3> QED
      BY <3>1, <3>2, <3>3, <3>4, <3>5, <3>6, GroundedKeeps
  <2>10. ASSUME NEW t \in Scopes, given'[t].next \notin {1, given[t].next}
         PROVE  given[t] = [given'[t] EXCEPT !.next = @ - 1]
    <3>1. t = s /\ given'[t] = now
      BY <2>7, <2>10
    <3>2. m.answer = "page" /\ next = page + 1 /\ last = rev
      BY <3>1, <2>2, <2>6, <2>10
    <3>3. page > 0
      BY <3>1, <3>2, <2>6, <2>10
    <3>4. given[s].next = page /\ given[s].rev = rev /\ given[s].owner = owner
      BY <3>2, <3>3, <2>1, <1>2, <1>3, <1>4, <1>6 DEF Progress, PageKept
    <3>5. given[s].bound = owner
      BY <3>4, <2>4
    <3>6. [now EXCEPT !.next = @ - 1]
            = [rev |-> rev, next |-> page, owner |-> owner, bound |-> owner]
      <4>1. PICK before : before = now.next - 1
        OBVIOUS
      <4>2. before = page
        BY <4>1, <3>2, <2>6
      <4>3. [now EXCEPT !.next = before]
              = [rev |-> rev, next |-> page, owner |-> owner, bound |-> owner]
        BY <4>2, <3>2, <2>3
      <4> QED
        BY <4>1, <4>3
    <3>7. given[s] = [rev |-> rev, next |-> page, owner |-> owner, bound |-> owner]
      BY <3>4, <3>5, <2>4
    <3> QED
      BY <3>1, <3>6, <3>7
  <2> QED
    BY <2>9, <2>10
<1> QED
  BY <1>1, <1>4, <1>5, <1>6 DEF Accept
-----------------------------------------------------------------------------
Marked(s) == {[f EXCEPT !.done = @ \/ f.scope = s] : f \in pageStore.flights}
OtherDocuments(s) == {d \in pageStore.documents : d.scope # s}

\* finish, when the page is kept.
KeepsPage(r, m, s, page, rev, documents) ==
    /\ m = read[r] /\ m.at = "finish" /\ Matches(m.ticket)
    /\ m.answer = "refused" \/ Follows(m)
    /\ Goes(r, "confirm") /\ s = m.ticket.scope /\ page = m.page /\ rev = m.rev
    /\ documents = IF m.answer = "refused" THEN pageStore.documents
                   ELSE IF page = LastPage THEN OtherDocuments(s)
                   ELSE OtherDocuments(s) \cup {[scope |-> s, rev |-> rev, next |-> page + 1]}
    /\ pageStore' = [pageStore EXCEPT !.flights = Marked(s), !.documents = documents]
    /\ UNCHANGED <<life, switch, signedIn, revision, given, memoryLeft>>

\* A page is kept behind the last one, and its flight stays until it is handed over.
LEMMA PageKeeps ==
    ASSUME MemoryInv, NEW r \in Readers, NEW m, NEW s \in Scopes, NEW page \in Nat,
           NEW rev \in Nat, NEW documents, KeepsPage(r, m, s, page, rev, documents)
    PROVE  MemoryInv'
<1> DEFINE rest == OtherDocuments(s)
<1>0. /\ m = read[r] /\ m.at = "finish" /\ Matches(m.ticket)
      /\ m.answer = "refused" \/ Follows(m)
      /\ Goes(r, "confirm") /\ s = m.ticket.scope /\ page = m.page /\ rev = m.rev
      /\ documents = IF m.answer = "refused" THEN pageStore.documents
                     ELSE IF page = LastPage THEN rest
                     ELSE rest \cup {[scope |-> s, rev |-> rev, next |-> page + 1]}
      /\ pageStore' = [pageStore EXCEPT !.flights = Marked(s), !.documents = documents]
      /\ UNCHANGED <<life, switch, signedIn, revision, given, memoryLeft>>
  BY DEF KeepsPage
<1> USE <1>0
<1>1. /\ m \in Reading /\ Underway(m) /\ Progress(m) /\ Leased(m) /\ m # NoRead
      /\ m.answer \in {"page", "refused"}
  BY DEF MemoryInv, MemoryTypeOK, Underway, NoRead, LeasesFenced, Progress
<1>2. PICK entry : entry = [m EXCEPT !.at = "confirm"]
  OBVIOUS
<1>3. /\ entry \in Reading /\ entry.at = "confirm" /\ entry.ticket = m.ticket
      /\ entry.lease = m.lease /\ entry.answer = m.answer /\ entry.rev = m.rev
      /\ entry.page = m.page /\ entry # NoRead
  BY <1>1, <1>2 DEF Reading, NoRead
<1>4. read' = [read EXCEPT ![r] = entry]
  BY <1>2 DEF Goes
<1>5. Underway(entry) /\ m.at # "dispose" /\ m.ticket.owner # Nobody
  BY <1>1, <1>3 DEF Underway, Leased
<1>6. TableTyped /\ DOMAIN pageStore = DOMAIN EmptyStore
  BY Typed DEF MemoryInv
<1>7. /\ DOMAIN pageStore' = DOMAIN EmptyStore
      /\ pageStore'.epoch = pageStore.epoch /\ pageStore'.gen = pageStore.gen
      /\ pageStore'.serial = pageStore.serial /\ pageStore'.owner = pageStore.owner
      /\ pageStore'.contexts = pageStore.contexts /\ pageStore'.documents = documents
      /\ pageStore'.flights = {[f EXCEPT !.done = @ \/ f.scope = s] : f \in pageStore.flights}
      /\ rest = {d \in pageStore.documents : d.scope # s}
  BY <1>6 DEF EmptyStore, Marked, OtherDocuments
<1> HIDE DEF rest
<1> DEFINE done(f) == [f EXCEPT !.done = @ \/ f.scope = s]
<1>8. /\ pageStore'.flights = {done(f) : f \in pageStore.flights}
      /\ \A f \in pageStore.flights :
           done(f) \in Flight /\ done(f).scope = f.scope /\ done(f).serial = f.serial
  BY <1>6, <1>7 DEF TableTyped, Flight
<1> HIDE DEF done
<1>9. /\ pageStore'.flights \subseteq Flight
      /\ \A x, y \in pageStore'.flights : x.scope = y.scope => x = y
      /\ \A x \in pageStore'.flights :
           \E f \in pageStore.flights : f.scope = x.scope /\ f.serial = x.serial
      /\ \A f \in pageStore.flights :
           \E x \in pageStore'.flights : f.scope = x.scope /\ f.serial = x.serial
  <2>1. \A x, y \in pageStore.flights : x.scope = y.scope => x = y
    BY <1>6 DEF TableTyped
  <2>2. \A x \in pageStore'.flights : \E f \in pageStore.flights : x = done(f)
    BY <1>8
  <2>3. \A f \in pageStore.flights : done(f) \in pageStore'.flights
    BY <1>8
  <2>4. ASSUME NEW x \in pageStore'.flights, NEW y \in pageStore'.flights, x.scope = y.scope
        PROVE  x = y
    BY <2>1, <2>2, <2>4, <1>8
  <2>5. pageStore'.flights \subseteq Flight
    BY <1>8
  <2>6. \A x \in pageStore'.flights :
          \E f \in pageStore.flights : f.scope = x.scope /\ f.serial = x.serial
    BY <2>2, <1>8
  <2>7. \A f \in pageStore.flights :
          \E x \in pageStore'.flights : f.scope = x.scope /\ f.serial = x.serial
    BY <2>3, <1>8
  <2> QED
    BY <2>4, <2>5, <2>6, <2>7
<1>10. /\ documents \subseteq Document
       /\ \A x, y \in documents : x.scope = y.scope => x = y
       /\ \A d \in documents : d.scope # s => d \in pageStore.documents
       /\ \A d \in documents :
            d.scope = s /\ m.answer # "refused" => d.rev = rev /\ d.next = page + 1
  <2>1. CASE m.answer = "refused"
    BY <2>1, <1>6, <1>7 DEF TableTyped
  <2>2. CASE m.answer # "refused" /\ page = LastPage
    BY <2>2, <1>6, <1>7 DEF TableTyped
  <2>3. CASE m.answer # "refused" /\ page # LastPage
    <3>1. PICK next \in Nat : next = page + 1
      OBVIOUS
    <3>2. PICK new : new = [scope |-> s, rev |-> rev, next |-> next]
      OBVIOUS
    <3>3. new \in Document /\ new.scope = s /\ new.rev = rev /\ new.next = next
      BY <3>2 DEF Document
    <3>4. documents = rest \cup {new}
      BY <2>3, <3>1, <3>2
    <3>5. /\ rest \subseteq pageStore.documents /\ \A d \in rest : d.scope # s
          /\ pageStore.documents \subseteq Document
          /\ \A x, y \in pageStore.documents : x.scope = y.scope => x = y
      BY <1>6, <1>7 DEF TableTyped
    <3> QED
      BY <3>1, <3>3, <3>4, <3>5
  <2> QED
    BY <2>1, <2>2, <2>3
<1>11. TableTyped'
  <2>1. /\ pageStore'.documents \subseteq Document /\ pageStore'.flights \subseteq Flight
        /\ \A x, y \in pageStore'.documents : x.scope = y.scope => x = y
        /\ \A x, y \in pageStore'.flights : x.scope = y.scope => x = y
    <3>1. pageStore'.documents = documents
      BY <1>7
    <3> QED
      BY <3>1, <1>9, <1>10
  <2>2. /\ DOMAIN pageStore' = DOMAIN EmptyStore
        /\ pageStore'.epoch \in Nat /\ pageStore'.gen \in Nat /\ pageStore'.serial \in Nat
        /\ pageStore'.owner \in Owners \cup {Nobody}
        /\ pageStore'.contexts \subseteq Scopes
        /\ Cardinality(pageStore'.contexts) <= MaxContexts
    BY <1>6, <1>7 DEF TableTyped
  <2> QED
    BY <2>1, <2>2 DEF TableTyped
<1>12. PICK own \in pageStore.flights : own.scope = s /\ own.serial = m.ticket.serial
  BY DEF Matches
<1>13. /\ s \in pageStore.contexts /\ IsFiniteSet(pageStore.contexts)
       /\ \A x \in pageStore.flights \cup pageStore.documents : x.scope \in pageStore.contexts
       /\ m.ticket.serial <= pageStore.serial
  BY <1>1, <1>12 DEF MemoryInv, TicketsApart
<1>14. \A x \in pageStore'.flights \cup pageStore'.documents : x.scope \in pageStore'.contexts
  BY <1>7, <1>9, <1>10, <1>13
<1>15. /\ TicketsApart'
       /\ \A q \in Readers : q # r => Progress(read[q])'
  <2>1. ASSUME NEW x \in pageStore'.flights
        PROVE  \/ FlightKept(x) /\ (Underway(m) => x.serial # m.ticket.serial)
               \/ Underway(entry) /\ FlightOf(x, entry.ticket)
    <3>1. PICK f \in pageStore.flights : f.scope = x.scope /\ f.serial = x.serial
      BY <1>9
    <3>2. f.serial = m.ticket.serial <=> f.scope = s
      BY <3>1, <1>1, OwnFlight
    <3>3. CASE x.scope = s
      BY <3>1, <3>2, <3>3, <1>3, <1>5, <1>7 DEF FlightOf, Matches
    <3>4. CASE x.scope # s
      BY <3>1, <3>2, <3>4, <1>7, <1>10 DEF FlightKept
    <3> QED
      BY <3>3, <3>4
  <2>2. pageStore.serial \in Nat /\ pageStore'.serial >= pageStore.serial
    BY <1>6, <1>7 DEF TableTyped
  <2>3. /\ Underway(entry) => entry.ticket.serial <= pageStore'.serial
        /\ Underway(entry) => \/ Underway(m) /\ entry.ticket.serial = m.ticket.serial
                              \/ entry.ticket.serial > pageStore.serial
    BY <1>1, <1>3, <1>7, <1>13
  <2>4. /\ life' = life /\ IsFiniteSet(pageStore'.contexts)
        /\ entry = NoRead \/ entry \in Reading
    BY <1>3, <1>7, <1>13
  <2> QED
    BY <2>1, <2>2, <2>3, <2>4, <1>1, <1>4, <1>11, <1>14, FlightsChange
<1>16. UpToDate' <=> UpToDate
  BY <1>7 DEF UpToDate
<1>17. DocumentsAgree'
  <2>1. ASSUME NEW d \in pageStore'.documents
        PROVE  (\E f \in pageStore'.flights : f.scope = d.scope) \/ ~UpToDate' \/ Agrees(d)'
    <3>1. CASE d.scope = s
      <4>1. PICK x \in pageStore'.flights : own.scope = x.scope
        BY <1>9, <1>12
      <4> QED
        BY <3>1, <4>1, <1>12
    <3>2. CASE d.scope # s
      <4>1. d \in pageStore.documents
        BY <3>2, <1>7, <1>10
      <4>2. (\E f \in pageStore.flights : f.scope = d.scope) \/ ~UpToDate \/ Agrees(d)
        BY <4>1 DEF MemoryInv, DocumentsAgree
      <4>3. (\E f \in pageStore.flights : f.scope = d.scope)
              => \E f \in pageStore'.flights : f.scope = d.scope
        <5> SUFFICES ASSUME NEW f \in pageStore.flights, f.scope = d.scope
                     PROVE  \E x \in pageStore'.flights : x.scope = d.scope
          OBVIOUS
        <5>1. PICK x \in pageStore'.flights : f.scope = x.scope
          BY <1>9
        <5> QED
          BY <5>1
      <4>4. Agrees(d) => Agrees(d)'
        BY <1>7 DEF Agrees
      <4> QED
        BY <4>2, <4>3, <4>4, <1>16
    <3> QED
      BY <3>1, <3>2
  <2> QED
    BY <2>1 DEF DocumentsAgree, MemoryInv
<1>18. Progress(entry)'
  <2>1. m.lease = pageStore.gen
    BY <1>1 DEF Progress
  <2>2. ASSUME UpToDate, m.answer = "refused", NEW d \in pageStore'.documents, d.scope = s
        PROVE  Agrees(d)'
    <3>1. d \in pageStore.documents
      BY <2>2, <1>7
    <3>2. Agrees(d)
      BY <3>1, <2>2, <1>1 DEF Progress, Untouched
    <3> QED
      BY <3>2, <1>7 DEF Agrees
  <2>3. ASSUME UpToDate, m.answer = "page", page > 0
        PROVE  /\ given[s].next = page /\ given[s].rev = rev
               /\ given[s].owner = pageStore.owner
    <3>1. PICK d \in pageStore.documents : d.scope = s /\ d.next = page /\ d.rev = rev
      BY <2>3 DEF Follows
    <3>2. Agrees(d)
      BY <3>1, <2>3, <1>1 DEF Progress, Untouched
    <3> QED
      BY <3>1, <3>2 DEF Agrees
  <2>4. ASSUME m.answer = "page", NEW d \in pageStore'.documents, d.scope = s
        PROVE  d.rev = rev /\ d.next = page + 1
    BY <2>4, <1>7, <1>10
  <2>5. /\ entry.at = "confirm" /\ entry.answer = m.answer /\ entry.rev = rev
        /\ entry.page = page /\ entry.ticket.scope = s /\ entry.lease = pageStore'.gen
        /\ given' = given /\ pageStore'.owner = pageStore.owner
    BY <2>1, <1>3, <1>7
  <2>6. CASE m.answer = "refused"
    <3>1. ~PageKept(entry) /\ (UpToDate' => \A d \in pageStore'.documents :
                                 d.scope = s => Agrees(d)')
      BY <2>2, <2>5, <2>6, <1>16 DEF PageKept
    <3> QED
      BY <3>1, <2>5 DEF Progress, PageKept
  <2>7. CASE m.answer = "page"
    <3>1. ~Untouched(entry)
      BY <2>5, <2>7 DEF Untouched
    <3>2. UpToDate' =>
            /\ \A d \in pageStore'.documents : d.scope = s => d.rev = rev /\ d.next = page + 1
            /\ page > 0 => /\ given'[s].next = page /\ given'[s].rev = rev
                          /\ given'[s].owner = pageStore'.owner
      BY <2>3, <2>4, <2>5, <2>7, <1>16
    <3> QED
      BY <3>1, <3>2, <2>5 DEF Progress, Untouched
  <2> QED
    BY <2>6, <2>7, <1>1
<1>19. /\ given' \in [Scopes -> [rev : Nat, next : Nat, owner : Owners \cup {Nobody},
                                 bound : Owners \cup {Nobody}]]
       /\ pageStore'.gen <= life.gen
  BY <1>7 DEF MemoryInv, MemoryTypeOK, LeasesFenced
<1> QED
  BY <1>1, <1>3, <1>4, <1>5, <1>11, <1>15, <1>17, <1>18, <1>19, TableChanges

\* finish keeps the page, or gives the read up.
LEMMA FinishKeeps ==
    ASSUME MemoryInv, NEW r \in Readers, Finish(r)
    PROVE  MemoryInv'
<1>1. PICK m : m = read[r]
  OBVIOUS
<1>2. m.at = "finish" /\ UNCHANGED <<life, switch, signedIn, revision, given, memoryLeft>>
  BY <1>1 DEF Finish
<1>3. m \in Reading /\ Underway(m)
  BY <1>1, <1>2 DEF MemoryInv, MemoryTypeOK, Underway, NoRead
<1>4. PICK s \in Scopes, page \in Nat, rev \in Nat :
        s = m.ticket.scope /\ page = m.page /\ rev = m.rev
  BY <1>3, MemoryAssumption DEF Reading, Ticket, Pages
<1>5. PICK documents :
        documents = IF m.answer = "refused" THEN pageStore.documents
                    ELSE IF page = LastPage THEN OtherDocuments(s)
                    ELSE OtherDocuments(s) \cup {[scope |-> s, rev |-> rev, next |-> page + 1]}
  OBVIOUS
<1>6. CASE KeepsPage(r, m, s, page, rev, documents)
  BY <1>6, PageKeeps
<1>7. CASE (pageStore' = Aborted(m.ticket) \/ UNCHANGED pageStore) /\ Goes(r, "abort")
  <2>1. PICK entry : entry = [m EXCEPT !.at = "abort"]
    OBVIOUS
  <2>2. read' = [read EXCEPT ![r] = entry]
    BY <2>1, <1>1, <1>7 DEF Goes
  <2>3. CASE pageStore' = pageStore
    BY <2>1, <2>2, <2>3, <1>1, <1>2, <1>3, GivenUp
  <2>4. CASE pageStore' = Aborted(m.ticket) /\ Matches(m.ticket)
    <3>1. \A d \in pageStore'.documents : d.scope # m.ticket.scope
      BY <2>4 DEF Aborted, RemoveEmpty, Discarded, Grounded, MemoryInv, EmptyStore
    <3>2. /\ given' \in [Scopes -> [rev : Nat, next : Nat, owner : Owners \cup {Nobody},
                                    bound : Owners \cup {Nobody}]]
          /\ \A t \in Scopes : given'[t].owner = given'[t].bound
          /\ \A t \in Scopes : t # m.ticket.scope => given'[t] = given[t]
      BY <1>2 DEF MemoryInv, MemoryTypeOK, DocumentsAgree
    <3> QED
      BY <2>1, <2>2, <2>4, <3>1, <3>2, <1>1, <1>2, <1>3, GroundedKeeps
  <2> QED
    BY <2>3, <2>4, <1>7 DEF Aborted
<1> QED
  BY <1>1, <1>2, <1>4, <1>5, <1>6, <1>7 DEF Finish, KeepsPage, Marked, OtherDocuments
-----------------------------------------------------------------------------
\* What begin makes of the table before it adds its flight: less of it, under its lease
\* and owner; whatever is left was there under both, and no document loses its flight.
Lesser(table, m) ==
    /\ DOMAIN table = DOMAIN EmptyStore /\ table.epoch \in Nat
    /\ table.serial = pageStore.serial /\ table.gen = m.lease /\ table.owner = m.ticket.owner
    /\ table.contexts \subseteq pageStore.contexts
    /\ table.documents \subseteq pageStore.documents /\ table.flights \subseteq pageStore.flights
    /\ \A x \in table.flights \cup table.documents :
         /\ x.scope \in table.contexts
         /\ table.epoch = pageStore.epoch /\ table.gen = pageStore.gen
         /\ table.owner = pageStore.owner
    /\ \A d \in table.documents, f \in pageStore.flights :
         f.scope = d.scope => f \in table.flights

\* A table of another generation or owner is empty, and idle chats go with all they have.
LEMMA PreparedLess ==
    ASSUME MemoryInv, NEW m \in Reading, NEW table \in Prepared(m)
    PROVE  Lesser(table, m)
<1>1. /\ DOMAIN pageStore = DOMAIN EmptyStore /\ pageStore.epoch \in Nat
      /\ \A x \in pageStore.flights \cup pageStore.documents : x.scope \in pageStore.contexts
  BY DEF MemoryInv, MemoryTypeOK, TicketsApart
<1>2. PICK fresh : fresh = IF pageStore.gen # m.lease THEN Invalidated(pageStore) ELSE pageStore
  OBVIOUS
<1>3. /\ DOMAIN fresh = DOMAIN EmptyStore /\ fresh.epoch \in Nat
      /\ fresh.serial = pageStore.serial
      /\ \/ fresh = pageStore /\ pageStore.gen = m.lease
         \/ fresh.flights = {} /\ fresh.documents = {} /\ fresh.contexts = {}
  BY <1>1, <1>2 DEF Invalidated, EmptyStore
<1>4. PICK owned : owned = IF fresh.owner # m.ticket.owner THEN Invalidated(fresh) ELSE fresh
  OBVIOUS
<1>5. /\ DOMAIN owned = DOMAIN EmptyStore /\ owned.epoch \in Nat
      /\ owned.serial = pageStore.serial
      /\ \/ owned = pageStore /\ pageStore.gen = m.lease /\ pageStore.owner = m.ticket.owner
         \/ owned.flights = {} /\ owned.documents = {} /\ owned.contexts = {}
  <2>1. CASE fresh.owner # m.ticket.owner
    BY <2>1, <1>3, <1>4 DEF Invalidated, EmptyStore
  <2>2. CASE fresh.owner = m.ticket.owner
    BY <2>2, <1>3, <1>4
  <2> QED
    BY <2>1, <2>2
<1>6. PICK old \in SUBSET owned.contexts :
        table = [owned EXCEPT !.gen = m.lease, !.owner = m.ticket.owner,
                              !.contexts = @ \ old,
                              !.documents = {d \in @ : d.scope \notin old},
                              !.flights = {f \in @ : f.scope \notin old}]
  BY <1>2, <1>4 DEF Prepared
<1>7. /\ DOMAIN table = DOMAIN EmptyStore /\ table.epoch = owned.epoch
      /\ table.serial = owned.serial /\ table.gen = m.lease /\ table.owner = m.ticket.owner
      /\ table.contexts = owned.contexts \ old
      /\ table.documents = {d \in owned.documents : d.scope \notin old}
      /\ table.flights = {f \in owned.flights : f.scope \notin old}
  BY <1>5, <1>6 DEF EmptyStore
<1>8. CASE owned = pageStore /\ pageStore.gen = m.lease /\ pageStore.owner = m.ticket.owner
  BY <1>1, <1>7, <1>8 DEF Lesser
<1>9. CASE owned.flights = {} /\ owned.documents = {} /\ owned.contexts = {}
  BY <1>5, <1>7, <1>9 DEF Lesser
<1> QED
  BY <1>5, <1>8, <1>9

\* A first page finds no trace of its chat, and room for it.
LEMMA RoomLess ==
    ASSUME MemoryInv, NEW m \in Reading, NEW table, Lesser(table, m),
           NEW s, s = m.ticket.scope, NEW room \in Room(table, s)
    PROVE  /\ Lesser(room, m)
           /\ \A x \in room.flights \cup room.documents : x.scope # s
           /\ s \in room.contexts \/ Cardinality(room.contexts) < MaxContexts
<1>1. DOMAIN table = DOMAIN EmptyStore
  BY DEF Lesser
<1>2. PICK grounded : grounded = Grounded(table, s)
  OBVIOUS
<1>3. /\ DOMAIN grounded = DOMAIN EmptyStore
      /\ grounded.epoch = table.epoch /\ grounded.gen = table.gen
      /\ grounded.serial = table.serial /\ grounded.owner = table.owner
      /\ grounded.flights = {f \in table.flights : f.scope # s}
      /\ grounded.documents = table.documents /\ grounded.contexts = table.contexts
  BY <1>1, <1>2 DEF Grounded, EmptyStore
<1>4. PICK restarted : restarted = Discarded(grounded, s)
  OBVIOUS
<1>5. /\ DOMAIN restarted = DOMAIN EmptyStore
      /\ restarted.epoch = table.epoch /\ restarted.gen = table.gen
      /\ restarted.serial = table.serial /\ restarted.owner = table.owner
      /\ restarted.flights = {f \in table.flights : f.scope # s}
      /\ restarted.documents = {d \in table.documents : d.scope # s}
      /\ restarted.contexts = table.contexts
  BY <1>3, <1>4 DEF Discarded, EmptyStore
<1>6. CASE room = restarted /\ (s \in room.contexts \/ Cardinality(room.contexts) < MaxContexts)
  BY <1>5, <1>6 DEF Lesser
<1>7. ASSUME NEW other \in restarted.contexts, room = Evicted(restarted, other)
      PROVE  /\ Lesser(room, m)
             /\ \A x \in room.flights \cup room.documents : x.scope # s
             /\ Cardinality(room.contexts) < MaxContexts
  <2>1. /\ DOMAIN room = DOMAIN EmptyStore
        /\ room.epoch = table.epoch /\ room.gen = table.gen
        /\ room.serial = table.serial /\ room.owner = table.owner
        /\ room.flights = {f \in restarted.flights : f.scope # other}
        /\ room.documents = {d \in restarted.documents : d.scope # other}
        /\ room.contexts = table.contexts \ {other}
    BY <1>5, <1>7 DEF Evicted, EmptyStore
  <2>2. Lesser(room, m)
    BY <2>1, <1>5 DEF Lesser
  <2>3. Cardinality(room.contexts) < MaxContexts
    <3>1. /\ table.contexts \subseteq pageStore.contexts /\ IsFiniteSet(pageStore.contexts)
          /\ Cardinality(pageStore.contexts) <= MaxContexts
          /\ other \in table.contexts /\ room.contexts = table.contexts \ {other}
      BY <2>1, <1>5, <1>7 DEF Lesser, MemoryInv, MemoryTypeOK, TicketsApart
    <3>2. /\ IsFiniteSet(table.contexts)
          /\ Cardinality(table.contexts) <= Cardinality(pageStore.contexts)
      BY <3>1, FS_Subset
    <3>3. Cardinality(room.contexts) = Cardinality(table.contexts) - 1
      BY <3>1, <3>2, FS_RemoveElement
    <3>4. /\ Cardinality(pageStore.contexts) \in Nat /\ Cardinality(table.contexts) \in Nat
          /\ MaxContexts \in Nat
      BY <3>1, <3>2, FS_CardinalityType, MemoryAssumption
    <3> QED
      BY <3>1, <3>2, <3>3, <3>4
  <2> QED
    BY <2>1, <2>2, <2>3, <1>5
<1> QED
  BY <1>2, <1>4, <1>6, <1>7 DEF Room

\* Begin's table: less of the old one, with at most one flight more.
BeginsWith(r, m, room, entry) ==
    /\ m = read[r] /\ m \in Reading /\ m.at = "begin" /\ Lesser(room, m)
    /\ entry = NoRead \/ entry \in Reading
    /\ entry # NoRead => /\ entry.at = "fetch" /\ entry.lease = m.lease
                         /\ entry.ticket.serial = room.serial + 1
                         /\ entry.ticket.owner = m.ticket.owner
    /\ read' = [read EXCEPT ![r] = entry]
    /\ DOMAIN pageStore' = DOMAIN EmptyStore
    /\ pageStore'.epoch = room.epoch /\ pageStore'.gen = room.gen
    /\ pageStore'.owner = room.owner /\ pageStore'.documents = room.documents
    /\ pageStore'.serial \in Nat /\ pageStore'.serial >= pageStore.serial
    /\ entry # NoRead => entry.ticket.serial <= pageStore'.serial
    /\ pageStore'.contexts \subseteq Scopes /\ IsFiniteSet(pageStore'.contexts)
    /\ Cardinality(pageStore'.contexts) <= MaxContexts
    /\ room.contexts \subseteq pageStore'.contexts
    /\ room.flights \subseteq pageStore'.flights /\ pageStore'.flights \subseteq Flight
    /\ \A f \in pageStore'.flights \ room.flights :
         /\ f.scope \in pageStore'.contexts /\ entry # NoRead /\ FlightOf(f, entry.ticket)
         /\ \A g \in pageStore'.flights : g.scope = f.scope => g = f
    /\ UNCHANGED <<life, switch, signedIn, revision, given, memoryLeft>>
    /\ entry # NoRead =>
         \A d \in room.documents :
           d.scope = entry.ticket.scope => \A f \in room.flights : f.scope # d.scope

\* Nothing is left of the table that the new read could disturb.
LEMMA LessKeeps ==
    ASSUME MemoryInv, NEW r \in Readers, NEW m, NEW room, NEW entry, BeginsWith(r, m, room, entry)
    PROVE  MemoryInv'
<1>0. /\ m = read[r] /\ m \in Reading /\ m.at = "begin" /\ Lesser(room, m)
      /\ entry = NoRead \/ entry \in Reading
      /\ entry # NoRead => /\ entry.at = "fetch" /\ entry.lease = m.lease
                           /\ entry.ticket.serial = room.serial + 1
                           /\ entry.ticket.owner = m.ticket.owner
      /\ read' = [read EXCEPT ![r] = entry]
      /\ DOMAIN pageStore' = DOMAIN EmptyStore
      /\ pageStore'.epoch = room.epoch /\ pageStore'.gen = room.gen
      /\ pageStore'.owner = room.owner /\ pageStore'.documents = room.documents
      /\ pageStore'.serial \in Nat /\ pageStore'.serial >= pageStore.serial
      /\ entry # NoRead => entry.ticket.serial <= pageStore'.serial
      /\ pageStore'.contexts \subseteq Scopes /\ IsFiniteSet(pageStore'.contexts)
      /\ Cardinality(pageStore'.contexts) <= MaxContexts
      /\ room.contexts \subseteq pageStore'.contexts
      /\ room.flights \subseteq pageStore'.flights /\ pageStore'.flights \subseteq Flight
      /\ \A f \in pageStore'.flights \ room.flights :
           /\ f.scope \in pageStore'.contexts /\ entry # NoRead /\ FlightOf(f, entry.ticket)
           /\ \A g \in pageStore'.flights : g.scope = f.scope => g = f
      /\ UNCHANGED <<life, switch, signedIn, revision, given, memoryLeft>>
      /\ entry # NoRead =>
           \A d \in room.documents :
             d.scope = entry.ticket.scope => \A f \in room.flights : f.scope # d.scope
  BY DEF BeginsWith
<1> USE <1>0
<1>1. /\ Leased(m) /\ m # NoRead /\ TableTyped /\ pageStore.serial \in Nat
      /\ life.gen \in Nat /\ pageStore.gen \in Nat /\ pageStore.gen <= life.gen
  BY Typed DEF MemoryInv, LeasesFenced, Reading, NoRead, MemoryTypeOK
<1>2. /\ m.lease <= life.gen /\ m.lease \in Nat /\ m.ticket.owner # Nobody
      /\ m.ticket.owner \in Owners \cup {Nobody} /\ ~Underway(m)
  BY <1>1 DEF Leased, Reading, Ticket, Underway
<1>3. /\ room.serial = pageStore.serial /\ room.gen = m.lease /\ room.owner = m.ticket.owner
      /\ room.epoch \in Nat
      /\ room.documents \subseteq pageStore.documents /\ room.flights \subseteq pageStore.flights
      /\ \A x \in room.flights \cup room.documents :
           /\ x.scope \in room.contexts
           /\ room.epoch = pageStore.epoch /\ room.gen = pageStore.gen
           /\ room.owner = pageStore.owner
      /\ \A d \in room.documents, f \in pageStore.flights :
           f.scope = d.scope => f \in room.flights
  BY DEF Lesser
<1>4. Underway(entry) <=> entry # NoRead
  BY DEF Underway, NoRead
<1>5. TableTyped'
  <2>1. \A x, y \in pageStore'.documents : x.scope = y.scope => x = y
    BY <1>1, <1>3 DEF TableTyped
  <2>2. ASSUME NEW x \in pageStore'.flights, NEW y \in pageStore'.flights, x.scope = y.scope
        PROVE  x = y
    BY <2>2, <1>1, <1>3 DEF TableTyped
  <2>3. /\ pageStore'.documents \subseteq Document /\ pageStore'.gen \in Nat
        /\ pageStore'.epoch \in Nat /\ pageStore'.owner \in Owners \cup {Nobody}
    BY <1>1, <1>2, <1>3 DEF TableTyped
  <2> QED
    BY <2>1, <2>2, <2>3 DEF TableTyped
<1>6. ASSUME NEW f \in room.flights PROVE FlightKept(f)
  BY <1>3 DEF FlightKept
<1>7. /\ TicketsApart'
      /\ \A q \in Readers : q # r => Progress(read[q])'
  <2>1. \A x \in pageStore'.flights \cup pageStore'.documents : x.scope \in pageStore'.contexts
    BY <1>3
  <2>2. \A f \in pageStore'.flights :
          \/ FlightKept(f) /\ (Underway(m) => f.serial # m.ticket.serial)
          \/ Underway(entry) /\ FlightOf(f, entry.ticket)
    BY <1>2, <1>4, <1>6
  <2>3. Underway(entry) => entry.ticket.serial > pageStore.serial
    BY <1>1, <1>3, <1>4
  <2>4. Underway(entry) => entry.ticket.serial <= pageStore'.serial
    BY <1>4
  <2> QED
    BY <2>1, <2>2, <2>3, <2>4, <1>5, FlightsChange
<1>8. ASSUME NEW d \in room.documents
      PROVE  (\E f \in room.flights : f.scope = d.scope) \/ ~UpToDate' \/ Agrees(d)'
  <2>1. /\ d \in pageStore.documents /\ room.gen = pageStore.gen /\ room.owner = pageStore.owner
        /\ \A f \in pageStore.flights : f.scope = d.scope => f \in room.flights
    BY <1>3
  <2>2. (\E f \in pageStore.flights : f.scope = d.scope) \/ ~UpToDate \/ Agrees(d)
    BY <2>1 DEF MemoryInv, DocumentsAgree
  <2>3. (UpToDate' <=> UpToDate) /\ (Agrees(d)' <=> Agrees(d))
    BY <2>1 DEF UpToDate, Agrees
  <2> QED
    BY <2>1, <2>2, <2>3
<1>9. DocumentsAgree'
  <2>1. ASSUME NEW d \in pageStore'.documents
        PROVE  (\E f \in pageStore'.flights : f.scope = d.scope) \/ ~UpToDate' \/ Agrees(d)'
    <3>1. CASE \E f \in room.flights : f.scope = d.scope
      BY <3>1
    <3> QED
      BY <3>1, <1>8
  <2> QED
    BY <2>1 DEF DocumentsAgree, MemoryInv
<1>10. Progress(entry)'
  <2>1. CASE entry = NoRead
    BY <2>1, <1>4 DEF Progress, NoRead
  <2>2. CASE entry # NoRead
    <3>1. entry.at = "fetch" /\ entry.lease = pageStore'.gen
      BY <2>2, <1>3
    <3>2. ASSUME UpToDate', NEW d \in pageStore'.documents, d.scope = entry.ticket.scope
          PROVE  Agrees(d)'
      BY <2>2, <3>2, <1>8
    <3> QED
      BY <3>1, <3>2 DEF Progress, PageKept
  <2> QED
    BY <2>1, <2>2
<1>11. /\ given' \in [Scopes -> [rev : Nat, next : Nat, owner : Owners \cup {Nobody},
                                 bound : Owners \cup {Nobody}]]
       /\ pageStore'.gen <= life.gen
  BY <1>2, <1>3 DEF MemoryInv, MemoryTypeOK
<1>12. /\ m.at # "dispose" /\ entry.at # "dispose"
       /\ entry # NoRead =>
            entry.lease = m.lease /\ entry.ticket.owner # Nobody /\ entry.at # "ready"
  BY <1>2 DEF NoRead
<1> QED
  BY <1>5, <1>7, <1>9, <1>10, <1>11, <1>12, TableChanges
\* begin: the read ends, or goes on with a flight of its own.
LEMMA BeginKeeps ==
    ASSUME MemoryInv, NEW r \in Readers, Begin(r)
    PROVE  MemoryInv'
<1>1. PICK m : m = read[r]
  OBVIOUS
<1>2. m.at = "begin" /\ UNCHANGED <<life, switch, signedIn, revision, given, memoryLeft>>
  BY <1>1 DEF Begin
<1>3. /\ m \in Reading /\ Leased(m) /\ ~Underway(m) /\ TableTyped
      /\ memoryLeft' \in [MemoryEvents -> Nat]
  BY <1>1, <1>2, Typed DEF MemoryInv, MemoryTypeOK, LeasesFenced, Underway, NoRead
<1>4. PICK s \in Scopes : s = m.ticket.scope
  BY <1>3 DEF Reading, Ticket
<1>5. CASE Ends(r) /\ UNCHANGED pageStore
  <2>1. ~Underway(NoRead) /\ Progress(NoRead) /\ NoRead.at # "dispose"
    BY DEF Underway, Progress, NoRead
  <2> QED
    BY <2>1, <1>1, <1>2, <1>3, <1>5, TaskMoves DEF Ends
\* What any table smaller than the present one is like.
<1>6. ASSUME NEW room, Lesser(room, m)
      PROVE  /\ room.serial \in Nat /\ room.serial = pageStore.serial
             /\ room.contexts \subseteq Scopes /\ IsFiniteSet(room.contexts)
             /\ Cardinality(room.contexts) <= MaxContexts
             /\ Cardinality(room.contexts) \in Nat
             /\ room.flights \subseteq Flight /\ DOMAIN room = DOMAIN EmptyStore
             /\ \A d \in room.documents : d.scope \in room.contexts
  <2>1. /\ room.contexts \subseteq pageStore.contexts /\ IsFiniteSet(pageStore.contexts)
        /\ Cardinality(pageStore.contexts) <= MaxContexts /\ MaxContexts \in Nat
        /\ pageStore.contexts \subseteq Scopes
    BY <1>6, MemoryAssumption DEF Lesser, MemoryInv, MemoryTypeOK, TicketsApart
  <2>2. /\ IsFiniteSet(room.contexts)
        /\ Cardinality(room.contexts) <= Cardinality(pageStore.contexts)
    BY <2>1, FS_Subset
  <2>3. Cardinality(room.contexts) <= MaxContexts /\ Cardinality(room.contexts) \in Nat
    BY <2>1, <2>2, FS_CardinalityType
  <2>4. /\ room.serial \in Nat /\ room.serial = pageStore.serial
        /\ room.flights \subseteq Flight /\ DOMAIN room = DOMAIN EmptyStore
        /\ \A d \in room.documents : d.scope \in room.contexts
    BY <1>3, <1>6 DEF Lesser, TableTyped
  <2> QED
    BY <2>1, <2>2, <2>3, <2>4
<1>7. ASSUME NEW table \in Prepared(m), Ends(r), pageStore' = table
      PROVE  MemoryInv'
  <2>1. Lesser(table, m)
    BY <1>3, <1>7, PreparedLess
  <2>2. table.serial >= pageStore.serial /\ table.serial \in Nat
    BY <2>1, <1>6
  <2>3. table.contexts \subseteq Scopes /\ table.flights \subseteq Flight
    BY <2>1, <1>6
  <2> QED
    BY <2>1, <2>2, <2>3, <1>1, <1>2, <1>3, <1>6, <1>7, LessKeeps DEF Ends, BeginsWith
<1>8. ASSUME NEW room, Lesser(room, m), \A f \in room.flights : f.scope # s,
             s \in room.contexts \/ Cardinality(room.contexts) < MaxContexts,
             pageStore' = Begun(room, m),
             read' = [read EXCEPT ![r].at = "fetch", ![r].ticket.epoch = room.epoch,
                                  ![r].ticket.serial = room.serial + 1]
      PROVE  MemoryInv'
  <2>1. PICK serial \in Nat, next \in Nat, epoch \in Nat :
          serial = room.serial /\ next = serial + 1 /\ epoch = room.epoch
    BY <1>6, <1>8 DEF Lesser
  <2> PICK ticket : ticket = [m.ticket EXCEPT !.epoch = epoch, !.serial = next]
    OBVIOUS
  <2>2. /\ ticket \in Ticket /\ ticket.epoch = epoch /\ ticket.serial = next
        /\ ticket.scope = s /\ ticket.owner = m.ticket.owner
    <3>1. m.ticket \in Ticket
      BY <1>3 DEF Reading
    <3> QED
      BY <3>1, <1>4 DEF Ticket
  <2>3. PICK entry : entry = [m EXCEPT !.at = "fetch", !.ticket = ticket]
    OBVIOUS
  <2>4. /\ entry \in Reading /\ entry.at = "fetch" /\ entry.lease = m.lease
        /\ entry.ticket = ticket /\ entry # NoRead
    BY <2>2, <2>3, <1>3 DEF Reading, NoRead
  <2>5. read' = [read EXCEPT ![r] = entry]
    BY <2>1, <2>2, <2>3, <1>1, <1>3, <1>8 DEF Reading, Ticket
  <2>6. PICK new : new = [scope |-> s, serial |-> next, done |-> FALSE]
    OBVIOUS
  <2>7. new \in Flight /\ new.scope = s /\ new.serial = next
    BY <2>6 DEF Flight
  <2>8. /\ DOMAIN pageStore' = DOMAIN EmptyStore
        /\ pageStore'.epoch = room.epoch /\ pageStore'.gen = room.gen
        /\ pageStore'.owner = room.owner /\ pageStore'.documents = room.documents
        /\ pageStore'.serial = next /\ pageStore'.contexts = room.contexts \cup {s}
        /\ pageStore'.flights = room.flights \cup {new}
    BY <2>1, <2>6, <1>4, <1>6, <1>8 DEF Begun, EmptyStore
  <2>9. /\ IsFiniteSet(pageStore'.contexts) /\ Cardinality(pageStore'.contexts) <= MaxContexts
    <3>1. /\ IsFiniteSet(room.contexts) /\ Cardinality(room.contexts) <= MaxContexts
          /\ Cardinality(room.contexts) \in Nat
      BY <1>6, <1>8
    <3>2. CASE s \in room.contexts
      <4>1. room.contexts \cup {s} = room.contexts
        BY <3>2
      <4> QED
        BY <4>1, <3>1, <2>8
    <3>3. CASE s \notin room.contexts
      <4>1. /\ IsFiniteSet(room.contexts \cup {s})
            /\ Cardinality(room.contexts \cup {s}) = Cardinality(room.contexts) + 1
        BY <3>1, <3>3, FS_AddElement
      <4>2. Cardinality(room.contexts) < MaxContexts /\ MaxContexts \in Nat
        BY <3>3, <1>8, MemoryAssumption
      <4> QED
        BY <4>1, <4>2, <3>1, <2>8
    <3> QED
      BY <3>2, <3>3
  <2>10. room.owner = m.ticket.owner
    BY <1>8 DEF Lesser
  <2>11. ASSUME NEW f \in pageStore'.flights \ room.flights
         PROVE  /\ f.scope \in pageStore'.contexts /\ entry # NoRead /\ FlightOf(f, entry.ticket)
                /\ \A g \in pageStore'.flights : g.scope = f.scope => g = f
    <3>1. f = new
      BY <2>8
    <3>2. \A g \in pageStore'.flights : g.scope = s => g = new
      BY <2>8, <1>8
    <3> QED
      BY <3>1, <3>2, <2>1, <2>2, <2>4, <2>7, <2>8, <2>10 DEF FlightOf
  <2>12. /\ pageStore'.serial \in Nat /\ pageStore'.serial >= pageStore.serial
         /\ entry.ticket.serial = room.serial + 1 /\ entry.ticket.serial <= pageStore'.serial
         /\ entry.ticket.owner = m.ticket.owner /\ entry.ticket.scope = s
    <3>1. serial = pageStore.serial
      BY <2>1, <1>6, <1>8
    <3> QED
      BY <3>1, <2>1, <2>2, <2>4, <2>8
  <2>13. /\ pageStore'.contexts \subseteq Scopes /\ room.contexts \subseteq pageStore'.contexts
         /\ room.flights \subseteq pageStore'.flights /\ pageStore'.flights \subseteq Flight
         /\ \A d \in room.documents :
              d.scope = entry.ticket.scope => \A f \in room.flights : f.scope # d.scope
    BY <2>7, <2>8, <2>12, <1>6, <1>8
  <2>14. entry = NoRead \/ entry \in Reading
    BY <2>4
  <2>15. entry # NoRead => /\ entry.at = "fetch" /\ entry.lease = m.lease
                           /\ entry.ticket.serial = room.serial + 1
                           /\ entry.ticket.owner = m.ticket.owner
    BY <2>4, <2>12
  <2>16. entry # NoRead => entry.ticket.serial <= pageStore'.serial
    BY <2>12
  <2>17. entry # NoRead =>
           \A d \in room.documents :
             d.scope = entry.ticket.scope => \A f \in room.flights : f.scope # d.scope
    BY <2>13
  <2>18. \A f \in pageStore'.flights \ room.flights :
           /\ f.scope \in pageStore'.contexts /\ entry # NoRead /\ FlightOf(f, entry.ticket)
           /\ \A g \in pageStore'.flights : g.scope = f.scope => g = f
    BY <2>11
  <2>19. /\ DOMAIN pageStore' = DOMAIN EmptyStore
         /\ pageStore'.epoch = room.epoch /\ pageStore'.gen = room.gen
         /\ pageStore'.owner = room.owner /\ pageStore'.documents = room.documents
         /\ pageStore'.serial \in Nat /\ pageStore'.serial >= pageStore.serial
         /\ pageStore'.contexts \subseteq Scopes /\ room.contexts \subseteq pageStore'.contexts
         /\ room.flights \subseteq pageStore'.flights /\ pageStore'.flights \subseteq Flight
    BY <2>8, <2>12, <2>13
  <2>20. BeginsWith(r, m, room, entry)
    <3>1. /\ m = read[r] /\ m \in Reading /\ m.at = "begin" /\ Lesser(room, m)
          /\ UNCHANGED <<life, switch, signedIn, revision, given, memoryLeft>>
      BY <1>1, <1>2, <1>3, <1>8
    <3> QED
      BY <3>1, <2>5, <2>9, <2>14, <2>15, <2>16, <2>17, <2>18, <2>19 DEF BeginsWith
  <2> QED
    BY <2>20, LessKeeps
<1>9. ASSUME Current(m), NEW table \in Prepared(m),
             NEW room \in IF m.page = 0 THEN Room(table, s) ELSE {table},
             m.page = 0 \/ Continues(table, m), pageStore' = Begun(room, m),
             read' = [read EXCEPT ![r].at = "fetch", ![r].ticket.epoch = room.epoch,
                                  ![r].ticket.serial = room.serial + 1]
      PROVE  MemoryInv'
  <2>1. Lesser(table, m)
    BY <1>3, PreparedLess
  <2>2. CASE m.page = 0
    <3>1. /\ Lesser(room, m)
          /\ \A x \in room.flights \cup room.documents : x.scope # s
          /\ s \in room.contexts \/ Cardinality(room.contexts) < MaxContexts
      BY <2>1, <2>2, <1>3, <1>4, RoomLess
    <3> QED
      BY <3>1, <1>8, <1>9
  <2>3. CASE m.page # 0
    <3>1. room = table /\ Continues(table, m)
      BY <2>3, <1>9
    <3>2. (\A f \in room.flights : f.scope # s) /\ s \in room.contexts
      BY <3>1, <2>1, <1>4, <1>6 DEF Continues
    <3> QED
      BY <3>1, <3>2, <2>1, <1>8, <1>9
  <2> QED
    BY <2>2, <2>3
<1> QED
  BY <1>1, <1>4, <1>5, <1>7, <1>9 DEF Begin
-----------------------------------------------------------------------------
\* Only a read that hands its page over gives its chat anything.
LEMMA MemorySteps ==
    ASSUME MemoryInv, [MemoryNext]_memoryVars
    PROVE  /\ MemoryInv'
           /\ \A s \in Scopes : given'[s].next \notin {1, given[s].next} =>
                given[s] = [given'[s] EXCEPT !.next = @ - 1]
<1>1. CASE UNCHANGED memoryVars
  BY <1>1 DEF memoryVars, MemoryInv, MemoryTypeOK, LeasesFenced, Leased, Disposing,
       SwitchHolds,
              TicketsApart, Underway, Handled, Progress, Matches, UpToDate, Untouched, PageKept,
              Agrees, DocumentsAgree
<1>2. ASSUME NEW r \in Readers, NEW s \in Scopes, NEW p \in Pages, Capture(r, s, p)
      PROVE  MemoryInv' /\ given' = given
  BY <1>2, CaptureKeeps DEF Capture
<1>3. ASSUME NEW r \in Readers, read[r] # NoRead, CallerLeaves(r)
      PROVE  MemoryInv' /\ given' = given
  BY <1>3, LeaveKeeps DEF CallerLeaves
<1>4. ASSUME NEW r \in Readers, ReadStep(r)
      PROVE  /\ MemoryInv'
             /\ \A s \in Scopes : given'[s].next \notin {1, given[s].next} =>
                  given[s] = [given'[s] EXCEPT !.next = @ - 1]
  <2>1. CASE BindOwner(r)
    BY <2>1, BindOwnerKeeps DEF BindOwner
  <2>2. CASE Dispose(r)
    BY <2>2, DisposeKeeps DEF Dispose
  <2>3. CASE Begin(r)
    BY <2>3, BeginKeeps DEF Begin
  <2>4. CASE Fetch(r)
    BY <2>4, FetchKeeps DEF Fetch
  <2>5. CASE VerifyOwner(r)
    BY <2>5, VerifyKeeps DEF VerifyOwner
  <2>6. CASE InvalidateOwner(r)
    BY <2>6, InvalidateKeeps DEF InvalidateOwner
  <2>7. CASE Finish(r)
    BY <2>7, FinishKeeps DEF Finish
  <2>8. CASE Accept(r)
    BY <2>8, AcceptKeeps
  <2>9. CASE Cleanup(r)
    BY <2>9, CleanupKeeps DEF Cleanup
  <2> QED
    BY <1>4, <2>1, <2>2, <2>3, <2>4, <2>5, <2>6, <2>7, <2>8, <2>9 DEF ReadStep
<1>5. CASE SwitchBegins \/ DisposeBegins \/ DisposeEnds \/ SwitchEnds
  <2>1. given' = given
    BY <1>5 DEF SwitchBegins, DisposeBegins, DisposeEnds, SwitchEnds
  <2> QED
    BY <2>1, <1>5, SwitchKeeps
<1>6. CASE SignOut \/ SignIn \/ DocumentChanges
  <2>1. given' = given
    BY <1>6 DEF SignOut, SignIn, DocumentChanges
  <2> QED
    BY <2>1, <1>6, SignKeeps
<1>7. CASE MemoryNext
  BY <1>2, <1>3, <1>4, <1>5, <1>6, <1>7 DEF MemoryNext
<1>8. UNCHANGED memoryVars => given' = given
  BY DEF memoryVars
<1> QED
  BY <1>1, <1>7, <1>8

\* The claim of the property about every state.
LEMMA CursorsFollow == MemoryInv => CursorsAgree
BY DEF MemoryInv, DocumentsAgree, TicketsApart, Agrees, UpToDate, CursorsAgree

\* A chat is given the pages of a document in order, of one revision and under the owner
\* who is signed in, no cursor is left blocked by a read that has gone, and an idle
\* document is where its chat was told (begin, accept, release and abort of the read
\* state, under the lease and the owner fence).
THEOREM PagesOrdered == MemorySpec => []MemoryTypeOK /\ PagesInOrder
<1>1. MemoryInit => MemoryInv
  BY MemoryInits
<1>2. MemoryInv /\ [MemoryNext]_memoryVars => MemoryInv'
  BY MemorySteps
<1>3. MemoryInv /\ MemoryInv' /\ [MemoryNext]_memoryVars =>
        [/\ CursorsAgree'
         /\ \A s \in Scopes : given'[s].next \notin {1, given[s].next} =>
              given[s] = [given'[s] EXCEPT !.next = @ - 1]]_memoryVars
  <2>1. MemoryInv' => CursorsAgree'
    BY CursorsFollow, PTL
  <2> QED
    BY <2>1, MemorySteps
<1>4. MemoryInv => MemoryTypeOK
  BY DEF MemoryInv
<1> QED
  BY <1>1, <1>2, <1>3, <1>4, PTL DEF MemorySpec, PagesInOrder
-----------------------------------------------------------------------------
ViewSpec == ViewInit /\ [][ViewNext]_viewVars

LiveStates == {"active", "inactive", "resolved"}

\* A retired session has its deadline when none of its operations is open, and no session
\* two open ones.
DatedIn(table, v) ==
    table.views[v].status \in LiveStates =>
        (table.views[v].ends # Never <=>
           /\ table.views[v].status # "active"
           /\ \A o \in table.ops : o.view = v => o.status = "completed")

\* An operation is of a live session, which outlasts it, and of the update of its key.
HeldIn(table, tally, o) ==
    /\ table.views[o.view].status \in LiveStates
    /\ tally[o.key] >= 1 /\ request[o.key].kind = "update" /\ o.at <= clock
    /\ o.status = "completed" => o.ends = o.at + 1 /\ o.ends <= table.views[o.view].ends

\* An update that took effect has moved its session's revision on for good.
AppliedIn(table, tally, k) ==
    LET c == request[k]
    IN c.kind = "update" =>
         /\ table.views[c.view].status # "unused" /\ tally[k] <= 1
         /\ tally[k] >= 1 => \/ table.views[c.view].status = "gone"
                             \/ table.views[c.view].rev > c.rev

StoreOK(table, tally) ==
    /\ DOMAIN table = {"views", "ops", "receipts"}
    /\ table.views \in [Views -> Row] /\ table.ops \subseteq Operation
    /\ table.receipts \subseteq Receipt
    /\ \A o, p \in table.ops : o.key = p.key => o = p
    /\ \A o, p \in table.ops : /\ o.view = p.view
                               /\ o.status \in Unresolved /\ p.status \in Unresolved
                               => o = p
    /\ \A v \in Views : DatedIn(table, v)
    /\ \A o \in table.ops : HeldIn(table, tally, o)
    /\ \A k \in Keys : AppliedIn(table, tally, k)

ViewInv ==
    /\ clock \in 0..MaxClock /\ request \in [Keys -> Requests \cup {NoCall}]
    /\ took \in [Keys -> Nat] /\ \A k \in Keys : request[k] = NoCall => took[k] = 0
    /\ StoreOK(db, took)
-----------------------------------------------------------------------------
\* A window ends after now, and is not forever.
LEMMA Windows ==
    ASSUME clock \in 0..MaxClock
    PROVE  /\ clock \in Nat /\ InAWindow \in Nat /\ Never \in Nat
           /\ InAWindow = clock + 1 /\ InAWindow # Never /\ InAWindow < Never
BY ViewAssumption DEF InAWindow, Never

\* What is left of a store after a sweep was in it, and what is gone was over.
LEMMA SweepKeeps ==
    ASSUME ViewInv, NEW table, table = Swept(db)
    PROVE  /\ StoreOK(table, took)
           /\ \A o \in table.ops : o \in db.ops
           /\ \A o \in db.ops : o \in table.ops \/ (o.status = "completed" /\ o.at + 1 <= clock)
           /\ \A v \in Views : table.views[v] = db.views[v] \/ table.views[v] = Gone
<1> DEFINE over(v) == db.views[v].ends <= clock /\ Unsettled(db, v) = {}
<1>1. /\ table.views = [v \in Views |-> IF over(v) THEN Gone ELSE db.views[v]]
      /\ table.ops = {o \in db.ops : /\ ~over(o.view)
                                     /\ o.status = "completed" => o.ends > clock}
      /\ table.receipts = {r \in db.receipts : r.ends > clock}
      /\ DOMAIN table = {"views", "ops", "receipts"}
  BY DEF Swept
<1>2. StoreOK(db, took) /\ clock \in 0..MaxClock
  BY DEF ViewInv
<1>3. Gone \in Row /\ Gone.status = "gone" /\ Gone.ends = Never
  BY <1>2, Windows DEF Gone, Unused, Row
<1>4. \A v \in Views : over(v) => \A o \in db.ops : o.view = v => o.status = "completed"
  BY <1>2 DEF Unsettled, StoreOK, Operation, Unresolved
<1>5. ASSUME NEW o \in db.ops
      PROVE  /\ o.view \in Views /\ o.at \in Nat /\ o.ends \in Nat /\ clock \in Nat
             /\ HeldIn(db, took, o) /\ db.views[o.view].ends \in Nat
  BY <1>2 DEF StoreOK, Operation, Row
<1>6. ASSUME NEW o \in db.ops, o \notin table.ops
      PROVE  o.status = "completed" /\ o.at + 1 <= clock
  <2>1. CASE over(o.view)
    BY <2>1, <1>4, <1>5 DEF HeldIn
  <2>2. CASE o.status = "completed" /\ ~(o.ends > clock)
    BY <2>2, <1>5 DEF HeldIn
  <2> HIDE DEF over
  <2> QED
    BY <2>1, <2>2, <1>1, <1>6
<1> HIDE DEF over
<1>7. /\ \A o \in table.ops : o \in db.ops /\ ~over(o.view)
      /\ \A v \in Views : table.views[v] = IF over(v) THEN Gone ELSE db.views[v]
      /\ \A o \in db.ops : o.status # "completed" => o \in table.ops
      /\ \A r \in table.receipts : r \in db.receipts
  BY <1>1, <1>6
<1>8. ASSUME NEW v \in Views PROVE DatedIn(table, v)
  <2>1. CASE over(v)
    BY <2>1, <1>3, <1>7 DEF DatedIn, LiveStates
  <2>2. CASE ~over(v)
    <3>1. DatedIn(db, v) /\ table.views[v] = db.views[v]
      BY <2>2, <1>2, <1>7 DEF StoreOK
    <3>2. (\A o \in table.ops : o.view = v => o.status = "completed")
            <=> (\A o \in db.ops : o.view = v => o.status = "completed")
      BY <1>7
    <3> QED
      BY <3>1, <3>2 DEF DatedIn
  <2> QED
    BY <2>1, <2>2
<1>9. ASSUME NEW o \in table.ops PROVE HeldIn(table, took, o)
  <2>1. o \in db.ops /\ table.views[o.view] = db.views[o.view]
    BY <1>5, <1>7
  <2> QED
    BY <2>1, <1>5 DEF HeldIn
<1>10. ASSUME NEW k \in Keys PROVE AppliedIn(table, took, k)
  <2>1. AppliedIn(db, took, k)
    BY <1>2 DEF StoreOK
  <2>2. request[k].kind = "update" => request[k].view \in Views
    BY DEF ViewInv, Requests, NoCall
  <2>3. request[k].kind = "update" =>
          table.views[request[k].view] \in {Gone, db.views[request[k].view]}
    BY <2>2, <1>7
  <2> QED
    BY <2>1, <2>3, <1>3 DEF AppliedIn
<1>11. StoreOK(table, took)
  <2>1. table.views \in [Views -> Row]
    <3>1. \A v \in Views : table.views[v] \in Row
      BY <1>2, <1>3, <1>7 DEF StoreOK
    <3>2. DOMAIN table.views = Views /\ table.views = [v \in DOMAIN table.views |-> table.views[v]]
      BY <1>1
    <3> QED
      BY <3>1, <3>2
  <2>2. /\ table.ops \subseteq Operation /\ table.receipts \subseteq Receipt
        /\ \A o, p \in table.ops : o.key = p.key => o = p
        /\ \A o, p \in table.ops : /\ o.view = p.view
                                   /\ o.status \in Unresolved /\ p.status \in Unresolved
                                   => o = p
    BY <1>2, <1>7 DEF StoreOK
  <2> QED
    BY <2>1, <2>2, <1>1, <1>8, <1>9, <1>10 DEF StoreOK
<1> QED
  BY <1>6, <1>7, <1>11
-----------------------------------------------------------------------------
Tally(k) == [took EXCEPT ![k] = @ + 1]

\* Another row for one session, and other operations of that session only.
Changes(table, next, v, row) ==
    /\ DOMAIN next = {"views", "ops", "receipts"}
    /\ next.views = [table.views EXCEPT ![v] = row] /\ row \in Row
    /\ next.receipts = table.receipts /\ next.ops \subseteq Operation
    /\ \A o, p \in next.ops : o.key = p.key => o = p
    /\ \A o, p \in next.ops : /\ o.view = v /\ p.view = v
                              /\ o.status \in Unresolved /\ p.status \in Unresolved
                              => o = p
    /\ \A o \in next.ops : o.view # v => o \in table.ops
    /\ \A o \in table.ops : o.view # v => o \in next.ops

\* What holds of the other sessions still does, once the call's effect is counted and its
\* receipt kept.
LEMMA ChangesKept ==
    ASSUME ViewInv, NEW k \in Keys, NEW table, StoreOK(table, took),
           NEW next, NEW v \in Views, NEW row, Changes(table, next, v, row),
           DatedIn(next, v), \A o \in next.ops : o.view = v => HeldIn(next, Tally(k), o),
           \A j \in Keys : request[j].kind = "update" =>
             request[j].view = v \/ (j # k /\ request[j].view \in Views),
           \A j \in Keys : request[j].kind = "update" /\ request[j].view = v =>
             AppliedIn(next, Tally(k), j)
    PROVE  StoreOK(Keep(next, k), Tally(k))
<1>1. PICK tally : tally = Tally(k)
  OBVIOUS
<1>2. /\ tally \in [Keys -> Nat] /\ \A j \in Keys : tally[j] >= took[j]
      /\ \A j \in Keys : j # k => tally[j] = took[j]
  BY <1>1 DEF Tally, ViewInv
<1>3. /\ DOMAIN next = {"views", "ops", "receipts"} /\ row \in Row
      /\ next.views \in [Views -> Row] /\ next.views[v] = row
      /\ \A w \in Views : w # v => next.views[w] = table.views[w]
      /\ next.receipts = table.receipts /\ next.ops \subseteq Operation
      /\ \A o, p \in next.ops : o.key = p.key => o = p
      /\ \A o \in next.ops : o.view # v => o \in table.ops
      /\ \A o \in table.ops : o.view # v => o \in next.ops
  BY DEF Changes, StoreOK
<1>4. PICK after : after = Keep(next, k)
  OBVIOUS
<1>5. /\ DOMAIN after = {"views", "ops", "receipts"} /\ after.views = next.views
      /\ after.ops = next.ops
      /\ after.receipts = next.receipts \cup {[key |-> k, ends |-> InAWindow]}
  BY <1>3, <1>4 DEF Keep
<1>6. after.receipts \subseteq Receipt
  <2>1. InAWindow \in Nat
    BY Windows DEF ViewInv
  <2> QED
    BY <2>1, <1>3, <1>5 DEF StoreOK, Receipt
<1>7. ASSUME NEW w \in Views PROVE DatedIn(after, w)
  <2>1. CASE w = v
    BY <2>1, <1>5 DEF DatedIn
  <2>2. CASE w # v
    <3>1. DatedIn(table, w) /\ after.views[w] = table.views[w]
      BY <2>2, <1>3, <1>5 DEF StoreOK
    <3>2. (\A o \in after.ops : o.view = w => o.status = "completed")
            <=> (\A o \in table.ops : o.view = w => o.status = "completed")
      BY <2>2, <1>3, <1>5
    <3> QED
      BY <3>1, <3>2 DEF DatedIn
  <2> QED
    BY <2>1, <2>2
<1>8. ASSUME NEW o \in after.ops PROVE HeldIn(after, tally, o)
  <2>1. CASE o.view = v
    BY <2>1, <1>1, <1>5 DEF HeldIn
  <2>2. CASE o.view # v
    <3>1. /\ o \in table.ops /\ HeldIn(table, took, o) /\ o.view \in Views /\ o.key \in Keys
      BY <2>2, <1>3, <1>5 DEF StoreOK, Operation
    <3>2. after.views[o.view] = table.views[o.view]
      BY <2>2, <3>1, <1>3, <1>5
    <3>3. tally[o.key] >= 1
      <4>1. PICK i \in Nat, n \in Nat : i = tally[o.key] /\ n = took[o.key]
        BY <3>1, <1>2 DEF ViewInv
      <4> QED
        BY <4>1, <3>1, <1>2 DEF HeldIn
    <3> QED
      BY <3>1, <3>2, <3>3 DEF HeldIn
  <2> QED
    BY <2>1, <2>2
<1>9. ASSUME NEW j \in Keys PROVE AppliedIn(after, tally, j)
  <2>1. CASE request[j].kind = "update" /\ request[j].view = v
    BY <2>1, <1>1, <1>5 DEF AppliedIn
  <2>2. CASE request[j].kind = "update" /\ request[j].view # v
    <3>1. AppliedIn(table, took, j) /\ tally[j] = took[j] /\ request[j].view \in Views
      BY <2>2, <1>2 DEF StoreOK
    <3> QED
      BY <2>2, <3>1, <1>3, <1>5 DEF AppliedIn
  <2> QED
    BY <2>1, <2>2 DEF AppliedIn
<1>10. ASSUME NEW o \in after.ops, NEW p \in after.ops, o.view = p.view,
              o.status \in Unresolved, p.status \in Unresolved
       PROVE  o = p
  <2>1. CASE o.view = v
    BY <2>1, <1>5, <1>10 DEF Changes
  <2>2. CASE o.view # v
    BY <2>2, <1>3, <1>5, <1>10 DEF StoreOK
  <2> QED
    BY <2>1, <2>2
<1>11. /\ after.views \in [Views -> Row] /\ after.ops \subseteq Operation
       /\ \A o, p \in after.ops : o.key = p.key => o = p
  BY <1>3, <1>5
<1> QED
  BY <1>1, <1>4, <1>5, <1>6, <1>7, <1>8, <1>9, <1>10, <1>11 DEF StoreOK

\* A session is created where none was.
LEMMA CreatedKept ==
    ASSUME ViewInv, NEW k \in Keys, NEW table, StoreOK(table, took), request[k].kind # "update",
           NEW v \in Views, table.views[v] = Unused
    PROVE  StoreOK(Keep(Created(table, v), k), Tally(k))
<1>1. PICK next, row : /\ next = Created(table, v)
                       /\ row = [rev |-> 0, status |-> "active", ends |-> Never]
  OBVIOUS
<1>2. /\ DOMAIN next = {"views", "ops", "receipts"}
      /\ next.views = [table.views EXCEPT ![v] = row]
      /\ next.ops = table.ops /\ next.receipts = table.receipts
  BY <1>1 DEF Created, StoreOK
<1>3. row \in Row /\ row.status = "active" /\ row.ends = Never
  BY <1>1, Windows DEF Row, ViewInv
<1>4. Unused.status = "unused"
  BY DEF Unused
<1>5. \A o \in table.ops : o.view # v
  BY <1>4 DEF StoreOK, HeldIn, LiveStates
<1>6. Changes(table, next, v, row)
  BY <1>2, <1>3, <1>5 DEF Changes, StoreOK
<1>7. DatedIn(next, v)
  BY <1>2, <1>3 DEF DatedIn, StoreOK
<1>8. \A j \in Keys : request[j].kind = "update" =>
        request[j].view # v /\ j # k /\ request[j].view \in Views
  <2>1. \A j \in Keys : request[j].kind = "update" => request[j].view \in Views
    BY DEF ViewInv, Requests, NoCall
  <2> QED
    BY <2>1, <1>4 DEF StoreOK, AppliedIn
<1> QED
  BY <1>1, <1>2, <1>5, <1>6, <1>7, <1>8, ChangesKept

\* What the calls ask for.
LEMMA Asked ==
    ASSUME ViewInv, NEW k \in Keys
    PROVE  /\ request[k].kind = "update" =>
                /\ request[k].view \in Views /\ request[k].rev \in Nat
                /\ request[k].status \in {"active", "inactive"}
                /\ request[k].operation \in BOOLEAN
           /\ request[k].kind = "delete" =>
                /\ request[k].view \in Views
                /\ request[k] = [kind |-> "delete", view |-> request[k].view]
           /\ request[k].kind = "settle" =>
                request[k].op \in Keys /\ request[k].status \in {"completed", "ambiguous"}
           /\ request[k].kind = "maintain" => request[k].view \in Views
<1>1. PICK c : c = request[k] /\ c \in Requests \cup {NoCall}
  BY DEF ViewInv
<1>2. CASE c = NoCall
  BY <1>1, <1>2 DEF NoCall
<1>3. CASE c \in {[kind |-> "create"]}
  BY <1>1, <1>3
<1>4. CASE c \in [kind : {"update"}, view : Views, rev : 0..(2 * MaxCalls),
                  status : {"active", "inactive"}, operation : BOOLEAN]
  BY <1>1, <1>4, ViewAssumption
<1>5. CASE c \in [kind : {"delete"}, view : Views]
  BY <1>1, <1>5
<1>6. CASE c \in [kind : {"settle"}, view : Views, op : Keys, status : {"completed", "ambiguous"}]
  BY <1>1, <1>6
<1>7. CASE c \in [kind : {"maintain"}, view : Views, op : Keys,
                  status : Unresolved \cup {"completed"}, rev : 0..(2 * MaxCalls)]
  BY <1>1, <1>7
<1> QED
  BY <1>1, <1>2, <1>3, <1>4, <1>5, <1>6, <1>7 DEF Requests

\* An update takes effect at its revision only, so only once; it opens an operation only
\* where none is open.
LEMMA UpdatedKept ==
    ASSUME ViewInv, NEW k \in Keys, NEW table, StoreOK(table, took), request[k].kind = "update",
           UpdateAllowed(table, request[k])
    PROVE  StoreOK(Keep(Updated(table, k), k), Tally(k))
<1>0. PICK c : c = request[k]
  OBVIOUS
<1>1. PICK v \in Views : c = request[k] /\ v = c.view
  BY <1>0, Asked
<1>2. /\ c.kind = "update" /\ c.rev \in Nat /\ c.status \in {"active", "inactive"}
      /\ c.operation \in BOOLEAN
  BY <1>1, Asked
<1>3. PICK ends : ends = IF c.status = "active" THEN Never ELSE InAWindow
  OBVIOUS
<1>4. /\ ends \in Nat /\ InAWindow \in Nat /\ Never \in Nat /\ InAWindow # Never
      /\ InAWindow = clock + 1 /\ InAWindow < Never /\ clock \in Nat
  BY <1>3, Windows DEF ViewInv
<1>5. PICK old \in Row : old = table.views[v]
  BY DEF StoreOK
<1>6. PICK row : row = [rev |-> old.rev + 1, status |-> c.status, ends |-> ends]
  OBVIOUS
<1>7. /\ row \in Row /\ row.rev = old.rev + 1 /\ row.status = c.status /\ row.ends = ends
      /\ old.rev = c.rev /\ old.status \notin {"unused", "gone"}
      /\ row.status \in LiveStates
  BY <1>1, <1>2, <1>4, <1>5, <1>6 DEF Row, UpdateAllowed, LiveStates
<1>8. PICK new : new = [key |-> k, view |-> v, status |-> "pending", at |-> clock, ends |-> Never]
  OBVIOUS
<1>9. /\ new \in Operation /\ new.key = k /\ new.view = v /\ new.status = "pending"
      /\ new.at = clock
  BY <1>4, <1>8 DEF Operation, Unresolved
<1>10. PICK next : next = Updated(table, k)
  OBVIOUS
<1>11. /\ DOMAIN next = {"views", "ops", "receipts"}
       /\ next.views = [table.views EXCEPT ![v] = row]
       /\ next.ops = table.ops \cup (IF c.operation THEN {new} ELSE {})
       /\ next.receipts = table.receipts
  BY <1>1, <1>3, <1>5, <1>6, <1>8, <1>10 DEF Updated, StoreOK
\* It has not taken effect before.
<1>12. took[k] = 0
  <2>1. AppliedIn(table, took, k)
    BY DEF StoreOK
  <2>2. took[k] \in Nat /\ ~(old.rev > c.rev)
    BY <1>2, <1>7 DEF ViewInv
  <2> QED
    BY <2>1, <2>2, <1>1, <1>2, <1>5, <1>7 DEF AppliedIn
<1>13. /\ \A o \in table.ops : o.key # k
       /\ c.operation \/ c.status # "active" =>
            \A o \in table.ops : o.view = v => o.status = "completed"
       /\ c.operation => c.status = "active"
  <2>1. \A o \in table.ops : took[o.key] >= 1
    BY DEF StoreOK, HeldIn
  <2>2. c.operation \/ c.status # "active" =>
          \A o \in table.ops : o.view = v => o.status = "completed"
    BY <1>1, <1>2 DEF UpdateAllowed, Unsettled, StoreOK, Operation, Unresolved
  <2>3. c.operation => c.status = "active"
    BY <1>1 DEF UpdateAllowed
  <2> QED
    BY <2>1, <2>2, <2>3, <1>12
<1>14. PICK tally : tally = Tally(k)
  OBVIOUS
<1>15. /\ tally \in [Keys -> Nat] /\ tally[k] = 1 /\ \A j \in Keys : j # k => tally[j] = took[j]
  BY <1>12, <1>14 DEF Tally, ViewInv
<1>16. Changes(table, next, v, row)
  <2>1. /\ next.ops \subseteq Operation
        /\ \A o, p \in next.ops : o.key = p.key => o = p
    BY <1>9, <1>11, <1>13 DEF StoreOK
  <2>2. ASSUME NEW o \in next.ops, NEW p \in next.ops, o.view = v, p.view = v,
               o.status \in Unresolved, p.status \in Unresolved
        PROVE  o = p
    <3>1. CASE c.operation
      <4>1. \A q \in table.ops : q.view = v => q.status \notin Unresolved
        BY <3>1, <1>13 DEF Unresolved
      <4> QED
        BY <4>1, <2>2, <1>11
    <3>2. CASE ~c.operation
      BY <3>2, <2>2, <1>11 DEF StoreOK
    <3> QED
      BY <3>1, <3>2
  <2>3. /\ \A o \in next.ops : o.view # v => o \in table.ops
        /\ \A o \in table.ops : o.view # v => o \in next.ops
    BY <1>9, <1>11
  <2> QED
    BY <2>1, <2>2, <2>3, <1>7, <1>11 DEF Changes
<1>17. next.views[v] = row
  BY <1>11 DEF StoreOK
<1>18. DatedIn(next, v)
  <2>1. CASE c.status = "active"
    BY <2>1, <1>3, <1>7, <1>17 DEF DatedIn
  <2>2. CASE c.status # "active"
    BY <2>2, <1>2, <1>3, <1>4, <1>7, <1>11, <1>13, <1>17 DEF DatedIn
  <2> QED
    BY <2>1, <2>2
<1>19. ASSUME NEW o \in next.ops, o.view = v PROVE HeldIn(next, tally, o)
  <2>1. CASE o = new
    BY <2>1, <1>1, <1>2, <1>4, <1>7, <1>9, <1>15, <1>17 DEF HeldIn
  <2>2. CASE o \in table.ops
    <3>1. HeldIn(table, took, o) /\ o.key \in Keys /\ o.key # k /\ o.at \in Nat /\ o.ends \in Nat
      BY <2>2, <1>13 DEF StoreOK, Operation
    <3>2. tally[o.key] = took[o.key]
      BY <3>1, <1>15
    <3>3. o.status = "completed" => o.ends <= ends
      BY <3>1, <1>3, <1>4 DEF HeldIn
    <3> QED
      BY <3>1, <3>2, <3>3, <1>7, <1>17, <1>19 DEF HeldIn
  <2> QED
    BY <2>1, <2>2, <1>11, <1>19
<1>20. ASSUME NEW j \in Keys, request[j].kind = "update", request[j].view = v
       PROVE  AppliedIn(next, tally, j)
  <2>1. row.status # "unused"
    BY <1>2, <1>7
  <2>2. CASE j = k
    <3>1. tally[j] <= 1 /\ row.rev > request[j].rev
      BY <2>2, <1>1, <1>2, <1>7, <1>15
    <3> QED
      BY <2>1, <3>1, <1>17, <1>20 DEF AppliedIn
  <2>3. CASE j # k
    <3>1. AppliedIn(table, took, j) /\ request[j].rev \in Nat /\ tally[j] = took[j]
      BY <2>3, <1>15, <1>20, Asked DEF StoreOK
    <3>2. took[j] >= 1 => old.rev > request[j].rev
      BY <3>1, <1>5, <1>7, <1>20 DEF AppliedIn
    <3>3. old.rev > request[j].rev => row.rev > request[j].rev
      BY <3>1, <1>2, <1>7
    <3> QED
      BY <2>1, <3>1, <3>2, <3>3, <1>17, <1>20 DEF AppliedIn
  <2> QED
    BY <2>2, <2>3
<1>21. \A j \in Keys : request[j].kind = "update" =>
         request[j].view = v \/ (j # k /\ request[j].view \in Views)
  BY <1>1, Asked
<1> QED
  BY <1>10, <1>14, <1>16, <1>18, <1>19, <1>20, <1>21, ChangesKept

\* Only a session without an open operation is deleted, and its operations with it.
LEMMA DeletedKept ==
    ASSUME ViewInv, NEW k \in Keys, NEW table, StoreOK(table, took), request[k].kind = "delete",
           NEW v \in Views
    PROVE  StoreOK(Keep(Deleted(table, v), k), Tally(k))
<1>1. PICK next : next = Deleted(table, v)
  OBVIOUS
<1>2. /\ DOMAIN next = {"views", "ops", "receipts"}
      /\ next.views = [table.views EXCEPT ![v] = Gone]
      /\ next.ops = {o \in table.ops : o.view # v} /\ next.receipts = table.receipts
  BY <1>1 DEF Deleted, StoreOK
<1>3. Gone \in Row /\ Gone.status = "gone"
  BY Windows DEF Gone, Unused, Row, ViewInv
<1>4. Changes(table, next, v, Gone)
  BY <1>2, <1>3 DEF Changes, StoreOK
<1>5. next.views[v] = Gone
  BY <1>2 DEF StoreOK
<1>6. DatedIn(next, v)
  BY <1>3, <1>5 DEF DatedIn, LiveStates
<1>7. \A j \in Keys : request[j].kind = "update" => j # k /\ request[j].view \in Views
  BY Asked
<1>8. ASSUME NEW j \in Keys, request[j].kind = "update", request[j].view = v
      PROVE  AppliedIn(next, Tally(k), j)
  <2>1. AppliedIn(table, took, j) /\ Tally(k)[j] = took[j]
    BY <1>7, <1>8 DEF StoreOK, Tally, ViewInv
  <2> QED
    BY <2>1, <1>3, <1>5, <1>8 DEF AppliedIn
<1> QED
  BY <1>1, <1>2, <1>4, <1>6, <1>7, <1>8, ChangesKept

\* Settling leaves the operation where it is; with the last open one, a retired session
\* gets its deadline.
LEMMA SettledKept ==
    ASSUME ViewInv, NEW k \in Keys, NEW table, StoreOK(table, took), request[k].kind # "update",
           NEW o \in table.ops, o.status \in Unresolved, NEW status \in {"completed", "ambiguous"}
    PROVE  /\ StoreOK(Keep(Settled(table, o, status), k), Tally(k))
           /\ \A x \in table.ops : \E p \in Settled(table, o, status).ops : p.key = x.key
<1>1. PICK v \in Views : v = o.view
  BY DEF StoreOK, Operation
<1>2. PICK old \in Row : old = table.views[v]
  BY DEF StoreOK
<1>3. /\ HeldIn(table, took, o) /\ old.status \in LiveStates
      /\ o.key \in Keys /\ o \in Operation
  BY <1>1, <1>2 DEF StoreOK, HeldIn, Operation
<1>4. PICK ends : ends = IF status = "completed" /\ old.status \in {"inactive", "resolved"}
                         THEN InAWindow ELSE Never
  OBVIOUS
<1>5. PICK until : until = IF status = "completed" THEN InAWindow ELSE Never
  OBVIOUS
<1>6. /\ ends \in Nat /\ until \in Nat /\ InAWindow \in Nat /\ Never \in Nat
      /\ InAWindow # Never /\ InAWindow = clock + 1 /\ InAWindow < Never /\ clock \in Nat
  BY <1>4, <1>5, Windows DEF ViewInv
<1>7. PICK row : row = [old EXCEPT !.ends = ends]
  OBVIOUS
<1>8. row \in Row /\ row.rev = old.rev /\ row.status = old.status /\ row.ends = ends
  BY <1>6, <1>7 DEF Row
<1>9. PICK new : new = [o EXCEPT !.status = status, !.at = clock, !.ends = until]
  OBVIOUS
<1>10. /\ new \in Operation /\ new.key = o.key /\ new.view = v /\ new.status = status
       /\ new.at = clock /\ new.ends = until
  BY <1>1, <1>3, <1>6, <1>9 DEF Operation, Unresolved
<1>11. PICK next : next = Settled(table, o, status)
  OBVIOUS
<1>12. /\ DOMAIN next = {"views", "ops", "receipts"}
       /\ next.ops = (table.ops \ {o}) \cup {new} /\ next.receipts = table.receipts
       /\ next.views = [table.views EXCEPT ![v] = row]
  BY <1>1, <1>2, <1>4, <1>5, <1>7, <1>9, <1>11 DEF Settled, StoreOK
<1>13. next.views[v] = row
  BY <1>12 DEF StoreOK
<1>14. \A p \in table.ops : p # o => p.key # o.key /\ p.key \in Keys
  BY DEF StoreOK, Operation
<1>15. \A p \in table.ops : p # o /\ p.view = v => p.status = "completed"
  BY <1>1 DEF StoreOK, Operation, Unresolved
<1>16. Changes(table, next, v, row)
  <2>1. /\ next.ops \subseteq Operation
        /\ \A p, q \in next.ops : p.key = q.key => p = q
    BY <1>10, <1>12, <1>14 DEF StoreOK
  <2>2. \A p, q \in next.ops : /\ p.view = v /\ q.view = v
                               /\ p.status \in Unresolved /\ q.status \in Unresolved
                               => p = q
    BY <1>12, <1>15 DEF Unresolved
  <2>3. /\ \A p \in next.ops : p.view # v => p \in table.ops
        /\ \A p \in table.ops : p.view # v => p \in next.ops
    BY <1>1, <1>10, <1>12
  <2> QED
    BY <2>1, <2>2, <2>3, <1>8, <1>12 DEF Changes
<1>17. DatedIn(next, v)
  <2>1. CASE status = "completed"
    <3>1. \A p \in next.ops : p.view = v => p.status = "completed"
      BY <2>1, <1>10, <1>12, <1>15
    <3>2. old.status # "active" <=> old.status \in {"inactive", "resolved"}
      BY <1>3 DEF LiveStates
    <3> QED
      BY <2>1, <3>1, <3>2, <1>4, <1>6, <1>8, <1>13 DEF DatedIn
  <2>2. CASE status = "ambiguous"
    <3>1. new \in next.ops /\ new.view = v /\ new.status # "completed"
      BY <2>2, <1>10, <1>12
    <3> QED
      BY <2>2, <3>1, <1>4, <1>8, <1>13 DEF DatedIn
  <2> QED
    BY <2>1, <2>2
<1>18. PICK tally : tally = Tally(k)
  OBVIOUS
<1>19. /\ tally \in [Keys -> Nat] /\ took \in [Keys -> Nat]
       /\ \A j \in Keys : tally[j] >= took[j] /\ (j # k => tally[j] = took[j])
  BY <1>18 DEF Tally, ViewInv
<1>20. ASSUME NEW p \in next.ops, p.view = v PROVE HeldIn(next, tally, p)
  <2>1. PICK x \in table.ops : x.key = p.key /\ x.view = v /\ (p = new \/ x = p)
    BY <1>1, <1>10, <1>12, <1>20
  <2>2. HeldIn(table, took, x) /\ x.key \in Keys /\ x.at \in Nat /\ x.ends \in Nat
    BY <2>1 DEF StoreOK, Operation
  <2>3. tally[p.key] >= 1 /\ request[p.key].kind = "update"
    <3>1. PICK i \in Nat, n \in Nat : i = tally[p.key] /\ n = took[p.key]
      BY <2>1, <2>2, <1>19
    <3> QED
      BY <3>1, <2>1, <2>2, <1>19 DEF HeldIn
  <2>4. p.at <= clock /\ (p.status = "completed" => p.ends = p.at + 1 /\ p.ends <= ends)
    <3>1. CASE p = new
      BY <3>1, <1>4, <1>5, <1>6, <1>10
    <3>2. CASE p = x
      BY <3>2, <2>1, <2>2, <1>4, <1>6 DEF HeldIn
    <3> QED
      BY <2>1, <3>1, <3>2
  <2> QED
    BY <2>3, <2>4, <1>3, <1>8, <1>13, <1>20 DEF HeldIn
<1>21. ASSUME NEW j \in Keys, request[j].kind = "update", request[j].view = v
       PROVE  AppliedIn(next, tally, j)
  <2>1. AppliedIn(table, took, j) /\ tally[j] = took[j]
    BY <1>19, <1>21 DEF StoreOK
  <2> QED
    BY <2>1, <1>2, <1>8, <1>13, <1>21 DEF AppliedIn
<1>22. \A j \in Keys : request[j].kind = "update" => j # k /\ request[j].view \in Views
  BY Asked
<1>23. \A x \in table.ops : \E p \in next.ops : p.key = x.key
  BY <1>10, <1>12
<1> QED
  BY <1>11, <1>16, <1>17, <1>18, <1>20, <1>21, <1>22, <1>23, ChangesKept

\* A completed operation is left alone by its maintenance.
LEMMA ProofKept ==
    ASSUME ViewInv, NEW k \in Keys, request[k].kind # "update", NEW v \in Views
    PROVE  StoreOK(Keep(db, k), Tally(k))
<1>1. PICK row : row = db.views[v]
  OBVIOUS
<1>2. StoreOK(db, took)
  BY DEF ViewInv
<1>3. Changes(db, db, v, row)
  BY <1>1, <1>2 DEF Changes, StoreOK
<1>4. PICK tally : tally = Tally(k)
  OBVIOUS
<1>5. /\ tally \in [Keys -> Nat] /\ took \in [Keys -> Nat]
      /\ \A j \in Keys : tally[j] >= took[j] /\ (j # k => tally[j] = took[j])
  BY <1>4 DEF Tally, ViewInv
<1>6. ASSUME NEW o \in db.ops PROVE HeldIn(db, tally, o)
  <2>1. HeldIn(db, took, o) /\ o.key \in Keys
    BY <1>2 DEF StoreOK, Operation
  <2>2. PICK i \in Nat, n \in Nat : i = tally[o.key] /\ n = took[o.key]
    BY <2>1, <1>5
  <2> QED
    BY <2>1, <2>2, <1>5 DEF HeldIn
<1>7. \A j \in Keys : request[j].kind = "update" => j # k /\ request[j].view \in Views
  BY Asked
<1>8. ASSUME NEW j \in Keys, request[j].kind = "update", request[j].view = v
      PROVE  AppliedIn(db, tally, j)
  BY <1>2, <1>5, <1>7, <1>8 DEF StoreOK, AppliedIn
<1>9. DatedIn(db, v)
  BY <1>2 DEF StoreOK
<1> QED
  BY <1>2, <1>3, <1>4, <1>6, <1>7, <1>8, <1>9, ChangesKept
-----------------------------------------------------------------------------
\* A method keeps the invariant if its effect does, and loses no more operations than the
\* sweep before it and its own effect.
LEMMA MethodKept ==
    ASSUME ViewInv, NEW k \in Keys, NEW table, StoreOK(table, took), NEW granted, NEW next,
           granted => StoreOK(Keep(next, k), Tally(k)),
           TakesEffect(k, table, granted, next), request[k].kind # "none",
           UNCHANGED <<clock, request>>
    PROVE  /\ ViewInv'
           /\ db'.ops = table.ops \/ (db'.ops = next.ops /\ took'[k] > took[k])
<1>1. CASE db' = table /\ UNCHANGED took
  BY <1>1 DEF ViewInv, StoreOK, HeldIn, AppliedIn
<1>2. CASE granted /\ db' = Keep(next, k) /\ took' = Tally(k)
  <2>1. StoreOK(db', took')
    BY <1>2
  <2>2. took' \in [Keys -> Nat] /\ took'[k] > took[k]
    BY <1>2 DEF Tally, ViewInv
  <2>3. db'.ops = next.ops
    BY <1>2 DEF Keep
  <2>5. \A j \in Keys : request[j] = NoCall => took'[j] = 0
    BY <1>2 DEF Tally, ViewInv, NoCall
  <2>4. StoreOK(db, took)'
    BY <2>1 DEF StoreOK, HeldIn, AppliedIn
  <2> QED
    BY <2>2, <2>3, <2>4, <2>5 DEF ViewInv
<1> QED
  BY <1>1, <1>2 DEF TakesEffect, Tally

\* A store that is as good as the one before may take its place.
LEMMA StoreStays ==
    ASSUME ViewInv, NEW table, StoreOK(table, took), db' = table,
           UNCHANGED <<clock, request, took>>
    PROVE  ViewInv'
<1>1. StoreOK(db', took')
  OBVIOUS
<1>2. StoreOK(db, took)'
  BY <1>1 DEF StoreOK, HeldIn, AppliedIn
<1> QED
  BY <1>2 DEF ViewInv

\* What a step does not lose.
OpsKept ==
    \A o \in db.ops :
       \/ \E p \in db'.ops : p.key = o.key
       \/ o.status = "completed" /\ o.at + 1 <= clock
       \/ o.status = "completed" /\ \E k \in Keys :
               request[k] = [kind |-> "delete", view |-> o.view] /\ took'[k] > took[k]

\* The first store has no operation, and no call has taken effect.
LEMMA ViewInits == ViewInit => ViewInv
<1> SUFFICES ASSUME ViewInit PROVE ViewInv
  OBVIOUS
<1>1. PICK old \in SUBSET Views :
         db = [views |-> [v \in Views |-> [Unused EXCEPT !.status = IF v \in old THEN "active"
                                                                    ELSE @]],
               ops |-> {}, receipts |-> {}]
  BY DEF ViewInit
<1>2. /\ clock = 0 /\ request = [k \in Keys |-> NoCall] /\ took = [k \in Keys |-> 0]
  BY DEF ViewInit
<1>3. clock \in 0..MaxClock /\ Never \in Nat
  BY <1>2, ViewAssumption DEF Never
<1>4. /\ DOMAIN db = {"views", "ops", "receipts"} /\ db.ops = {} /\ db.receipts = {}
      /\ db.views = [v \in Views |-> [Unused EXCEPT !.status = IF v \in old THEN "active"
                                                               ELSE @]]
  BY <1>1
<1>5. ASSUME NEW v \in Views
      PROVE  db.views[v] \in Row /\ DatedIn(db, v)
  <2>1. PICK row : row = [Unused EXCEPT !.status = IF v \in old THEN "active" ELSE @]
    OBVIOUS
  <2>2. /\ row \in Row /\ row.status \in {"unused", "active"} /\ row.ends = Never
    BY <2>1, <1>3 DEF Unused, Row
  <2>3. db.views[v] = row
    BY <2>1, <1>4
  <2> QED
    BY <2>2, <2>3, <1>4 DEF DatedIn, LiveStates
<1>6. db.views \in [Views -> Row]
  BY <1>4, <1>5
<1>7. \A k \in Keys : request[k] = NoCall /\ request[k].kind # "update"
  BY <1>2 DEF NoCall
<1>8. StoreOK(db, took)
  BY <1>4, <1>5, <1>6, <1>7 DEF StoreOK, AppliedIn
<1> QED
  BY <1>2, <1>3, <1>8 DEF ViewInv

\* A call that is asked for has not taken effect yet, and an update is of a live session.
LEMMA AskKeeps ==
    ASSUME ViewInv, NEW k \in Keys, Ask(k)
    PROVE  ViewInv' /\ OpsKept
<1>1. PICK c \in Requests : Askable(c) /\ request' = [request EXCEPT ![k] = c]
  BY DEF Ask
<1>2. /\ request[k] = NoCall /\ UNCHANGED <<clock, db, took>>
      /\ StoreOK(db, took) /\ request \in [Keys -> Requests \cup {NoCall}] /\ took[k] = 0
  BY DEF Ask, ViewInv
<1>3. request[k].kind = "none" /\ c # NoCall
  BY <1>2, <1>1 DEF Requests, NoCall
<1>4. /\ request'[k] = c /\ \A j \in Keys : j # k => request'[j] = request[j]
      /\ request' \in [Keys -> Requests \cup {NoCall}]
  BY <1>1, <1>2
<1>5. ASSUME NEW o \in db.ops PROVE HeldIn(db, took, o)'
  <2>1. HeldIn(db, took, o) /\ o.key \in Keys
    BY <1>2 DEF StoreOK, Operation
  <2>2. o.key # k
    BY <2>1, <1>3 DEF HeldIn
  <2> QED
    BY <2>1, <2>2, <1>2, <1>4 DEF HeldIn
<1>6. ASSUME NEW j \in Keys PROVE AppliedIn(db, took, j)'
  <2>1. CASE j # k
    <3>1. AppliedIn(db, took, j)
      BY <1>2 DEF StoreOK
    <3> QED
      BY <2>1, <3>1, <1>2, <1>4 DEF AppliedIn
  <2>2. CASE j = k /\ c.kind = "update"
    <3>1. Live(c.view)
      BY <2>2, <1>1 DEF Askable
    <3> QED
      BY <2>2, <3>1, <1>2, <1>4 DEF AppliedIn, Live
  <2>3. CASE j = k /\ c.kind # "update"
    BY <2>3, <1>4 DEF AppliedIn
  <2> QED
    BY <2>1, <2>2, <2>3
<1>7. StoreOK(db, took)'
  <2>1. \A v \in Views : DatedIn(db, v)'
    BY <1>2 DEF StoreOK, DatedIn
  <2> QED
    BY <2>1, <1>2, <1>5, <1>6 DEF StoreOK
<1>8. \A j \in Keys : (request'[j] = NoCall => took'[j] = 0)
  BY <1>2, <1>3, <1>4 DEF ViewInv
<1>9. OpsKept
  BY <1>2 DEF OpsKept
<1> QED
  BY <1>2, <1>4, <1>7, <1>8, <1>9 DEF ViewInv

\* A session is created, or its receipt answers.
LEMMA CreateKeeps ==
    ASSUME ViewInv, NEW k \in Keys, Create(k)
    PROVE  ViewInv' /\ OpsKept
<1>1. PICK kept : kept = Swept(db)
  OBVIOUS
<1>2. /\ StoreOK(kept, took)
      /\ \A o \in db.ops : o \in kept.ops \/ (o.status = "completed" /\ o.at + 1 <= clock)
  BY <1>1, SweepKeeps
<1>3. request[k].kind = "create" /\ UNCHANGED <<clock, request>>
  BY DEF Create, Receives
<1>4. CASE \E v \in Views : /\ kept.views[v] = Unused
                            /\ TakesEffect(k, kept, TRUE, Created(kept, v))
  <2>1. PICK v \in Views : /\ kept.views[v] = Unused
                           /\ TakesEffect(k, kept, TRUE, Created(kept, v))
    BY <1>4
  <2>2. StoreOK(Keep(Created(kept, v), k), Tally(k))
    BY <2>1, <1>2, <1>3, CreatedKept
  <2>3. PICK next : next = Created(kept, v)
    OBVIOUS
  <2>4. PICK granted : granted = TRUE
    OBVIOUS
  <2>5. ViewInv' /\ (db'.ops = kept.ops \/ db'.ops = next.ops)
    BY <2>1, <2>2, <2>3, <2>4, <1>2, <1>3, MethodKept
  <2>6. next.ops = kept.ops
    BY <2>3, <1>2 DEF Created, StoreOK
  <2> QED
    BY <2>5, <2>6, <1>2 DEF OpsKept
<1>5. CASE db' = kept /\ UNCHANGED took
  BY <1>2, <1>3, <1>5, StoreStays DEF OpsKept
<1> QED
  BY <1>1, <1>4, <1>5 DEF Create

\* An update takes effect, or is refused, or its receipt answers.
LEMMA UpdateKeeps ==
    ASSUME ViewInv, NEW k \in Keys, Update(k)
    PROVE  ViewInv' /\ OpsKept
<1>1. PICK kept : kept = Swept(db)
  OBVIOUS
<1>2. /\ StoreOK(kept, took)
      /\ \A o \in db.ops : o \in kept.ops \/ (o.status = "completed" /\ o.at + 1 <= clock)
  BY <1>1, SweepKeeps
<1>3. request[k].kind = "update" /\ UNCHANGED <<clock, request>>
  BY DEF Update, Receives
<1>4. PICK next, granted : next = Updated(kept, k) /\ granted = UpdateAllowed(kept, request[k])
  OBVIOUS
<1>5. TakesEffect(k, kept, granted, next)
  BY <1>1, <1>4 DEF Update
<1>6. granted => StoreOK(Keep(next, k), Tally(k))
  BY <1>2, <1>3, <1>4, UpdatedKept
<1>7. ViewInv' /\ (db'.ops = kept.ops \/ db'.ops = next.ops)
  BY <1>2, <1>3, <1>5, <1>6, MethodKept
<1>8. \A o \in kept.ops : o \in next.ops
  BY <1>2, <1>4 DEF Updated, StoreOK
<1> QED
  BY <1>2, <1>7, <1>8 DEF OpsKept

\* A session without an open operation is deleted with its operations.
LEMMA DeleteKeeps ==
    ASSUME ViewInv, NEW k \in Keys, Delete(k)
    PROVE  ViewInv' /\ OpsKept
<1>1. PICK kept : kept = Swept(db)
  OBVIOUS
<1>2. /\ StoreOK(kept, took)
      /\ \A o \in kept.ops : o \in db.ops
      /\ \A o \in db.ops : o \in kept.ops \/ (o.status = "completed" /\ o.at + 1 <= clock)
  BY <1>1, SweepKeeps
<1>3. request[k].kind = "delete" /\ UNCHANGED <<clock, request>>
  BY DEF Delete, Receives
<1>4. PICK v \in Views : v = request[k].view /\ request[k] = [kind |-> "delete", view |-> v]
  BY <1>3, Asked
<1>5. PICK next, granted : /\ next = Deleted(kept, v)
                           /\ granted = (kept.views[v].status # "gone" /\ Unsettled(kept, v) = {})
  OBVIOUS
<1>6. TakesEffect(k, kept, granted, next)
  BY <1>1, <1>4, <1>5 DEF Delete
<1>7. granted => StoreOK(Keep(next, k), Tally(k))
  BY <1>2, <1>3, <1>5, DeletedKept
<1>8. ViewInv' /\ (db'.ops = kept.ops \/ (db'.ops = next.ops /\ took'[k] > took[k]))
  BY <1>2, <1>3, <1>6, <1>7, MethodKept
<1>9. CASE db' = kept
  BY <1>2, <1>8, <1>9 DEF OpsKept
<1>10. CASE granted /\ db' = Keep(next, k) /\ took' = Tally(k)
  <2>1. next.ops = {o \in kept.ops : o.view # v} /\ db'.ops = next.ops
    BY <1>2, <1>5, <1>10 DEF Deleted, StoreOK, Keep
  <2>2. took'[k] > took[k]
    BY <1>10 DEF Tally, ViewInv
  <2>3. \A o \in kept.ops : o.view = v => o.status = "completed"
    BY <1>2, <1>5, <1>10 DEF Unsettled, StoreOK, Operation, Unresolved
  <2> QED
    BY <2>1, <2>2, <2>3, <1>2, <1>4, <1>8 DEF OpsKept
<1> QED
  BY <1>6, <1>9, <1>10 DEF TakesEffect, Tally

\* The view settles its own operation, if that is still open.
LEMMA SettleKeeps ==
    ASSUME ViewInv, NEW k \in Keys, Settle(k)
    PROVE  ViewInv' /\ OpsKept
<1>1. PICK kept : kept = Swept(db)
  OBVIOUS
<1>2. /\ StoreOK(kept, took)
      /\ \A o \in db.ops : o \in kept.ops \/ (o.status = "completed" /\ o.at + 1 <= clock)
  BY <1>1, SweepKeeps
<1>3. request[k].kind = "settle" /\ UNCHANGED <<clock, request>>
  BY DEF Settle, Receives
<1>4. PICK status \in {"completed", "ambiguous"} : status = request[k].status
  BY <1>3, Asked
<1>5. PICK granted : granted = TRUE
  OBVIOUS
<1>6. ASSUME NEW o \in kept.ops, o.status \in Unresolved,
             TakesEffect(k, kept, TRUE, Settled(kept, o, status))
      PROVE  ViewInv' /\ OpsKept
  <2>1. PICK next : next = Settled(kept, o, status)
    OBVIOUS
  <2>2. /\ StoreOK(Keep(next, k), Tally(k))
        /\ \A x \in kept.ops : \E p \in next.ops : p.key = x.key
    BY <2>1, <1>2, <1>3, <1>6, SettledKept
  <2>3. TakesEffect(k, kept, granted, next)
    BY <2>1, <1>5, <1>6
  <2>4. ViewInv' /\ (db'.ops = kept.ops \/ db'.ops = next.ops)
    BY <2>2, <2>3, <1>2, <1>3, MethodKept
  <2> QED
    BY <2>2, <2>4, <1>2 DEF OpsKept
<1>7. CASE db' = kept /\ UNCHANGED took
  BY <1>2, <1>3, <1>7, StoreStays DEF OpsKept
<1> QED
  BY <1>1, <1>4, <1>6, <1>7 DEF Settle

\* Maintenance settles the operation its owner looked at, without a sweep.
LEMMA MaintainKeeps ==
    ASSUME ViewInv, NEW k \in Keys, Maintain(k)
    PROVE  ViewInv' /\ OpsKept
<1>1. StoreOK(db, took)
  BY DEF ViewInv
<1>2. request[k].kind = "maintain" /\ UNCHANGED <<clock, request>>
  BY DEF Maintain, Receives
<1>3. PICK granted, completed : granted = TRUE /\ completed = "completed"
  OBVIOUS
<1>4. ASSUME NEW o \in db.ops,
             TakesEffect(k, db, TRUE, IF o.status = "completed" THEN db
                                      ELSE Settled(db, o, "completed"))
      PROVE  ViewInv' /\ OpsKept
  <2>1. PICK next : next = IF o.status = "completed" THEN db ELSE Settled(db, o, "completed")
    OBVIOUS
  <2>2. /\ StoreOK(Keep(next, k), Tally(k))
        /\ \A x \in db.ops : \E p \in next.ops : p.key = x.key
    <3>1. CASE o.status = "completed"
      <4>1. o.view \in Views
        BY <1>1 DEF StoreOK, Operation
      <4> QED
        BY <3>1, <4>1, <2>1, <1>2, ProofKept
    <3>2. CASE o.status # "completed"
      <4>1. o.status \in Unresolved
        BY <3>2, <1>1 DEF StoreOK, Operation
      <4>2. next = Settled(db, o, completed) /\ completed \in {"completed", "ambiguous"}
        BY <3>2, <2>1, <1>3
      <4> QED
        BY <4>1, <4>2, <1>1, <1>2, SettledKept
    <3> QED
      BY <3>1, <3>2
  <2>3. TakesEffect(k, db, granted, next)
    BY <2>1, <1>3, <1>4
  <2>4. ViewInv' /\ (db'.ops = db.ops \/ db'.ops = next.ops)
    BY <2>2, <2>3, <1>1, <1>2, MethodKept
  <2> QED
    BY <2>2, <2>4 DEF OpsKept
<1>5. CASE UNCHANGED <<db, took>>
  BY <1>1, <1>2, <1>5, StoreStays DEF OpsKept
<1> QED
  BY <1>4, <1>5 DEF Maintain

\* The sessions of a gone entity are retired, with a deadline unless an operation is open.
LEMMA RetireKeeps ==
    ASSUME ViewInv, RetireEntity
    PROVE  ViewInv' /\ OpsKept
<1>1. StoreOK(db, took) /\ UNCHANGED <<clock, request, took>>
  BY DEF ViewInv, RetireEntity
<1>2. PICK next : next = db'
  OBVIOUS
<1>3. /\ next.ops = db.ops /\ next.receipts = db.receipts
      /\ DOMAIN next = {"views", "ops", "receipts"} /\ DOMAIN next.views = Views
      /\ next.views = [v \in DOMAIN next.views |-> next.views[v]]
      /\ \A v \in Views :
           next.views[v] =
             IF ~Live(v) THEN db.views[v]
             ELSE [rev |-> db.views[v].rev + 1, status |-> "resolved",
                   ends |-> IF Unsettled(db, v) # {} THEN Never ELSE InAWindow]
  BY <1>1, <1>2 DEF RetireEntity, StoreOK
<1>4. /\ InAWindow \in Nat /\ Never \in Nat /\ InAWindow # Never /\ InAWindow = clock + 1
      /\ clock \in Nat
  BY Windows DEF ViewInv
<1>5. ASSUME NEW v \in Views
      PROVE  /\ next.views[v] \in Row
             /\ ~Live(v) => next.views[v] = db.views[v]
             /\ Live(v) => /\ next.views[v].status = "resolved"
                           /\ next.views[v].rev = db.views[v].rev + 1
                           /\ next.views[v].ends = IF Unsettled(db, v) # {} THEN Never
                                                   ELSE InAWindow
  <2>1. PICK old \in Row : old = db.views[v]
    BY <1>1 DEF StoreOK
  <2>2. PICK ends : ends = IF Unsettled(db, v) # {} THEN Never ELSE InAWindow
    OBVIOUS
  <2>3. PICK row : row = [rev |-> old.rev + 1, status |-> "resolved", ends |-> ends]
    OBVIOUS
  <2>4. row \in Row /\ ends \in Nat
    BY <2>1, <2>2, <2>3, <1>4 DEF Row
  <2>5. next.views[v] = IF ~Live(v) THEN old ELSE row
    BY <2>1, <2>2, <2>3, <1>3
  <2> QED
    BY <2>1, <2>2, <2>3, <2>4, <2>5
<1>6. ASSUME NEW v \in Views PROVE DatedIn(next, v)
  <2>1. CASE Live(v)
    <3>1. Unsettled(db, v) = {} <=> \A o \in next.ops : o.view = v => o.status = "completed"
      BY <1>1, <1>3 DEF Unsettled, StoreOK, Operation, Unresolved
    <3> QED
      BY <2>1, <3>1, <1>4, <1>5 DEF DatedIn
  <2>2. CASE ~Live(v)
    BY <2>2, <1>5 DEF DatedIn, Live, LiveStates
  <2> QED
    BY <2>1, <2>2
<1>7. ASSUME NEW o \in next.ops PROVE HeldIn(next, took, o)
  <2>1. PICK v \in Views : v = o.view
    BY <1>1, <1>3 DEF StoreOK, Operation
  <2>2. HeldIn(db, took, o) /\ Live(v) /\ o.at \in Nat
    BY <2>1, <1>1, <1>3 DEF StoreOK, HeldIn, Live, LiveStates, Operation
  <2>3. next.views[v].status = "resolved" /\ next.views[v].ends \in {Never, InAWindow}
    BY <2>2, <1>5
  <2>4. o.at + 1 <= next.views[v].ends
    <3>1. CASE next.views[v].ends = Never
      BY <3>1, <2>2, Windows DEF HeldIn, ViewInv
    <3>2. CASE next.views[v].ends = InAWindow
      BY <3>2, <2>2, <1>4 DEF HeldIn
    <3> QED
      BY <3>1, <3>2, <2>3
  <2> QED
    BY <2>1, <2>2, <2>3, <2>4 DEF HeldIn, LiveStates
<1>8. ASSUME NEW j \in Keys PROVE AppliedIn(next, took, j)
  <2>1. CASE request[j].kind = "update"
    <3>1. PICK v \in Views : v = request[j].view /\ request[j].rev \in Nat
      BY <2>1, Asked
    <3>2. AppliedIn(db, took, j)
      BY <1>1 DEF StoreOK
    <3>3. PICK rev \in Nat : rev = db.views[v].rev
      BY <1>1 DEF StoreOK, Row
    <3>4. CASE Live(v)
      BY <2>1, <3>1, <3>2, <3>3, <3>4, <1>5 DEF AppliedIn, Live
    <3>5. CASE ~Live(v)
      BY <2>1, <3>1, <3>2, <3>5, <1>5 DEF AppliedIn
    <3> QED
      BY <3>4, <3>5
  <2> QED
    BY <2>1 DEF AppliedIn
<1>9. StoreOK(next, took)
  <2>1. next.views \in [Views -> Row]
    BY <1>3, <1>5
  <2> QED
    BY <2>1, <1>1, <1>3, <1>6, <1>7, <1>8 DEF StoreOK
<1> QED
  BY <1>1, <1>2, <1>3, <1>9, StoreStays DEF OpsKept

\* Nothing else changes when a month goes by, and what was settled before now still was.
LEMMA MonthKeeps ==
    ASSUME ViewInv, Month
    PROVE  ViewInv' /\ OpsKept
<1>1. /\ UNCHANGED <<db, request, took>> /\ clock' = clock + 1 /\ clock' \in 0..MaxClock
      /\ clock \in Nat
  BY ViewAssumption DEF ViewInv, Month
<1>2. StoreOK(db, took)
  BY DEF ViewInv
<1>3. ASSUME NEW o \in db.ops PROVE HeldIn(db, took, o)'
  <2>1. HeldIn(db, took, o) /\ o.at \in Nat
    BY <1>2 DEF StoreOK, Operation
  <2> QED
    BY <2>1, <1>1 DEF HeldIn
<1>4. \A k \in Keys : AppliedIn(db, took, k)'
  BY <1>1, <1>2 DEF StoreOK, AppliedIn
<1>5. \A v \in Views : DatedIn(db, v)'
  BY <1>1, <1>2 DEF StoreOK, DatedIn
<1>6. StoreOK(db, took)'
  BY <1>1, <1>2, <1>3, <1>4, <1>5 DEF StoreOK
<1> QED
  BY <1>1, <1>6 DEF ViewInv, OpsKept
-----------------------------------------------------------------------------
\* A call that was asked for is not asked for anew.
LEMMA RequestsStay ==
    ASSUME ViewInv, ViewNext, NEW k \in Keys, request[k].kind = "update"
    PROVE  request'[k].kind = "update"
<1>1. CASE \E j \in Keys : Ask(j)
  <2>1. PICK j \in Keys : Ask(j)
    BY <1>1
  <2>2. j # k
    BY <2>1 DEF Ask, NoCall
  <2> QED
    BY <2>1, <2>2 DEF Ask, ViewInv
<1>2. CASE UNCHANGED request
  BY <1>2
<1>3. UNCHANGED request \/ \E j \in Keys : Ask(j)
  BY DEF ViewNext, Create, Update, Delete, Settle, Maintain, RetireEntity, Open, Month
<1> QED
  BY <1>1, <1>2, <1>3

\* Every step keeps the invariant, and loses only operations that may go.
LEMMA ViewSteps ==
    ASSUME ViewInv, ViewNext
    PROVE  ViewInv' /\ OpsKept
<1>1. ASSUME NEW k \in Keys,
             Ask(k) \/ Create(k) \/ Update(k) \/ Delete(k) \/ Settle(k) \/ Maintain(k)
      PROVE  ViewInv' /\ OpsKept
  BY <1>1, AskKeeps, CreateKeeps, UpdateKeeps, DeleteKeeps, SettleKeeps, MaintainKeeps
<1>2. CASE Open
  <2>1. PICK kept : kept = Swept(db)
    OBVIOUS
  <2>2. /\ StoreOK(kept, took)
        /\ \A o \in db.ops : o \in kept.ops \/ (o.status = "completed" /\ o.at + 1 <= clock)
    BY <2>1, SweepKeeps
  <2> QED
    BY <2>1, <2>2, <1>2, StoreStays DEF Open, OpsKept
<1> QED
  BY <1>1, <1>2, RetireKeeps, MonthKeeps DEF ViewNext

\* A retired session has its deadline when none of its operations is open, and no session
\* has two open ones.
LEMMA ViewsSound ==
    ASSUME ViewInv
    PROVE  /\ ViewTypeOK
           /\ \A v \in Views :
                /\ Live(v) => (db.views[v].ends # Never <=>
                                 db.views[v].status # "active" /\ Unsettled(db, v) = {})
                /\ Cardinality(Unsettled(db, v)) <= 1
<1>1. StoreOK(db, took)
  BY DEF ViewInv
<1>2. ViewTypeOK
  BY <1>1 DEF ViewInv, ViewTypeOK, StoreOK
<1>3. ASSUME NEW v \in Views
      PROVE  Live(v) => (db.views[v].ends # Never <=>
                           db.views[v].status # "active" /\ Unsettled(db, v) = {})
  <2>1. DatedIn(db, v) /\ db.ops \subseteq Operation
    BY <1>1 DEF StoreOK
  <2>2. Unsettled(db, v) = {} <=> \A o \in db.ops : o.view = v => o.status = "completed"
    BY <2>1 DEF Unsettled, Operation, Unresolved
  <2> QED
    BY <2>1, <2>2 DEF DatedIn, Live, LiveStates
<1>4. ASSUME NEW v \in Views PROVE Cardinality(Unsettled(db, v)) <= 1
  <2>1. \A o, p \in Unsettled(db, v) : o = p
    BY <1>1 DEF Unsettled, StoreOK
  <2>2. CASE Unsettled(db, v) = {}
    BY <2>2, FS_EmptySet
  <2>3. CASE Unsettled(db, v) # {}
    <3>1. PICK o \in Unsettled(db, v) : Unsettled(db, v) = {o}
      BY <2>1, <2>3
    <3> QED
      BY <3>1, FS_Singleton
  <2> QED
    BY <2>2, <2>3
<1> QED
  BY <1>2, <1>3, <1>4

\* An operation a view journals is not lost while it is open, and an update takes effect
\* once (presentation.rs: sweep, update, settle_operation), for every number of sessions,
\* of calls, however often each is sent, and of months.
THEOREM OperationsHold == ViewSpec => []ViewTypeOK /\ OperationsKept
<1>1. ViewInit => ViewInv
  BY ViewInits
<1>2. ViewInv /\ [ViewNext]_viewVars => ViewInv'
  <2> SUFFICES ASSUME ViewInv, [ViewNext]_viewVars PROVE ViewInv'
    OBVIOUS
  <2>1. CASE UNCHANGED viewVars
    <3>1. UNCHANGED <<clock, db, request, took>>
      BY <2>1 DEF viewVars
    <3> QED
      BY <3>1, StoreStays DEF ViewInv
  <2> QED
    BY <2>1, ViewSteps
<1>3. ViewInv => ViewTypeOK
  BY ViewsSound
<1> DEFINE Claim ==
      /\ \A v \in Views :
           /\ Live(v) => (db.views[v].ends # Never <=>
                            db.views[v].status # "active" /\ Unsettled(db, v) = {})
           /\ Cardinality(Unsettled(db, v)) <= 1
      /\ \A k \in Keys : request[k].kind = "update" => took'[k] <= 1
      /\ \A o \in db.ops :
           \/ \E p \in db'.ops : p.key = o.key
           \/ o.status = "completed" /\ o.at + 1 <= clock
           \/ o.status = "completed" /\ \E k \in Keys :
                   request[k] = [kind |-> "delete", view |-> o.view] /\ took'[k] > took[k]
<1>4. ViewInv /\ ViewInv' /\ [ViewNext]_viewVars => [Claim]_viewVars
  <2> SUFFICES ASSUME ViewInv, ViewInv', ViewNext PROVE Claim
    BY DEF Claim
  <2>1. \A k \in Keys : request[k].kind = "update" => took'[k] <= 1
    <3> SUFFICES ASSUME NEW k \in Keys, request[k].kind = "update" PROVE took'[k] <= 1
      OBVIOUS
    <3>1. request'[k].kind = "update"
      BY RequestsStay
    <3> QED
      BY <3>1 DEF ViewInv, StoreOK, AppliedIn
  <2> QED
    BY <2>1, ViewsSound, ViewSteps DEF OpsKept
<1> HIDE DEF Claim
<1>5. ViewSpec => []ViewInv
  BY <1>1, <1>2, PTL DEF ViewSpec
<1>6. ViewSpec => [][Claim]_viewVars
  BY <1>5, <1>4, PTL DEF ViewSpec
<1>7. ViewSpec => OperationsKept
  BY <1>6 DEF Claim, OperationsKept
<1> QED
  BY <1>5, <1>3, <1>7, PTL
=============================================================================
