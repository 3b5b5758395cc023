-------------------------- MODULE PresentationViews --------------------------
(***************************************************************************)
(* Presentation sessions and the mutations a view journals in them         *)
(* (src/src/presentation.rs).  Every method is one transaction, guarded by *)
(* the receipt of its key and by the session's revision; its answer may be *)
(* lost, and the call sent again, any time later.  Receipts, finished      *)
(* operations and retired sessions are swept after thirty days, sessions   *)
(* with an unresolved operation never.                                     *)
(***************************************************************************)
EXTENDS Integers, FiniteSets

CONSTANTS Views,       \* sessions, by their identifiers
          MaxCalls,    \* calls with a key of their own, and revisions by retirement
          MaxClock     \* in windows of thirty days

ASSUME ViewAssumption == MaxCalls \in Nat /\ MaxClock \in Nat

VARIABLES
    clock,    \* now, in windows
    db,       \* presentation.sqlite3
    request,  \* the call of each key, which may be sent any number of times
    took      \* external: how often the call of each key took effect

viewVars == <<clock, db, request, took>>

Keys == 1..MaxCalls
Never == MaxClock + 2              \* expires_at IS NULL: after every deadline
InAWindow == clock + 1             \* now + RETENTION_SECONDS

Unresolved == {"pending", "ambiguous"}
Unused == [rev |-> 0, status |-> "unused", ends |-> Never]
Gone == [Unused EXCEPT !.status = "gone"]
NoCall == [kind |-> "none"]
Row == [rev : Nat, status : {"unused", "active", "inactive", "resolved", "gone"}, ends : Nat]
Operation == [key : Keys, view : Views, status : Unresolved \cup {"completed"},
              at : Nat, ends : Nat]
Receipt == [key : Keys, ends : Nat]

Live(v) == db.views[v].status \in {"active", "inactive", "resolved"}
Unsettled(store, v) == {o \in store.ops : o.view = v /\ o.status \in Unresolved}

ViewTypeOK ==
    /\ clock \in 0..MaxClock
    /\ db.views \in [Views -> Row]
    /\ db.ops \subseteq Operation /\ db.receipts \subseteq Receipt
    /\ \A o, p \in db.ops : o.key = p.key => o = p
    /\ DOMAIN request = Keys
    /\ took \in [Keys -> Nat]

\* A session may have been created before.
ViewInit ==
    /\ clock = 0
    /\ \E old \in SUBSET Views :
         /\ Cardinality(old) <= 1
         /\ db = [views |-> [v \in Views |-> [Unused EXCEPT !.status = IF v \in old THEN "active"
                                                                     ELSE @]],
                  ops |-> {}, receipts |-> {}]
    /\ request = [k \in Keys |-> NoCall]
    /\ took = [k \in Keys |-> 0]
-----------------------------------------------------------------------------
\* sweep, which opens the store and precedes every method of it.
Swept(store) ==
    LET over(v) == store.views[v].ends <= clock /\ Unsettled(store, v) = {}
    IN [views |-> [v \in Views |-> IF over(v) THEN Gone ELSE store.views[v]],
        ops |-> {o \in store.ops : ~over(o.view) /\ (o.status = "completed" => o.ends > clock)},
        receipts |-> {r \in store.receipts : r.ends > clock}]

Keep(store, k) == [store EXCEPT !.receipts = @ \cup {[key |-> k, ends |-> InAWindow]}]

Created(store, v) ==
    [store EXCEPT !.views[v] = [rev |-> 0, status |-> "active", ends |-> Never]]

Updated(store, k) ==
    LET c == request[k]
        ends == IF c.status = "active" THEN Never ELSE InAWindow
    IN [store EXCEPT
          !.views[c.view] = [rev |-> @.rev + 1, status |-> c.status, ends |-> ends],
          !.ops = @ \cup IF c.operation
                         THEN {[key |-> k, view |-> c.view, status |-> "pending",
                                at |-> clock, ends |-> Never]}
                         ELSE {}]

Deleted(store, v) ==
    [store EXCEPT !.views[v] = Gone, !.ops = {o \in @ : o.view # v}]

\* settle_operation: the session's deadline starts with its last settlement.
Settled(store, o, status) ==
    LET retired == store.views[o.view].status \in {"inactive", "resolved"} IN
    [store EXCEPT
       !.ops = (@ \ {o}) \cup {[o EXCEPT !.status = status, !.at = clock,
                                         !.ends = IF status = "completed" THEN InAWindow
                                                  ELSE Never]},
       !.views[o.view].ends = IF status = "completed" /\ retired THEN InAWindow ELSE Never]
-----------------------------------------------------------------------------
Requests ==
    {[kind |-> "create"]}
    \cup [kind : {"update"}, view : Views, rev : 0..(2 * MaxCalls),
          status : {"active", "inactive"}, operation : BOOLEAN]
    \cup [kind : {"delete"}, view : Views]
    \cup [kind : {"settle"}, view : Views, op : Keys, status : {"completed", "ambiguous"}]
    \cup [kind : {"maintain"}, view : Views, op : Keys,
           status : Unresolved \cup {"completed"}, rev : 0..(2 * MaxCalls)]

\* What a view that has just read its session, or the owner's maintenance, may ask for.
Askable(c) ==
    CASE c.kind = "create" -> TRUE
      [] c.kind = "update" -> Live(c.view) /\ c.rev = db.views[c.view].rev
      [] c.kind = "delete" -> Live(c.view)
      [] c.kind = "settle" -> \E o \in db.ops : o.view = c.view /\ o.key = c.op
      [] c.kind = "maintain" ->
           \E o \in db.ops : /\ o.view = c.view /\ o.key = c.op /\ o.status = c.status
                             /\ c.rev = db.views[c.view].rev

Ask(k) ==
    /\ request[k] = NoCall /\ \A j \in 1..(k - 1) : request[j] # NoCall
    /\ \E c \in Requests : Askable(c) /\ request' = [request EXCEPT ![k] = c]
    /\ UNCHANGED <<clock, db, took>>

Receives(k, kind) == request[k].kind = kind
Replayed(store, k) == \E r \in store.receipts : r.key = k

\* A method answers from its receipt, refuses, or takes effect and keeps a receipt.
TakesEffect(k, store, allowed, next) ==
    IF Replayed(store, k) \/ ~allowed
    THEN db' = store /\ UNCHANGED took
    ELSE db' = Keep(next, k) /\ took' = [took EXCEPT ![k] = @ + 1]

Create(k) ==
    LET store == Swept(db) IN
    /\ Receives(k, "create")
    /\ \/ \E v \in Views : store.views[v] = Unused /\ TakesEffect(k, store, TRUE, Created(store, v))
       \/ Replayed(store, k) /\ db' = store /\ UNCHANGED took
    /\ UNCHANGED <<clock, request>>

\* Mutant of UpdateAllowed: a session is updated whatever its revision.
UpdateAnyRevision(store, c) ==
    /\ store.views[c.view].status \notin {"unused", "gone"}
    /\ c.operation \/ c.status # "active" => Unsettled(store, c.view) = {}
    /\ c.operation => c.status = "active"

UpdateAllowed(store, c) ==
    /\ store.views[c.view].status \notin {"unused", "gone"}
    /\ store.views[c.view].rev = c.rev
    /\ c.operation \/ c.status # "active" => Unsettled(store, c.view) = {}
    /\ c.operation => c.status = "active"

Update(k) ==
    LET store == Swept(db) IN
    /\ Receives(k, "update")
    /\ TakesEffect(k, store, UpdateAllowed(store, request[k]), Updated(store, k))
    /\ UNCHANGED <<clock, request>>

Delete(k) ==
    LET store == Swept(db)
        v == request[k].view
    IN /\ Receives(k, "delete")
       /\ TakesEffect(k, store, store.views[v].status # "gone" /\ Unsettled(store, v) = {},
                  Deleted(store, v))
       /\ UNCHANGED <<clock, request>>

\* operation_settle: an operation that is still pending or ambiguous.
Settle(k) ==
    LET store == Swept(db)
        c == request[k]
    IN /\ Receives(k, "settle")
       /\ LET open == {o \in store.ops : o.key = c.op /\ o.status \in Unresolved} IN
          \/ \E o \in open : TakesEffect(k, store, TRUE, Settled(store, o, c.status))
          \/ open = {} /\ db' = store /\ UNCHANGED took
       /\ UNCHANGED <<clock, request>>

\* maintenance_operation_settle: the exact operation the owner looked at, with the
\* receipt of its mutation; of a completed patch only the proof is kept.  No sweep.
Maintain(k) ==
    LET c == request[k]
        same == {o \in db.ops : /\ o.key = c.op /\ o.status = c.status
                                /\ db.views[c.view].rev = c.rev}
    IN /\ Receives(k, "maintain")
       /\ \/ \E o \in same : TakesEffect(k, db, TRUE, IF o.status = "completed" THEN db
                                                    ELSE Settled(db, o, "completed"))
          \/ same = {} /\ UNCHANGED <<db, took>>
       /\ UNCHANGED <<clock, request>>

\* delete_entities: the run or request the views are about is gone.
RetireEntity ==
    /\ \E v \in Views : Live(v)
    /\ \A v \in Views : db.views[v].rev < MaxCalls
    /\ db' = [db EXCEPT !.views = [v \in Views |->
                IF ~Live(v) THEN @[v]
                ELSE [rev |-> @[v].rev + 1, status |-> "resolved",
                      ends |-> IF Unsettled(db, v) # {} THEN Never ELSE InAWindow]]]
    /\ UNCHANGED <<clock, request, took>>

\* The daemon starts again: open sweeps.
Open == db' = Swept(db) /\ UNCHANGED <<clock, request, took>>

Month == clock < MaxClock /\ clock' = clock + 1 /\ UNCHANGED <<db, request, took>>
-----------------------------------------------------------------------------
ViewNext ==
    \/ \E k \in Keys : \/ Ask(k) \/ Create(k) \/ Update(k) \/ Delete(k)
                       \/ Settle(k) \/ Maintain(k)
    \/ RetireEntity \/ Open \/ Month
-----------------------------------------------------------------------------
(***************************************************************************)
(* "A delayed settlement [is not] swept by a deadline armed before the     *)
(* operation was known to be final": a retired session has its deadline    *)
(* exactly when no operation of it is open, and stays a whole window after *)
(* the last one was settled, unless its owner deletes it; an open          *)
(* operation is never lost, and no session has two.  A call that is sent   *)
(* again, after its receipt went, updates nothing twice.                   *)
(***************************************************************************)
OperationsKept ==
    [][/\ \A v \in Views :
            /\ Live(v) => (db.views[v].ends # Never <=>
                             db.views[v].status # "active" /\ Unsettled(db, v) = {})
            /\ Cardinality(Unsettled(db, v)) <= 1
       /\ \A k \in Keys : request[k].kind = "update" => took'[k] <= 1
       /\ \A o \in db.ops :
            \/ \E p \in db'.ops : p.key = o.key
            \/ o.status = "completed" /\ o.at + 1 <= clock
            \/ o.status = "completed" /\ \E k \in Keys :
                    request[k] = [kind |-> "delete", view |-> o.view] /\ took'[k] > took[k]]_viewVars
=============================================================================
