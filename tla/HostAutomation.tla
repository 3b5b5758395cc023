---------------------------- MODULE HostAutomation ----------------------------
(***************************************************************************)
(* The journal of a host's own monitoring schedule (src/src/recovery.rs):  *)
(* a host task writes down what it is about to do to its automation, does  *)
(* it if the answer permits the attempt, and writes down how it ended.     *)
(* Every method is one transaction, guarded by the receipt of its key and  *)
(* the record's revision; answers are lost and calls sent again, any time  *)
(* later.  Receipts, successful operations and removed records are swept   *)
(* after thirty days.  One binding of a host task to a run.                *)
(***************************************************************************)
EXTENDS Integers, FiniteSets

CONSTANTS MaxNotes,      \* calls with a key of their own
          MaxWindows     \* windows of thirty days

ASSUME HostAssumption == MaxNotes \in Nat /\ MaxWindows \in Nat

VARIABLES
    window,      \* now, in windows
    ledger,      \* recovery.sqlite3
    note,        \* the call of each key, which may be sent any number of times
    attempts,    \* external: operations a host task was permitted and has not tried
    done,        \* external: operations carried out at the host
    automations  \* external: automations the host has for this task and run

hostVars == <<window, ledger, note, attempts, done, automations>>

NoteKeys == 1..MaxNotes
OperationKeys == 1..2
Works == {"create", "update", "pause", "remove"}
Forever == MaxWindows + 1      \* after every window
NoNote == [kind |-> "none"]

Absent == [rev |-> 0, intent |-> "enabled", reg |-> "none", life |-> "unchecked",
           op |-> 0, waiting |-> FALSE, ends |-> Forever]
Registrations == {"none", "not_attempted", "attempt_in_flight", "registered", "ambiguous",
                  "removed"}
BindingRecord == [rev : Nat, intent : {"enabled", "stopped"}, reg : Registrations,
                  life : {"unchecked", "verified", "ambiguous", "removed"}, op : Nat,
                  waiting : BOOLEAN, ends : Nat]
Work == [id : Nat, key : OperationKeys, do : Works, ends : Nat,
         status : {"in_flight", "succeeded", "ambiguous"}]

Notes ==
    [kind : {"note"}, rev : Nat, intent : {"enabled", "stopped"}, waiting : BOOLEAN]
    \cup [kind : {"begin"}, rev : Nat, do : Works, key : OperationKeys]
    \cup [kind : {"settle"}, rev : Nat, op : Nat, status : {"succeeded", "ambiguous"},
          life : {"unchecked", "verified", "removed"}]

HostTypeOK ==
    /\ window \in 0..MaxWindows
    /\ ledger \in [record : BindingRecord, ops : SUBSET Work, serial : Nat,
                   receipts : SUBSET [key : NoteKeys, ends : Nat]]
    /\ \A o, p \in ledger.ops : o.id = p.id \/ o.key = p.key => o = p
    /\ note \in [NoteKeys -> {NoNote} \cup Notes]
    /\ attempts \subseteq Nat /\ done \subseteq Nat /\ automations \in Nat

\* A journal with nothing in it, or with an automation that was created before.
Created == [id |-> 1, key |-> 1, do |-> "create", status |-> "succeeded", ends |-> 1]

HostInit ==
    /\ window = 0
    /\ \/ /\ ledger = [record |-> Absent, ops |-> {}, receipts |-> {}, serial |-> 0]
          /\ automations = 0 /\ done = {}
       \/ /\ ledger = [record |-> [Absent EXCEPT !.rev = 3, !.reg = "registered"],
                       ops |-> {Created}, receipts |-> {}, serial |-> 1]
          /\ automations = 1 /\ done = {1}
    /\ note = [k \in NoteKeys |-> NoNote]
    /\ attempts = {}

OpOf(store, id) == {o \in store.ops : o.id = id}
InFlight(store) == \E o \in OpOf(store, store.record.op) : o.status = "in_flight"
-----------------------------------------------------------------------------
\* recovery_expiry, which write_record stores.
Dated(record) ==
    [record EXCEPT !.ends =
        IF record.reg = "removed" /\ record.life = "removed" /\ record.op = 0 /\ ~record.waiting
        THEN window + 1 ELSE Forever]

\* sweep, which opens the store and precedes every method.
Lapsed(store) ==
    [store EXCEPT
       !.receipts = {r \in @ : r.ends > window},
       !.ops = {o \in @ : o.status # "succeeded" \/ o.ends > window},
       !.record = IF @.ends <= window THEN Absent ELSE @]

Receipted(store, k) == [store EXCEPT !.receipts = @ \cup {[key |-> k, ends |-> window + 1]}]
Answered(store, k) == \E r \in store.receipts : r.key = k
-----------------------------------------------------------------------------
\* A host task asks on the record it read; it reports a success it has seen at the host.
Ask(k) ==
    LET r == ledger.record IN
    /\ note[k] = NoNote /\ \A j \in 1..(k - 1) : note[j] # NoNote
    /\ \/ \E intent \in {"enabled", "stopped"}, waiting \in BOOLEAN :
            note' = [note EXCEPT ![k] = [kind |-> "note", rev |-> r.rev, intent |-> intent,
                                         waiting |-> waiting]]
       \/ /\ r # Absent
          /\ \E do \in Works, key \in OperationKeys :
               note' = [note EXCEPT ![k] = [kind |-> "begin", rev |-> r.rev, do |-> do,
                                            key |-> key]]
       \/ /\ r.op # 0
          /\ \E status \in {"succeeded", "ambiguous"}, life \in {"unchecked", "verified", "removed"} :
               /\ status = "succeeded" => r.op \in done
               /\ note' = [note EXCEPT ![k] = [kind |-> "settle", rev |-> r.rev, op |-> r.op,
                                               status |-> status, life |-> life]]
    /\ UNCHANGED <<window, ledger, attempts, done, automations>>

Arrives(k, kind) == note[k].kind = kind

Noted(store, c) ==
    LET old == store.record
        fresh == IF old = Absent THEN [old EXCEPT !.reg = "not_attempted"] ELSE old
        next == [fresh EXCEPT !.rev = @ + 1, !.intent = c.intent, !.waiting = c.waiting]
    IN [store EXCEPT !.record = IF old = Absent THEN next ELSE Dated(next)]

\* recovery.update, which also inserts the record.
Note(k) ==
    LET store == Lapsed(ledger)
        c == note[k]
    IN /\ Arrives(k, "note")
       /\ ledger' = IF Answered(store, k) \/ c.rev # store.record.rev \/ InFlight(store)
                    THEN store ELSE Receipted(Noted(store, c), k)
       /\ UNCHANGED <<window, note, attempts, done, automations>>

Allowed(record, c) ==
    /\ record.intent = "stopped" => c.do \in {"pause", "remove"}
    /\ record.reg # "ambiguous"
    /\ record.reg = (IF c.do = "create" THEN "not_attempted" ELSE "registered")

Started(store, c) ==
    LET id == store.serial + 1
        begun == [id |-> id, key |-> c.key, do |-> c.do, status |-> "in_flight",
                  ends |-> Forever]
        next == [store.record EXCEPT !.rev = @ + 1, !.reg = "attempt_in_flight", !.op = id]
    IN [store EXCEPT !.serial = id, !.ops = @ \cup {begun}, !.record = Dated(next)]

\* The answer permits the attempt, if it arrives; what is kept for a repetition does not.
Permits(id) == attempts' \in {attempts, attempts \cup {id}}

\* Mutant of Replay: a receipt replays the answer it was kept for.
ReplayPermission(store) == ledger' = store /\ Permits(store.record.op)

\* reconciliation_required: a receipt permits nothing.
Replay(store) == ledger' = store /\ UNCHANGED attempts

\* recovery.operations.begin: replayed, asked for under another key, begun or refused.
BeginWork(k) ==
    LET store == Lapsed(ledger)
        c == note[k]
        current == c.rev = store.record.rev
        same == current /\ \E o \in OpOf(store, store.record.op) : o.key = c.key
        begins == /\ current /\ store.record.op = 0 /\ Allowed(store.record, c)
                  /\ \A o \in store.ops : o.key # c.key     \* UNIQUE(recovery_id, operation_key)
    IN /\ Arrives(k, "begin")
       /\ \/ Answered(store, k) /\ Replay(store)
          \/ /\ ~Answered(store, k) /\ same
             /\ ledger' = Receipted(store, k) /\ UNCHANGED attempts
          \/ /\ ~Answered(store, k) /\ ~same /\ begins
             /\ ledger' = Receipted(Started(store, c), k)
             /\ Permits(store.serial + 1)
          \/ /\ ~Answered(store, k) /\ ~same /\ ~begins
             /\ ledger' = store /\ UNCHANGED attempts
       /\ UNCHANGED <<window, note, done, automations>>

Settled(store, o, c) ==
    LET r == [store.record EXCEPT !.rev = @ + 1, !.op = 0] IN
    [store EXCEPT
       !.ops = (@ \ {o}) \cup {[o EXCEPT !.status = c.status, !.ends = window + 1]},
       !.record = Dated(
          IF c.status = "ambiguous"
          THEN [r EXCEPT !.reg = "ambiguous", !.life = "ambiguous"]
          ELSE IF o.do = "remove" THEN [r EXCEPT !.reg = "removed", !.life = "removed"]
          ELSE [r EXCEPT !.reg = "registered", !.life = c.life])]

\* recovery.operations.settle.
SettleWork(k) ==
    LET store == Lapsed(ledger)
        c == note[k]
        open == {o \in OpOf(store, c.op) : /\ c.rev = store.record.rev
                                           /\ store.record.op = c.op
                                           /\ o.status = "in_flight"}
    IN /\ Arrives(k, "settle")
       /\ \/ Answered(store, k) /\ ledger' = store
          \/ ~Answered(store, k) /\ open = {} /\ ledger' = store
          \/ /\ ~Answered(store, k)
             /\ \E o \in open : ledger' = Receipted(Settled(store, o, c), k)
       /\ UNCHANGED <<window, note, attempts, done, automations>>

\* external: the host task does what it was permitted to do, once, or never.
Attempt(id) ==
    /\ id \in attempts
    /\ attempts' = attempts \ {id} /\ done' = done \cup {id}
    /\ \E o \in OpOf(ledger, id) :
         automations' = CASE o.do = "create" -> automations + 1
                          [] o.do = "remove" -> 0
                          [] OTHER -> automations
    /\ UNCHANGED <<window, ledger, note>>

\* The daemon starts again: open sweeps.
Reopen == ledger' = Lapsed(ledger) /\ UNCHANGED <<window, note, attempts, done, automations>>

WindowPasses ==
    /\ window < MaxWindows /\ window' = window + 1
    /\ UNCHANGED <<ledger, note, attempts, done, automations>>
-----------------------------------------------------------------------------
HostNext ==
    \/ \E k \in NoteKeys : Ask(k) \/ Note(k) \/ BeginWork(k) \/ SettleWork(k)
    \/ \E id \in attempts : Attempt(id)
    \/ Reopen \/ WindowPasses
-----------------------------------------------------------------------------
(***************************************************************************)
(* "A later process cannot accidentally create a second automation":       *)
(* whatever answer is lost, call repeated or row swept, a host task holds   *)
(* one permission at most and the host has one automation at most; an      *)
(* operation that may still happen or have happened is never forgotten,    *)
(* nor is the record of an automation the host still has.                  *)
(***************************************************************************)
AutomatedOnce ==
    [][/\ automations <= 1 /\ Cardinality(attempts) <= 1
       /\ \A o \in ledger.ops : o.status # "succeeded" => \E p \in ledger'.ops : p.id = o.id
       /\ automations > 0 \/ attempts # {} => ledger'.record # Absent]_hostVars
=============================================================================
