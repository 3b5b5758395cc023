---------------------------- MODULE OperationCache ----------------------------
(***************************************************************************)
(* The operation cache of control mutations (control.rs, dispatch_body;    *)
(* operation_cache.rs; retention.rs).  A mutation carries an idempotency   *)
(* key.  The daemon keeps one record per key on disk, written before the   *)
(* request leaves and again when its outcome is known, so that a repeated  *)
(* call is answered from the record or from the backend's receipt, and is  *)
(* never sent blindly.                                                     *)
(*                                                                         *)
(* Calls run concurrently; calls of one key share a lock that lives only   *)
(* as long as one of them.  Retention expires results from another task,   *)
(* without that lock.  The daemon may crash between any two steps.         *)
(***************************************************************************)
EXTENDS Integers, Sequences, FiniteSets, SequencesExt

CONSTANTS
  OpKeys,       \* idempotency keys
  Callers,      \* control connections with a call in flight
  Requests,     \* what a caller may ask under one key
  OpLimits      \* how often crashes, losses, denials and expiries strike

NoRequest == "none"

ASSUME OpAssumption ==
  /\ OpKeys # {} /\ IsFiniteSet(OpKeys) /\ IsFiniteSet(Callers)
  /\ Requests # {} /\ NoRequest \notin Requests
  /\ OpLimits \in [{"crashes", "losses", "denials", "expiries"} -> Nat]

(* How a method is reconciled once its request may have left: from the     *)
(* backend's receipt, always so for starts and persona writes; from its    *)
(* own journal; not at all.  runs.commit re-enters PreparedStart instead.  *)
Methods == {"start", "persona", "receipt", "patch", "prepare", "plain"}
Stages == {"absent", "not_dispatched", "dispatch_uncertain", "rejected", "accepted"}

OpRecord == [stage : Stages, request : Requests \cup {NoRequest},
             result : BOOLEAN, expired : BOOLEAN]
NoRecord == [stage |-> "absent", request |-> NoRequest, result |-> FALSE, expired |-> FALSE]

CallPoints == {"idle", "waiting", "dispatch", "handle", "send", "answer",
               "receipt", "acknowledge", "complete"}
Call == [at : CallPoints, key : OpKeys, request : Requests, copy : OpRecord]
AtRest == [at |-> "idle", key |-> CHOOSE k \in OpKeys : TRUE,
           request |-> CHOOSE r \in Requests : TRUE, copy |-> NoRecord]

VARIABLES
  method,     \* the method each key is used for
  record,     \* operations/<key>.json
  journal,    \* workflow-patches/<key>.json
  call,       \* what every caller's dispatch holds
  sweep,      \* the record a retention task has read and will write back
  wire,       \* the requests under a key that may still reach the backend
  executed,   \* the requests under a key the backend executed, in order
  spent       \* how much of OpLimits is used

local == <<record, journal>>
backend == <<wire, executed>>
opVars == <<method, record, journal, call, sweep, wire, executed, spent>>

(* Calls that keep the lock of a key alive: dispatch holds the only strong *)
(* references, the map a weak one that a later call cleans up.             *)
Sharers(k) == {c \in Callers : call[c].at # "idle" /\ call[c].key = k}
Holder(k) == {c \in Sharers(k) : call[c].at # "waiting"}

OpTypeOK ==
  /\ method \in [OpKeys -> Methods]
  /\ record \in [OpKeys -> OpRecord]
  /\ journal \in [OpKeys -> {"absent", "submitted", "rejected", "acknowledged"}]
  /\ call \in [Callers -> Call]
  /\ \A k \in OpKeys : Cardinality(Holder(k)) <= 1
  /\ sweep \in [on : BOOLEAN, key : OpKeys, copy : OpRecord]
  /\ wire \in [OpKeys -> Seq(Requests)] /\ executed \in [OpKeys -> Seq(Requests)]
  /\ spent \in [DOMAIN OpLimits -> Nat]

OpInit ==
  /\ method \in [OpKeys -> Methods]
  /\ record = [k \in OpKeys |-> NoRecord]
  /\ journal = [k \in OpKeys |-> "absent"]
  /\ call = [c \in Callers |-> AtRest]
  /\ sweep = [on |-> FALSE, key |-> AtRest.key, copy |-> NoRecord]
  /\ wire = [k \in OpKeys |-> <<>>]
  /\ executed = [k \in OpKeys |-> <<>>]
  /\ spent = [l \in DOMAIN OpLimits |-> 0]

-----------------------------------------------------------------------------
OpSpend(l) == spent[l] < OpLimits[l] /\ spent' = [spent EXCEPT ![l] = @ + 1]

On(c, p) == call[c].at = p
Goto(c, p) == call' = [call EXCEPT ![c].at = p]
Return(c) == call' = [call EXCEPT ![c] = AtRest]
KeyOf(c) == call[c].key
MethodOf(c) == method[KeyOf(c)]

(* One key names one request, in the record and among the calls in flight. *)
Conflicts(k, r) ==
  \/ (record[k].stage # "absent" /\ record[k].request # r)
  \/ \E c \in Sharers(k) : call[c].request # r

(* A refused call changes nothing and is left out.                         *)
Enter(c, k, r) ==
  /\ On(c, "idle") /\ ~Conflicts(k, r)
  /\ call' = [call EXCEPT ![c] = [at |-> "waiting", key |-> k, request |-> r, copy |-> NoRecord]]
  /\ UNCHANGED <<method, local, sweep, backend, spent>>

(* Under the lock the record is read again.  Without one, or with one that *)
(* proves nothing was sent, the call may dispatch; the proof of a rejected *)
(* start is consumed on disk first.  The mutant forgets the lock.          *)
AcquireAtOnce(c) == On(c, "waiting") /\ ~record[KeyOf(c)].expired
                    /\ record[KeyOf(c)].request \in {NoRequest, call[c].request}

Acquire(c) == On(c, "waiting") /\ Holder(KeyOf(c)) = {} /\ ~record[KeyOf(c)].expired
              /\ record[KeyOf(c)].request \in {NoRequest, call[c].request}

Unsent(c) ==
  LET r == record[KeyOf(c)] IN
    \/ r.stage \in {"absent", "not_dispatched"}
    \/ (r.stage = "rejected" /\ MethodOf(c) = "start")

Claim(c) ==
  LET fresh == [NoRecord EXCEPT !.stage = "not_dispatched", !.request = call[c].request] IN
    /\ Acquire(c) /\ Unsent(c)
    /\ record' = [record EXCEPT ![KeyOf(c)] = fresh]
    /\ call' = [call EXCEPT ![c].at = "dispatch", ![c].copy = fresh]
    /\ UNCHANGED <<method, journal, sweep, backend, spent>>

(* Otherwise the outcome is read: the receipt of the backend, the result   *)
(* in the record, or what the patch journal says.  No rule, no answer; the *)
(* mutant has the local rules only.                                        *)
AlwaysByReceipt == {"start", "persona"}

ObservedLocally(c) ==
  CASE record[KeyOf(c)].result -> "complete"
    [] MethodOf(c) = "patch" /\ journal[KeyOf(c)] = "acknowledged" -> "complete"
    [] OTHER -> "idle"

ObservedAt(c) ==
  CASE MethodOf(c) \in AlwaysByReceipt -> "receipt"
    [] record[KeyOf(c)].result -> "complete"
    [] MethodOf(c) = "receipt" -> "receipt"
    [] MethodOf(c) = "patch" /\ journal[KeyOf(c)] = "submitted" -> "receipt"
    [] MethodOf(c) = "patch" /\ journal[KeyOf(c)] = "acknowledged" -> "complete"
    [] OTHER -> "idle"

Observe(c) ==
  /\ Acquire(c) /\ ~Unsent(c)
  /\ IF ObservedAt(c) = "idle" THEN Return(c)
     ELSE call' = [call EXCEPT ![c].at = ObservedAt(c), ![c].copy = record[KeyOf(c)]]
  /\ UNCHANGED <<method, local, sweep, backend, spent>>

Refuse(c) ==
  /\ On(c, "waiting") /\ Holder(KeyOf(c)) = {} /\ ~Acquire(c)
  /\ Return(c)
  /\ UNCHANGED <<method, local, sweep, backend, spent>>

-----------------------------------------------------------------------------
(* Mutant: the uncertainty is noted in memory only.                        *)
MarkInMemory(c) ==
  /\ On(c, "dispatch")
  /\ call' = [call EXCEPT ![c].at = "handle", ![c].copy.stage = "dispatch_uncertain"]
  /\ UNCHANGED <<method, local, sweep, backend, spent>>

(* The uncertainty is durable before the handler runs.                     *)
MarkDispatch(c) ==
  LET marked == [call[c].copy EXCEPT !.stage = "dispatch_uncertain"] IN
    /\ On(c, "dispatch")
    /\ record' = [record EXCEPT ![KeyOf(c)] = marked]
    /\ call' = [call EXCEPT ![c].at = "handle", ![c].copy = marked]
    /\ UNCHANGED <<method, journal, sweep, backend, spent>>

WriteBack(c, s) == record' = [record EXCEPT ![KeyOf(c)] = [call[c].copy EXCEPT !.stage = s]]

(* The grant is checked before prepare sends, and again on the answer: a   *)
(* denial takes the uncertainty back, either time.                         *)
Deny(c) ==
  /\ MethodOf(c) = "prepare" /\ call[c].copy.stage = "dispatch_uncertain"
  /\ On(c, "handle") \/ On(c, "complete")
  /\ OpSpend("denials")
  /\ WriteBack(c, "not_dispatched") /\ Return(c)
  /\ UNCHANGED <<method, journal, sweep, backend>>

(* A patch reads and validates the draft first, which may fail, and writes *)
(* its journal before it sends.                                            *)
SubmitPatch(c) ==
  /\ On(c, "handle") /\ MethodOf(c) = "patch" /\ journal[KeyOf(c)] = "absent"
  /\ \/ journal' = [journal EXCEPT ![KeyOf(c)] = "submitted"] /\ Goto(c, "send")
     \/ journal' = journal /\ Return(c)
  /\ UNCHANGED <<method, record, sweep, backend, spent>>

Send(c) ==
  /\ On(c, "send") \/ (On(c, "handle") /\ MethodOf(c) # "patch")
  /\ wire' = [wire EXCEPT ![KeyOf(c)] = Append(@, call[c].request)]
  /\ Goto(c, "answer")
  /\ UNCHANGED <<method, local, sweep, executed, spent>>

Executed(k, r) == Contains(executed[k], r)

(* The answer, or the receipt of the same request under the same key.      *)
Learn(c) ==
  /\ On(c, "answer") \/ On(c, "receipt")
  /\ Executed(KeyOf(c), call[c].request)
  /\ Goto(c, IF MethodOf(c) = "patch" THEN "acknowledge" ELSE "complete")
  /\ UNCHANGED <<method, local, sweep, backend, spent>>

Acknowledge(c) ==
  /\ On(c, "acknowledge")
  /\ journal' = [journal EXCEPT ![KeyOf(c)] = "acknowledged"]
  /\ Goto(c, "complete")
  /\ UNCHANGED <<method, record, sweep, backend, spent>>

(* A receipt that does not name a completed operation settles nothing.     *)
NoReceipt(c) ==
  /\ On(c, "receipt") /\ ~Executed(KeyOf(c), call[c].request)
  /\ Return(c)
  /\ UNCHANGED <<method, local, sweep, backend, spent>>

(* A definite rejection.  Only a start rejected before its execution, and  *)
(* a patch with a permanent client error, keep the rejection.              *)
Rejected(c) ==
  \E i \in DOMAIN wire[KeyOf(c)] :
    /\ On(c, "answer") /\ wire[KeyOf(c)][i] = call[c].request
    /\ wire' = [wire EXCEPT ![KeyOf(c)] = RemoveAt(@, i)]
    /\ \/ MethodOf(c) = "start" /\ WriteBack(c, "rejected") /\ journal' = journal
       \/ /\ MethodOf(c) = "patch" /\ record' = record
          /\ journal' = [journal EXCEPT ![KeyOf(c)] = "rejected"]
       \/ UNCHANGED local
    /\ Return(c)
    /\ UNCHANGED <<method, sweep, executed, spent>>

(* A lost answer or receipt, an account that changed meanwhile, an answer  *)
(* that fails its checks: the call fails and the record stays.             *)
GiveUp(c) ==
  /\ call[c].at \in {"answer", "receipt", "acknowledge", "complete"} /\ OpSpend("losses")
  /\ Return(c)
  /\ UNCHANGED <<method, local, sweep, backend>>

(* The record the call read is completed and written whole.                *)
Complete(c) ==
  /\ On(c, "complete")
  /\ record' = [record EXCEPT ![KeyOf(c)] =
                  [call[c].copy EXCEPT !.stage = "accepted", !.result = TRUE]]
  /\ Return(c)
  /\ UNCHANGED <<method, journal, sweep, backend, spent>>

-----------------------------------------------------------------------------
(* Retention, after thirty days or for a deleted run: a result is replaced *)
(* by a tombstone, in a read and a write of its own.                       *)
ExpiryRead(k) ==
  /\ ~sweep.on /\ record[k].result /\ OpSpend("expiries")
  /\ sweep' = [on |-> TRUE, key |-> k, copy |-> record[k]]
  /\ UNCHANGED <<method, local, call, backend>>

ExpiryWrite ==
  /\ sweep.on /\ sweep' = [sweep EXCEPT !.on = FALSE]
  /\ record' = [record EXCEPT ![sweep.key] =
                  [sweep.copy EXCEPT !.result = FALSE, !.expired = TRUE]]
  /\ UNCHANGED <<method, journal, call, backend, spent>>

(* The backend executes what reaches it, with or without the caller; the   *)
(* network may lose it.                                                    *)
Deliver(k) ==
  \E i \in DOMAIN wire[k] :
    /\ wire' = [wire EXCEPT ![k] = RemoveAt(@, i)]
    /\ \/ executed' = [executed EXCEPT ![k] = Append(@, wire[k][i])] /\ UNCHANGED spent
       \/ OpSpend("losses") /\ UNCHANGED executed
    /\ UNCHANGED <<method, local, call, sweep>>

OpCrash ==
  /\ OpSpend("crashes")
  /\ call' = [c \in Callers |-> AtRest] /\ sweep' = [sweep EXCEPT !.on = FALSE]
  /\ UNCHANGED <<method, local, backend>>

-----------------------------------------------------------------------------
Granted(c) == Claim(c) \/ Observe(c) \/ Refuse(c)

Onward(c) ==
  \/ MarkDispatch(c) \/ SubmitPatch(c) \/ Send(c) \/ Learn(c) \/ Acknowledge(c)
  \/ NoReceipt(c) \/ Rejected(c) \/ GiveUp(c) \/ Complete(c)

OpNext ==
  \/ \E c \in Callers : \/ Granted(c) \/ Onward(c) \/ Deny(c)
                       \/ \E k \in OpKeys, r \in Requests : Enter(c, k, r)
  \/ \E k \in OpKeys : ExpiryRead(k) \/ Deliver(k)
  \/ ExpiryWrite \/ OpCrash

Repeat(k) == record[k].stage # "absent" /\ \E c \in Callers : Enter(c, k, record[k].request)

OpSpec == OpInit /\ [][OpNext]_opVars

(* A dispatch that started runs to its end, whoever disconnects; the lock  *)
(* is handed on in arrival order; and a client that has no answer repeats  *)
(* its call under the same key.                                            *)
OpFairness ==
  /\ \A c \in Callers : WF_opVars(Onward(c)) /\ SF_opVars(Granted(c))
  /\ \A k \in OpKeys : WF_opVars(Repeat(k))

OpFairSpec == OpSpec /\ OpFairness

-----------------------------------------------------------------------------
(* A record that lets its key be sent is the proof that nothing was sent   *)
(* or that the backend refused it ("A pending observation never grants     *)
(* replay").                                                               *)
Replayable(k) == record[k].stage \in {"absent", "not_dispatched", "rejected"}

ReplayableUnsent(k) == Replayable(k) => wire[k] = <<>> /\ executed[k] = <<>>

(* One key has one effect, whatever is repeated, lost, rejected, expired   *)
(* or interrupted by a crash; its record names the request that was        *)
(* executed; and a result was cached, or a tombstone left, only for one    *)
(* that was.  Prepare is excepted: see PrepareReplayable.                  *)
KeyHonoured ==
  \A k \in OpKeys :
    /\ method[k] # "prepare" => Len(wire[k]) + Len(executed[k]) <= 1 /\ ReplayableUnsent(k)
    /\ \A r \in Requests : Executed(k, r) => record[k].request = r
    /\ record[k].result \/ record[k].expired => executed[k] # <<>>

(* The record of prepare, likewise: "runs.prepare checks this local grant  *)
(* before fingerprinting or backend transport".                            *)
PrepareReplayable == \A k \in OpKeys : method[k] = "prepare" => ReplayableUnsent(k)

(* A tombstone stays: "Cached operation results expire after 30 days but   *)
(* retain an `expired` tombstone, so an old mutation key cannot replay"    *)
(* (architecture.md:155).                                                  *)
TombstonesStay == [][\A k \in OpKeys : record[k].expired => record'[k].expired]_opVars

(* Where the backend or a journal can tell the outcome, an executed        *)
(* request ends as a result, for a client that keeps asking.               *)
OutcomeSurfaces ==
  \A k \in OpKeys :
    method[k] \notin {"prepare", "plain"} /\ executed[k] # <<>>
      ~> record[k].result \/ record[k].expired
=============================================================================
