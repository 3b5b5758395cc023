---------------------------- MODULE PreparedStart ----------------------------
(***************************************************************************)
(* One sealed run preparation and everything that may start it:  direct    *)
(* runs.commit calls, each a key of the control operation cache, and       *)
(* owner-approved start handoffs (issue, approve, commit, get).  The       *)
(* preparation file, the handoff files and the cache records survive a     *)
(* crash;  the locks and the suspended calls do not.                       *)
(*                                                                         *)
(* A handoff is named by its issue key, which is also the key its commit   *)
(* sends.  Calls on one handoff serialise on its own lock and calls with   *)
(* one direct key on that key's singleflight lock, so each key has one     *)
(* thread of control here.                                                 *)
(***************************************************************************)
EXTENDS Naturals, FiniteSets

CONSTANTS Direct,       \* idempotency keys of direct runs.commit calls
          Handoffs,     \* issue keys of start handoffs
          NoKey,        \* the absent key
          Calls,        \* bound: how often each direct key is called
          MaxCrashes,   \* bound: daemon crashes
          MaxLosses     \* bound: answers and receipt lookups that fail

ASSUME KeysAssumption == Direct \cap Handoffs = {} /\ NoKey \notin Direct \cup Handoffs
ASSUME BoundsAssumption == Calls \in Nat /\ MaxCrashes \in Nat /\ MaxLosses \in Nat

Keys == Direct \cup Handoffs

VARIABLES
  prep,       \* preparations/<id>.json: authorized key, rejection mark, result
  stale,      \* the review stale, or a workspace or provider differs now
  handoff,    \* start-handoffs/<ref>.json: the lifecycle of each handoff
  cache,      \* operations/<key>.json: the stage of each direct key
  lock,       \* holder of the preparation's reservation lock
  pc,         \* where each key's call is suspended
  copy,       \* the preparation record as the call last read or wrote it
  sent,       \* commits handed to the network and not proven rejected
  accepted,   \* commits the backend turned into an execution
  raced,      \* history: a repeated call and another key passed the recheck together
  calls, crashes, losses

vars == <<prep, stale, handoff, cache, lock, pc, copy, sent, accepted, raced,
          calls, crashes, losses>>

Preparation == [auth : Keys \cup {NoKey}, rejected : BOOLEAN, result : Keys \cup {NoKey}]
Lifecycle == {"absent", "prepared", "approved", "committing", "ambiguous",
              "committed", "expired"}
Stage == {"absent", "not_dispatched", "dispatch_uncertain", "accepted"}
Point == {"idle", "issue", "approve", "consume", "dispatch", "enter", "read",
          "recheck", "authorize", "send", "wait", "reject", "result",
          "ok", "refused", "failed", "reconcile", "restore"}

Sealed == [auth |-> NoKey, rejected |-> FALSE, result |-> NoKey]

TypeOK ==
  /\ prep \in Preparation /\ stale \in BOOLEAN
  /\ handoff \in [Handoffs -> Lifecycle] /\ cache \in [Direct -> Stage]
  /\ lock \in Keys \cup {NoKey}
  /\ pc \in [Keys -> Point] /\ copy \in [Keys -> Preparation]
  /\ sent \subseteq Keys /\ accepted \subseteq sent /\ raced \in BOOLEAN
  /\ calls \in [Direct -> 0 .. Calls]
  /\ crashes \in 0 .. MaxCrashes /\ losses \in 0 .. MaxLosses

Init ==
  /\ prep = Sealed /\ stale = FALSE
  /\ handoff = [h \in Handoffs |-> "absent"]
  /\ cache = [k \in Direct |-> "absent"]
  /\ lock = NoKey
  /\ pc = [k \in Keys |-> "idle"] /\ copy = [k \in Keys |-> Sealed]
  /\ sent = {} /\ accepted = {} /\ raced = FALSE
  /\ calls = [k \in Direct |-> 0] /\ crashes = 0 /\ losses = 0

-----------------------------------------------------------------------------
(* Mutant: any authorization without a result may be tried again.          *)
Unanswered(record, k) == record.auth = k /\ record.result = NoKey

(* The authorized key may try again: the backend proved it had no effect.  *)
RejectedFor(record, k) ==
  record.auth = k /\ record.rejected /\ record.result = NoKey

(* preparation_get answers "valid".                                        *)
Usable(record) ==
  ~stale /\ (record.auth = NoKey \/ RejectedFor(record, record.auth))

(* find_reserved_start_handoff finds one.                                  *)
Reserved == \E h \in Handoffs : handoff[h] \in {"prepared", "approved", "committing"}

(* other_active_start_handoff.                                             *)
OtherActive(h) == \E g \in Handoffs \ {h} : handoff[g] \in {"approved", "committing"}

At(k, point) == pc[k] = point
Go(k, point) == pc' = [pc EXCEPT ![k] = point]
Free == lock = NoKey
Release(k) == lock' = IF lock = k THEN NoKey ELSE lock
Enter(h, point) == At(h, "idle") /\ Free /\ Go(h, point) /\ lock' = h
Leave(h) == Go(h, "idle") /\ Release(h)
Become(h, state) == handoff' = [handoff EXCEPT ![h] = state]

counters == <<raced, calls, crashes, losses>>
network == <<sent, accepted>>

-----------------------------------------------------------------------------
(* Handoffs: issue, approve, and the entry of their commit.                *)

IssueStart(h) ==
  /\ handoff[h] = "absent" /\ Usable(prep) /\ ~Reserved
  /\ Enter(h, "issue")
  /\ UNCHANGED <<prep, stale, handoff, cache, copy, network, counters>>

IssueWrite(h) ==
  /\ At(h, "issue")
  /\ Become(h, "prepared") /\ Leave(h)
  /\ UNCHANGED <<prep, stale, cache, copy, network, counters>>

ExpireHandoff(h) ==
  /\ At(h, "idle") /\ Free /\ handoff[h] \in {"prepared", "approved"}
  /\ ~OtherActive(h) /\ ~Usable(prep)
  /\ Become(h, "expired")
  /\ UNCHANGED <<prep, stale, cache, lock, pc, copy, network, counters>>

ApproveReview(h) ==
  /\ handoff[h] = "prepared" /\ ~OtherActive(h) /\ Usable(prep)
  /\ Enter(h, "approve")
  /\ UNCHANGED <<prep, stale, handoff, cache, copy, network, counters>>

ApproveWrite(h) ==
  /\ At(h, "approve")
  /\ Become(h, "approved") /\ Leave(h)
  /\ UNCHANGED <<prep, stale, cache, copy, network, counters>>

ConsumeReview(h) ==
  /\ handoff[h] = "approved" /\ ~OtherActive(h) /\ Usable(prep)
  /\ Enter(h, "consume")
  /\ UNCHANGED <<prep, stale, handoff, cache, copy, network, counters>>

ConsumeWrite(h) ==
  /\ At(h, "consume")
  /\ Become(h, "committing") /\ Go(h, "read")
  /\ UNCHANGED <<prep, stale, cache, lock, copy, network, counters>>

-----------------------------------------------------------------------------
(* Direct commits: the operation cache around them.                        *)

Call(k) ==
  /\ At(k, "idle") /\ calls[k] < Calls
  /\ calls' = [calls EXCEPT ![k] = @ + 1]
  /\ \/ /\ cache[k] \in {"absent", "not_dispatched"}
        /\ cache' = [cache EXCEPT ![k] = "not_dispatched"]
        /\ Go(k, "dispatch")
     \/ /\ cache[k] = "dispatch_uncertain"     \* replay goes straight to commit
        /\ Go(k, "read") /\ UNCHANGED cache
     \/ /\ cache[k] = "accepted"               \* the cached answer is returned
        /\ UNCHANGED <<cache, pc>>
  /\ UNCHANGED <<prep, stale, handoff, lock, copy, network, raced, crashes, losses>>

MarkUncertain(k) ==
  /\ At(k, "dispatch")
  /\ cache' = [cache EXCEPT ![k] = "dispatch_uncertain"]
  /\ Go(k, "enter")
  /\ UNCHANGED <<prep, stale, handoff, lock, copy, network, counters>>

(* Mutant: a direct commit does not take the reservation lock.             *)
EnterUnlocked(k) ==
  /\ At(k, "enter") /\ ~Reserved /\ Go(k, "read")
  /\ UNCHANGED <<prep, stale, handoff, cache, lock, copy, network, counters>>

(* Mutant: a direct commit takes the lock and looks for no handoff.        *)
EnterUnchecked(k) ==
  /\ At(k, "enter") /\ Free /\ Go(k, "read") /\ lock' = k
  /\ UNCHANGED <<prep, stale, handoff, cache, copy, network, counters>>

EnterReservation(k) ==
  /\ At(k, "enter") /\ Free
  /\ IF Reserved THEN Go(k, "idle") /\ UNCHANGED lock
                 ELSE Go(k, "read") /\ lock' = k
  /\ UNCHANGED <<prep, stale, handoff, cache, copy, network, counters>>

FinishDirect(k) ==
  /\ pc[k] \in {"ok", "refused", "failed"}
  /\ \/ At(k, "ok") /\ cache' = [cache EXCEPT ![k] = "accepted"]
     \/ UNCHANGED cache            \* also when the follow-up of an "ok" fails
  /\ Leave(k)
  /\ UNCHANGED <<prep, stale, handoff, copy, network, counters>>

-----------------------------------------------------------------------------
(* commit(): shared by direct calls, their replays and handoffs.           *)

(* Mutant: a rejection of one key lets every key try.                      *)
CommitReadAnyKey(k) ==
  /\ At(k, "read")
  /\ copy' = [copy EXCEPT ![k] = prep]
  /\ Go(k, IF prep.auth = k /\ prep.result # NoKey THEN "ok"
           ELSE IF prep.auth # NoKey /\ ~RejectedFor(prep, prep.auth) THEN "failed"
           ELSE "recheck")
  /\ UNCHANGED <<prep, stale, handoff, cache, lock, network, counters>>

CommitRead(k) ==
  /\ At(k, "read")
  /\ copy' = [copy EXCEPT ![k] = prep]
  /\ \/ Go(k, IF prep.auth = k /\ prep.result # NoKey THEN "ok"
              ELSE IF prep.auth # NoKey /\ ~RejectedFor(prep, k) THEN "failed"
              ELSE "recheck")
     \/ ~(prep.auth = k /\ prep.result # NoKey) /\ Go(k, "failed")
  /\ UNCHANGED <<prep, stale, handoff, cache, lock, network, counters>>

CommitRecheck(k) ==
  /\ At(k, "recheck")
  /\ Go(k, IF prep = copy[k] /\ ~stale THEN "authorize" ELSE "failed")
  /\ UNCHANGED <<prep, stale, handoff, cache, lock, copy, network, counters>>

(* Another commit has passed its recheck too, and one of the two is a      *)
(* repeated call, which may be a replay outside the lock.                  *)
Racing(k) ==
  \E j \in Keys \ {k} : At(j, "authorize") /\ \E d \in {j, k} \cap Direct : calls[d] > 1

CommitAuthorize(k) ==
  /\ At(k, "authorize")
  /\ prep' = [copy[k] EXCEPT !.auth = k, !.rejected = FALSE]
  /\ copy' = [copy EXCEPT ![k] = prep']
  /\ Go(k, "send")
  /\ raced' = (raced \/ Racing(k))
  /\ UNCHANGED <<stale, handoff, cache, lock, network, calls, crashes, losses>>

CommitSend(k) ==
  /\ At(k, "send")
  /\ sent' = sent \cup {k} /\ Go(k, "wait")
  /\ UNCHANGED <<prep, stale, handoff, cache, lock, copy, accepted, counters>>

(* Mutant: a lost answer is recorded as a rejection without effect.        *)
LossRejects(k) ==
  /\ At(k, "wait")
  /\ IF k \in accepted /\ losses = MaxLosses
       THEN Go(k, "result") /\ UNCHANGED <<sent, losses>>
       ELSE /\ sent' = sent \ {k} /\ Go(k, "reject")
            /\ losses' = IF k \in accepted THEN losses + 1 ELSE losses
  /\ UNCHANGED <<prep, stale, handoff, cache, lock, copy, accepted, raced, calls, crashes>>

CommitAnswer(k) ==
  /\ At(k, "wait")
  /\ \/ k \in accepted /\ Go(k, "result") /\ UNCHANGED <<sent, losses>>
     \/ k \notin accepted /\ sent' = sent \ {k} /\ Go(k, "reject") /\ UNCHANGED losses
     \/ losses < MaxLosses /\ losses' = losses + 1 /\ Go(k, "failed") /\ UNCHANGED sent
  /\ UNCHANGED <<prep, stale, handoff, cache, lock, copy, accepted, raced, calls, crashes>>

CommitRejection(k) ==
  /\ At(k, "reject")
  /\ prep' = [copy[k] EXCEPT !.rejected = TRUE]
  /\ Go(k, "refused")
  /\ UNCHANGED <<stale, handoff, cache, lock, copy, network, counters>>

CommitResult(k) ==
  /\ At(k, "result")
  /\ prep' = [copy[k] EXCEPT !.result = k]
  /\ Go(k, "ok")
  /\ UNCHANGED <<stale, handoff, cache, lock, copy, network, counters>>

-----------------------------------------------------------------------------
(* Handoffs: what follows their commit, and the reconciling read.          *)

HandoffCommitted(h) ==
  /\ At(h, "ok")
  /\ Become(h, "committed") /\ Leave(h)
  /\ UNCHANGED <<prep, stale, cache, copy, network, counters>>

HandoffRestored(h) ==
  /\ pc[h] \in {"refused", "reconcile"} /\ RejectedFor(prep, h)
  /\ Become(h, "approved") /\ Leave(h)
  /\ UNCHANGED <<prep, stale, cache, copy, network, counters>>

HandoffAmbiguous(h) ==
  /\ At(h, "failed") \/ (At(h, "refused") /\ ~RejectedFor(prep, h))
  /\ Become(h, "ambiguous") /\ Go(h, "reconcile")
  /\ UNCHANGED <<prep, stale, cache, lock, copy, network, counters>>

(* Mutant: a handoff left "committing" by a crash is only read.            *)
GetAmbiguous(h) ==
  /\ handoff[h] = "ambiguous" /\ Enter(h, "reconcile")
  /\ UNCHANGED <<prep, stale, handoff, cache, copy, network, counters>>

GetHandoff(h) ==
  /\ handoff[h] \in {"committing", "ambiguous"}
  /\ Enter(h, "reconcile")
  /\ UNCHANGED <<prep, stale, handoff, cache, copy, network, counters>>

(* The backend's receipt for the original key completes the record.        *)
ReconcileFound(h) ==
  /\ At(h, "reconcile") /\ ~RejectedFor(prep, h) /\ h \in accepted
  /\ IF prep.auth = h
       THEN prep' = [prep EXCEPT !.result = h] /\ Go(h, "restore") /\ UNCHANGED lock
       ELSE Leave(h) /\ UNCHANGED prep
  /\ UNCHANGED <<stale, handoff, cache, copy, network, counters>>

(* not_found, pending, or no answer: observation only, never a new start.  *)
ReconcileUnknown(h) ==
  /\ At(h, "reconcile") /\ ~RejectedFor(prep, h)
  /\ \/ h \notin accepted /\ UNCHANGED losses
     \/ losses < MaxLosses /\ losses' = losses + 1
  /\ Become(h, "ambiguous") /\ Leave(h)
  /\ UNCHANGED <<prep, stale, cache, copy, network, raced, calls, crashes>>

ReconcileWrite(h) ==
  /\ At(h, "restore")
  /\ Become(h, "committed") /\ Leave(h)
  /\ UNCHANGED <<prep, stale, cache, copy, network, counters>>

-----------------------------------------------------------------------------
(* The environment.                                                        *)

BackendAccepts(k) ==
  /\ k \in sent \ accepted
  /\ accepted' = accepted \cup {k}
  /\ UNCHANGED <<prep, stale, handoff, cache, lock, pc, copy, sent, counters>>

EnvironmentChanges ==
  /\ stale' = ~stale
  /\ UNCHANGED <<prep, handoff, cache, lock, pc, copy, network, counters>>

Crash ==
  /\ crashes < MaxCrashes /\ crashes' = crashes + 1
  /\ pc' = [k \in Keys |-> "idle"] /\ lock' = NoKey
  /\ copy' = [k \in Keys |-> Sealed]
  /\ UNCHANGED <<prep, stale, handoff, cache, network, raced, calls, losses>>

-----------------------------------------------------------------------------
Commit(k) ==
  \/ CommitRead(k) \/ CommitRecheck(k) \/ CommitAuthorize(k) \/ CommitSend(k)
  \/ CommitAnswer(k) \/ CommitRejection(k) \/ CommitResult(k)

DirectStep(k) == MarkUncertain(k) \/ EnterReservation(k) \/ FinishDirect(k)

HandoffStep(h) ==
  \/ IssueWrite(h) \/ ApproveWrite(h) \/ ConsumeWrite(h)
  \/ HandoffCommitted(h) \/ HandoffRestored(h) \/ HandoffAmbiguous(h)
  \/ ReconcileFound(h) \/ ReconcileUnknown(h) \/ ReconcileWrite(h)

Request(h) ==
  \/ IssueStart(h) \/ ExpireHandoff(h) \/ ApproveReview(h) \/ ConsumeReview(h)
  \/ GetHandoff(h)

Next ==
  \/ \E k \in Keys : Commit(k) \/ BackendAccepts(k)
  \/ \E k \in Direct : Call(k) \/ DirectStep(k)
  \/ \E h \in Handoffs : HandoffStep(h) \/ Request(h)
  \/ EnvironmentChanges \/ Crash

Spec == Init /\ [][Next]_vars

(* The daemon runs every suspended call on, its HTTP calls end by their    *)
(* timeout, the lock is granted in arrival order, and the reader of an     *)
(* uncertain handoff keeps reading it, as docs/operations.md asks.         *)
Fairness ==
  /\ \A k \in Keys : WF_vars(Commit(k))
  /\ \A k \in Direct : SF_vars(DirectStep(k))
  /\ \A h \in Handoffs : WF_vars(HandoffStep(h)) /\ SF_vars(GetHandoff(h))

FairSpec == Spec /\ Fairness

-----------------------------------------------------------------------------
(* Once a key is authorized on the preparation no other key replaces it,   *)
(* whatever is repeated, replayed, rejected or reconciled: commit() reads  *)
(* the record again before it consumes it.  The one exception is a race:   *)
(* a repeated call and another key both pass that check before either has  *)
(* written, for a replay holds no lock (run start_replay).                 *)
AuthorizationKept == [][prep.auth # NoKey => prep'.auth = prep.auth \/ raced']_vars

(* commit: "An uncached or uncertain operation cannot replace a consumed   *)
(* authorization", without the exception.                                  *)
AuthorizationFinal == [][prep.auth # NoKey => prep'.auth = prep.auth]_vars

(* At most one key's commit is ever on its way to an execution: a second   *)
(* key is never sent while a first may still start the run.  Who says the  *)
(* run was started is right, and the durable preparation says the same: a  *)
(* committed handoff, and a direct key whose answer is cached.  Repeated   *)
(* calls and replays included, that race excepted.                         *)
OneStart ==
  raced \/
    /\ Cardinality(sent) <= 1
    /\ \A h \in Handoffs : handoff[h] = "committed" => h \in accepted /\ prep.result = h
    /\ \A k \in Direct : cache[k] = "accepted" => k \in accepted /\ prep.result = k

(* A key is sent again only after the backend proved its last attempt had  *)
(* no effect; a crash, a lost answer or a retry proves nothing ("A lost    *)
(* response never removes this grant").                                    *)
NoBlindResend == \A k \in Keys : At(k, "send") => k \notin sent

(* A direct commit that entered under the reservation lock is sent while   *)
(* no handoff holds the preparation: none appears between the look and the *)
(* send, also when a replay of the other key, a crash or an expiry comes   *)
(* between.                                                                *)
ReservationHeld ==
  [][\A k \in Direct : k \in sent' \ sent /\ lock = k => ~Reserved]_vars

(* The same of every direct commit (handle: "Direct run commits and        *)
(* handoff commits share the same sealed preparation reservation").        *)
ReservationKept == [][\A k \in Direct : k \in sent' \ sent => ~Reserved]_vars

(* A handoff that can be committed (again) has no execution and no commit  *)
(* that could still become one, in spite of crashes, lost answers and      *)
(* restored rejections.                                                    *)
ApprovedMeansUnsent ==
  \A h \in Handoffs : handoff[h] = "approved" => h \notin sent

(* An execution the backend created for a handoff is eventually shown as   *)
(* that handoff's, after any crash, lost answer or repeated call, that     *)
(* race excepted.                                                          *)
AcceptedStartSurfaces ==
  \A h \in Handoffs : h \in accepted ~> handoff[h] = "committed" \/ raced
=============================================================================
