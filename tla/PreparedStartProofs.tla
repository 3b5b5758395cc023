------------------------- MODULE PreparedStartProofs -------------------------
(***************************************************************************)
(* For any number of direct keys, handoffs, calls, crashes and losses: no  *)
(* start is sent again without a proof that its last attempt had no        *)
(* effect, and a handoff that may be committed was never sent.  Neither    *)
(* rests on the reservation lock, which the replay of a direct commit does *)
(* not take;  both rest on the authorization in the preparation record.    *)
(* One key at most is on its way to an execution as long as no repeated    *)
(* call and another key pass the recheck together:  the lock excludes that *)
(* for handoffs and first calls, and the recheck for all but that instant. *)
(***************************************************************************)
EXTENDS PreparedStart, FiniteSetTheorems, TLAPS

\* What was or is about to be sent is consumed by the preparation on disk.
SentConsumes(k) ==
  k \in sent \/ pc[k] = "send" => prep.auth # NoKey /\ ~RejectedFor(prep, k)

\* What a call inside commit() has established so far.
PointAgrees(k) ==
  /\ pc[k] = "recheck" => copy[k].auth = NoKey \/ RejectedFor(copy[k], k)
  /\ pc[k] \in {"authorize", "send", "reject"} => k \notin sent
  /\ pc[k] \in {"send", "wait", "reject", "result"} => copy[k].auth = k

\* A handoff's lifecycle on disk bounds where its call can be.
LifecycleAgrees(h) ==
  /\ handoff[h] \in {"absent", "prepared", "approved"} => h \notin sent
  /\ pc[h] = "issue" => handoff[h] = "absent"
  /\ pc[h] = "approve" => handoff[h] = "prepared"
  /\ pc[h] = "consume" => handoff[h] = "approved"
  /\ pc[h] \notin {"idle", "issue", "approve", "consume"}
       => handoff[h] \in {"committing", "ambiguous"}

KeyInv(k) ==
  SentConsumes(k) /\ PointAgrees(k) /\ (k \in Handoffs => LifecycleAgrees(k))

RetryInv == TypeOK /\ \A k \in Keys : KeyInv(k)

-----------------------------------------------------------------------------
\* The sealed preparation, and the record each write of commit() leaves.
LEMMA Records ==
    /\ Sealed \in Preparation
    /\ \A r \in Preparation, k \in Keys :
         /\ [r EXCEPT !.auth = k, !.rejected = FALSE] \in Preparation
         /\ [r EXCEPT !.rejected = TRUE] \in Preparation
         /\ [r EXCEPT !.result = k] \in Preparation
BY DEF Sealed, Preparation

\* The type invariant holds at first.
LEMMA InitType == Init => TypeOK
<1> SUFFICES ASSUME Init PROVE TypeOK
  OBVIOUS
<1>1. prep \in Preparation /\ copy \in [Keys -> Preparation]
  BY Records DEF Init
<1>2. /\ handoff \in [Handoffs -> Lifecycle] /\ cache \in [Direct -> Stage]
      /\ pc \in [Keys -> Point]
  BY DEF Init, Lifecycle, Stage, Point
<1>3. /\ calls \in [Direct -> 0 .. Calls]
      /\ crashes \in 0 .. MaxCrashes /\ losses \in 0 .. MaxLosses
  BY BoundsAssumption DEF Init
<1> QED
  BY <1>1, <1>2, <1>3 DEF Init, TypeOK

\* A step of commit() keeps it.
LEMMA CommitType == ASSUME TypeOK, NEW k \in Keys, Commit(k) PROVE TypeOK'
<1> USE DEF TypeOK, Go, At, network, counters
<1>1. CASE CommitRead(k)
  BY <1>1 DEF CommitRead, Point
<1>2. CASE CommitRecheck(k)
  BY <1>2 DEF CommitRecheck, Point
<1>3. CASE CommitAuthorize(k)
  <2>1. raced' \in BOOLEAN
    BY <1>3 DEF CommitAuthorize
  <2> QED
    BY <1>3, <2>1, Records DEF CommitAuthorize, Point
<1>4. CASE CommitSend(k)
  BY <1>4 DEF CommitSend, Point
<1>5. CASE CommitAnswer(k)
  BY <1>5, BoundsAssumption DEF CommitAnswer, Point
<1>6. CASE CommitRejection(k)
  BY <1>6, Records DEF CommitRejection, Point
<1>7. CASE CommitResult(k)
  BY <1>7, Records DEF CommitResult, Point
<1> QED
  BY <1>1, <1>2, <1>3, <1>4, <1>5, <1>6, <1>7 DEF Commit

\* A step of a direct call keeps it.
LEMMA DirectType ==
    ASSUME TypeOK, NEW k \in Direct, Call(k) \/ DirectStep(k) PROVE TypeOK'
<1> USE DEF TypeOK, Go, At, Leave, Release, network, counters, Keys
<1>1. CASE Call(k)
  BY <1>1, BoundsAssumption DEF Call, Point, Stage
<1>2. CASE MarkUncertain(k)
  BY <1>2 DEF MarkUncertain, Point, Stage
<1>3. CASE EnterReservation(k)
  BY <1>3 DEF EnterReservation, Point
<1>4. CASE FinishDirect(k)
  BY <1>4 DEF FinishDirect, Point, Stage
<1> QED
  BY <1>1, <1>2, <1>3, <1>4 DEF DirectStep

\* A step of a handoff keeps it.
LEMMA HandoffType ==
    ASSUME TypeOK, NEW h \in Handoffs, HandoffStep(h) \/ Request(h) PROVE TypeOK'
<1> USE DEF TypeOK, Go, At, Enter, Leave, Release, Become, network, counters, Keys
<1>1. CASE Request(h)
  BY <1>1 DEF Request, IssueStart, ExpireHandoff, ApproveReview, ConsumeReview,
              GetHandoff, Point, Lifecycle
<1>2. CASE IssueWrite(h) \/ ApproveWrite(h) \/ ConsumeWrite(h)
  BY <1>2 DEF IssueWrite, ApproveWrite, ConsumeWrite, Point, Lifecycle
<1>3. CASE HandoffCommitted(h) \/ HandoffRestored(h) \/ HandoffAmbiguous(h)
  BY <1>3 DEF HandoffCommitted, HandoffRestored, HandoffAmbiguous, Point, Lifecycle
<1>4. CASE ReconcileFound(h)
  <2>0. [prep EXCEPT !.result = h] \in Preparation
    BY Records
  <2>1. CASE prep.auth = h
    BY <1>4, <2>0, <2>1 DEF ReconcileFound, Point
  <2>2. CASE prep.auth # h
    BY <1>4, <2>2 DEF ReconcileFound, Point
  <2> QED
    BY <2>1, <2>2
<1>5. CASE ReconcileUnknown(h)
  BY <1>5, BoundsAssumption DEF ReconcileUnknown, Point, Lifecycle
<1>6. CASE ReconcileWrite(h)
  BY <1>6 DEF ReconcileWrite, Point, Lifecycle
<1> QED
  BY <1>1, <1>2, <1>3, <1>4, <1>5, <1>6 DEF HandoffStep

\* Every step keeps the type invariant.
LEMMA NextType == TypeOK /\ [Next]_vars => TypeOK'
<1> SUFFICES ASSUME TypeOK, [Next]_vars PROVE TypeOK'
  OBVIOUS
<1>1. ASSUME NEW k \in Keys, Commit(k) PROVE TypeOK'
  BY <1>1, CommitType
<1>2. ASSUME NEW k \in Keys, BackendAccepts(k) PROVE TypeOK'
  BY <1>2 DEF BackendAccepts, TypeOK, counters
<1>3. ASSUME NEW k \in Direct, Call(k) \/ DirectStep(k) PROVE TypeOK'
  BY <1>3, DirectType
<1>4. ASSUME NEW h \in Handoffs, HandoffStep(h) \/ Request(h) PROVE TypeOK'
  BY <1>4, HandoffType
<1>5. CASE EnvironmentChanges
  BY <1>5 DEF EnvironmentChanges, TypeOK, network, counters
<1>6. CASE Crash
  <2>1. pc' \in [Keys -> Point] /\ copy' \in [Keys -> Preparation]
    BY <1>6, Records DEF Crash, Point
  <2>2. crashes' \in 0 .. MaxCrashes
    BY <1>6, BoundsAssumption DEF Crash, TypeOK
  <2> QED
    BY <1>6, <2>1, <2>2 DEF Crash, TypeOK, network
<1>7. CASE UNCHANGED vars
  BY <1>7 DEF vars, TypeOK
<1> QED
  BY <1>1, <1>2, <1>3, <1>4, <1>5, <1>6, <1>7 DEF Next
-----------------------------------------------------------------------------
(***************************************************************************)
(* A step of one key leaves every other key's part alone, except that it   *)
(* may take the preparation for itself.                                    *)
(***************************************************************************)
Apart(j) ==
  /\ pc'[j] = pc[j] /\ copy'[j] = copy[j] /\ (j \in sent' <=> j \in sent)
  /\ j \in Handoffs => handoff'[j] = handoff[j]

Local(k) ==
  /\ KeyInv(k)'
  /\ \A j \in Keys \ {k} : Apart(j)
  /\ prep' = prep \/ prep'.auth = k

\* So the other keys keep their invariants.
LEMMA OthersKeep ==
    ASSUME RetryInv, NEW k \in Keys, Local(k) PROVE \A j \in Keys : KeyInv(j)'
<1> SUFFICES ASSUME NEW j \in Keys, j # k PROVE KeyInv(j)'
  BY DEF Local
<1>1. KeyInv(j) /\ Apart(j) /\ NoKey # k
  BY KeysAssumption DEF RetryInv, Local, Keys
<1>2. RejectedFor(prep', j) => prep' = prep
  BY DEF Local, RejectedFor
<1>3. SentConsumes(j)'
  BY <1>1, <1>2 DEF KeyInv, SentConsumes, Apart, Local
<1>4. PointAgrees(j)'
  BY <1>1 DEF KeyInv, PointAgrees, Apart, RejectedFor
<1>5. j \in Handoffs => LifecycleAgrees(j)'
  BY <1>1 DEF KeyInv, LifecycleAgrees, Apart
<1> QED
  BY <1>3, <1>4, <1>5 DEF KeyInv

\* The types a step of one key reads.
LEMMA Typed ==
    ASSUME TypeOK, NEW k \in Keys
    PROVE  /\ prep \in Preparation /\ copy[k] \in Preparation /\ pc[k] \in Point
           /\ NoKey \notin Keys
BY KeysAssumption DEF TypeOK, Keys

\* commit(), one step at a time.
LEMMA CommitLocal == ASSUME RetryInv, NEW k \in Keys, Commit(k) PROVE Local(k)
<1> USE DEF RetryInv, KeyInv, Local, Apart, At, Go, network, counters
<1>1. TypeOK /\ KeyInv(k)
  OBVIOUS
<1>2. CASE CommitRead(k)
  BY <1>2, <1>1 DEF TypeOK, CommitRead, SentConsumes, PointAgrees, LifecycleAgrees
<1>3. CASE CommitRecheck(k)
  BY <1>3, <1>1 DEF TypeOK, CommitRecheck, SentConsumes, PointAgrees, LifecycleAgrees
<1>4. CASE CommitAuthorize(k)
  <2>1. prep'.auth = k /\ ~prep'.rejected /\ copy'[k] = prep'
    BY <1>4, <1>1, Typed DEF TypeOK, CommitAuthorize, Preparation
  <2> QED
    BY <1>4, <1>1, <2>1, Typed DEF TypeOK, CommitAuthorize, SentConsumes, PointAgrees,
       LifecycleAgrees, RejectedFor
<1>5. CASE CommitSend(k)
  BY <1>5, <1>1 DEF TypeOK, CommitSend, SentConsumes, PointAgrees, LifecycleAgrees
<1>6. CASE CommitAnswer(k)
  BY <1>6, <1>1 DEF TypeOK, CommitAnswer, SentConsumes, PointAgrees, LifecycleAgrees
<1>7. CASE CommitRejection(k)
  <2>1. prep'.auth = k
    BY <1>7, <1>1, Typed DEF CommitRejection, PointAgrees, Preparation
  <2> QED
    BY <1>7, <1>1, <2>1 DEF TypeOK, CommitRejection, SentConsumes, PointAgrees,
       LifecycleAgrees
<1>8. CASE CommitResult(k)
  <2>1. prep'.auth = k /\ prep'.result = k
    BY <1>8, <1>1, Typed DEF CommitResult, PointAgrees, Preparation
  <2> QED
    BY <1>8, <1>1, <2>1, Typed DEF TypeOK, CommitResult, SentConsumes, PointAgrees,
       LifecycleAgrees, RejectedFor
<1> QED
  BY <1>2, <1>3, <1>4, <1>5, <1>6, <1>7, <1>8 DEF Commit

\* A direct call outside commit().
LEMMA DirectLocal ==
    ASSUME RetryInv, NEW k \in Direct, Call(k) \/ DirectStep(k) PROVE Local(k)
<1> USE DEF RetryInv, KeyInv, Local, Apart, At, Go, Leave, network, counters
<1>1. TypeOK /\ k \in Keys /\ KeyInv(k) /\ k \notin Handoffs
  BY KeysAssumption DEF Keys
<1>2. CASE Call(k)
  BY <1>2, <1>1 DEF TypeOK, Call, SentConsumes, PointAgrees
<1>3. CASE MarkUncertain(k)
  BY <1>3, <1>1 DEF TypeOK, MarkUncertain, SentConsumes, PointAgrees
<1>4. CASE EnterReservation(k)
  BY <1>4, <1>1 DEF TypeOK, EnterReservation, SentConsumes, PointAgrees
<1>5. CASE FinishDirect(k)
  BY <1>5, <1>1 DEF TypeOK, FinishDirect, SentConsumes, PointAgrees
<1> QED
  BY <1>2, <1>3, <1>4, <1>5 DEF DirectStep

\* A handoff outside commit().
LEMMA HandoffLocal ==
    ASSUME RetryInv, NEW h \in Handoffs, HandoffStep(h) \/ Request(h) PROVE Local(h)
<1> USE DEF RetryInv, KeyInv, Local, Apart, At, Go, Enter, Leave, Become, network, counters
<1>1. TypeOK /\ h \in Keys /\ KeyInv(h)
  BY DEF Keys
<1>2. ASSUME UNCHANGED <<prep, copy, sent>>, \A j \in Keys \ {h} : pc'[j] = pc[j],
             \A g \in Handoffs \ {h} : handoff'[g] = handoff[g],
             pc'[h] \in {"idle", "issue", "approve", "consume", "read", "reconcile"},
             LifecycleAgrees(h)'
      PROVE  Local(h)
  BY <1>1, <1>2 DEF SentConsumes, PointAgrees
<1>3. CASE IssueStart(h)
  BY <1>1, <1>2, <1>3 DEF TypeOK, IssueStart, LifecycleAgrees
<1>4. CASE IssueWrite(h)
  BY <1>1, <1>2, <1>4 DEF TypeOK, IssueWrite, LifecycleAgrees
<1>5. CASE ExpireHandoff(h)
  BY <1>1, <1>2, <1>5 DEF TypeOK, ExpireHandoff, LifecycleAgrees
<1>6. CASE ApproveReview(h)
  BY <1>1, <1>2, <1>6 DEF TypeOK, ApproveReview, LifecycleAgrees
<1>7. CASE ApproveWrite(h)
  BY <1>1, <1>2, <1>7 DEF TypeOK, ApproveWrite, LifecycleAgrees
<1>8. CASE ConsumeReview(h)
  BY <1>1, <1>2, <1>8 DEF TypeOK, ConsumeReview, LifecycleAgrees
<1>9. CASE ConsumeWrite(h)
  BY <1>1, <1>2, <1>9 DEF TypeOK, ConsumeWrite, LifecycleAgrees
<1>10. CASE GetHandoff(h)
  BY <1>1, <1>2, <1>10 DEF TypeOK, GetHandoff, LifecycleAgrees
<1>11. CASE HandoffCommitted(h)
  BY <1>1, <1>2, <1>11 DEF TypeOK, HandoffCommitted, LifecycleAgrees
<1>12. CASE HandoffRestored(h)
  BY <1>1, <1>2, <1>12 DEF TypeOK, HandoffRestored, LifecycleAgrees, SentConsumes
<1>13. CASE HandoffAmbiguous(h)
  BY <1>1, <1>2, <1>13 DEF TypeOK, HandoffAmbiguous, LifecycleAgrees
<1>14. CASE ReconcileFound(h)
  <2>1. CASE prep.auth = h
    <3>1. prep'.auth = h /\ prep'.result = h
      BY <1>1, <1>14, <2>1, Typed DEF ReconcileFound, Preparation
    <3> QED
      BY <1>1, <1>14, <2>1, <3>1, Typed DEF TypeOK, ReconcileFound, LifecycleAgrees,
         SentConsumes, PointAgrees, RejectedFor
  <2>2. CASE prep.auth # h
    BY <1>1, <1>2, <1>14, <2>2 DEF TypeOK, ReconcileFound, LifecycleAgrees
  <2> QED
    BY <2>1, <2>2
<1>15. CASE ReconcileUnknown(h)
  BY <1>1, <1>2, <1>15 DEF TypeOK, ReconcileUnknown, LifecycleAgrees
<1>16. CASE ReconcileWrite(h)
  BY <1>1, <1>2, <1>16 DEF TypeOK, ReconcileWrite, LifecycleAgrees
<1> QED
  BY <1>3, <1>4, <1>5, <1>6, <1>7, <1>8, <1>9, <1>10, <1>11, <1>12, <1>13, <1>14,
     <1>15, <1>16 DEF HandoffStep, Request

\* The invariant holds at first.
LEMMA InitRetry == Init => RetryInv
<1> SUFFICES ASSUME Init PROVE \A k \in Keys : KeyInv(k)
  BY InitType DEF RetryInv
<1> QED
  BY DEF Init, KeyInv, SentConsumes, PointAgrees, LifecycleAgrees, Keys

\* Every step keeps it.
LEMMA NextRetry == RetryInv /\ [Next]_vars => RetryInv'
<1> SUFFICES ASSUME RetryInv, [Next]_vars PROVE RetryInv'
  OBVIOUS
<1>0. TypeOK'
  BY NextType DEF RetryInv
<1>1. ASSUME NEW k \in Keys, Local(k) PROVE RetryInv'
  BY <1>0, <1>1, OthersKeep DEF RetryInv
<1>2. ASSUME NEW k \in Keys, Commit(k) PROVE RetryInv'
  BY <1>1, <1>2, CommitLocal
<1>3. ASSUME NEW k \in Direct, Call(k) \/ DirectStep(k) PROVE RetryInv'
  BY <1>1, <1>3, DirectLocal DEF Keys
<1>4. ASSUME NEW h \in Handoffs, HandoffStep(h) \/ Request(h) PROVE RetryInv'
  BY <1>1, <1>4, HandoffLocal DEF Keys
<1>5. ASSUME UNCHANGED <<prep, handoff, pc, copy, sent>> PROVE RetryInv'
  BY <1>0, <1>5 DEF RetryInv, KeyInv, SentConsumes, PointAgrees, LifecycleAgrees
<1>6. CASE Crash
  <2> SUFFICES ASSUME NEW k \in Keys PROVE KeyInv(k)'
    BY <1>0 DEF RetryInv
  <2>1. KeyInv(k) /\ pc'[k] = "idle" /\ UNCHANGED <<prep, handoff, sent>>
    BY <1>6 DEF RetryInv, Crash, network
  <2> QED
    BY <2>1 DEF KeyInv, SentConsumes, PointAgrees, LifecycleAgrees
<1>7. ASSUME NEW k \in Keys, BackendAccepts(k) PROVE RetryInv'
  BY <1>5, <1>7 DEF BackendAccepts
<1>8. CASE EnvironmentChanges
  BY <1>5, <1>8 DEF EnvironmentChanges, network
<1>9. CASE UNCHANGED vars
  BY <1>5, <1>9 DEF vars
<1> QED
  BY <1>2, <1>3, <1>4, <1>6, <1>7, <1>8, <1>9 DEF Next

-----------------------------------------------------------------------------
(***************************************************************************)
(* Every variable keeps its type.                                          *)
(***************************************************************************)
THEOREM StartTypeCorrect == Spec => []TypeOK
<1> QED
  BY InitType, NextType, PTL DEF Spec

(***************************************************************************)
(* A start is sent again only after the backend proved that the key's last *)
(* attempt had no effect, replays outside the reservation lock included.   *)
(***************************************************************************)
THEOREM ResendNeedsProof == Spec => []NoBlindResend
<1>1. RetryInv => NoBlindResend
  BY DEF RetryInv, KeyInv, PointAgrees, NoBlindResend, At
<1> QED
  BY <1>1, InitRetry, NextRetry, PTL DEF Spec

(***************************************************************************)
(* A handoff that may be committed has nothing on its way to the backend,  *)
(* however often it was rejected, restored or interrupted.                 *)
(***************************************************************************)
THEOREM ApprovedUnsent == Spec => []ApprovedMeansUnsent
<1>1. RetryInv => ApprovedMeansUnsent
  BY DEF RetryInv, KeyInv, LifecycleAgrees, ApprovedMeansUnsent, Keys
<1> QED
  BY <1>1, InitRetry, NextRetry, PTL DEF Spec

-----------------------------------------------------------------------------
(***************************************************************************)
(* The reservation lock.  A handoff's call holds it throughout, a direct   *)
(* call inside commit() unless it is a repeated one, and no handoff can be *)
(* committed while a direct call holds it.                                 *)
(***************************************************************************)
Outside == {"idle", "dispatch", "enter"}
Inside == {"read", "recheck", "authorize", "send", "wait", "reject", "result", "ok",
           "refused", "failed"}

DirectHolds(k) ==
  /\ pc[k] \in Outside \cup Inside
  /\ lock = k => pc[k] \in Inside /\ ~Reserved
  /\ pc[k] \in Inside => lock = k \/ calls[k] > 1
  /\ calls[k] = 0 => pc[k] = "idle" /\ cache[k] = "absent"

LockHeld ==
  /\ \A h \in Handoffs : pc[h] # "idle" => lock = h
  /\ \A k \in Direct : DirectHolds(k)

\* What a call past its recheck, or in a reconciling read, has established.
InsideKnows(k) ==
  /\ pc[k] \in {"authorize", "send", "wait", "reject", "result"} => copy[k] = prep
  /\ pc[k] = "authorize" => prep.auth = NoKey \/ RejectedFor(prep, k)
  /\ pc[k] \in {"result", "restore"} => k \in accepted
  /\ pc[k] \in {"ok", "restore"} => prep.result = k

\* What the preparation says of the backend, and what is said of the preparation.
PreparationTrue ==
  /\ \A k \in sent : prep.auth = k
  /\ prep.result # NoKey => prep.auth = prep.result /\ prep.result \in accepted
  /\ \A h \in Handoffs : handoff[h] = "committed" => prep.result = h
  /\ \A k \in Direct : cache[k] = "accepted" => prep.result = k

Truth == (\A k \in Keys : InsideKnows(k)) /\ PreparationTrue

StartInv == RetryInv /\ LockHeld /\ (raced \/ Truth)

-----------------------------------------------------------------------------
\* A step of commit() leaves the lock where it is.
LEMMA CommitLock == ASSUME TypeOK, LockHeld, NEW k \in Keys, Commit(k) PROVE LockHeld'
<1>1. /\ pc[k] \in Inside /\ pc'[k] \in Inside
      /\ UNCHANGED <<lock, handoff, cache, calls>> /\ \A j \in Keys \ {k} : pc'[j] = pc[j]
  BY DEF TypeOK, Commit, CommitRead, CommitRecheck, CommitAuthorize, CommitSend, CommitAnswer,
       CommitRejection, CommitResult, At, Go, network, counters, Inside
<1>2. "idle" \notin Inside
  BY DEF Inside
<1>3. ASSUME NEW h \in Handoffs, pc'[h] # "idle" PROVE lock' = h
  BY <1>1, <1>2, <1>3 DEF LockHeld, Keys
<1>4. ASSUME NEW j \in Direct PROVE DirectHolds(j)'
  BY <1>1, <1>2, <1>4 DEF LockHeld, DirectHolds, Reserved, Keys
<1> QED
  BY <1>3, <1>4 DEF LockHeld

\* A direct call takes it to enter, or has been called before.
LEMMA DirectLock ==
    ASSUME TypeOK, LockHeld, NEW k \in Direct, Call(k) \/ DirectStep(k) PROVE LockHeld'
<1> USE DEF At, Go
<1>1. k \in Keys /\ k \notin Handoffs /\ Handoffs \subseteq Keys /\ Direct \subseteq Keys
      /\ NoKey \notin Keys
  BY KeysAssumption DEF Keys
<1>2. /\ \A j \in Keys \ {k} : pc'[j] = pc[j]
      /\ \A j \in Direct \ {k} : calls'[j] = calls[j] /\ cache'[j] = cache[j]
      /\ UNCHANGED handoff
  BY <1>1 DEF TypeOK, Call, DirectStep, MarkUncertain, EnterReservation, FinishDirect, Leave,
       counters
<1>3. Reserved' = Reserved
  BY <1>2 DEF Reserved
<1>4. DirectHolds(k)
  BY DEF LockHeld
<1>5. lock' = lock \/ (lock \in {k, NoKey} /\ lock' \in {k, NoKey})
  BY DEF Call, DirectStep, MarkUncertain, EnterReservation, FinishDirect, Leave, Release, Free
<1>6. ASSUME NEW h \in Handoffs, pc'[h] # "idle" PROVE lock' = h
  BY <1>1, <1>2, <1>5, <1>6 DEF LockHeld
<1>7. ASSUME NEW j \in Direct \ {k} PROVE DirectHolds(j)'
  BY <1>1, <1>2, <1>3, <1>5, <1>7 DEF LockHeld, DirectHolds
<1>8. DirectHolds(k)'
  <2>1. CASE Call(k)
    BY <1>1, <1>3, <1>4, <2>1 DEF Call, TypeOK, DirectHolds, Inside, Outside
  <2>2. CASE MarkUncertain(k)
    BY <1>1, <1>3, <1>4, <2>2 DEF MarkUncertain, TypeOK, counters, DirectHolds, Inside, Outside
  <2>3. CASE EnterReservation(k)
    BY <1>1, <1>3, <1>4, <2>3 DEF EnterReservation, Free, TypeOK, counters, DirectHolds, Inside,
       Outside
  <2>4. CASE FinishDirect(k)
    BY <1>1, <1>3, <1>4, <2>4 DEF FinishDirect, Leave, Release, TypeOK, counters, DirectHolds,
       Inside, Outside
  <2> QED
    BY <2>1, <2>2, <2>3, <2>4 DEF DirectStep
<1> QED
  BY <1>6, <1>7, <1>8 DEF LockHeld

\* A handoff outside commit() holds it, or finds it free.
LEMMA HandoffLock ==
    ASSUME TypeOK, LockHeld, NEW h \in Handoffs, HandoffStep(h) \/ Request(h) PROVE LockHeld'
<1> USE DEF At, Go, Enter, Leave, Become, Release, Free
<1>1. /\ h \in Keys /\ h \notin Direct /\ Handoffs \subseteq Keys /\ Direct \subseteq Keys
      /\ NoKey \notin Keys
  BY KeysAssumption DEF Keys
<1>2. lock \in {h, NoKey}
  BY DEF LockHeld, HandoffStep, Request, IssueStart, IssueWrite, ExpireHandoff,
       ApproveReview, ApproveWrite, ConsumeReview, ConsumeWrite, HandoffCommitted,
       HandoffRestored, HandoffAmbiguous, GetHandoff, ReconcileFound, ReconcileUnknown,
       ReconcileWrite
<1>3. /\ UNCHANGED <<cache, calls>> /\ \A j \in Keys \ {h} : pc'[j] = pc[j]
      /\ lock' \in {h, NoKey} /\ (pc'[h] # "idle" => lock' = h)
  <2>1. CASE Request(h)
    BY <1>1, <1>2, <2>1 DEF TypeOK, LockHeld, Request, IssueStart, ExpireHandoff, ApproveReview,
       ConsumeReview, GetHandoff, counters
  <2>2. CASE HandoffStep(h)
    BY <1>1, <1>2, <2>2 DEF TypeOK, LockHeld, HandoffStep, IssueWrite, ApproveWrite,
       ConsumeWrite, HandoffCommitted, HandoffRestored, HandoffAmbiguous, ReconcileFound,
       ReconcileUnknown, ReconcileWrite, counters
  <2> QED
    BY <2>1, <2>2
<1>4. ASSUME NEW g \in Handoffs, pc'[g] # "idle" PROVE lock' = g
  BY <1>1, <1>2, <1>3, <1>4 DEF LockHeld
<1>5. ASSUME NEW j \in Direct PROVE DirectHolds(j)'
  BY <1>1, <1>2, <1>3 DEF LockHeld, DirectHolds
<1> QED
  BY <1>4, <1>5 DEF LockHeld

\* Every step keeps the lock's invariant.
LEMMA NextLock == TypeOK /\ LockHeld /\ [Next]_vars => LockHeld'
<1> SUFFICES ASSUME TypeOK, LockHeld, [Next]_vars PROVE LockHeld'
  OBVIOUS
<1>1. ASSUME NEW k \in Keys, Commit(k) PROVE LockHeld'
  BY <1>1, CommitLock
<1>2. ASSUME NEW k \in Direct, Call(k) \/ DirectStep(k) PROVE LockHeld'
  BY <1>2, DirectLock
<1>3. ASSUME NEW h \in Handoffs, HandoffStep(h) \/ Request(h) PROVE LockHeld'
  BY <1>3, HandoffLock
<1>4. ASSUME UNCHANGED <<handoff, cache, lock, pc, calls>> PROVE LockHeld'
  BY <1>4 DEF LockHeld, DirectHolds, Reserved
<1>5. CASE Crash
  <2>1. \A k \in Keys : lock' # k /\ pc'[k] = "idle"
    BY <1>5, KeysAssumption DEF Crash, Keys
  <2>2. UNCHANGED <<cache, calls>>
    BY <1>5 DEF Crash
  <2>3. "idle" \in Outside /\ "idle" \notin Inside
    BY DEF Outside, Inside
  <2> QED
    BY <2>1, <2>2, <2>3 DEF LockHeld, DirectHolds, Keys
<1> QED
  BY <1>1, <1>2, <1>3, <1>4, <1>5 DEF Next, BackendAccepts, EnvironmentChanges, vars, network,
     counters

-----------------------------------------------------------------------------
\* Whom the preparation belongs to, as far as a call past its recheck knows.
LEMMA Owner ==
    ASSUME RetryInv, Truth, NEW j \in Keys
    PROVE  /\ pc[j] = "authorize" => prep.auth \in {NoKey, j}
           /\ pc[j] \in {"send", "wait", "reject", "result", "ok", "restore"} => prep.auth = j
<1>1. InsideKnows(j) /\ PreparationTrue /\ PointAgrees(j) /\ NoKey \notin Keys
  BY KeysAssumption DEF Truth, RetryInv, KeyInv, Keys
<1> QED
  BY <1>1 DEF InsideKnows, PreparationTrue, PointAgrees, RejectedFor

\* A step of the key the preparation belongs to concerns nobody else.
LEMMA OthersKnow ==
    ASSUME RetryInv, Truth, NEW k \in Keys, UNCHANGED accepted,
           \A j \in Keys \ {k} : pc'[j] = pc[j] /\ copy'[j] = copy[j],
           \/ prep' = prep
           \/ prep.auth = k
           \/ prep.auth = NoKey /\ \A j \in Keys \ {k} : pc[j] # "authorize"
    PROVE  \A j \in Keys \ {k} : InsideKnows(j)'
<1> SUFFICES ASSUME NEW j \in Keys \ {k} PROVE InsideKnows(j)'
  OBVIOUS
<1>1. InsideKnows(j) /\ NoKey \notin Keys
  BY KeysAssumption DEF Truth, Keys
<1>2. CASE prep' = prep
  BY <1>1, <1>2 DEF InsideKnows, RejectedFor
<1>3. CASE prep' # prep
  <2>1. pc[j] \notin {"authorize", "send", "wait", "reject", "result", "ok", "restore"}
    BY <1>1, <1>3, Owner
  <2> QED
    BY <2>1 DEF InsideKnows
<1> QED
  BY <1>2, <1>3

\* Two calls past their recheck:  one of them has been called before.
LEMMA Raced ==
    ASSUME LockHeld, NEW k \in Keys, NEW j \in Keys \ {k}, pc[k] = "authorize",
           pc[j] = "authorize"
    PROVE  Racing(k)
<1>1. ASSUME NEW i \in Keys, pc[i] = "authorize", lock # i PROVE i \in Direct /\ calls[i] > 1
  BY <1>1 DEF LockHeld, DirectHolds, Keys, Inside
<1>2. \E d \in {j, k} \cap Direct : calls[d] > 1
  BY <1>1
<1> QED
  BY <1>2 DEF Racing, At

\* commit(), one step at a time.
LEMMA CommitTrue ==
    ASSUME RetryInv, LockHeld, Truth, ~raced', NEW k \in Keys, Commit(k) PROVE Truth'
<1>1. TypeOK /\ prep \in Preparation /\ copy[k] \in Preparation /\ InsideKnows(k) /\ KeyInv(k)
      /\ PreparationTrue
  BY Typed DEF Truth, RetryInv
<1>2. /\ UNCHANGED <<handoff, cache, accepted>>
      /\ \A j \in Keys \ {k} : pc'[j] = pc[j] /\ copy'[j] = copy[j]
  BY <1>1 DEF TypeOK, Commit, CommitRead, CommitRecheck, CommitAuthorize, CommitSend, CommitAnswer,
       CommitRejection, CommitResult, Go, network, counters
<1>3. \/ prep' = prep
      \/ prep.auth = k
      \/ prep.auth = NoKey /\ \A j \in Keys \ {k} : pc[j] # "authorize"
  <2>1. CASE CommitAuthorize(k)
    <3>1. ~Racing(k) /\ pc[k] = "authorize"
      BY <2>1 DEF CommitAuthorize, At
    <3> QED
      BY <3>1, Raced, Owner
  <2>2. CASE CommitRejection(k) \/ CommitResult(k)
    BY <2>2, Owner DEF CommitRejection, CommitResult, At
  <2> QED
    BY <2>1, <2>2 DEF Commit, CommitRead, CommitRecheck, CommitSend, CommitAnswer
<1>4. \A j \in Keys \ {k} : InsideKnows(j)'
  BY <1>2, <1>3, OthersKnow
<1>5. InsideKnows(k)' /\ PreparationTrue'
  <2> USE DEF At, Go
  <2>1. CASE CommitRead(k)
    <3>1. copy'[k] = prep /\ UNCHANGED <<prep, sent>> /\ pc'[k] \in {"ok", "failed", "recheck"}
      BY <1>1, <2>1 DEF TypeOK, CommitRead, network
    <3>2. pc'[k] = "ok" => prep.result = k
      <4>1. pc'[k] = "ok" => prep.auth = k /\ prep.result # NoKey
        BY <1>1, <2>1 DEF TypeOK, CommitRead
      <4> QED
        BY <1>1, <4>1 DEF PreparationTrue
    <3> QED
      BY <1>1, <1>2, <3>1, <3>2 DEF InsideKnows, PreparationTrue
  <2>2. CASE CommitRecheck(k)
    <3>1. /\ UNCHANGED <<prep, sent, copy>> /\ pc'[k] \in {"authorize", "failed"}
          /\ pc[k] = "recheck" /\ (pc'[k] = "authorize" => prep = copy[k])
      BY <1>1, <2>2 DEF TypeOK, CommitRecheck, network
    <3>2. pc'[k] = "authorize" => prep.auth = NoKey \/ RejectedFor(prep, k)
      BY <1>1, <3>1 DEF KeyInv, PointAgrees
    <3> QED
      BY <1>1, <1>2, <3>1, <3>2 DEF InsideKnows, PreparationTrue, RejectedFor
  <2>3. CASE CommitAuthorize(k)
    <3>1. /\ UNCHANGED sent /\ pc'[k] = "send" /\ copy'[k] = prep' /\ copy[k] = prep
          /\ prep' = [prep EXCEPT !.auth = k, !.rejected = FALSE]
          /\ prep.auth = NoKey \/ RejectedFor(prep, k)
      BY <1>1, <2>3 DEF TypeOK, CommitAuthorize, network, InsideKnows
    <3>2. prep'.auth = k /\ prep'.result = prep.result
      BY <1>1, <3>1 DEF Preparation
    <3>3. prep.auth = NoKey \/ prep.auth = k
      BY <3>1 DEF RejectedFor
    <3>4. PreparationTrue'
      <4>1. \A j \in sent : j = k
        BY <3>3, <1>1, KeysAssumption DEF PreparationTrue, TypeOK, Keys
      <4>2. prep.result = NoKey
        BY <3>1, <1>1, KeysAssumption DEF PreparationTrue, RejectedFor, TypeOK, Keys
      <4> QED
        BY <1>1, <1>2, <3>1, <3>2, <4>1, <4>2 DEF PreparationTrue
    <3> QED
      BY <3>1, <3>4 DEF InsideKnows
  <2>4. CASE CommitSend(k)
    <3>1. UNCHANGED <<prep, copy>> /\ sent' = sent \cup {k} /\ pc'[k] = "wait" /\ pc[k] = "send"
      BY <1>1, <2>4 DEF TypeOK, CommitSend
    <3>2. copy[k] = prep /\ prep.auth = k
      BY <1>1, <3>1 DEF InsideKnows, KeyInv, PointAgrees
    <3> QED
      BY <1>1, <1>2, <3>1, <3>2 DEF InsideKnows, PreparationTrue
  <2>5. CASE CommitAnswer(k)
    <3>1. /\ UNCHANGED <<prep, copy>> /\ sent' \subseteq sent /\ pc[k] = "wait"
          /\ pc'[k] \in {"result", "reject", "failed"} /\ (pc'[k] = "result" => k \in accepted)
      BY <1>1, <2>5 DEF TypeOK, CommitAnswer
    <3>2. copy[k] = prep
      BY <1>1, <3>1 DEF InsideKnows
    <3> QED
      BY <1>1, <1>2, <3>1, <3>2 DEF InsideKnows, PreparationTrue
  <2>6. CASE CommitRejection(k)
    <3>1. /\ UNCHANGED <<sent, copy>> /\ pc'[k] = "refused" /\ copy[k] = prep
          /\ prep' = [prep EXCEPT !.rejected = TRUE]
      BY <1>1, <2>6 DEF TypeOK, CommitRejection, network, InsideKnows
    <3>2. prep'.auth = prep.auth /\ prep'.result = prep.result
      BY <1>1, <3>1 DEF Preparation
    <3> QED
      BY <1>1, <1>2, <3>1, <3>2 DEF InsideKnows, PreparationTrue
  <2>7. CASE CommitResult(k)
    <3>1. /\ UNCHANGED <<sent, copy>> /\ pc'[k] = "ok" /\ copy[k] = prep /\ k \in accepted
          /\ prep' = [prep EXCEPT !.result = k] /\ prep.auth = k
      BY <1>1, <2>7 DEF TypeOK, CommitResult, network, InsideKnows, KeyInv, PointAgrees
    <3>2. prep'.auth = k /\ prep'.result = k
      BY <1>1, <3>1 DEF Preparation
    <3>3. /\ \A h \in Handoffs : handoff[h] = "committed" => h = k
          /\ \A j \in Direct : cache[j] = "accepted" => j = k
      BY <1>1, <3>1, KeysAssumption DEF PreparationTrue, Keys
    <3> QED
      BY <1>1, <1>2, <3>1, <3>2, <3>3 DEF InsideKnows, PreparationTrue
  <2> QED
    BY <2>1, <2>2, <2>3, <2>4, <2>5, <2>6, <2>7 DEF Commit
<1> QED
  BY <1>4, <1>5 DEF Truth

\* A direct key outside commit().
LEMMA DirectTrue ==
    ASSUME RetryInv, Truth, NEW k \in Direct, Call(k) \/ DirectStep(k) PROVE Truth'
<1> USE DEF At, Go
<1>1. TypeOK /\ k \in Keys /\ InsideKnows(k) /\ PreparationTrue
  BY DEF Keys, RetryInv, Truth
<1>2. /\ UNCHANGED <<prep, handoff, copy, sent, accepted>>
      /\ \A j \in Keys \ {k} : pc'[j] = pc[j]
      /\ \A j \in Direct \ {k} : cache'[j] = cache[j]
      /\ pc'[k] \in {"idle", "dispatch", "enter", "read"}
      /\ cache'[k] = "accepted" => cache[k] = "accepted" \/ pc[k] = "ok"
  BY <1>1 DEF TypeOK, Call, DirectStep, MarkUncertain, EnterReservation, FinishDirect, Leave,
       network, counters
<1>3. \A j \in Keys \ {k} : InsideKnows(j)'
  BY <1>1, <1>2, OthersKnow
<1>4. InsideKnows(k)'
  BY <1>2 DEF InsideKnows
<1>5. PreparationTrue'
  BY <1>1, <1>2 DEF PreparationTrue, InsideKnows
<1> QED
  BY <1>3, <1>4, <1>5 DEF Truth

\* A handoff outside commit().
LEMMA HandoffTrue ==
    ASSUME RetryInv, Truth, NEW h \in Handoffs, HandoffStep(h) \/ Request(h) PROVE Truth'
<1> USE DEF At, Go, Enter, Leave, Become
<1>1. TypeOK /\ h \in Keys /\ h \notin Direct /\ InsideKnows(h) /\ PreparationTrue
      /\ prep \in Preparation
  BY KeysAssumption, Typed DEF Keys, RetryInv, Truth
<1>2. /\ UNCHANGED <<cache, copy, sent, accepted>>
      /\ \A j \in Keys \ {h} : pc'[j] = pc[j]
      /\ \A g \in Handoffs \ {h} : handoff'[g] = handoff[g]
  BY <1>1 DEF TypeOK, HandoffStep, Request, IssueStart, IssueWrite, ExpireHandoff, ApproveReview,
       ApproveWrite, ConsumeReview, ConsumeWrite, HandoffCommitted, HandoffRestored,
       HandoffAmbiguous, GetHandoff, ReconcileFound, ReconcileUnknown, ReconcileWrite, network,
       counters
<1>3. CASE ReconcileFound(h) /\ prep.auth = h
  <2>1. prep' = [prep EXCEPT !.result = h] /\ pc'[h] = "restore" /\ h \in accepted
        /\ handoff' = handoff
    BY <1>1, <1>3 DEF ReconcileFound, TypeOK
  <2>2. prep'.auth = h /\ prep'.result = h
    BY <1>1, <1>3, <2>1 DEF Preparation
  <2>3. /\ \A g \in Handoffs : handoff[g] = "committed" => g = h
        /\ \A j \in Direct : cache[j] # "accepted"
    BY <1>1, <1>3, KeysAssumption DEF PreparationTrue, Keys
  <2>4. InsideKnows(h)'
    BY <1>2, <2>1, <2>2 DEF InsideKnows
  <2>5. PreparationTrue'
    BY <1>1, <1>2, <1>3, <2>1, <2>2, <2>3 DEF PreparationTrue
  <2>6. \A j \in Keys \ {h} : InsideKnows(j)'
    BY <1>1, <1>2, <1>3, OthersKnow
  <2> QED
    BY <2>4, <2>5, <2>6 DEF Truth
<1>4. CASE ~(ReconcileFound(h) /\ prep.auth = h)
  <2>1. prep' = prep /\ pc'[h] \in {"idle", "issue", "approve", "consume", "read", "reconcile"}
    BY <1>1, <1>4 DEF TypeOK, HandoffStep, Request, IssueStart, IssueWrite, ExpireHandoff,
         ApproveReview, ApproveWrite, ConsumeReview, ConsumeWrite, HandoffCommitted,
         HandoffRestored, HandoffAmbiguous, GetHandoff, ReconcileFound, ReconcileUnknown,
         ReconcileWrite
  <2>2. handoff'[h] = "committed" => handoff[h] = "committed" \/ prep.result = h
    <3>1. pc[h] \in {"ok", "restore"} => prep.result = h
      BY <1>1 DEF InsideKnows
    <3> QED
      BY <1>1, <3>1 DEF TypeOK, HandoffStep, Request, IssueStart, IssueWrite, ExpireHandoff,
           ApproveReview, ApproveWrite, ConsumeReview, ConsumeWrite, HandoffCommitted,
           HandoffRestored, HandoffAmbiguous, GetHandoff, ReconcileFound, ReconcileUnknown,
           ReconcileWrite
  <2>3. InsideKnows(h)'
    BY <2>1 DEF InsideKnows
  <2>4. PreparationTrue'
    BY <1>1, <1>2, <2>1, <2>2 DEF PreparationTrue
  <2>5. \A j \in Keys \ {h} : InsideKnows(j)'
    BY <1>1, <1>2, <2>1, OthersKnow
  <2> QED
    BY <2>3, <2>4, <2>5 DEF Truth
<1> QED
  BY <1>3, <1>4

\* The invariant holds at first.
LEMMA InitStart == Init => StartInv
<1> SUFFICES ASSUME Init PROVE StartInv
  OBVIOUS
<1>1. LockHeld
  <2>1. \A k \in Keys : lock # k /\ pc[k] = "idle"
    BY KeysAssumption DEF Init, Keys
  <2>2. \A k \in Direct : cache[k] = "absent"
    BY DEF Init
  <2>3. "idle" \in Outside /\ "idle" \notin Inside
    BY DEF Outside, Inside
  <2> QED
    BY <2>1, <2>2, <2>3 DEF LockHeld, DirectHolds, Keys
<1>2. \A k \in Keys : InsideKnows(k)
  BY DEF Init, InsideKnows
<1>3. PreparationTrue
  BY DEF Init, PreparationTrue, Sealed
<1> QED
  BY <1>1, <1>2, <1>3, InitRetry DEF StartInv, Truth

\* A race stays recorded.
LEMMA RacedStays == [Next]_vars /\ raced => raced'
<1> SUFFICES ASSUME [Next]_vars, raced PROVE raced'
  OBVIOUS
<1>1. ASSUME NEW k \in Keys, Commit(k) PROVE raced'
  BY <1>1 DEF Commit, CommitRead, CommitRecheck, CommitAuthorize, CommitSend, CommitAnswer,
       CommitRejection, CommitResult, counters
<1>2. ASSUME NEW h \in Handoffs, HandoffStep(h) \/ Request(h) PROVE raced'
  BY <1>2 DEF HandoffStep, Request, IssueStart, IssueWrite, ExpireHandoff, ApproveReview,
       ApproveWrite, ConsumeReview, ConsumeWrite, HandoffCommitted, HandoffRestored,
       HandoffAmbiguous, GetHandoff, ReconcileFound, ReconcileUnknown, ReconcileWrite, counters
<1> QED
  BY <1>1, <1>2 DEF Next, BackendAccepts, Call, DirectStep, MarkUncertain, EnterReservation,
       FinishDirect, EnvironmentChanges, Crash, vars, counters

\* Every step keeps it.
LEMMA NextStart == StartInv /\ [Next]_vars => StartInv'
<1> SUFFICES ASSUME StartInv, [Next]_vars PROVE StartInv'
  OBVIOUS
<1>1. RetryInv' /\ LockHeld'
  BY NextRetry, NextLock DEF StartInv, RetryInv
<1>2. ASSUME ~raced' PROVE Truth'
  <2>1. RetryInv /\ LockHeld /\ Truth
    BY <1>2, RacedStays DEF StartInv
  <2>2. ASSUME NEW k \in Keys, Commit(k) PROVE Truth'
    BY <1>2, <2>1, <2>2, CommitTrue
  <2>3. ASSUME NEW k \in Direct, Call(k) \/ DirectStep(k) PROVE Truth'
    BY <2>1, <2>3, DirectTrue
  <2>4. ASSUME NEW h \in Handoffs, HandoffStep(h) \/ Request(h) PROVE Truth'
    BY <2>1, <2>4, HandoffTrue
  <2>5. ASSUME UNCHANGED <<prep, handoff, cache, pc, copy, sent>>, accepted \subseteq accepted'
        PROVE  Truth'
    BY <2>1, <2>5 DEF Truth, InsideKnows, RejectedFor, PreparationTrue
  <2>6. CASE Crash
    BY <2>1, <2>6 DEF Crash, network, Truth, InsideKnows, PreparationTrue
  <2> QED
    BY <2>2, <2>3, <2>4, <2>5, <2>6 DEF Next, BackendAccepts, EnvironmentChanges, vars, network,
       counters
<1> QED
  BY <1>1, <1>2 DEF StartInv

\* The authorization on disk passes from nobody to a key, and no further.
LEMMA AuthorizationStep ==
    ASSUME StartInv, [Next]_vars, prep.auth # NoKey PROVE prep'.auth = prep.auth \/ raced'
<1> SUFFICES ASSUME ~raced' PROVE prep'.auth = prep.auth
  OBVIOUS
<1>1. prep \in Preparation /\ RetryInv /\ Truth
  BY RacedStays DEF StartInv, RetryInv, TypeOK
<1>2. ASSUME NEW k \in Keys, Commit(k) PROVE prep'.auth = prep.auth
  <2> USE DEF At
  <2>1. InsideKnows(k)
    BY <1>1 DEF Truth
  <2>2. CASE CommitAuthorize(k)
    <3>1. prep' = [prep EXCEPT !.auth = k, !.rejected = FALSE] /\ RejectedFor(prep, k)
      BY <2>1, <2>2 DEF CommitAuthorize, InsideKnows
    <3> QED
      BY <1>1, <3>1 DEF Preparation, RejectedFor
  <2>3. CASE CommitRejection(k)
    <3>1. prep' = [prep EXCEPT !.rejected = TRUE]
      BY <2>1, <2>3 DEF CommitRejection, InsideKnows
    <3> QED
      BY <1>1, <3>1 DEF Preparation
  <2>4. CASE CommitResult(k)
    <3>1. prep' = [prep EXCEPT !.result = k]
      BY <2>1, <2>4 DEF CommitResult, InsideKnows
    <3> QED
      BY <1>1, <3>1 DEF Preparation
  <2> QED
    BY <1>2, <2>2, <2>3, <2>4 DEF Commit, CommitRead, CommitRecheck, CommitSend, CommitAnswer
<1>3. ASSUME NEW h \in Handoffs, HandoffStep(h) PROVE prep'.auth = prep.auth
  <2>1. CASE ReconcileFound(h)
    <3>1. prep' = prep \/ prep' = [prep EXCEPT !.result = h]
      BY <2>1 DEF ReconcileFound
    <3> QED
      BY <1>1, <3>1 DEF Preparation
  <2> QED
    BY <1>3, <2>1 DEF HandoffStep, IssueWrite, ApproveWrite, ConsumeWrite, HandoffCommitted,
         HandoffRestored, HandoffAmbiguous, ReconcileUnknown, ReconcileWrite
<1> QED
  BY <1>2, <1>3 DEF Next, BackendAccepts, Call, DirectStep, MarkUncertain, EnterReservation,
       FinishDirect, Request, IssueStart, ExpireHandoff, ApproveReview, ConsumeReview, GetHandoff,
       EnvironmentChanges, Crash, vars

\* While a direct call holds the lock no handoff can be committed.
LEMMA ReservedStep ==
    ASSUME StartInv, [Next]_vars PROVE \A k \in Direct : k \in sent' \ sent /\ lock = k => ~Reserved
BY DEF StartInv, LockHeld, DirectHolds

(***************************************************************************)
(* The reservation lock, the authorization on disk and the recheck before  *)
(* it let one key at a time from the authorization to its answer, and what *)
(* the preparation says of the backend is so: repeated calls, replays      *)
(* outside the lock, crashes and lost answers included, and unless two     *)
(* keys pass the recheck together, one of them called before.              *)
(***************************************************************************)
THEOREM StartCorrect == Spec => []StartInv
<1> QED
  BY InitStart, NextStart, PTL DEF Spec

(***************************************************************************)
(* One key at most is on its way to an execution, and whoever is told that *)
(* the run was started started it, for any number of keys, handoffs,       *)
(* repeated calls, crashes and lost answers, short of that race.           *)
(***************************************************************************)
THEOREM StartedOnce == Spec => []OneStart
<1>1. StartInv => OneStart
  <2> SUFFICES ASSUME RetryInv, PreparationTrue PROVE OneStart
    BY DEF StartInv, Truth, OneStart
  <2>1. Cardinality(sent) <= 1
    <3>1. sent \subseteq {prep.auth}
      BY DEF PreparationTrue
    <3>2. IsFiniteSet({prep.auth}) /\ Cardinality({prep.auth}) = 1
      BY FS_Singleton
    <3>3. Cardinality(sent) <= Cardinality({prep.auth})
      BY <3>1, <3>2, FS_Subset
    <3> QED
      BY <3>2, <3>3
  <2>2. NoKey \notin Handoffs \cup Direct
    BY KeysAssumption
  <2> QED
    BY <2>1, <2>2 DEF PreparationTrue, OneStart
<1> QED
  BY <1>1, StartCorrect, PTL

(***************************************************************************)
(* A consumed authorization is never replaced, whatever is repeated,       *)
(* replayed, rejected or reconciled, short of that race.                   *)
(***************************************************************************)
THEOREM AuthorizationStays == Spec => AuthorizationKept
<1>1. StartInv /\ [Next]_vars => [prep.auth # NoKey => prep'.auth = prep.auth \/ raced']_vars
  BY AuthorizationStep
<1> QED
  BY <1>1, StartCorrect, PTL DEF Spec, AuthorizationKept

(***************************************************************************)
(* A direct commit that holds the lock is sent while no handoff holds the  *)
(* preparation, whatever is replayed beside it; the replay itself is not   *)
(* bound by it (the run start_reserved).                                   *)
(***************************************************************************)
THEOREM LockedStartsReserved == Spec => ReservationHeld
<1>1. StartInv /\ [Next]_vars
        => [\A k \in Direct : k \in sent' \ sent /\ lock = k => ~Reserved]_vars
  BY ReservedStep
<1> QED
  BY <1>1, StartCorrect, PTL DEF Spec, ReservationHeld

=============================================================================
