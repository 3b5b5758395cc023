----------------------------- MODULE AuthProofs -----------------------------
(***************************************************************************)
(* A recovery key is settled with the operation it names, and no valid     *)
(* credential is out of the device's reach: for all sets of organizations  *)
(* and keys and every number of sign-ins, requests, crashes, losses, late  *)
(* saves, expiries, refusals and logouts.                                  *)
(*                                                                         *)
(* What counts is the save, which comes long after the decision and may    *)
(* even land after the operation has given up.  The first invariant says   *)
(* that the Keychain has not moved meanwhile: an operation that is not     *)
(* saving has the Keychain as it is, so what it saves, on time or late,    *)
(* follows from that.                                                      *)
(*                                                                         *)
(* The second is about every protected state there is: the Keychain, the   *)
(* copy of the operation and a save that may still land.  Each one reaches *)
(* what the backend holds valid now, and covers every request under way    *)
(* that could still make something else valid, because it pends there.  A  *)
(* step of the backend keeps this for all of them at once; a step of the   *)
(* operation has to show it for what it saves.                             *)
(***************************************************************************)
EXTENDS AuthRotation, TLAPS

\* What m marks done and s has not is what s had at work, and no longer pends.
Follows(s, m) ==
    \A k \in RecoveryKeys :
        m.receipts[k].state = "done" /\ s.receipts[k].state # "done" =>
          s.receipts[k].ref = AuthRef(s) /\ m.pending.kind = "none"

\* A protected state has all its fields and a receipt for each key.
Whole(s) == DOMAIN s = DOMAIN SignedOut /\ DOMAIN s.receipts = RecoveryKeys

SaveInv ==
    /\ DOMAIN op = DOMAIN NoOp /\ Whole(mem) /\ Whole(keychain) /\ Whole(late.mem)
    /\ DOMAIN late = DOMAIN NoLate
    /\ late.on \in BOOLEAN
    /\ late.on => op.at = "idle" /\ Follows(keychain, late.mem)
    /\ op.at = "save" => Follows(keychain, mem)
    /\ op.at \notin {"idle", "save"} => mem = keychain
-----------------------------------------------------------------------------
\* What changes neither receipts nor, unless it is cleared, what pends.
LEMMA SameReceipts ==
    ASSUME NEW s, NEW m, m.receipts = s.receipts
    PROVE  Follows(s, m)
BY DEF Follows

\* Settling and rejecting what is at work.
LEMMA MarkedFollows ==
    ASSUME NEW s, NEW verdict, NEW m, m.receipts = Marked(s, verdict),
           verdict = "done" => m.pending.kind = "none"
    PROVE  Follows(s, m) /\ DOMAIN m.receipts = RecoveryKeys
<1>1. DOMAIN m.receipts = RecoveryKeys
  BY DEF Marked
<1>2. ASSUME NEW k \in RecoveryKeys, m.receipts[k].state = "done",
             s.receipts[k].state # "done"
      PROVE  s.receipts[k].ref = AuthRef(s) /\ m.pending.kind = "none"
  <2> DEFINE old == [ref |-> AuthRef(s), state |-> "bound"]
  <2>1. s.receipts[k] = old
    BY <1>2 DEF Marked
  <2>2. m.receipts[k] = [old EXCEPT !.state = verdict]
    BY <2>1 DEF Marked
  <2>3. verdict = "done"
    BY <2>2, <1>2
  <2> QED
    BY <2>1, <2>3
<1> QED
  BY <1>1, <1>2 DEF Follows

\* The operation stops, goes on with what it has, or saves what follows from it.
LEMMA OpStops ==
    ASSUME SaveInv, UNCHANGED vault, op' = NoOp
    PROVE  SaveInv'
BY DEF SaveInv, NoOp, Whole, SignedOut, vault, mem, Follows, AuthRef

LEMMA OpContinues ==
    ASSUME SaveInv, UNCHANGED vault, ~late.on, op.at \notin {"idle", "save"},
           DOMAIN op' = DOMAIN op, mem' = mem, op'.at \notin {"idle", "save"}
    PROVE  SaveInv'
BY DEF SaveInv, Whole, vault, mem

LEMMA OpSaves ==
    ASSUME SaveInv, UNCHANGED vault, op.at \notin {"idle", "save"},
           DOMAIN op' = DOMAIN op, op'.at = "save", Whole(mem'), Follows(mem, mem')
    PROVE  SaveInv'
<1>1. mem = keychain /\ ~late.on
  BY DEF SaveInv
<1>2. keychain' = keychain /\ late' = late
  BY DEF vault
<1>3. Follows(keychain, mem')
  BY <1>1
<1>4. Follows(keychain', mem')
  BY <1>2, <1>3
<1> QED
  BY <1>1, <1>2, <1>4 DEF SaveInv, Whole

\* A save of m, then p.
LEMMA SavesThen ==
    ASSUME SaveInv, UNCHANGED vault, op.at \notin {"idle", "save"}, NEW m, NEW p,
           SaveThen(m, p), Whole(m), Follows(mem, m)
    PROVE  SaveInv'
<1>1. DOMAIN op' = DOMAIN op /\ op'.at = "save" /\ mem' = m
  BY DEF SaveThen, SaveInv, NoOp, mem
<1> QED
  BY <1>1, OpSaves

\* What is pending is recovered, or a request begun: the receipts stay.
LEMMA Pending ==
    ASSUME SaveInv, UNCHANGED vault, op.at \notin {"idle", "save"},
           \/ RecoverPending
           \/ \E kind, cred, from, flow : Begin(kind, cred, from, flow)
           \/ CancelLogin(mem)
    PROVE  SaveInv'
<1>1. DOMAIN op' = DOMAIN op /\ op'.at = "save"
  BY DEF RecoverPending, Begin, CancelLogin, SaveInv, NoOp
<1>2. Whole(mem') /\ mem'.receipts = mem.receipts
  <2>1. DOMAIN mem' = DOMAIN mem /\ mem'.receipts = mem.receipts
    <3>1. /\ DOMAIN op = {"at", "next", "job", "org", "key", "ref", "mem", "recovery", "retry",
                          "rounds", "reply"}
          /\ DOMAIN mem = {"token", "login", "pending", "logout", "revocation", "receipts"}
      BY DEF SaveInv, NoOp, Whole, SignedOut
    <3>2. CASE RecoverPending
      BY <3>1, <3>2 DEF RecoverPending, mem
    <3>3. CASE \E kind, cred, from, flow : Begin(kind, cred, from, flow)
      <4>1. PICK kind, cred, from, flow : Begin(kind, cred, from, flow)
        BY <3>3
      <4>2. PICK rounds, revocation, pending :
              op' = [op EXCEPT !.at = "save", !.next = "transmit", !.recovery = FALSE,
                               !.retry = TRUE, !.rounds = rounds,
                               !.mem.revocation = revocation, !.mem.pending = pending]
        BY <4>1 DEF Begin
      <4> QED
        BY <3>1, <4>2 DEF mem
    <3>4. CASE CancelLogin(mem) /\ ~RecoverPending
      <4>1. PICK pending :
              op' = [op EXCEPT !.at = "save", !.next = "transmit", !.recovery = FALSE,
                               !.retry = FALSE, !.mem.pending = pending]
        BY <3>4 DEF CancelLogin
      <4> QED
        BY <3>1, <4>1 DEF mem
    <3> QED
      BY <3>2, <3>3, <3>4
  <2> QED
    BY <2>1 DEF SaveInv, Whole
<1> QED
  BY <1>1, <1>2, SameReceipts, OpSaves

\* Where the operation only goes on to another point.
LEMMA Goes ==
    ASSUME SaveInv, UNCHANGED vault, op.at \notin {"idle", "save"}, NEW p,
           Continue(p), p \notin {"idle", "save"}
    PROVE  SaveInv'
<1>1. DOMAIN op' = DOMAIN op /\ mem' = mem /\ op'.at \notin {"idle", "save"} /\ ~late.on
  BY DEF Continue, SaveInv, NoOp, mem
<1> QED
  BY <1>1, OpContinues
-----------------------------------------------------------------------------
\* A save arrives in time: nothing changed the Keychain since the operation read it.
LEMMA SavedKeeps == SaveInv /\ Saved => SaveInv'
<1> SUFFICES ASSUME SaveInv, Saved PROVE SaveInv'
  OBVIOUS
<1>1. CASE op.next = "idle"
  BY <1>1 DEF Saved, SaveInv, NoOp, Whole, SignedOut, mem, Follows
<1>2. CASE op.next # "idle"
  <2>1. op' = [op EXCEPT !.at = op.next] /\ keychain' = mem /\ late' = late /\ ~late.on
    BY <1>2 DEF Saved
  <2>2. DOMAIN op' = DOMAIN op /\ mem' = mem
    BY <2>1 DEF SaveInv, NoOp, mem
  <2>3. Follows(mem, mem)
    BY SameReceipts
  <2> QED
    BY <2>1, <2>2, <2>3 DEF SaveInv, Whole
<1> QED
  BY <1>1, <1>2

\* The decision of an operation that has been let in, and what it does without the network.
LEMMA DecisionKeeps ==
    ASSUME SaveInv,
           \/ Refused \/ RecoverFirst \/ Refresh \/ Enroll \/ Served \/ Login \/ Callback
           \/ Decline \/ Cancel \/ Bind \/ Reconcile \/ Exchange \/ Logout
    PROVE  SaveInv'
<1>1. UNCHANGED vault /\ op.at \notin {"idle", "save"}
  BY DEF Refused, RecoverFirst, Refresh, Enroll, Served, Login, Callback, Decline, Cancel, Bind,
     Reconcile, Exchange, Logout, Doing
<1>2. DOMAIN mem = DOMAIN SignedOut /\ DOMAIN mem.receipts = RecoveryKeys
  BY DEF SaveInv, Whole
<1>3. CASE Stop
  BY <1>1, <1>3, OpStops DEF Stop
<1>4. CASE RecoverPending \/ \E kind, cred, from, flow : Begin(kind, cred, from, flow)
  BY <1>1, <1>4, Pending
<1>5. CASE CancelLogin(mem)
  BY <1>1, <1>5, Pending
<1>6. CASE Continue("reconcile") \/ Continue("exchange") \/ Continue("clear")
  BY <1>1, <1>6, Goes
<1>7. ASSUME NEW m, NEW p, SaveThen(m, p), m.receipts = mem.receipts, DOMAIN m = DOMAIN mem
      PROVE  SaveInv'
  BY <1>1, <1>2, <1>7, SameReceipts, SavesThen DEF Whole
<1>8. CASE Login /\ ~Stop
  <2>1. CASE SaveThen([mem EXCEPT !.revocation = "none"], "start")
    BY <2>1, <1>2, <1>7 DEF SignedOut
  <2>2. CASE \E f : SaveThen([mem EXCEPT !.revocation = "none",
                                        !.login = [NoLogin EXCEPT !.flow = f]], "start")
    BY <2>2, <1>2, <1>7 DEF SignedOut
  <2> QED
    BY <2>1, <2>2, <1>8 DEF Login
<1>9. CASE Callback \/ Decline \/ Logout
  <2>1. CASE SaveThen([mem EXCEPT !.login.code = TRUE], "exchange")
    BY <2>1, <1>2, <1>7 DEF SignedOut
  <2>2. CASE SaveThen([mem EXCEPT !.login = NoLogin], "idle")
    BY <2>2, <1>2, <1>7 DEF SignedOut
  <2>3. CASE SaveThen([mem EXCEPT !.logout = TRUE], "revoke")
    BY <2>3, <1>2, <1>7 DEF SignedOut
  <2> QED
    BY <2>1, <2>2, <2>3, <1>3, <1>6, <1>9 DEF Callback, Decline, Logout
<1>10. CASE Bind
  <2>1. ASSUME NEW verdict \in {"bound", "rejected"}, NEW p,
               SaveThen([mem EXCEPT !.receipts[op.key] = [ref |-> op.ref, state |-> verdict]], p)
        PROVE  SaveInv'
    <3> DEFINE m == [mem EXCEPT !.receipts[op.key] = [ref |-> op.ref, state |-> verdict]]
    <3>1. Whole(m)
      BY <1>2 DEF Whole, SignedOut
    <3>2. Follows(mem, m)
      BY <1>2 DEF Follows, SignedOut
    <3> QED
      BY <1>1, <2>1, <3>1, <3>2, SavesThen
  <2>2. CASE Stop \/ Continue("reconcile")
    BY <2>2, <1>3, <1>6
  <2> QED
    BY <2>1, <2>2, <1>10 DEF Bind
<1> QED
  BY <1>3, <1>4, <1>5, <1>6, <1>8, <1>9, <1>10
     DEF Refused, RecoverFirst, Refresh, Enroll, Served, Cancel, Reconcile, Exchange

\* What the network answers, and what is done about it.
LEMMA AnswerKeeps ==
    ASSUME SaveInv,
           \/ StartAnswered \/ TransmitFenced \/ Transmit \/ AdoptExchange \/ Adopt
           \/ AdoptCancel \/ Canceled \/ NotCanceled \/ AdoptRejection
           \/ LogoutWithoutDevice \/ LogoutDevice \/ Revoked \/ Clear \/ NoAnswer
    PROVE  SaveInv'
<1>1. UNCHANGED vault /\ op.at \notin {"idle", "save"}
  BY DEF StartAnswered, TransmitFenced, Transmit, Deposit, AdoptExchange, Adopt, AdoptCancel,
     Canceled, NotCanceled, AdoptRejection, LogoutWithoutDevice, LogoutDevice, Revoked, Clear,
     NoAnswer, Answered, vault
<1>2. /\ DOMAIN mem = DOMAIN SignedOut /\ DOMAIN mem.receipts = RecoveryKeys
      /\ DOMAIN op = DOMAIN NoOp /\ ~late.on
  BY <1>1 DEF SaveInv, Whole
<1>3. CASE Stop
  BY <1>1, <1>3, OpStops DEF Stop
<1>4. CASE RecoverPending \/ CancelLogin(mem)
  BY <1>1, <1>4, Pending
<1>5. CASE Continue("canceled") \/ Continue("clear")
  BY <1>1, <1>5, Goes
<1>6. ASSUME NEW m, NEW p, SaveThen(m, p), m.receipts = mem.receipts, DOMAIN m = DOMAIN mem
      PROVE  SaveInv'
  BY <1>1, <1>2, <1>6, SameReceipts, SavesThen DEF Whole
<1>7. ASSUME NEW m, NEW p, NEW verdict, SaveThen(m, p), m.receipts = Marked(mem, verdict),
             DOMAIN m = DOMAIN mem, verdict = "done" => m.pending.kind = "none"
      PROVE  SaveInv'
  <2>1. Follows(mem, m) /\ Whole(m)
    BY <1>2, <1>7, MarkedFollows DEF Whole
  <2> QED
    BY <2>1, <1>1, <1>7, SavesThen
<1>8. CASE StartAnswered
  <2>1. PICK st : SaveThen([mem EXCEPT !.login.started = TRUE, !.login.stale = st], "idle")
                  \/ Stop
    BY <1>8 DEF StartAnswered
  <2> QED
    BY <2>1, <1>2, <1>3, <1>6 DEF SignedOut
<1>9. CASE TransmitFenced
  <2>1. CASE SaveThen([mem EXCEPT !.pending = NoPending], "idle")
    BY <2>1, <1>2, <1>6 DEF SignedOut
  <2> QED
    BY <2>1, <1>3, <1>9 DEF TransmitFenced
<1>10. CASE Transmit \/ LogoutDevice
  <2>1. DOMAIN op' = DOMAIN op /\ mem' = mem /\ op'.at = "answer"
    BY <1>10, <1>2 DEF Transmit, LogoutDevice, Deposit, NoOp, mem
  <2> QED
    BY <2>1, <1>1, <1>2, OpContinues
<1>11. CASE AdoptExchange
  <2>1. DOMAIN op' = DOMAIN op /\ op'.at = "save"
    BY <1>11, <1>2 DEF AdoptExchange, NoOp
  <2>2. Whole(mem') /\ mem'.receipts = mem.receipts
    BY <1>11, <1>2 DEF AdoptExchange, NoOp, Whole, SignedOut, mem
  <2> QED
    BY <2>1, <2>2, <1>1, SameReceipts, OpSaves
<1>12. CASE Adopt \/ Canceled
  <2>1. PICK s, p : /\ SaveThen(Settle(s), p) /\ DOMAIN s = DOMAIN mem
    <3>1. CASE Adopt
      <4>1. PICK token, login :
              SaveThen(Settle([mem EXCEPT !.token[mem.pending.cred] = token,
                                          !.login = login]), Back)
        BY <3>1 DEF Adopt
      <4>2. DOMAIN [mem EXCEPT !.token[mem.pending.cred] = token, !.login = login] = DOMAIN mem
        OBVIOUS
      <4> QED
        BY <4>1, <4>2
    <3>2. CASE Canceled
      BY <3>2 DEF Canceled
    <3> QED
      BY <3>1, <3>2, <1>12
  <2>2. /\ Settle(s).receipts = Marked(mem, "done") /\ DOMAIN Settle(s) = DOMAIN mem
        /\ Settle(s).pending.kind = "none"
    BY <2>1, <1>2 DEF Settle, SignedOut, NoPending
  <2> QED
    BY <2>1, <2>2, <1>7
<1>13. CASE AdoptCancel \/ Revoked
  <2>1. CASE SaveThen([mem EXCEPT !.revocation = "cancel"], "canceled")
    BY <2>1, <1>2, <1>6 DEF SignedOut
  <2>2. CASE SaveThen([mem EXCEPT !.revocation = "device"], "clear")
    BY <2>2, <1>2, <1>6 DEF SignedOut
  <2> QED
    BY <2>1, <2>2, <1>3, <1>5, <1>13 DEF AdoptCancel, Revoked
<1>14. CASE NotCanceled
  <2>1. PICK pending : SaveThen([mem EXCEPT !.pending = pending], "idle")
    BY <1>14 DEF NotCanceled
  <2> QED
    BY <2>1, <1>2, <1>6 DEF SignedOut
<1>15. CASE AdoptRejection
  <2>1. PICK pending : SaveThen([mem EXCEPT !.receipts = Marked(mem, "rejected"),
                                           !.pending = pending], "idle")
    BY <1>15 DEF AdoptRejection
  <2> QED
    BY <2>1, <1>2, <1>7 DEF SignedOut
<1>16. CASE Clear
  <2>1. SaveThen([SignedOut EXCEPT !.revocation = mem.revocation, !.receipts = mem.receipts],
                 "idle")
    BY <1>16 DEF Clear
  <2> QED
    BY <2>1, <1>2, <1>6 DEF SignedOut
<1> QED
  BY <1>3, <1>4, <1>5, <1>8, <1>9, <1>10, <1>11, <1>12, <1>13, <1>14, <1>15, <1>16
     DEF LogoutWithoutDevice, NoAnswer

\* An operation is let in only when no earlier save may still land.
LEMMA OpenKeeps ==
    ASSUME SaveInv, Ask \/ AskLogout \/ BrowserReturns
    PROVE  SaveInv'
<1>1. /\ ~late.on /\ UNCHANGED vault
      /\ DOMAIN op' = DOMAIN NoOp /\ op'.at = "decide" /\ op'.mem = keychain
  <2>1. CASE AskLogout
    BY <2>1 DEF AskLogout, NoOp
  <2>2. CASE Ask \/ BrowserReturns
    <3>1. PICK job, org, key, ref : Open(job, org, key, ref)
      BY <2>2 DEF Ask, BrowserReturns
    <3> QED
      BY <3>1 DEF Open, NoOp
  <2> QED
    BY <2>1, <2>2
<1> QED
  BY <1>1 DEF SaveInv, vault, mem, Whole

\* A save fails or lands late, the sign-in expires, the daemon dies.
LEMMA VaultKeeps ==
    ASSUME SaveInv, SaveFails \/ LateWrite \/ ExpireLogin \/ AuthCrash
    PROVE  SaveInv'
<1>1. CASE SaveFails
  <2>1. op' = NoOp /\ keychain' = keychain /\ op.at = "save"
        /\ (late' = late \/ late' = [on |-> TRUE, mem |-> mem])
    BY <1>1 DEF SaveFails, Stop
  <2>2. Whole(mem') /\ op'.at = "idle" /\ DOMAIN op' = DOMAIN NoOp /\ Follows(keychain, mem)
    BY <2>1 DEF SaveInv, NoOp, Whole, SignedOut, mem
  <2>3. CASE late' = late
    BY <2>1, <2>2, <2>3 DEF SaveInv
  <2>4. CASE late' = [on |-> TRUE, mem |-> mem]
    <3>1. late'.on = TRUE /\ late'.mem = mem /\ DOMAIN late' = DOMAIN NoLate
      BY <2>4 DEF NoLate
    <3> QED
      BY <2>1, <2>2, <3>1 DEF SaveInv
  <2> QED
    BY <2>1, <2>3, <2>4
<1>2. CASE LateWrite
  BY <1>2 DEF LateWrite, SaveInv, NoLate, Whole, SignedOut, mem, Follows
<1>3. CASE ExpireLogin
  <2>1. /\ keychain' = [keychain EXCEPT !.login.stale = TRUE] /\ UNCHANGED <<late, op>>
        /\ op.at = "idle" /\ ~late.on
    BY <1>3 DEF ExpireLogin
  <2>2. Whole(keychain')
    BY <2>1 DEF SaveInv, Whole, SignedOut
  <2> QED
    BY <2>1, <2>2 DEF SaveInv, mem
<1>4. CASE AuthCrash
  BY <1>4 DEF AuthCrash, Stop, SaveInv, NoOp, NoLate, Whole, SignedOut, mem, Follows
<1> QED
  BY <1>1, <1>2, <1>3, <1>4

\* The backend answers into the operation's reply, or moves by itself.
LEMMA BackendKeeps ==
    ASSUME SaveInv, UNCHANGED vault,
           UNCHANGED op \/ \E r : op' = [op EXCEPT !.reply = r]
    PROVE  SaveInv'
BY DEF SaveInv, NoOp, vault, mem

\* The first state.
LEMMA SaveInit == AuthInit => SaveInv
BY DEF AuthInit, SaveInv, NoOp, NoLate, SignedOut, Whole, mem, Follows

\* Every step keeps it.
LEMMA SaveNext == SaveInv /\ [AuthNext]_authVars => SaveInv'
<1> SUFFICES ASSUME SaveInv, [AuthNext]_authVars PROVE SaveInv'
  OBVIOUS
<1>1. CASE Step \/ NoAnswer
  BY <1>1, SavedKeeps, DecisionKeeps, AnswerKeeps DEF Step
<1>2. CASE Ask \/ AskLogout \/ BrowserReturns
  BY <1>2, OpenKeeps
<1>3. CASE SaveFails \/ LateWrite \/ ExpireLogin \/ AuthCrash
  BY <1>3, VaultKeeps
<1>4. CASE \E r \in transit : Serve(r)
  <2>1. PICK r \in transit : Serve(r)
    BY <1>4
  <2>2. UNCHANGED vault /\ (UNCHANGED op \/ \E x : op' = [op EXCEPT !.reply = x])
    BY <2>1 DEF Serve
  <2> QED
    BY <2>2, BackendKeeps
<1>5. CASE \/ \E r \in transit : Lost(r) \/ Bar(r)
           \/ \E f \in 1 .. MaxFlows : Decide(f)
           \/ \E c \in Creds : Expire(c)
           \/ UNCHANGED authVars
  <2>1. UNCHANGED vault /\ UNCHANGED op
    BY <1>5 DEF Lost, Bar, Decide, Expire, authVars, vault
  <2> QED
    BY <2>1, BackendKeeps
<1> QED
  BY <1>1, <1>2, <1>3, <1>4, <1>5 DEF AuthNext

(***************************************************************************)
(* What an operation saves, on time or late, follows from the Keychain as  *)
(* it is then: nobody else writes between its reading and its save         *)
(* (operation_lock, and the wait for a save that was given up).            *)
(***************************************************************************)
THEOREM SavesCorrect == AuthSpec => []SaveInv
BY SaveInit, SaveNext, PTL DEF AuthSpec

(***************************************************************************)
(* A recovery key is marked done only in the write that settles the very   *)
(* operation it was bound to ("an RPC key never acquires authority over a  *)
(* later pending generation"), also when that write lands late.            *)
(***************************************************************************)
THEOREM ReceiptsAreExact == AuthSpec => ReceiptsExact
<1>1. SaveInv /\ [AuthNext]_authVars =>
        [\A k \in RecoveryKeys :
           keychain'.receipts[k].state = "done" /\ keychain.receipts[k].state # "done"
             => /\ keychain.receipts[k].ref = AuthRef(keychain)
                /\ keychain'.pending.kind = "none"]_authVars
  <2> SUFFICES ASSUME SaveInv, AuthNext, NEW k \in RecoveryKeys,
                      keychain'.receipts[k].state = "done",
                      keychain.receipts[k].state # "done"
               PROVE  /\ keychain.receipts[k].ref = AuthRef(keychain)
                      /\ keychain'.pending.kind = "none"
    OBVIOUS
  <2>1. CASE Saved
    BY <2>1 DEF Saved, SaveInv, Follows
  <2>2. CASE LateWrite
    BY <2>2 DEF LateWrite, SaveInv, Follows
  <2>3. CASE ExpireLogin
    <3>1. keychain'.receipts = keychain.receipts
      BY <2>3 DEF ExpireLogin, SaveInv, Whole, SignedOut
    <3> QED
      BY <3>1
  <2>4. CASE UNCHANGED keychain
    BY <2>4
  <2>5. Saved \/ LateWrite \/ ExpireLogin \/ UNCHANGED keychain
    BY DEF AuthNext, Step, Refused, RecoverFirst, Refresh, Enroll, Served, Login, StartAnswered,
       Callback, Decline, Cancel, Bind, Reconcile, Exchange, TransmitFenced, Transmit, Deposit,
       AdoptExchange, Adopt, AdoptCancel, Canceled, NotCanceled, AdoptRejection, Logout,
       LogoutWithoutDevice, LogoutDevice, Revoked, Clear, Ask, AskLogout, BrowserReturns, Open,
       SaveFails, NoAnswer, AuthCrash, Serve, Lost, Bar, Decide, Expire, vault
  <2> QED
    BY <2>1, <2>2, <2>3, <2>4, <2>5
<1> QED
  BY <1>1, SavesCorrect, PTL DEF AuthSpec, ReceiptsExact

-----------------------------------------------------------------------------
\* What the backend would still issue, if it were served now.
RotatesYet(r) == r.kind = "refresh" /\ issued[r.cred].now = r.from
EnrollsYet(r) ==
    /\ r.kind = "enroll" /\ r.ref \notin barred /\ issued[r.cred].now = 0
    /\ Family(r.by) /\ issued[Device].now # 0
BindsYet(r) == r.kind = "bootstrap" /\ tx[r.flow] = "exchanged"

Issued == {"exchanged", "bound", "canceled"}      \* nothing makes its bootstrap good again
Counted == {"refresh", "enroll", "cancel"}        \* requests with a number of their own

PendingForm == [kind : Targets, cred : Creds, from : Nat, flow : 0 .. MaxFlows, ref : Int,
                used : BOOLEAN, revoke : BOOLEAN, over : {"none", "exchange", "bootstrap"}]

\* A protected state is one of a device that is not there, with a sign-in, or of one that
\* is, with its own rotations.
Formed(s) ==
    /\ s.token \in [Creds -> Nat] /\ \A c \in Creds : s.token[c] <= minted
    /\ s.login \in LoginRecord /\ s.pending \in PendingForm
    /\ s.token[Device] = 0 =>
         s.pending.kind \notin {"refresh", "enroll"} /\ \A c \in Creds : s.token[c] = 0
    /\ s.token[Device] # 0 => s.pending.kind \in {"none", "refresh", "enroll"} /\ s.login = NoLogin
    /\ s.login.started \/ s.login.code => s.login.flow # 0
    /\ s.pending.kind = "refresh" =>
         s.pending.from # 0 /\ s.pending.from = s.token[s.pending.cred]
    /\ s.pending.kind = "enroll" =>
         s.pending.cred \in Orgs /\ s.pending.from = 0 /\ s.token[s.pending.cred] = 0
    /\ s.pending.kind \in Counted => s.pending.ref \in 0 .. begins
    /\ s.pending.kind \in {"exchange", "bootstrap"} => s.pending.ref < 0
    /\ s.pending.kind \in {"exchange", "bootstrap", "cancel"} =>
         /\ s.pending.flow # 0 /\ s.pending.cred = Device /\ s.pending.from = 0
         /\ s.login.started => s.login.flow = s.pending.flow
    /\ s.pending.over # "none" => s.pending.kind = "cancel"
    /\ "bootstrap" \in {s.pending.kind, s.pending.over} => tx[s.pending.flow] \in Issued

\* It reaches what the backend holds valid, with the request that issued it if need be.
Reached(s) ==
    \A c \in Creds : issued[c].now # 0 =>
      \/ s.token[c] = issued[c].now
      \/ /\ s.pending.kind \in {"refresh", "enroll"} /\ s.pending.cred = c
         /\ s.token[c] = issued[c].before
      \/ /\ c = Device /\ s.token[Device] = 0 /\ "bootstrap" \in {s.pending.kind, s.pending.over}
         /\ tx[s.pending.flow] = "bound"

\* An enrollment that is refused for good issued nothing.
Ended(s) ==
    s.pending.kind = "enroll" /\ s.pending.ref \in barred => issued[s.pending.cred].now = 0

\* The evidence of a logout is true, and no sign-in goes on beside it.
Evident(s) ==
    /\ s.revocation = "device" =>
         /\ \A c \in Creds : issued[c].now = 0
         /\ s.pending.kind \notin {"exchange", "bootstrap"} /\ s.pending.over = "none"
    /\ s.revocation = "cancel" /\ s.token[Device] = 0 =>
         /\ s.pending.kind # "none" => tx[s.pending.flow] = "canceled"
         /\ s.login.started => tx[s.login.flow] = "canceled"

\* What may still be issued is what pends in it, and has its number to itself.
Covers(s, r) ==
    /\ RotatesYet(r) =>
         s.pending.kind = "refresh" /\ s.pending.cred = r.cred /\ s.token[r.cred] = r.from
    /\ EnrollsYet(r) =>
         /\ s.pending.kind = "enroll" /\ s.pending.cred = r.cred /\ s.pending.ref = r.ref
         /\ s.token[Device] = r.by
    /\ BindsYet(r) =>
         "bootstrap" \in {s.pending.kind, s.pending.over} /\ s.pending.flow = r.flow
    /\ r.kind \in Counted /\ s.pending.kind = "enroll" /\ s.pending.ref = r.ref =>
         r.kind = "enroll" /\ s.pending.cred = r.cred

Sound(s) ==
    Formed(s) /\ Reached(s) /\ Ended(s) /\ Evident(s) /\ \A r \in transit : Covers(s, r)

\* The request that the operation waits for.
Sent ==
    IF op.next = "clear"
    THEN [kind |-> "logout", cred |-> Device, from |-> 0, flow |-> 0, ref |-> 0,
          by |-> mem.token[Device], revoke |-> TRUE, recovery |-> FALSE, awaited |-> TRUE]
    ELSE [kind |-> mem.pending.kind, cred |-> mem.pending.cred, from |-> mem.pending.from,
          flow |-> mem.pending.flow, ref |-> mem.pending.ref, by |-> mem.token[Device],
          revoke |-> mem.pending.revoke, recovery |-> op.recovery, awaited |-> TRUE]

\* A request is one that was pending once, and only the last of them is waited for.
RequestFields ==
    {"kind", "cred", "from", "flow", "ref", "by", "revoke", "recovery", "awaited"}
Asked(r) ==
    /\ DOMAIN r = RequestFields
    /\ r.cred \in Creds /\ r.from \in 0 .. minted /\ r.by \in 0 .. minted
    /\ r.flow \in 0 .. MaxFlows /\ r.ref \in Int
    /\ r.kind = "refresh" => r.from # 0
    /\ r.kind = "enroll" => r.from = 0 /\ r.by # 0 /\ r.cred \in Orgs
    /\ r.kind \in Counted => r.ref \in 0 .. begins
    /\ r.kind \in {"exchange", "bootstrap"} => r.ref < 0
    /\ r.kind \in {"exchange", "bootstrap", "cancel"} => r.flow # 0
    /\ r.kind = "bootstrap" => r.cred = Device /\ r.from = 0 /\ tx[r.flow] \in Issued
Proper(r) ==
    Asked(r) /\ (r.awaited => op.at = "answer" /\ op.reply.state = "none" /\ r = Sent)

Backend ==
    /\ minted \in Nat \ {0} /\ begins \in Nat
    /\ tx \in [1 .. MaxFlows -> TxStates]
    /\ issued \in [Creds -> [now : Nat, before : Nat]]
    /\ \A c \in Creds : /\ issued[c].now <= minted /\ issued[c].before <= minted
                        /\ issued[c].now # 0 => issued[c].before # issued[c].now
                        /\ issued[Device].now = 0 => issued[c].now = 0
    /\ \A r \in transit : Proper(r)

\* What the answer means for the request that pends.
Meant ==
    LET p == mem.pending
        gone == issued[Device].now = 0 \/ ~Family(mem.token[Device])
        gen == op.reply.gen IN
    /\ op.reply.state = "ok" =>
         /\ gen \in 0 .. minted
         /\ p.kind = "exchange" => tx[p.flow] \in Issued
         /\ p.kind = "bootstrap" =>
              tx[p.flow] \in {"bound", "canceled"} /\ issued[Device].now \in {0, gen}
         /\ p.kind = "refresh" =>
              issued[p.cred].now \in {0, gen} /\ gen \notin {0, p.from}
         /\ p.kind = "enroll" =>
              issued[p.cred].now \in {0, gen} /\ (issued[p.cred].now = 0 => gone)
         /\ p.kind = "cancel" => tx[p.flow] = "canceled"
    /\ op.reply.state = "refused" /\ p.kind = "enroll" => p.ref \in barred \/ gone

At(p) == op.at = p \/ (op.at = "save" /\ op.next = p)
AllRevoked == \A c \in Creds : issued[c].now = 0

\* Where an operation is says what it has seen.
Going ==
    /\ op.job \in {"select", "credential", "bound"} => op.org \in Orgs
    /\ At("start") => /\ mem.pending.kind = "none" /\ mem.revocation = "none"
                      /\ mem.login.flow # 0 /\ mem.token[Device] = 0
    /\ At("exchange") => mem.login.flow # 0
    /\ At("transmit") /\ ~op.recovery /\ mem.pending.kind = "enroll" =>
         /\ issued[mem.pending.cred].now = 0
         /\ \A r \in transit : r.kind = "enroll" => r.ref # mem.pending.ref
    /\ op.at = "save" => op.next # "answer"
    /\ op.at = "transmit" => op.next = "transmit" /\ mem.pending.kind # "none"
    /\ op.at = "save" /\ op.next = "transmit" => mem.pending.kind # "none"
    /\ At("canceled") => mem.pending.kind = "cancel" /\ tx[mem.pending.flow] = "canceled"
    /\ At("revoke") => op.reply.state = "none"
    /\ op.at = "clear" =>
         Confirmed(mem) \/ (mem.pending.kind = "none" /\ \A c \in Creds : mem.token[c] = 0)
    /\ op.at = "save" /\ op.next = "clear" => mem.revocation = "device"
    /\ op.at = "answer" /\ op.next = "clear" => /\ mem.token[Device] # 0
                                                /\ op.reply.state # "none" => AllRevoked
    /\ op.at = "answer" /\ op.next # "clear" => mem.pending.kind # "none" /\ Meant

ReachInv ==
    /\ Backend
    /\ Sound(keychain)
    /\ op.at # "idle" => Sound(mem) /\ Going
    /\ late.on => Sound(late.mem)
-----------------------------------------------------------------------------
\* The same request, whoever still waits for it.
Again(q, r) ==
    /\ DOMAIN q = DOMAIN r
    /\ q.kind = r.kind /\ q.cred = r.cred /\ q.from = r.from /\ q.by = r.by
    /\ q.flow = r.flow /\ q.ref = r.ref

\* Nothing that was issued changes; a transaction goes on before its exchange, or is canceled
\* before it binds.
Quiet ==
    /\ issued' = issued /\ minted' = minted /\ begins' \in Nat /\ begins' >= begins
    /\ barred' = barred /\ tx' \in [1 .. MaxFlows -> TxStates]
    /\ \A f \in 1 .. MaxFlows :
         tx'[f] = tx[f] \/ tx[f] \notin Issued \/ (tx[f] # "bound" /\ tx'[f] = "canceled")

\* The device is a credential.
LEMMA DeviceIs == Device \in Creds /\ Device \notin Orgs /\ Orgs \subseteq Creds
BY AuthAssumption DEF Device, Creds

\* What a protected state says of flows is of real ones.
LEMMA FormedFlows ==
    ASSUME NEW s, Formed(s)
    PROVE  /\ s.login.flow \in 0 .. MaxFlows /\ s.pending.flow \in 0 .. MaxFlows
           /\ s.login.started \/ s.login.code => s.login.flow \in 1 .. MaxFlows
           /\ s.pending.kind \in {"exchange", "bootstrap", "cancel"} =>
                s.pending.flow \in 1 .. MaxFlows
           /\ "bootstrap" \in {s.pending.kind, s.pending.over} =>
                s.pending.flow \in 1 .. MaxFlows
           /\ s.pending.kind \in Targets /\ s.pending.over \in {"none", "exchange", "bootstrap"}
           /\ s.pending.cred \in Creds /\ s.pending.from \in Nat /\ s.pending.ref \in Int
<1>1. /\ s.login \in LoginRecord /\ s.pending \in PendingForm /\ MaxFlows \in Nat
      /\ s.login.started \/ s.login.code => s.login.flow # 0
      /\ s.pending.kind \in {"exchange", "bootstrap", "cancel"} => s.pending.flow # 0
      /\ s.pending.over # "none" => s.pending.kind = "cancel"
  BY AuthAssumption DEF Formed
<1>2. /\ s.login.flow \in 0 .. MaxFlows /\ s.pending.flow \in 0 .. MaxFlows
      /\ s.pending.kind \in Targets /\ s.pending.over \in {"none", "exchange", "bootstrap"}
      /\ s.pending.cred \in Creds /\ s.pending.from \in Nat /\ s.pending.ref \in Int
  BY <1>1 DEF LoginRecord, PendingForm
<1> QED
  BY <1>1, <1>2

\* What the quiet backend does to a protected state: nothing, as what it binds is bound.
LEMMA QuietKeeps ==
    ASSUME Backend, Quiet, NEW m, Sound(m),
           \A r \in transit' :
             \/ \E q \in transit : Again(q, r)
             \/ /\ Covers(m, r)
                /\ r.kind = "bootstrap" => r.flow \in 1 .. MaxFlows /\ tx[r.flow] \in Issued
    PROVE  Sound(m)'
<1>1. Formed(m) /\ Reached(m) /\ Ended(m) /\ Evident(m) /\ \A r \in transit : Covers(m, r)
  BY DEF Sound
<1>2. \A f \in 1 .. MaxFlows :
         /\ tx[f] \in Issued => tx'[f] \in Issued
         /\ tx[f] \in Issued /\ tx'[f] = "exchanged" => tx[f] = "exchanged"
         /\ tx[f] = "bound" => tx'[f] = "bound"
         /\ tx[f] = "canceled" => tx'[f] = "canceled"
  BY DEF Quiet, Issued
<1>3. Formed(m)'
  <2>1. "bootstrap" \in {m.pending.kind, m.pending.over} => tx'[m.pending.flow] \in Issued
    BY <1>1, <1>2, FormedFlows DEF Formed
  <2>2. m.pending.kind \in Counted => m.pending.ref <= begins'
    <3>1. m.pending.kind \in Counted => m.pending.ref <= begins /\ m.pending.ref \in Nat
      BY <1>1, FormedFlows DEF Formed
    <3> QED
      BY <3>1 DEF Quiet, Backend
  <2> QED
    BY <2>1, <2>2, <1>1 DEF Formed, Quiet, Issued
<1>4. Reached(m)'
  <2>1. "bootstrap" \in {m.pending.kind, m.pending.over} /\ tx[m.pending.flow] = "bound"
          => tx'[m.pending.flow] = "bound"
    BY <1>1, <1>2, FormedFlows
  <2> QED
    BY <2>1, <1>1 DEF Reached, Quiet
<1>5. Evident(m)'
  <2>1. m.login.started => m.login.flow \in 1 .. MaxFlows
    BY <1>1, FormedFlows
  <2>2. m.token[Device] = 0 /\ m.pending.kind # "none" => m.pending.flow \in 1 .. MaxFlows
    BY <1>1, FormedFlows DEF Formed, Targets
  <2> QED
    BY <2>1, <2>2, <1>1, <1>2 DEF Evident, Quiet
<1>6. ASSUME NEW r \in transit' PROVE Covers(m, r)'
  <2>1. Covers(m, r)
    BY <1>1, <1>6 DEF Again, Covers, RotatesYet, EnrollsYet, BindsYet, Family
  <2>2. RotatesYet(r)' => RotatesYet(r)
    BY DEF RotatesYet, Quiet
  <2>3. EnrollsYet(r)' => EnrollsYet(r)
    BY DEF EnrollsYet, Family, Quiet
  <2>4. BindsYet(r)' => BindsYet(r)
    <3>1. r.kind = "bootstrap" => r.flow \in 1 .. MaxFlows /\ tx[r.flow] \in Issued
      <4>1. \A q \in transit :
              q.kind = "bootstrap" => q.flow \in 1 .. MaxFlows /\ tx[q.flow] \in Issued
        BY AuthAssumption DEF Backend, Proper, Asked
      <4> QED
        BY <4>1, <1>6 DEF Again
    <3> QED
      BY <3>1, <1>2 DEF BindsYet
  <2> QED
    BY <2>1, <2>2, <2>3, <2>4 DEF Covers
<1>7. Ended(m)'
  BY <1>1 DEF Ended, Quiet
<1> QED
  BY <1>3, <1>4, <1>5, <1>6, <1>7 DEF Sound
-----------------------------------------------------------------------------
\* What a request that is served may do.
Issue(r) ==
    /\ minted' = minted + 1
    /\ issued' = [issued EXCEPT ![r.cred] = [now |-> minted + 1, before |-> r.from]]
Binds(r) == BindsYet(r) /\ Issue(r) /\ tx' = [tx EXCEPT ![r.flow] = "bound"]
Rotates(r) == RotatesYet(r) /\ Issue(r) /\ tx' = tx
Enrolls(r) == EnrollsYet(r) /\ Issue(r) /\ tx' = tx
RevokesAll ==
    /\ minted' = minted /\ issued' = [c \in Creds |-> [now |-> 0, before |-> issued[c].now]]
    /\ tx' \in [1 .. MaxFlows -> TxStates]
    /\ \A f \in 1 .. MaxFlows : tx'[f] = tx[f] \/ tx'[f] = "canceled"

\* A request issues a credential, revokes all, or is quiet.
LEMMA Serves ==
    ASSUME Backend, NEW r \in transit, Serve(r)
    PROVE  Binds(r) \/ Rotates(r) \/ Enrolls(r) \/ RevokesAll \/ Quiet
<1> DEFINE ok == Accepts(r)
<1>1. /\ Proper(r) /\ tx \in [1 .. MaxFlows -> TxStates] /\ MaxFlows \in Nat
      /\ r.kind \in {"exchange", "bootstrap", "cancel"} => r.flow \in 1 .. MaxFlows
  BY AuthAssumption DEF Backend, Proper, Asked
<1>2. /\ begins' \in Nat /\ begins' >= begins /\ barred' = barred
  BY DEF Serve, Backend
<1>3. /\ minted' = IF ok /\ Issues(r) THEN minted + 1 ELSE minted
      /\ issued' = IF ok /\ Issues(r)
                   THEN [issued EXCEPT ![r.cred] = [now |-> minted + 1, before |-> r.from]]
                   ELSE IF ok /\ Revokes(r)
                   THEN [c \in Creds |-> [now |-> 0, before |-> issued[c].now]]
                   ELSE issued
      /\ tx' = CASE ok /\ r.kind = "exchange" /\ tx[r.flow] = "approved" ->
                           [tx EXCEPT ![r.flow] = "exchanged"]
                 [] ok /\ r.kind = "bootstrap" -> [tx EXCEPT ![r.flow] = "bound"]
                 [] ok /\ r.kind = "cancel" -> [tx EXCEPT ![r.flow] = "canceled"]
                 [] OTHER -> tx
  BY DEF Serve, Fresh
<1>4. CASE ~ok
  <2>1. issued' = issued /\ minted' = minted /\ tx' = tx
    BY <1>3, <1>4
  <2> QED
    BY <2>1, <1>1, <1>2 DEF Quiet
<1>5. CASE ok /\ r.kind = "exchange"
  <2>1. ~Issues(r) /\ ~Revokes(r)
    BY <1>5 DEF Issues, Revokes
  <2>2. issued' = issued /\ minted' = minted
    BY <2>1, <1>3
  <2>3. tx' = tx \/ (tx[r.flow] = "approved" /\ tx' = [tx EXCEPT ![r.flow] = "exchanged"])
    BY <1>3, <1>5
  <2> QED
    BY <2>2, <2>3, <1>1, <1>2, <1>5 DEF Quiet, TxStates, Issued
<1>6. CASE ok /\ r.kind = "bootstrap"
  <2>1. /\ Issues(r) <=> tx[r.flow] = "exchanged"
        /\ ~Revokes(r) /\ tx[r.flow] \in {"exchanged", "bound"}
    BY <1>6 DEF Issues, Revokes, Accepts
  <2>2. tx' = [tx EXCEPT ![r.flow] = "bound"]
    BY <1>3, <1>6
  <2>3. CASE tx[r.flow] = "exchanged"
    BY <2>1, <2>2, <2>3, <1>3, <1>6 DEF Binds, BindsYet, Issue
  <2>4. CASE tx[r.flow] = "bound"
    <3>1. issued' = issued /\ minted' = minted
      BY <2>1, <2>4, <1>3
    <3> QED
      BY <3>1, <2>2, <2>4, <1>1, <1>2, <1>6 DEF Quiet, TxStates
  <2> QED
    BY <2>1, <2>3, <2>4
<1>7. CASE ok /\ r.kind = "cancel"
  <2>1. ~Issues(r) /\ (Revokes(r) <=> tx[r.flow] = "bound")
    BY <1>7 DEF Issues, Revokes
  <2>2. tx' = [tx EXCEPT ![r.flow] = "canceled"] /\ minted' = minted
    BY <2>1, <1>3, <1>7
  <2>3. CASE tx[r.flow] = "bound"
    BY <2>1, <2>2, <2>3, <1>1, <1>3, <1>7 DEF RevokesAll, TxStates
  <2>4. CASE tx[r.flow] # "bound"
    <3>1. issued' = issued
      BY <2>1, <2>4, <1>3
    <3> QED
      BY <3>1, <2>2, <2>4, <1>1, <1>2, <1>7 DEF Quiet, TxStates
  <2> QED
    BY <2>3, <2>4
<1>8. CASE ok /\ r.kind \notin {"exchange", "bootstrap", "cancel"}
  <2>1. tx' = tx
    BY <1>3, <1>8
  <2>2. CASE Issues(r) /\ r.kind = "refresh"
    BY <2>1, <2>2, <1>3, <1>8 DEF Rotates, RotatesYet, Issue, Issues
  <2>3. CASE Issues(r) /\ r.kind = "enroll"
    <3>1. r.ref \notin barred /\ Family(r.by) /\ issued[Device].now # 0
      BY <2>3, <1>8 DEF Accepts
    <3> QED
      BY <3>1, <2>1, <2>3, <1>3, <1>8 DEF Enrolls, EnrollsYet, Issue, Issues
  <2>4. CASE ~Issues(r) /\ Revokes(r)
    BY <2>1, <2>4, <1>1, <1>3, <1>8 DEF RevokesAll
  <2>5. CASE ~Issues(r) /\ ~Revokes(r)
    BY <2>1, <2>5, <1>1, <1>2, <1>3, <1>8 DEF Quiet
  <2> QED
    BY <2>2, <2>3, <2>4, <2>5, <1>8 DEF Issues
<1> QED
  BY <1>4, <1>5, <1>6, <1>7, <1>8

\* Every request on its way is one that was pending once.
LEMMA Requested ==
    ASSUME Backend, NEW q \in transit
    PROVE  /\ q.cred \in Creds /\ q.from \in Nat /\ q.from <= minted
           /\ q.by \in Nat /\ q.by <= minted
           /\ q.kind = "refresh" => q.from # 0
           /\ q.kind = "enroll" => q.from = 0 /\ q.by # 0 /\ q.cred \in Orgs
           /\ q.kind = "bootstrap" =>
                /\ q.cred = Device /\ q.from = 0 /\ q.flow \in 1 .. MaxFlows
                /\ tx[q.flow] \in Issued
BY AuthAssumption DEF Backend, Proper, Asked

\* Everything is revoked: nothing is left to reach, and nothing is issued any more.
LEMMA RevokedKeeps ==
    ASSUME Backend, NEW r \in transit, Serve(r), RevokesAll, NEW m, Sound(m)
    PROVE  Sound(m)'
<1>1. Formed(m) /\ Evident(m) /\ \A q \in transit : Covers(m, q)
  BY DEF Sound
<1>2. /\ transit' = transit \ {r} /\ begins' = begins /\ minted' = minted
      /\ \A c \in Creds : issued'[c].now = 0
      /\ \A f \in 1 .. MaxFlows : tx'[f] = tx[f] \/ tx'[f] = "canceled"
  BY DEF Serve, RevokesAll
<1>3. Formed(m)'
  <2>1. "bootstrap" \in {m.pending.kind, m.pending.over} => tx'[m.pending.flow] \in Issued
    BY <1>1, <1>2, FormedFlows DEF Formed, Issued
  <2> QED
    BY <2>1, <1>1, <1>2 DEF Formed, Issued
<1>4. Reached(m)'
  BY <1>2 DEF Reached
<1>5. Evident(m)'
  <2>1. m.login.started => m.login.flow \in 1 .. MaxFlows
    BY <1>1, FormedFlows
  <2>2. m.token[Device] = 0 /\ m.pending.kind # "none" => m.pending.flow \in 1 .. MaxFlows
    BY <1>1, FormedFlows DEF Formed, Targets
  <2> QED
    BY <2>1, <2>2, <1>1, <1>2 DEF Evident
<1>6. ASSUME NEW q \in transit' PROVE Covers(m, q)'
  <2>1. q \in transit /\ Covers(m, q)
    BY <1>1, <1>2
  <2>2. ~RotatesYet(q)' /\ ~EnrollsYet(q)' /\ (BindsYet(q)' => BindsYet(q))
    BY <2>1, <1>2, Requested, DeviceIs DEF RotatesYet, EnrollsYet, BindsYet
  <2> QED
    BY <2>1, <2>2 DEF Covers
<1>7. Ended(m)'
  BY <1>2, <1>1, FormedFlows DEF Ended
<1> QED
  BY <1>3, <1>4, <1>5, <1>6, <1>7 DEF Sound

\* A sign-in is bound: the bootstrap that pends reaches its device.
LEMMA BindsKeeps ==
    ASSUME Backend, NEW r \in transit, Serve(r), Binds(r), NEW m, Sound(m)
    PROVE  Sound(m)'
<1>1. Formed(m) /\ Reached(m) /\ Ended(m) /\ Evident(m) /\ \A q \in transit : Covers(m, q)
  BY DEF Sound
<1>2. /\ r.kind = "bootstrap" /\ tx[r.flow] = "exchanged" /\ r.cred = Device /\ r.from = 0
      /\ r.flow \in 1 .. MaxFlows /\ tx' = [tx EXCEPT ![r.flow] = "bound"]
      /\ transit' = transit \ {r} /\ begins' = begins /\ minted' = minted + 1 /\ minted \in Nat
      /\ tx \in [1 .. MaxFlows -> TxStates]
      /\ issued \in [Creds -> [now : Nat, before : Nat]]
  BY Requested DEF Serve, Binds, BindsYet, Issue, Backend
<1>3. issued' = [issued EXCEPT ![Device] = [now |-> minted + 1, before |-> 0]]
  BY <1>2 DEF Binds, Issue
<1>4. /\ "bootstrap" \in {m.pending.kind, m.pending.over} /\ m.pending.flow = r.flow
      /\ m.token[Device] = 0 /\ m.pending.kind \notin {"none", "refresh", "enroll"}
  <2>1. "bootstrap" \in {m.pending.kind, m.pending.over} /\ m.pending.flow = r.flow
    BY <1>1 DEF Covers, Binds
  <2>2. m.pending.kind \notin {"none", "refresh", "enroll"}
    BY <2>1, <1>1 DEF Formed
  <2> QED
    BY <2>1, <2>2, <1>1 DEF Formed
<1>5. /\ \A c \in Creds : m.token[c] = 0 /\ m.token[c] <= minted + 1
      /\ tx'[m.pending.flow] = "bound"
      /\ issued'[Device].now = minted + 1 /\ issued'[Device].before = 0
      /\ \A c \in Creds : c # Device => issued'[c] = issued[c]
  BY <1>1, <1>2, <1>3, <1>4, DeviceIs DEF Formed
<1>6. Formed(m)'
  BY <1>1, <1>2, <1>5 DEF Formed, Issued
<1>7. Reached(m)'
  <2>1. ASSUME NEW c \in Creds, c # Device PROVE issued'[c].now = 0
    BY <2>1, <1>1, <1>4, <1>5 DEF Reached
  <2> QED
    BY <2>1, <1>4, <1>5 DEF Reached
<1>8. Evident(m)'
  <2>1. m.revocation # "device"
    BY <1>1, <1>4 DEF Evident
  <2>2. m.revocation # "cancel"
    BY <1>1, <1>2, <1>4 DEF Evident
  <2> QED
    BY <2>1, <2>2 DEF Evident
<1>9. ASSUME NEW q \in transit' PROVE Covers(m, q)'
  <2>1. q \in transit /\ Covers(m, q)
    BY <1>1, <1>2
  <2>2. q.cred \in Creds /\ q.from \in Nat /\ q.from <= minted /\ q.by \in Nat /\ q.by <= minted
        /\ (q.kind = "enroll" => q.by # 0)
        /\ (q.kind = "bootstrap" => q.flow \in 1 .. MaxFlows)
    BY <2>1, Requested
  <2>3. ~RotatesYet(q)'
    <3>1. CASE q.cred = Device
      BY <3>1, <2>2, <1>2, <1>5 DEF RotatesYet
    <3>2. CASE q.cred # Device
      BY <3>2, <2>1, <2>2, <1>4, <1>5 DEF RotatesYet, Covers
    <3> QED
      BY <3>1, <3>2
  <2>4. ~EnrollsYet(q)'
    BY <2>2, <1>2, <1>5 DEF EnrollsYet, Family
  <2>5. ~BindsYet(q)'
    <3>1. CASE q.flow = r.flow
      BY <3>1, <1>2, <1>4, <1>5 DEF BindsYet
    <3>2. CASE q.flow # r.flow
      BY <3>2, <2>1, <2>2, <1>2, <1>4 DEF BindsYet, Covers
    <3> QED
      BY <3>1, <3>2
  <2> QED
    BY <2>1, <2>3, <2>4, <2>5 DEF Covers
<1>10. Ended(m)'
  BY <1>4 DEF Ended
<1> QED
  BY <1>6, <1>7, <1>8, <1>9, <1>10 DEF Sound

\* A credential is rotated: the refresh that pends reaches the new one.
LEMMA RotatesKeeps ==
    ASSUME Backend, NEW r \in transit, Serve(r), Rotates(r), NEW m, Sound(m)
    PROVE  Sound(m)'
<1>1. Formed(m) /\ Reached(m) /\ Ended(m) /\ Evident(m) /\ \A q \in transit : Covers(m, q)
  BY DEF Sound
<1>2. /\ r.kind = "refresh" /\ r.cred \in Creds /\ r.from \in Nat /\ r.from # 0
      /\ issued[r.cred].now = r.from /\ tx' = tx
      /\ transit' = transit \ {r} /\ begins' = begins /\ minted' = minted + 1 /\ minted \in Nat
      /\ issued \in [Creds -> [now : Nat, before : Nat]]
      /\ issued' = [issued EXCEPT ![r.cred] = [now |-> minted + 1, before |-> r.from]]
  BY Requested DEF Serve, Rotates, RotatesYet, Issue, Backend
<1>3. /\ m.pending.kind = "refresh" /\ m.pending.cred = r.cred /\ m.token[r.cred] = r.from
  BY <1>1 DEF Covers, Rotates
<1>4. /\ issued'[r.cred].now = minted + 1 /\ issued'[r.cred].before = r.from
      /\ \A c \in Creds : c # r.cred => issued'[c] = issued[c]
  BY <1>2
<1>5. Formed(m)'
  <2>1. \A c \in Creds : m.token[c] <= minted + 1
    BY <1>1, <1>2 DEF Formed
  <2> QED
    BY <2>1, <1>1, <1>2 DEF Formed, Issued
<1>6. Reached(m)'
  BY <1>1, <1>2, <1>3, <1>4 DEF Reached
<1>7. Evident(m)'
  <2>1. m.revocation # "device"
    BY <1>1, <1>2 DEF Evident
  <2> QED
    BY <2>1, <1>1, <1>2 DEF Evident
<1>8. ASSUME NEW q \in transit' PROVE Covers(m, q)'
  <2>1. q \in transit /\ Covers(m, q)
    BY <1>1, <1>2
  <2>2. q.cred \in Creds /\ q.from \in Nat /\ q.from <= minted /\ q.by \in Nat /\ q.by <= minted
    BY <2>1, Requested
  <2>3. RotatesYet(q)' => RotatesYet(q)
    <3>1. CASE q.cred = r.cred
      BY <3>1, <2>2, <1>2, <1>4 DEF RotatesYet
    <3>2. CASE q.cred # r.cred
      BY <3>2, <2>2, <1>4 DEF RotatesYet
    <3> QED
      BY <3>1, <3>2
  <2>4. EnrollsYet(q)' => EnrollsYet(q)
    <3>1. CASE r.cred = Device
      <4>1. Family(q.by)' => Family(q.by) /\ issued[Device].now # 0
        BY <3>1, <2>2, <1>2, <1>4 DEF Family
      <4>2. q.cred # Device => issued'[q.cred].now = issued[q.cred].now
        BY <3>1, <2>2, <1>4
      <4>3. q.cred = Device => issued'[q.cred].now # 0
        BY <3>1, <1>2, <1>4
      <4> QED
        BY <4>1, <4>2, <4>3 DEF EnrollsYet, Serve
    <3>2. CASE r.cred # Device
      <4>1. issued'[Device] = issued[Device]
        BY <3>2, <1>4, DeviceIs
      <4>2. issued'[q.cred].now = 0 => issued[q.cred].now = 0
        BY <2>2, <1>2, <1>4
      <4> QED
        BY <4>1, <4>2 DEF EnrollsYet, Family, Serve
    <3> QED
      BY <3>1, <3>2
  <2>5. BindsYet(q)' => BindsYet(q)
    BY <1>2 DEF BindsYet
  <2> QED
    BY <2>1, <2>3, <2>4, <2>5 DEF Covers
<1>9. Ended(m)'
  BY <1>3 DEF Ended
<1> QED
  BY <1>5, <1>6, <1>7, <1>8, <1>9 DEF Sound

\* An organization is enrolled: the enrollment that pends reaches it.
LEMMA EnrollsKeeps ==
    ASSUME Backend, NEW r \in transit, Serve(r), Enrolls(r), NEW m, Sound(m)
    PROVE  Sound(m)'
<1>1. Formed(m) /\ Reached(m) /\ Ended(m) /\ Evident(m) /\ \A q \in transit : Covers(m, q)
  BY DEF Sound
<1>2. /\ r.kind = "enroll" /\ r.cred \in Orgs /\ r.cred \in Creds /\ r.from = 0
      /\ issued[r.cred].now = 0 /\ issued[Device].now # 0 /\ tx' = tx
      /\ transit' = transit \ {r} /\ begins' = begins /\ minted' = minted + 1 /\ minted \in Nat
      /\ issued \in [Creds -> [now : Nat, before : Nat]]
      /\ issued' = [issued EXCEPT ![r.cred] = [now |-> minted + 1, before |-> r.from]]
  BY Requested DEF Serve, Enrolls, EnrollsYet, Issue, Backend
<1>3. m.pending.kind = "enroll" /\ m.pending.cred = r.cred /\ m.token[r.cred] = 0
  BY <1>1 DEF Covers, Enrolls, Formed
<1>4. /\ issued'[r.cred].now = minted + 1 /\ issued'[r.cred].before = 0 /\ r.cred # Device
      /\ \A c \in Creds : c # r.cred => issued'[c] = issued[c]
  BY <1>2, DeviceIs
<1>5. Formed(m)'
  <2>1. \A c \in Creds : m.token[c] <= minted + 1
    BY <1>1, <1>2 DEF Formed
  <2> QED
    BY <2>1, <1>1, <1>2 DEF Formed, Issued
<1>6. Reached(m)'
  BY <1>1, <1>2, <1>3, <1>4 DEF Reached
<1>7. Evident(m)'
  <2>1. m.revocation # "device"
    BY <1>1, <1>2, DeviceIs DEF Evident
  <2> QED
    BY <2>1, <1>1, <1>2 DEF Evident
<1>8. ASSUME NEW q \in transit' PROVE Covers(m, q)'
  <2>1. q \in transit /\ Covers(m, q)
    BY <1>1, <1>2
  <2>2. q.cred \in Creds /\ q.from \in Nat /\ q.from <= minted
    BY <2>1, Requested
  <2>3. RotatesYet(q)' => RotatesYet(q)
    BY <2>2, <1>2, <1>4 DEF RotatesYet
  <2>4. EnrollsYet(q)' => EnrollsYet(q)
    <3>1. issued'[Device] = issued[Device]
      BY <1>4, DeviceIs
    <3>2. issued'[q.cred].now = 0 => issued[q.cred].now = 0
      BY <2>2, <1>2, <1>4
    <3> QED
      BY <3>1, <3>2 DEF EnrollsYet, Family, Serve
  <2>5. BindsYet(q)' => BindsYet(q)
    BY <1>2 DEF BindsYet
  <2> QED
    BY <2>1, <2>3, <2>4, <2>5 DEF Covers
<1>9. m.pending.ref = r.ref /\ r.ref \notin barred /\ barred' = barred
  BY <1>1 DEF Covers, Enrolls, EnrollsYet, Serve
<1>10. Ended(m)'
  BY <1>1, <1>9 DEF Ended
<1> QED
  BY <1>5, <1>6, <1>7, <1>8, <1>10 DEF Sound

\* Serving a request leaves every sound state sound.
LEMMA ServeKeepsSound ==
    ASSUME Backend, NEW r \in transit, Serve(r), NEW m, Sound(m)
    PROVE  Sound(m)'
<1>1. CASE Quiet
  <2>1. \A q \in transit' : \E x \in transit : Again(x, q)
    BY DEF Serve, Again
  <2> QED
    BY <2>1, <1>1, QuietKeeps
<1> QED
  BY <1>1, Serves, RevokedKeeps, BindsKeeps, RotatesKeeps, EnrollsKeeps
-----------------------------------------------------------------------------
\* Nothing is waited for before a request is sent, and after its answer is here.
LEMMA Unwaited ==
    ASSUME Backend, NEW r \in transit, op.at # "answer" \/ op.reply.state # "none"
    PROVE  ~r.awaited
BY DEF Backend, Proper

\* What an operation has seen is still so when nothing else was issued.
LEMMA GoingQuiet ==
    ASSUME Backend, Quiet, op' = op, op.at # "idle", Going, Sound(mem),
           \A r \in transit' : \E q \in transit : Again(q, r)
    PROVE  Going'
<1>1. /\ mem' = mem /\ issued' = issued /\ barred' = barred /\ minted' = minted
      /\ \A f \in 1 .. MaxFlows :
           /\ tx[f] \in Issued => tx'[f] \in Issued
           /\ tx[f] = "bound" => tx'[f] = "bound"
           /\ tx[f] = "canceled" => tx'[f] = "canceled"
  BY DEF Quiet, Issued, mem
<1>2. /\ mem.pending.kind \in {"exchange", "bootstrap", "cancel"} =>
           mem.pending.flow \in 1 .. MaxFlows
  BY FormedFlows DEF Sound
<1>3. Meant => Meant'
  BY <1>1, <1>2 DEF Meant, Family
<1>4. (\A r \in transit : r.kind = "enroll" => r.ref # mem.pending.ref)
        => (\A r \in transit' : r.kind = "enroll" => r.ref # mem.pending.ref)
  BY DEF Again
<1>5. At("canceled") => At("canceled")' /\ tx'[mem.pending.flow] = "canceled"
  BY <1>1, <1>2 DEF At, Going
<1> QED
  BY <1>1, <1>3, <1>4, <1>5 DEF Going, At, AllRevoked, Confirmed

\* What the backend serves to nobody: nothing that the operation has seen changes.
LEMMA MeantStays ==
    ASSUME Backend, NEW r \in transit, Serve(r), op' = op, Going, Sound(mem),
           op.at = "answer", op.next # "clear"
    PROVE  Meant'
<1>1. /\ mem' = mem /\ barred' = barred /\ Meant /\ Covers(mem, r)
      /\ mem.pending.kind \in {"exchange", "bootstrap", "cancel"} =>
           mem.pending.flow \in 1 .. MaxFlows
      /\ minted \in Nat /\ issued \in [Creds -> [now : Nat, before : Nat]]
      /\ tx \in [1 .. MaxFlows -> TxStates]
  BY FormedFlows DEF Sound, Going, Serve, mem, Backend
<1>2. CASE Quiet
  <2>1. \A q \in transit' : \E x \in transit : Again(x, q)
    BY DEF Serve, Again
  <2>2. op.at # "idle"
    OBVIOUS
  <2>3. Going'
    BY <2>1, <2>2, <1>2, GoingQuiet
  <2> QED
    BY <2>3 DEF Going
<1>3. CASE RevokesAll
  <2>1. /\ \A c \in Creds : issued'[c].now = 0
        /\ minted' = minted
        /\ \A f \in 1 .. MaxFlows : tx'[f] = tx[f] \/ tx'[f] = "canceled"
    BY <1>3 DEF RevokesAll
  <2> QED
    BY <2>1, <1>1, DeviceIs, FormedFlows DEF Meant, Issued, Sound
<1>4. CASE Binds(r)
  <2>1. "bootstrap" \in {mem.pending.kind, mem.pending.over} /\ mem.pending.flow = r.flow
    BY <1>1, <1>4 DEF Covers, Binds
  <2>2. tx[r.flow] = "exchanged" /\ mem.pending.kind \in {"bootstrap", "cancel"}
    BY <1>4, <2>1 DEF Binds, BindsYet, Sound, Formed
  <2>3. op.reply.state # "ok"
    BY <2>1, <2>2, <1>1 DEF Meant
  <2> QED
    BY <2>2, <2>3, <1>1 DEF Meant
<1>5. CASE Rotates(r)
  <2>1. /\ mem.pending.kind = "refresh" /\ mem.pending.cred = r.cred
        /\ mem.pending.from = r.from /\ issued[r.cred].now = r.from
    BY <1>1, <1>5 DEF Covers, Rotates, RotatesYet, Sound, Formed
  <2>2. r.from # 0
    BY <1>5, Requested DEF Rotates, RotatesYet
  <2>3. op.reply.state # "ok"
    BY <2>1, <2>2, <1>1 DEF Meant
  <2> QED
    BY <2>1, <2>3, <1>1 DEF Meant
<1>6. CASE Enrolls(r)
  <2>1. /\ mem.pending.kind = "enroll" /\ mem.pending.cred = r.cred
        /\ mem.pending.ref = r.ref /\ mem.token[Device] = r.by
    BY <1>1, <1>6 DEF Covers, Enrolls
  <2>2. /\ issued[r.cred].now = 0 /\ Family(r.by) /\ issued[Device].now # 0
        /\ r.ref \notin barred
    BY <1>6 DEF Enrolls, EnrollsYet
  <2>3. op.reply.state # "ok" /\ op.reply.state # "refused"
    BY <2>1, <2>2, <1>1 DEF Meant
  <2> QED
    BY <2>3, <1>1 DEF Meant
<1> QED
  BY <1>2, <1>3, <1>4, <1>5, <1>6, Serves

\* An answer means what it says for the request that pends.
LEMMA AnswerMeant ==
    ASSUME Backend, Backend', NEW r \in transit, Serve(r), r.awaited, Sound(mem), op.next # "clear",
           op'.reply = [state |-> IF Accepts(r) THEN "ok" ELSE "refused",
                        gen |-> issued'[r.cred].now],
           mem' = mem
    PROVE  Meant'
<1> DEFINE p == mem.pending
           ok == Accepts(r)
<1>1. /\ r = Sent /\ r.kind = p.kind /\ r.cred = p.cred /\ r.from = p.from /\ r.flow = p.flow
      /\ r.ref = p.ref /\ r.by = mem.token[Device]
  BY DEF Backend, Proper, Sent
<1>2. /\ minted \in Nat /\ issued \in [Creds -> [now : Nat, before : Nat]] /\ barred' = barred
      /\ tx \in [1 .. MaxFlows -> TxStates] /\ minted' \in Nat /\ r.cred \in Creds
      /\ issued' \in [Creds -> [now : Nat, before : Nat]] /\ issued'[r.cred].now <= minted'
      /\ p.kind \in {"exchange", "bootstrap", "cancel"} => p.flow \in 1 .. MaxFlows
      /\ issued[r.cred].now <= minted
  BY Requested, FormedFlows DEF Backend, Serve, Sound
<1>3. /\ minted' = IF ok /\ Issues(r) THEN minted + 1 ELSE minted
      /\ issued' = IF ok /\ Issues(r)
                   THEN [issued EXCEPT ![r.cred] = [now |-> minted + 1, before |-> r.from]]
                   ELSE IF ok /\ Revokes(r)
                   THEN [c \in Creds |-> [now |-> 0, before |-> issued[c].now]]
                   ELSE issued
      /\ tx' = CASE ok /\ r.kind = "exchange" /\ tx[r.flow] = "approved" ->
                           [tx EXCEPT ![r.flow] = "exchanged"]
                 [] ok /\ r.kind = "bootstrap" -> [tx EXCEPT ![r.flow] = "bound"]
                 [] ok /\ r.kind = "cancel" -> [tx EXCEPT ![r.flow] = "canceled"]
                 [] OTHER -> tx
  BY DEF Serve, Fresh
<1>4. op'.reply.gen = issued'[r.cred].now /\ (op'.reply.state = "ok" <=> ok)
  OBVIOUS
<1>5. issued'[r.cred].now \in 0 .. minted'
  BY <1>2
<1>6. ASSUME ok, p.kind = "exchange" PROVE tx'[p.flow] \in Issued
  <2>1. tx[r.flow] \in {"approved", "exchanged", "bound"}
    BY <1>1, <1>6 DEF Accepts
  <2> QED
    BY <2>1, <1>1, <1>2, <1>3, <1>6 DEF Issued
<1>7. ASSUME ok, p.kind = "bootstrap"
      PROVE  tx'[p.flow] \in {"bound", "canceled"} /\ r.cred = Device
  BY <1>1, <1>2, <1>3, <1>7, Requested
<1>8. ASSUME ok, p.kind = "refresh" PROVE issued'[r.cred].now \notin {0, p.from}
  <2>1. ~Revokes(r) /\ (Issues(r) <=> issued[r.cred].now = r.from)
    BY <1>1, <1>8 DEF Revokes, Issues
  <2>2. CASE Issues(r)
    BY <2>1, <2>2, <1>1, <1>2, <1>3, <1>8
  <2>3. CASE ~Issues(r)
    <3>1. issued' = issued
      BY <2>1, <2>3, <1>3
    <3>2. issued[r.cred].now # 0
      BY <2>1, <2>3, <1>1, <1>8 DEF Accepts
    <3> QED
      BY <3>1, <3>2, <2>1, <2>3, <1>1
  <2> QED
    BY <2>2, <2>3
<1>9. ASSUME ok, p.kind = "enroll" PROVE issued'[r.cred].now # 0
  <2>1. ~Revokes(r) /\ (Issues(r) <=> issued[r.cred].now = 0)
    BY <1>1, <1>9 DEF Revokes, Issues
  <2> QED
    BY <2>1, <1>2, <1>3, <1>9
<1>10. ASSUME ok, p.kind = "cancel" PROVE tx'[p.flow] = "canceled"
  BY <1>1, <1>2, <1>3, <1>10
<1>11. ASSUME ~ok, p.kind = "enroll"
       PROVE  p.ref \in barred \/ issued[Device].now = 0 \/ ~Family(mem.token[Device])
  BY <1>1, <1>11 DEF Accepts
<1>12. ~ok => issued' = issued
  BY <1>3
<1>13. op'.reply.state = "ok" =>
         /\ op'.reply.gen \in 0 .. minted'
         /\ p.kind = "exchange" => tx'[p.flow] \in Issued
         /\ p.kind = "bootstrap" =>
              tx'[p.flow] \in {"bound", "canceled"} /\ issued'[Device].now \in {0, op'.reply.gen}
         /\ p.kind = "refresh" =>
              issued'[p.cred].now \in {0, op'.reply.gen} /\ op'.reply.gen \notin {0, p.from}
         /\ p.kind = "enroll" =>
              issued'[p.cred].now \in {0, op'.reply.gen} /\ issued'[p.cred].now # 0
         /\ p.kind = "cancel" => tx'[p.flow] = "canceled"
  BY <1>1, <1>4, <1>5, <1>6, <1>7, <1>8, <1>9, <1>10
<1>14. op'.reply.state = "refused" /\ p.kind = "enroll" =>
         p.ref \in barred \/ issued'[Device].now = 0
           \/ mem.token[Device] \notin {issued'[Device].now, issued'[Device].before}
  BY <1>4, <1>11, <1>12 DEF Family
<1> QED
  BY <1>2, <1>13, <1>14 DEF Meant, Family

\* A logout that is answered has revoked everything.
LEMMA AnswerRevokes ==
    ASSUME Backend, NEW r \in transit, Serve(r), r.awaited, Sound(mem), op.next = "clear",
           mem.token[Device] # 0
    PROVE  AllRevoked'
<1>1. r.kind = "logout" /\ r.by = mem.token[Device]
  BY DEF Backend, Proper, Sent
<1>2. Accepts(r) /\ ~Issues(r) /\ (Revokes(r) <=> Family(mem.token[Device]))
  BY <1>1 DEF Accepts, Issues, Revokes
<1>3. Device \in Creds /\ \A c \in Creds : issued[Device].now = 0 => issued[c].now = 0
  BY DeviceIs DEF Backend
<1>4. issued[Device].now # 0 => Family(mem.token[Device])
  BY <1>3 DEF Sound, Reached, Family
<1>5. issued' = IF Revokes(r) THEN [c \in Creds |-> [now |-> 0, before |-> issued[c].now]]
                ELSE issued
  BY <1>2 DEF Serve
<1> QED
  BY <1>2, <1>3, <1>4, <1>5 DEF AllRevoked

\* Whoever waits for it, what an operation has seen of the backend is still so.
LEMMA GoingServe ==
    ASSUME Backend, Backend', NEW r \in transit, Serve(r), op.at # "idle", Going, Sound(mem),
           DOMAIN op = DOMAIN NoOp
    PROVE  Going'
<1>1. /\ transit' = transit \ {r} /\ barred' = barred /\ Covers(mem, r) /\ Formed(mem)
      /\ issued \in [Creds -> [now : Nat, before : Nat]] /\ tx \in [1 .. MaxFlows -> TxStates]
      /\ mem.pending.cred \in Creds
      /\ mem.pending.kind \in {"exchange", "bootstrap", "cancel"} =>
           mem.pending.flow \in 1 .. MaxFlows
      /\ Device \in Creds
  BY FormedFlows, DeviceIs DEF Serve, Sound, Backend
<1>2. \/ ~r.awaited /\ op' = op
      \/ /\ r.awaited /\ op.at = "answer" /\ op.reply.state = "none"
         /\ op' = [op EXCEPT !.reply = [state |-> IF Accepts(r) THEN "ok" ELSE "refused",
                                        gen |-> issued'[r.cred].now]]
  BY DEF Serve, Backend, Proper
<1>3. /\ mem' = mem /\ op'.at = op.at /\ op'.next = op.next /\ op'.job = op.job
      /\ op'.org = op.org /\ op'.recovery = op.recovery
      /\ op'.at # "answer" => op' = op
  BY <1>2 DEF mem, NoOp
<1>4. CASE Quiet /\ op' = op
  <2>1. \A q \in transit' : \E x \in transit : Again(x, q)
    BY <1>1 DEF Again
  <2> QED
    BY <2>1, <1>4, GoingQuiet
<1>5. CASE ~(Quiet /\ op' = op)
  <2>1. ASSUME At("transmit"), ~op.recovery, mem.pending.kind = "enroll"
        PROVE  issued'[mem.pending.cred].now = 0
    <3>1. issued[mem.pending.cred].now = 0 /\ ~r.awaited
            /\ (r.kind = "enroll" => r.ref # mem.pending.ref)
      BY <2>1, <1>2 DEF Going, At
    <3>2. ~Binds(r) /\ ~Rotates(r) /\ ~Enrolls(r)
      BY <2>1, <3>1, <1>1 DEF Binds, Rotates, Enrolls, BindsYet, RotatesYet, EnrollsYet, Covers,
         Formed
    <3> QED
      BY <3>1, <3>2, <1>1, Serves DEF RevokesAll, Quiet
  <2>2. ASSUME At("canceled")
        PROVE  mem.pending.kind = "cancel" /\ tx'[mem.pending.flow] = "canceled"
    <3>1. mem.pending.kind = "cancel" /\ tx[mem.pending.flow] = "canceled"
      BY <2>2 DEF Going
    <3>2. mem.pending.flow \in 1 .. MaxFlows
      BY <3>1, <1>1
    <3> QED
      BY <3>1, <3>2, <1>1, Serves DEF RevokesAll, Quiet, Binds, BindsYet, Rotates, Enrolls, Issued
  <2>3. ASSUME op.at = "answer", op.next = "clear", op'.reply.state # "none"
        PROVE  AllRevoked'
    <3>1. mem.token[Device] # 0
      BY <2>3 DEF Going
    <3>2. CASE r.awaited
      BY <2>3, <3>1, <3>2, AnswerRevokes
    <3>3. CASE ~r.awaited
      <4>1. AllRevoked
        BY <2>3, <3>3, <1>2 DEF Going
      <4>2. ~Binds(r)
        BY <3>1, <1>1 DEF Binds, Covers, Formed
      <4>3. ~Rotates(r) /\ ~Enrolls(r)
        BY <4>1, <1>1, Requested DEF AllRevoked, Rotates, Enrolls, RotatesYet, EnrollsYet
      <4> QED
        BY <4>1, <4>2, <4>3, Serves DEF AllRevoked, RevokesAll, Quiet
    <3> QED
      BY <3>2, <3>3
  <2>4. ASSUME op.at = "answer", op.next # "clear" PROVE Meant'
    <3>1. CASE r.awaited
      <4>1. op'.reply = [state |-> IF Accepts(r) THEN "ok" ELSE "refused",
                         gen |-> issued'[r.cred].now]
        BY <3>1, <1>2 DEF NoOp
      <4> QED
        BY <4>1, <3>1, <2>4, <1>3, AnswerMeant
    <3>2. CASE ~r.awaited
      BY <3>2, <2>4, <1>2, MeantStays
    <3> QED
      BY <3>1, <3>2
  <2>5. At("revoke") => op'.reply.state = "none"
    BY <1>3 DEF At, Going
  <2>6. Confirmed(mem)' <=> Confirmed(mem)
    BY <1>3 DEF Confirmed
  <2> QED
    BY <1>1, <1>3, <2>1, <2>2, <2>3, <2>4, <2>5, <2>6 DEF Going, At
<1> QED
  BY <1>4, <1>5
-----------------------------------------------------------------------------
\* A quiet step keeps the backend's side.
LEMMA BackendQuiet ==
    ASSUME Backend, Quiet,
           \A r \in transit' :
             /\ (\E q \in transit : Again(q, r)) \/ Asked(r)
             /\ r.awaited => (op.at = "answer" /\ op.reply.state = "none")' /\ r = Sent'
    PROVE  Backend'
<1>1. /\ minted' = minted /\ issued' = issued /\ begins' \in Nat /\ begins' >= begins
      /\ begins \in Nat /\ MaxFlows \in Nat /\ barred' = barred
      /\ tx' \in [1 .. MaxFlows -> TxStates]
      /\ \A f \in 1 .. MaxFlows : tx[f] \in Issued => tx'[f] \in Issued
  BY AuthAssumption DEF Backend, Quiet, Issued
<1>2. ASSUME NEW r \in transit' PROVE Asked(r)'
  <2>1. Asked(r)
    BY <1>2 DEF Asked, Again, Backend, Proper
  <2>2. r.kind = "bootstrap" => r.flow \in 1 .. MaxFlows
    BY <2>1, <1>1 DEF Asked
  <2>3. r.kind \in Counted => r.ref <= begins'
    BY <2>1, <1>1 DEF Asked
  <2> QED
    BY <2>1, <2>2, <2>3, <1>1 DEF Asked
<1>3. \A r \in transit' : Proper(r)'
  BY <1>2 DEF Proper
<1> QED
  BY <1>1, <1>3 DEF Backend

\* So does what it serves: a new generation is one nobody had.
LEMMA BackendServe ==
    ASSUME Backend, NEW r \in transit, Serve(r)
    PROVE  Backend'
<1>1. /\ minted \in Nat \ {0} /\ begins \in Nat /\ tx \in [1 .. MaxFlows -> TxStates]
      /\ issued \in [Creds -> [now : Nat, before : Nat]] /\ MaxFlows \in Nat
      /\ \A c \in Creds : /\ issued[c].now <= minted /\ issued[c].before <= minted
                          /\ issued[c].now # 0 => issued[c].before # issued[c].now
                          /\ issued[Device].now = 0 => issued[c].now = 0
      /\ transit' = transit \ {r} /\ begins' = begins /\ barred' = barred
      /\ r.cred \in Creds /\ r.from \in Nat /\ r.from <= minted /\ Device \in Creds
  BY AuthAssumption, Requested, DeviceIs DEF Backend, Serve
<1>2. /\ minted' \in Nat \ {0} /\ minted' >= minted /\ tx' \in [1 .. MaxFlows -> TxStates]
      /\ \A f \in 1 .. MaxFlows : tx[f] \in Issued => tx'[f] \in Issued
      /\ issued' \in [Creds -> [now : Nat, before : Nat]]
      /\ \A c \in Creds : /\ issued'[c].now <= minted' /\ issued'[c].before <= minted'
                          /\ issued'[c].now # 0 => issued'[c].before # issued'[c].now
                          /\ issued'[Device].now = 0 => issued'[c].now = 0
  <2>1. CASE Quiet
    BY <2>1, <1>1 DEF Quiet, Issued
  <2>2. CASE RevokesAll
    BY <2>2, <1>1 DEF RevokesAll, Issued
  <2>3. ASSUME Issue(r), r.cred = Device \/ issued[Device].now # 0
        PROVE  /\ minted' \in Nat \ {0} /\ minted' >= minted
               /\ issued' \in [Creds -> [now : Nat, before : Nat]]
               /\ \A c \in Creds : /\ issued'[c].now <= minted' /\ issued'[c].before <= minted'
                                   /\ issued'[c].now # 0 => issued'[c].before # issued'[c].now
                                   /\ issued'[Device].now = 0 => issued'[c].now = 0
    <3>1. /\ minted' = minted + 1 /\ issued'[r.cred] = [now |-> minted + 1, before |-> r.from]
          /\ \A c \in Creds : c # r.cred => issued'[c] = issued[c]
          /\ issued' \in [Creds -> [now : Nat, before : Nat]]
      BY <2>3, <1>1 DEF Issue
    <3>2. ASSUME NEW c \in Creds
          PROVE  /\ issued'[c].now <= minted' /\ issued'[c].before <= minted'
                 /\ issued'[c].now # 0 => issued'[c].before # issued'[c].now
      <4>1. CASE c = r.cred
        BY <4>1, <3>1, <1>1
      <4>2. CASE c # r.cred
        <5>1. issued'[c] = issued[c] /\ issued[c].now \in Nat /\ issued[c].before \in Nat
          BY <4>2, <3>1, <1>1
        <5> QED
          BY <5>1, <3>1, <1>1
      <4> QED
        BY <4>1, <4>2
    <3>3. issued'[Device].now # 0
      BY <2>3, <3>1, <1>1
    <3> QED
      BY <3>1, <3>2, <3>3, <1>1
  <2>4. CASE Binds(r)
    <3>1. /\ Issue(r) /\ r.cred = Device /\ tx' = [tx EXCEPT ![r.flow] = "bound"]
      BY <2>4, Requested DEF Binds, BindsYet
    <3> QED
      BY <3>1, <2>3, <1>1 DEF TxStates, Issued
  <2>5. CASE Rotates(r)
    <3>1. /\ Issue(r) /\ tx' = tx /\ issued[r.cred].now # 0
      BY <2>5, Requested DEF Rotates, RotatesYet
    <3> QED
      BY <3>1, <2>3, <1>1
  <2>6. CASE Enrolls(r)
    BY <2>6, <2>3, <1>1 DEF Enrolls, EnrollsYet
  <2> QED
    BY <2>1, <2>2, <2>4, <2>5, <2>6, Serves
<1>3. ASSUME NEW q \in transit' PROVE Proper(q)'
  <2>1. q \in transit /\ q # r /\ Asked(q) /\ Proper(q)
    BY <1>1 DEF Backend, Proper
  <2>2. Asked(q)'
    <3>1. q.kind = "bootstrap" => q.flow \in 1 .. MaxFlows
      BY <2>1, <1>1 DEF Asked
    <3>2. q.from \in 0 .. minted' /\ q.by \in 0 .. minted'
      <4>1. q.from \in Nat /\ q.from <= minted /\ q.by \in Nat /\ q.by <= minted
        BY <2>1, Requested
      <4>2. minted \in Nat /\ minted' \in Nat /\ minted' >= minted
        BY <1>1, <1>2
      <4> QED
        BY <4>1, <4>2
    <3>3. q.kind = "bootstrap" => tx'[q.flow] \in Issued
      BY <2>1, <3>1, <1>2 DEF Asked
    <3> QED
      BY <2>1, <3>2, <3>3, <1>1 DEF Asked
  <2>3. q.awaited => op' = op
    BY <2>1 DEF Backend, Proper, Serve
  <2> QED
    BY <2>1, <2>2, <2>3 DEF Proper, Sent, mem
<1> QED
  BY <1>1, <1>2, <1>3 DEF Backend
-----------------------------------------------------------------------------
\* An operation goes on, and nobody waits for an answer.
Hushed ==
    /\ Quiet
    /\ \A r \in transit' : ~r.awaited /\ \E q \in transit : Again(q, r)
Calm == Hushed /\ UNCHANGED vault

\* What a step of an operation has to show.
LEMMA Calmly ==
    ASSUME ReachInv, Calm, op'.at # "idle" => Sound(mem)' /\ Going'
    PROVE  ReachInv'
<1>1. Backend /\ Quiet /\ Sound(keychain) /\ (late.on => Sound(late.mem))
      /\ keychain' = keychain /\ late' = late
  BY DEF ReachInv, Calm, Hushed, vault
<1>2. Backend'
  BY <1>1, BackendQuiet DEF Calm, Hushed
<1>3. \A m : Sound(m) => Sound(m)'
  BY <1>1, QuietKeeps DEF Calm, Hushed
<1>4. Sound(keychain)' /\ (late'.on => Sound(late.mem)')
  BY <1>1, <1>3
<1> QED
  BY <1>1, <1>2, <1>4 DEF ReachInv

\* Without the network all is quiet, and nobody waits.
LEMMA Hushes ==
    ASSUME ReachInv, UNCHANGED remote, begins' \in Nat, begins' >= begins,
           op.at # "answer" \/ op.reply.state # "none"
    PROVE  Hushed
<1>1. /\ issued' = issued /\ minted' = minted /\ barred' = barred /\ tx' = tx
      /\ transit' = transit /\ Backend
  BY DEF remote, ReachInv
<1>2. Quiet
  BY <1>1 DEF Quiet, Backend
<1> QED
  BY <1>1, <1>2, Unwaited DEF Hushed, Again

\* Nobody waits for what is on its way any more.
LEMMA Forgets ==
    ASSUME Backend, UNCHANGED <<begins, tx, issued, minted, barred>>,
           transit' = {[r EXCEPT !.awaited = FALSE] : r \in transit}
    PROVE  Hushed
<1>1. Quiet
  BY DEF Quiet, Backend
<1>2. ASSUME NEW q \in transit
      PROVE  ~[q EXCEPT !.awaited = FALSE].awaited /\ Again(q, [q EXCEPT !.awaited = FALSE])
  BY DEF Backend, Proper, Asked, Again, RequestFields
<1> QED
  BY <1>1, <1>2 DEF Hushed

\* Without the network, and with the Keychain as it was, all is calm.
LEMMA Steady ==
    ASSUME ReachInv, UNCHANGED <<vault, remote>>, begins' \in Nat, begins' >= begins,
           op.at # "answer" \/ op.reply.state # "none"
    PROVE  Calm
BY Hushes DEF Calm

\* What is calm keeps what is sound.
LEMMA CalmKeeps ==
    ASSUME Backend, Calm, NEW m, Sound(m)
    PROVE  Sound(m)'
BY QuietKeeps DEF Calm, Hushed

\* The same tokens, the same sign-in and the same request.
Alike(s, m) ==
    /\ m.token = s.token /\ m.login = s.login /\ m.pending \in PendingForm
    /\ m.pending.kind = s.pending.kind /\ m.pending.cred = s.pending.cred
    /\ m.pending.from = s.pending.from /\ m.pending.flow = s.pending.flow
    /\ m.pending.ref = s.pending.ref /\ m.pending.over = s.pending.over
    /\ m.revocation \in {s.revocation, "none"}

\* What is like a sound state here is sound.
LEMMA AlikeSound ==
    ASSUME NEW s, NEW m, Sound(s), Alike(s, m)
    PROVE  Sound(m)
<1>1. Formed(s) /\ Reached(s) /\ Ended(s) /\ Evident(s) /\ \A r \in transit : Covers(s, r)
  BY DEF Sound
<1>2. Formed(m)
  BY <1>1 DEF Formed, Alike
<1>3. Reached(m)
  BY <1>1 DEF Reached, Alike
<1>4. Ended(m) /\ Evident(m)
  BY <1>1 DEF Ended, Evident, Alike
<1>5. \A r \in transit : Covers(m, r)
  BY <1>1 DEF Covers, Alike
<1> QED
  BY <1>2, <1>3, <1>4, <1>5 DEF Sound

\* Another sign-in, of the flow that pends if one does.
LoginFits(s, login) ==
    /\ login \in LoginRecord /\ (s.token[Device] # 0 => login = NoLogin)
    /\ login.started \/ login.code => login.flow # 0
    /\ login.started /\ s.pending.kind \in {"exchange", "bootstrap", "cancel"} =>
         login.flow = s.pending.flow
    /\ login.started /\ s.revocation = "cancel" => tx[login.flow] = "canceled"

\* A sound state with a sign-in that fits it is sound.
LEMMA LoginSound ==
    ASSUME NEW s, NEW m, Sound(s), m.token = s.token, m.pending = s.pending,
           m.revocation = s.revocation, LoginFits(s, m.login)
    PROVE  Sound(m)
<1>1. Formed(s) /\ Reached(s) /\ Ended(s) /\ Evident(s) /\ \A r \in transit : Covers(s, r)
  BY DEF Sound
<1>2. Formed(m)
  BY <1>1 DEF Formed, LoginFits
<1>3. Reached(m)
  BY <1>1 DEF Reached
<1>4. Ended(m) /\ Evident(m)
  BY <1>1 DEF Ended, Evident, LoginFits
<1>5. \A r \in transit : Covers(m, r)
  BY <1>1 DEF Covers
<1> QED
  BY <1>2, <1>3, <1>4, <1>5 DEF Sound

\* Nothing pends any more: there is nothing left to issue, and the tokens are the valid ones.
LEMMA SettledSound ==
    ASSUME NEW m, Backend, m.pending = NoPending, m.login \in LoginRecord,
           m.token \in [Creds -> Nat], \A c \in Creds : m.token[c] <= minted,
           m.token[Device] = 0 => \A c \in Creds : m.token[c] = 0,
           m.token[Device] # 0 => m.login = NoLogin,
           m.login.started \/ m.login.code => m.login.flow # 0,
           \A c \in Creds : issued[c].now # 0 => m.token[c] = issued[c].now,
           m.revocation = "device" => \A c \in Creds : issued[c].now = 0,
           m.revocation = "cancel" /\ m.login.started /\ m.token[Device] = 0 =>
             tx[m.login.flow] = "canceled",
           \A r \in transit : ~RotatesYet(r) /\ ~EnrollsYet(r) /\ ~BindsYet(r)
    PROVE  Sound(m)
<1>1. m.pending \in PendingForm /\ m.pending.kind = "none" /\ m.pending.over = "none"
  BY AuthAssumption, DeviceIs DEF NoPending, PendingForm, Targets
<1>2. Formed(m)
  BY <1>1 DEF Formed, Counted
<1>3. Reached(m)
  BY DEF Reached
<1>4. Ended(m) /\ Evident(m)
  BY <1>1 DEF Ended, Evident
<1>5. \A r \in transit : Covers(m, r)
  BY <1>1 DEF Covers
<1> QED
  BY <1>2, <1>3, <1>4, <1>5 DEF Sound
-----------------------------------------------------------------------------
\* The fields of an operation and of a protected state.
LEMMA Fields ==
    ASSUME SaveInv
    PROVE  /\ DOMAIN op = {"at", "next", "job", "org", "key", "ref", "mem", "recovery", "retry",
                           "rounds", "reply"}
           /\ DOMAIN mem = {"token", "login", "pending", "logout", "revocation", "receipts"}
BY DEF SaveInv, NoOp, Whole, SignedOut

\* The operation stops.
LEMMA StopsReach ==
    ASSUME ReachInv, Calm, Stop
    PROVE  ReachInv'
<1>1. op'.at = "idle"
  BY DEF Stop, NoOp
<1> QED
  BY <1>1, Calmly

\* What an operation has seen when it saves m, then p.
Seen(m, p) ==
    /\ p \notin {"answer", "transmit"}
    /\ p = "start" => /\ m.pending.kind = "none" /\ m.revocation = "none"
                      /\ m.login.flow # 0 /\ m.token[Device] = 0
    /\ p = "exchange" => m.login.flow # 0
    /\ p = "canceled" => m.pending.kind = "cancel" /\ tx[m.pending.flow] = "canceled"
    /\ p = "clear" => m.revocation = "device"

\* A save of m, then p.
LEMMA SavesReach ==
    ASSUME SaveInv, ReachInv, Calm, op.at # "idle", NEW m, NEW p, SaveThen(m, p), Sound(m)',
           Seen(m, p)
    PROVE  ReachInv'
<1>1. /\ op'.at = "save" /\ op'.next = p /\ mem' = m /\ op'.reply = NoReply
      /\ op'.job = op.job /\ op'.org = op.org
  BY Fields DEF SaveThen, mem
<1>2. Sound(mem)'
  BY <1>1 DEF Sound, Formed, Reached, Ended, Evident, Covers
<1>3. p = "canceled" => tx'[m.pending.flow] = "canceled"
  <2>1. m.pending.kind \in {"exchange", "bootstrap", "cancel"} =>
          m.pending.flow \in 1 .. MaxFlows
    <3>1. m.pending \in PendingForm /\ MaxFlows \in Nat
          /\ (m.pending.kind \in {"exchange", "bootstrap", "cancel"} => m.pending.flow # 0)
      BY AuthAssumption DEF Sound, Formed
    <3> QED
      BY <3>1 DEF PendingForm
  <2> QED
    BY <2>1 DEF Seen, Calm, Hushed, Quiet, Issued
<1>4. Going'
  <2>1. op.job \in {"select", "credential", "bound"} => op.org \in Orgs
    BY DEF ReachInv, Going
  <2>2. op'.at \notin {"start", "exchange", "transmit", "canceled", "revoke", "clear", "answer"}
    BY <1>1
  <2>3. op'.reply.state = "none"
    BY <1>1 DEF NoReply
  <2> QED
    BY <1>1, <1>3, <2>1, <2>2, <2>3 DEF Going, At, Seen
<1> QED
  BY <1>2, <1>4, Calmly

\* It goes on with what it has.
LEMMA ContinuesReach ==
    ASSUME SaveInv, ReachInv, Calm, op.at # "idle", NEW p, Continue(p),
           p \in {"reconcile", "exchange", "canceled", "clear"},
           p = "exchange" => mem.login.flow # 0,
           p = "canceled" => mem.pending.kind = "cancel" /\ tx[mem.pending.flow] = "canceled",
           p = "clear" =>
             Confirmed(mem) \/ (mem.pending.kind = "none" /\ \A c \in Creds : mem.token[c] = 0)
    PROVE  ReachInv'
<1>1. /\ op'.at = p /\ mem' = mem /\ op'.job = op.job /\ op'.org = op.org
  BY Fields DEF Continue, mem
<1>2. Sound(mem)'
  <2>1. Sound(mem)
    BY DEF ReachInv
  <2>2. \A m : Sound(m) => Sound(m)'
    BY CalmKeeps DEF ReachInv
  <2>3. \A m : m = mem /\ Sound(m)' => Sound(mem)'
    BY <1>1 DEF Sound, Formed, Reached, Ended, Evident, Covers
  <2> QED
    BY <2>1, <2>2, <2>3
<1>3. p = "canceled" => tx'[mem.pending.flow] = "canceled"
  <2>1. mem.pending.kind \in {"exchange", "bootstrap", "cancel"} =>
          mem.pending.flow \in 1 .. MaxFlows
    BY FormedFlows DEF ReachInv, Sound
  <2> QED
    BY <2>1 DEF Calm, Hushed, Quiet, Issued
<1>4. Going'
  <2>1. op.job \in {"select", "credential", "bound"} => op.org \in Orgs
    BY DEF ReachInv, Going
  <2>2. Confirmed(mem)' <=> Confirmed(mem)
    BY <1>1 DEF Confirmed
  <2> QED
    BY <1>1, <1>3, <2>1, <2>2 DEF Going, At
<1> QED
  BY <1>2, <1>4, Calmly

\* It sends again what pends.
LEMMA RecoversReach ==
    ASSUME SaveInv, ReachInv, Calm, op.at # "idle", RecoverPending, mem.pending.kind # "none"
    PROVE  ReachInv'
<1> DEFINE m == [mem EXCEPT !.pending.used = TRUE]
<1>1. /\ op'.at = "save" /\ op'.next = "transmit" /\ mem' = m /\ op'.recovery = TRUE
      /\ op'.job = op.job /\ op'.org = op.org
  BY Fields DEF RecoverPending, mem
<1>2. Sound(mem) /\ Formed(mem) /\ Backend
  BY DEF ReachInv, Sound
<1>3. Alike(mem, m)
  <2>1. mem.pending \in PendingForm
    BY <1>2 DEF Formed
  <2>2. m.pending = [mem.pending EXCEPT !.used = TRUE] /\ m.token = mem.token
        /\ m.login = mem.login /\ m.revocation = mem.revocation
    BY Fields
  <2>3. m.pending \in PendingForm
    <3>1. \A q \in PendingForm : [q EXCEPT !.used = TRUE] \in PendingForm
      BY DEF PendingForm
    <3> HIDE DEF m
    <3> QED
      BY <2>1, <2>2, <3>1
  <2>4. DOMAIN mem.pending = {"kind", "cred", "from", "flow", "ref", "used", "revoke", "over"}
    BY <2>1 DEF PendingForm
  <2>5. /\ m.pending.kind = mem.pending.kind /\ m.pending.cred = mem.pending.cred
        /\ m.pending.from = mem.pending.from /\ m.pending.flow = mem.pending.flow
        /\ m.pending.ref = mem.pending.ref /\ m.pending.over = mem.pending.over
    BY <2>2, <2>4
  <2> HIDE DEF m
  <2> QED
    BY <2>2, <2>3, <2>5 DEF Alike
<1>4. Sound(m)
  BY <1>2, <1>3, AlikeSound
<1>5. \A s : Sound(s) => Sound(s)'
  BY <1>2, CalmKeeps
<1>6. \A s : s = mem' /\ Sound(s)' => Sound(mem)'
  BY DEF Sound, Formed, Reached, Ended, Evident, Covers
<1>7. Sound(mem)'
  BY <1>1, <1>4, <1>5, <1>6
<1>8. Going'
  <2>1. op.job \in {"select", "credential", "bound"} => op.org \in Orgs
    BY DEF ReachInv, Going
  <2>2. mem'.pending.kind # "none"
    BY <1>1, <1>3 DEF Alike
  <2> QED
    BY <1>1, <2>1, <2>2 DEF Going, At
<1> QED
  BY <1>7, <1>8, Calmly
-----------------------------------------------------------------------------
\* While nothing pends, nothing may still be issued and the tokens are the valid ones.
LEMMA NothingPends ==
    ASSUME NEW m, Sound(m), m.pending.kind = "none"
    PROVE  /\ \A r \in transit : ~RotatesYet(r) /\ ~EnrollsYet(r) /\ ~BindsYet(r)
           /\ \A c \in Creds : issued[c].now # 0 => m.token[c] = issued[c].now
<1>1. m.pending.over = "none"
  BY DEF Sound, Formed
<1> QED
  BY <1>1 DEF Sound, Reached, Covers

\* The number of a new request is its own.
LEMMA NewNumber ==
    ASSUME Backend, NEW r \in transit, r.kind \in Counted
    PROVE  begins \in Nat /\ r.ref \in Nat /\ r.ref # begins + 1
BY DEF Backend, Proper, Asked

\* A request may begin: the rotation of a token that is there, the enrollment of an
\* organization that has none, or the exchange of a sign-in.
Begun(kind, cred, from, flow) ==
    \/ kind = "refresh" /\ cred \in Creds /\ from = mem.token[cred] /\ from # 0 /\ flow = 0
    \/ /\ kind = "enroll" /\ cred \in Orgs /\ from = 0 /\ flow = 0
       /\ mem.token[cred] = 0 /\ mem.token[Device] # 0
    \/ kind = "exchange" /\ cred = Device /\ from = 0 /\ flow = mem.login.flow /\ flow # 0

\* What it then saves.
Begins(m, kind, cred, from, flow) ==
    /\ m.token = mem.token /\ m.login = mem.login /\ m.revocation = "none"
    /\ m.pending = [NoPending EXCEPT !.kind = kind, !.cred = cred, !.from = from,
                       !.flow = flow, !.ref = IF flow > 0 THEN -flow
                                              ELSE begins + 1]

\* What is saved of a request that begins is sound.
LEMMA BegunForm ==
    ASSUME Backend, Sound(mem), mem.pending.kind = "none",
           NEW kind, NEW cred, NEW from, NEW flow, Begun(kind, cred, from, flow),
           UNCHANGED remote, begins' = begins + 1,
           NEW m, Begins(m, kind, cred, from, flow)
    PROVE  Sound(m)'
<1>1. /\ issued' = issued /\ minted' = minted /\ barred' = barred /\ tx' = tx
      /\ transit' = transit /\ begins \in Nat /\ MaxBegins \in Nat /\ MaxFlows \in Nat
  BY AuthAssumption DEF remote, Backend
<1>2. Formed(mem) /\ Reached(mem)
  BY DEF Sound
<1>3. /\ m.token = mem.token /\ m.login = mem.login /\ m.revocation = "none"
      /\ m.pending.kind = kind /\ m.pending.cred = cred /\ m.pending.from = from
      /\ m.pending.flow = flow /\ m.pending.over = "none"
      /\ m.pending.ref = IF flow > 0 THEN -flow ELSE begins + 1
      /\ m.pending.used = FALSE /\ m.pending.revoke = FALSE
      /\ DOMAIN m.pending = {"kind", "cred", "from", "flow", "ref", "used", "revoke", "over"}
      /\ m.pending = [kind |-> kind, cred |-> cred, from |-> from, flow |-> flow,
                      ref |-> IF flow > 0 THEN -flow ELSE begins + 1,
                      used |-> FALSE, revoke |-> FALSE, over |-> "none"]
  BY DEF Begins, NoPending
<1>4. mem.login.flow \in 0 .. MaxFlows /\ mem.token \in [Creds -> Nat]
  BY FormedFlows, <1>2 DEF Formed
<1>5. kind \in {"refresh", "enroll", "exchange"} /\ cred \in Creds /\ from \in Nat
      /\ flow \in 0 .. MaxFlows
  BY <1>1, <1>4, DeviceIs DEF Begun
<1>6. m.pending \in PendingForm
  <2>1. m.pending.ref \in Int
    BY <1>1, <1>3, <1>5
  <2> QED
    BY <1>3, <1>5, <2>1 DEF PendingForm, Targets
<1>7. kind \in Counted => m.pending.ref = begins + 1
  BY <1>3 DEF Begun, Counted
<1>8. Formed(m)'
  <2>1. /\ mem.token[Device] = 0 => \A c \in Creds : mem.token[c] = 0
        /\ mem.token[Device] # 0 => mem.login = NoLogin
    BY <1>2 DEF Formed
  <2>2. kind \in {"refresh", "enroll"} => mem.token[Device] # 0
    BY <2>1 DEF Begun
  <2>3. kind = "exchange" => mem.token[Device] = 0
    BY <2>1 DEF Begun, NoLogin
  <2>4. kind \in Counted => m.pending.ref \in 0 .. begins'
    BY <1>1, <1>7
  <2>5. kind = "exchange" => m.pending.ref < 0
    BY <1>1, <1>3, <1>5 DEF Begun
  <2> QED
    BY <1>1, <1>2, <1>3, <1>5, <1>6, <2>1, <2>2, <2>3, <2>4, <2>5 DEF Formed, Begun
<1>9. /\ \A r \in transit : ~RotatesYet(r) /\ ~EnrollsYet(r) /\ ~BindsYet(r)
      /\ \A c \in Creds : issued[c].now # 0 => mem.token[c] = issued[c].now
  BY NothingPends
<1>10. Reached(m)'
  BY <1>1, <1>3, <1>9 DEF Reached
<1>11. kind = "enroll" => issued[cred].now = 0
  BY <1>9, <1>5 DEF Begun
<1>12. Ended(m)' /\ Evident(m)'
  BY <1>1, <1>3, <1>11 DEF Ended, Evident
<1>13. ASSUME NEW r \in transit' PROVE Covers(m, r)'
  <2>1. ~RotatesYet(r)' /\ ~EnrollsYet(r)' /\ ~BindsYet(r)'
    BY <1>1, <1>9 DEF RotatesYet, EnrollsYet, BindsYet, Family
  <2>2. r.kind \in Counted /\ m.pending.kind = "enroll" => m.pending.ref # r.ref
    BY <1>1, <1>3, <1>7, NewNumber DEF Counted
  <2> QED
    BY <2>1, <2>2 DEF Covers
<1> QED
  BY <1>8, <1>10, <1>12, <1>13 DEF Sound

\* A request begins.
LEMMA BeginsReach ==
    ASSUME SaveInv, ReachInv, UNCHANGED <<vault, remote>>, op.at # "idle",
           op.at # "answer" \/ op.reply.state # "none", mem.pending.kind = "none",
           NEW kind, NEW cred, NEW from, NEW flow,
           Begin(kind, cred, from, flow), Begun(kind, cred, from, flow)
    PROVE  ReachInv'
<1> DEFINE pending == [NoPending EXCEPT !.kind = kind, !.cred = cred, !.from = from,
                          !.flow = flow, !.ref = IF flow > 0 THEN -flow
                                                 ELSE begins + 1]
           m == [mem EXCEPT !.revocation = "none", !.pending = pending]
<1>1. /\ begins' = begins + 1 /\ UNCHANGED remote /\ begins \in Nat
      /\ Backend /\ Sound(mem) /\ Going
  BY DEF Begin, ReachInv, Backend
<1>2. /\ op'.at = "save" /\ op'.next = "transmit" /\ op'.recovery = FALSE
      /\ op'.job = op.job /\ op'.org = op.org /\ mem' = m
  <2>1. PICK rounds :
          op' = [op EXCEPT !.at = "save", !.next = "transmit", !.recovery = FALSE, !.retry = TRUE,
                           !.rounds = rounds, !.mem.revocation = "none", !.mem.pending = pending]
    BY DEF Begin
  <2> HIDE DEF pending
  <2> QED
    BY <2>1, Fields DEF mem
<1>3. m.token = mem.token /\ m.login = mem.login /\ m.revocation = "none" /\ m.pending = pending
  BY Fields
<1>4. pending.kind = kind /\ pending.cred = cred /\ (flow = 0 => pending.ref = begins + 1)
  BY DEF NoPending
<1>5. PICK s : s = m
  OBVIOUS
<1>6. Sound(mem)'
  <2>1. Sound(s)'
    <3>1. Begins(s, kind, cred, from, flow)
      BY <1>3, <1>5 DEF Begins
    <3> HIDE DEF m, pending
    <3> QED
      BY <1>1, <3>1, BegunForm
  <2>2. \A x : x = mem' /\ Sound(x)' => Sound(mem)'
    BY DEF Sound, Formed, Reached, Ended, Evident, Covers
  <2> QED
    BY <1>2, <1>5, <2>1, <2>2
<1>7. kind # "none"
  BY DEF Begun
<1>8. ASSUME kind = "enroll"
      PROVE  /\ issued'[cred].now = 0
             /\ \A r \in transit' : r.kind = "enroll" => r.ref # pending.ref
  <2>1. flow = 0 /\ cred \in Creds /\ mem.token[cred] = 0
    BY <1>8, DeviceIs DEF Begun
  <2>2. issued[cred].now = 0
    BY <1>1, <2>1, NothingPends
  <2> QED
    BY <1>1, <1>4, <2>1, <2>2, NewNumber DEF remote, Counted
<1>9. Going'
  <2> HIDE DEF pending
  <2>1. mem'.pending = pending
    BY <1>2, <1>3
  <2>2. op.job \in {"select", "credential", "bound"} => op.org \in Orgs
    BY <1>1 DEF Going
  <2> QED
    BY <1>2, <1>4, <1>7, <1>8, <2>1, <2>2 DEF Going, At
<1>10. Calm
  BY <1>1, Steady
<1> QED
  BY <1>6, <1>9, <1>10, Calmly

\* A sign-in that started is canceled, whatever of it pends.
LEMMA CancelsReach ==
    ASSUME SaveInv, ReachInv, UNCHANGED <<vault, remote>>, op.at # "idle",
           op.at # "answer" \/ op.reply.state # "none", CancelLogin(mem)
    PROVE  ReachInv'
<1>1. CASE mem.pending.kind = "cancel"
  <2>1. RecoverPending /\ begins' = begins /\ begins \in Nat
    BY <1>1 DEF CancelLogin, ReachInv, Backend
  <2>2. Calm
    BY <2>1, Steady
  <2> QED
    BY <2>1, <2>2, <1>1, RecoversReach
<1>2. CASE mem.pending.kind # "cancel"
  <2>1. PICK decided \in BOOLEAN :
           decided = (mem.pending.kind # "none" \/ mem.login.code \/ mem.login.stale)
    OBVIOUS
  <2>2. PICK pending :
           pending = [NoPending EXCEPT !.kind = "cancel", !.flow = mem.login.flow,
                        !.ref = begins + 1, !.revoke = decided, !.over = mem.pending.kind]
    OBVIOUS
  <2>3. PICK m : m = [mem EXCEPT !.pending = pending]
    OBVIOUS
  <2>4. /\ begins' = begins + 1 /\ UNCHANGED remote /\ begins \in Nat
        /\ issued' = issued /\ minted' = minted /\ barred' = barred /\ tx' = tx
        /\ transit' = transit
        /\ Backend /\ Sound(mem) /\ Going /\ Formed(mem) /\ MaxFlows \in Nat
        /\ mem.token[Device] = 0 /\ mem.login.started
        /\ mem.pending.kind \in {"none", "exchange", "bootstrap"}
    BY <1>2, AuthAssumption DEF CancelLogin, ReachInv, Backend, Sound, remote
  <2>5. /\ op'.at = "save" /\ op'.next = "transmit" /\ op'.recovery = FALSE
        /\ op'.job = op.job /\ op'.org = op.org /\ mem' = m
    <3>1. op' = [op EXCEPT !.at = "save", !.next = "transmit", !.recovery = FALSE,
                           !.retry = FALSE, !.mem.pending = pending]
      BY <1>2, <2>1, <2>2 DEF CancelLogin
    <3> QED
      BY <3>1, <2>3, Fields DEF mem
  <2>6. m.token = mem.token /\ m.login = mem.login /\ m.revocation = mem.revocation
        /\ m.pending = pending
    BY <2>3, Fields
  <2>7. /\ pending.kind = "cancel" /\ pending.cred = Device /\ pending.from = 0
        /\ pending.flow = mem.login.flow /\ pending.ref = begins + 1
        /\ pending.over = mem.pending.kind
        /\ pending = [kind |-> "cancel", cred |-> Device, from |-> 0, flow |-> mem.login.flow,
                      ref |-> begins + 1, used |-> FALSE, revoke |-> decided,
                      over |-> mem.pending.kind]
    BY <2>2 DEF NoPending
  <2>8. /\ mem.login \in LoginRecord /\ mem.login.flow \in 1 .. MaxFlows
        /\ mem.pending.kind # "none" => mem.pending.flow = mem.login.flow
        /\ mem.pending.over = "none"
    <3>1. mem.login \in LoginRecord /\ mem.pending.over = "none"
          /\ (mem.pending.kind # "none" => mem.pending.flow = mem.login.flow)
      BY <2>4 DEF Formed
    <3> QED
      BY <3>1, <2>4, FormedFlows
  <2>9. pending \in PendingForm
    <3>1. mem.login.flow \in 0 .. MaxFlows /\ begins + 1 \in Nat /\ Device \in Creds
      BY <2>4, <2>8, DeviceIs
    <3> QED
      BY <2>4, <2>7, <2>1, <3>1 DEF PendingForm, Targets
  <2>10. Formed(m)'
    <3>1. m.pending.over = "bootstrap" => tx'[m.pending.flow] \in Issued
      BY <2>4, <2>6, <2>7, <2>8 DEF Formed
    <3> QED
      BY <2>4, <2>6, <2>7, <2>8, <2>9, <3>1 DEF Formed
  <2>11. Reached(m)'
    <3>1. Reached(mem)
      BY <2>4 DEF Sound
    <3> QED
      BY <2>4, <2>6, <2>7, <2>8, <3>1 DEF Reached
  <2>12. Ended(m)' /\ Evident(m)'
    <3>1. Evident(mem)
      BY <2>4 DEF Sound
    <3> QED
      BY <2>4, <2>6, <2>7, <2>8, <3>1 DEF Ended, Evident
  <2>13. ASSUME NEW r \in transit' PROVE Covers(m, r)'
    <3>1. Covers(mem, r)
      BY <2>4, <2>13 DEF Sound
    <3>2. ~RotatesYet(r)' /\ ~EnrollsYet(r)' /\ (BindsYet(r)' => BindsYet(r))
      BY <2>4, <3>1 DEF RotatesYet, EnrollsYet, BindsYet, Family, Covers
    <3> QED
      BY <2>6, <2>7, <2>8, <3>1, <3>2 DEF Covers
  <2>14. Sound(mem)'
    <3>1. Sound(m)'
      BY <2>10, <2>11, <2>12, <2>13 DEF Sound
    <3>2. \A s : s = mem' /\ Sound(s)' => Sound(mem)'
      BY DEF Sound, Formed, Reached, Ended, Evident, Covers
    <3> QED
      BY <2>5, <3>1, <3>2
  <2>15. Going'
    <3>1. op.job \in {"select", "credential", "bound"} => op.org \in Orgs
      BY <2>4 DEF Going
    <3> QED
      BY <2>5, <2>6, <2>7, <3>1 DEF Going, At
  <2>16. Calm
    BY <2>4, Steady
  <2> QED
    BY <2>14, <2>15, <2>16, Calmly
<1> QED
  BY <1>1, <1>2
-----------------------------------------------------------------------------
\* What is in the Keychain, and on its way there, when no operation runs.
LEMMA RestsReach ==
    ASSUME ReachInv, Hushed, op'.at = "idle", NEW k, Sound(k), keychain' = k,
           NEW l, late'.on => Sound(l) /\ late'.mem = l
    PROVE  ReachInv'
<1>1. Backend /\ Quiet
  BY DEF ReachInv, Hushed
<1>2. Backend'
  BY <1>1, BackendQuiet DEF Hushed
<1>3. \A m : Sound(m) => Sound(m)'
  BY <1>1, QuietKeeps DEF Hushed
<1>4. Sound(keychain)'
  <2>1. Sound(k)'
    BY <1>3
  <2> QED
    BY <2>1 DEF Sound, Formed, Reached, Ended, Evident, Covers
<1>5. late'.on => Sound(late.mem)'
  <2>1. late'.on => Sound(l)'
    BY <1>3
  <2> QED
    BY <2>1 DEF Sound, Formed, Reached, Ended, Evident, Covers
<1> QED
  BY <1>2, <1>4, <1>5 DEF ReachInv

\* A save arrives in time.
LEMMA SavedReach ==
    ASSUME SaveInv, ReachInv, Saved
    PROVE  ReachInv'
<1>1. /\ op.at = "save" /\ ~late.on /\ keychain' = mem /\ late' = late
      /\ UNCHANGED remote /\ begins' = begins /\ begins \in Nat
      /\ Sound(mem) /\ Going /\ Backend
  BY DEF Saved, ReachInv, Backend
<1>2. Hushed
  BY <1>1, Hushes
<1>3. PICK m : m = mem
  OBVIOUS
<1>4. CASE op.next = "idle"
  <2>1. op'.at = "idle"
    BY <1>4 DEF Saved, NoOp
  <2>2. Sound(m)
    BY <1>1, <1>3
  <2> QED
    BY <1>1, <1>2, <1>3, <2>1, <2>2, RestsReach
<1>5. CASE op.next # "idle"
  <2>1. op' = [op EXCEPT !.at = op.next]
    BY <1>5 DEF Saved
  <2>2. /\ op'.at = op.next /\ op'.next = op.next /\ mem' = m /\ op'.job = op.job
        /\ op'.org = op.org /\ op'.reply = op.reply /\ op'.recovery = op.recovery
    BY <2>1, <1>3, Fields DEF mem
  <2>3. Backend'
    BY <1>1, <1>2, BackendQuiet DEF Hushed
  <2>4. Sound(keychain)' /\ Sound(mem)'
    <3>1. Sound(m)'
      BY <1>1, <1>2, <1>3, QuietKeeps DEF Hushed
    <3> QED
      BY <1>1, <1>3, <2>2, <3>1 DEF Sound, Formed, Reached, Ended, Evident, Covers
  <2>5. op.next # "answer"
    BY <1>1 DEF Going
  <2>6. op.next = "clear" => Confirmed(mem)'
    BY <1>1, <1>3, <2>2 DEF Going, Confirmed
  <2>7. Going'
    BY <1>1, <1>3, <2>2, <2>5, <2>6 DEF Going, At, remote
  <2> QED
    BY <1>1, <2>3, <2>4, <2>7 DEF ReachInv
<1> QED
  BY <1>4, <1>5

\* A save fails or lands late, the sign-in expires, the daemon dies.
LEMMA VaultReach ==
    ASSUME SaveInv, ReachInv, SaveFails \/ LateWrite \/ ExpireLogin \/ AuthCrash
    PROVE  ReachInv'
<1>1. /\ Sound(keychain) /\ (late.on => Sound(late.mem)) /\ Backend /\ begins \in Nat
      /\ (op.at # "idle" => Sound(mem)) /\ (late.on => op.at = "idle")
  BY DEF ReachInv, SaveInv, Backend
<1>2. PICK k, l, m : k = keychain /\ l = late.mem /\ m = mem
  OBVIOUS
<1>3. CASE SaveFails
  <2>1. /\ op.at = "save" /\ op'.at = "idle" /\ keychain' = k /\ UNCHANGED remote
        /\ begins' = begins
        /\ late' = late \/ late' = [on |-> TRUE, mem |-> m]
    BY <1>2, <1>3 DEF SaveFails, Stop, NoOp
  <2>2. Hushed
    BY <2>1, <1>1, Hushes
  <2>3. CASE late' = late
    BY <1>1, <1>2, <2>1, <2>2, <2>3, RestsReach
  <2>4. CASE late' = [on |-> TRUE, mem |-> m]
    <3>1. Sound(m) /\ late'.mem = m
      BY <1>1, <1>2, <2>1, <2>4
    <3> QED
      BY <1>1, <1>2, <2>1, <2>2, <3>1, RestsReach
  <2> QED
    BY <2>1, <2>3, <2>4
<1>4. CASE LateWrite
  <2>1. /\ late.on /\ keychain' = l /\ ~late'.on /\ op' = op /\ UNCHANGED remote
        /\ begins' = begins
    BY <1>2, <1>4 DEF LateWrite, NoLate
  <2>2. Sound(l) /\ op'.at = "idle"
    BY <1>1, <1>2, <2>1
  <2>3. Hushed
    BY <2>1, <2>2, <1>1, Hushes
  <2> QED
    BY <2>1, <2>2, <2>3, RestsReach
<1>5. CASE ExpireLogin
  <2>1. /\ op'.at = "idle" /\ op.at = "idle" /\ ~late'.on /\ k.login.started
        /\ keychain' = [k EXCEPT !.login.stale = TRUE] /\ UNCHANGED remote /\ begins' = begins
    BY <1>2, <1>5 DEF ExpireLogin
  <2>2. PICK x : x = [k EXCEPT !.login.stale = TRUE]
    OBVIOUS
  <2>3. /\ x.token = k.token /\ x.pending = k.pending /\ x.revocation = k.revocation
        /\ x.login = [k.login EXCEPT !.stale = TRUE]
    BY <1>2, <2>2 DEF SaveInv, Whole, SignedOut
  <2>4. /\ k.login \in LoginRecord /\ k.token[Device] = 0 /\ k.login.flow # 0
        /\ k.pending.kind \in {"exchange", "bootstrap", "cancel"} => k.login.flow = k.pending.flow
        /\ k.revocation = "cancel" => tx[k.login.flow] = "canceled"
    BY <1>1, <1>2, <2>1 DEF Sound, Formed, Evident, NoLogin
  <2>5. /\ x.login.flow = k.login.flow /\ x.login.started = k.login.started
        /\ x.login.code = k.login.code /\ x.login \in LoginRecord
    BY <2>3, <2>4 DEF LoginRecord
  <2>6. Sound(x)
    <3>1. LoginFits(k, x.login)
      BY <2>1, <2>4, <2>5 DEF LoginFits
    <3> QED
      BY <1>1, <1>2, <2>3, <3>1, LoginSound
  <2>7. Hushed
    BY <2>1, <1>1, Hushes
  <2> QED
    BY <2>1, <2>2, <2>6, <2>7, RestsReach
<1>6. CASE AuthCrash
  <2>1. /\ op'.at = "idle" /\ keychain' = k /\ ~late'.on
        /\ transit' = {[r EXCEPT !.awaited = FALSE] : r \in transit}
        /\ UNCHANGED <<begins, tx, issued, minted, barred>>
    BY <1>2, <1>6 DEF AuthCrash, Stop, NoOp, NoLate
  <2>2. Hushed
    BY <2>1, <1>1, Forgets
  <2> QED
    BY <1>1, <1>2, <2>1, <2>2, RestsReach
<1> QED
  BY <1>3, <1>4, <1>5, <1>6

\* An operation is let in, and starts from the Keychain.
LEMMA OpenReach ==
    ASSUME SaveInv, ReachInv, Ask \/ AskLogout \/ BrowserReturns
    PROVE  ReachInv'
<1>1. /\ op.at = "idle" /\ UNCHANGED <<vault, remote>> /\ begins' = begins
      /\ op'.at = "decide" /\ op'.mem = keychain
      /\ op'.job \in {"select", "credential", "bound"} => op'.org \in Orgs
  <2>1. CASE AskLogout
    BY <2>1 DEF AskLogout, NoOp
  <2>2. CASE Ask \/ BrowserReturns
    <3>1. PICK job, org, key, ref :
            Open(job, org, key, ref) /\ (job \in {"select", "credential", "bound"} => org \in Orgs)
      BY <2>2 DEF Ask, BrowserReturns
    <3> QED
      BY <3>1 DEF Open, NoOp
  <2> QED
    BY <2>1, <2>2
<1>2. mem' = keychain
  BY <1>1 DEF mem
<1>3. Calm
  <2>1. begins \in Nat
    BY DEF ReachInv, Backend
  <2> QED
    BY <1>1, <2>1, Steady
<1>4. PICK k : k = keychain
  OBVIOUS
<1>5. Sound(mem)'
  <2>1. Sound(k)'
    BY <1>3, <1>4, CalmKeeps DEF ReachInv
  <2> QED
    BY <1>2, <1>4, <2>1 DEF Sound, Formed, Reached, Ended, Evident, Covers
<1>6. Going'
  BY <1>1 DEF Going, At
<1> QED
  BY <1>3, <1>5, <1>6, Calmly
-----------------------------------------------------------------------------
\* A save of what differs only in fields that nothing here depends on.
LEMMA SavesAlike ==
    ASSUME SaveInv, ReachInv, Calm, op.at # "idle", NEW m, NEW p, SaveThen(m, p),
           m.token = mem.token, m.login = mem.login, m.pending = mem.pending,
           m.revocation \in {mem.revocation, "none"}, Seen(m, p)
    PROVE  ReachInv'
<1>1. Backend /\ Sound(mem)
  BY DEF ReachInv
<1>2. Alike(mem, m)
  BY <1>1 DEF Alike, Sound, Formed
<1>3. Sound(m)'
  BY <1>1, <1>2, AlikeSound, CalmKeeps
<1> QED
  BY <1>3, SavesReach

\* A save of another sign-in.
LEMMA SavesLogin ==
    ASSUME SaveInv, ReachInv, Calm, op.at # "idle", NEW m, NEW p, SaveThen(m, p),
           m.token = mem.token, m.pending = mem.pending, m.revocation \in {mem.revocation, "none"},
           LoginFits(mem, m.login), Seen(m, p)
    PROVE  ReachInv'
<1>1. Backend /\ Sound(mem)
  BY DEF ReachInv
<1>2. PICK s : s = [token |-> mem.token, pending |-> mem.pending, revocation |-> mem.revocation,
                    login |-> m.login]
  OBVIOUS
<1>3. Sound(s)
  BY <1>1, <1>2, LoginSound
<1>4. Sound(m)
  <2>1. s.pending \in PendingForm
    BY <1>3 DEF Sound, Formed
  <2>2. Alike(s, m)
    BY <1>2, <2>1 DEF Alike
  <2> QED
    BY <1>3, <2>2, AlikeSound
<1>5. Sound(m)'
  BY <1>1, <1>4, CalmKeeps
<1> QED
  BY <1>5, SavesReach

\* Where an operation is let go on without the network.
LEMMA Decides ==
    ASSUME ReachInv, UNCHANGED <<vault, remote>>, begins' = begins, op.at \notin {"idle", "answer"}
    PROVE  Calm
<1>1. begins \in Nat
  BY DEF ReachInv, Backend
<1> QED
  BY <1>1, Steady

\* A sign-in starts, is replaced, comes back with its code or is declined.
LEMMA LoginReach ==
    ASSUME SaveInv, ReachInv, Login \/ Callback \/ Decline
    PROVE  ReachInv'
<1>1. /\ op.at = "decide" /\ UNCHANGED <<vault, remote>> /\ begins' = begins
      /\ Sound(mem) /\ Formed(mem) /\ MaxFlows \in Nat
      /\ mem.login \in LoginRecord /\ (mem.token[Device] # 0 => mem.login = NoLogin)
  BY AuthAssumption DEF Login, Callback, Decline, Doing, ReachInv, Sound, Formed
<1>2. Calm /\ op.at # "idle"
  BY <1>1, Decides
<1>3. CASE Stop
  BY <1>2, <1>3, StopsReach
<1>4. CASE Login /\ ~Stop
  <2>1. mem.token[Device] = 0 /\ mem.pending.kind = "none"
    BY <1>4 DEF Login, Outstanding
  <2>2. CASE mem.login.flow > 0 /\ SaveThen([mem EXCEPT !.revocation = "none"], "start")
    <3>1. PICK m : m = [mem EXCEPT !.revocation = "none"]
      OBVIOUS
    <3>2. m.token = mem.token /\ m.login = mem.login /\ m.pending = mem.pending
          /\ m.revocation = "none"
      BY <3>1, Fields
    <3>3. Seen(m, "start")
      BY <2>1, <2>2, <3>2 DEF Seen
    <3> QED
      BY <1>2, <2>2, <3>1, <3>2, <3>3, SavesAlike
  <2>3. ASSUME NEW f \in 1 .. MaxFlows,
               SaveThen([mem EXCEPT !.revocation = "none",
                                    !.login = [NoLogin EXCEPT !.flow = f]], "start")
        PROVE  ReachInv'
    <3>1. PICK login : login = [NoLogin EXCEPT !.flow = f]
      OBVIOUS
    <3>2. login.flow = f /\ ~login.started /\ ~login.code /\ login \in LoginRecord /\ f # 0
      <4>1. login = [flow |-> f, started |-> FALSE, code |-> FALSE, stale |-> FALSE]
        BY <3>1 DEF NoLogin
      <4>2. f \in 0 .. MaxFlows /\ f # 0
        BY <1>1
      <4> QED
        BY <4>1, <4>2 DEF LoginRecord
    <3>3. PICK m : m = [mem EXCEPT !.revocation = "none", !.login = login]
      OBVIOUS
    <3>4. m.token = mem.token /\ m.login = login /\ m.pending = mem.pending
          /\ m.revocation = "none"
      BY <3>3, Fields
    <3>5. LoginFits(mem, m.login)
      BY <2>1, <3>2, <3>4 DEF LoginFits
    <3>6. Seen(m, "start")
      BY <2>1, <3>2, <3>4 DEF Seen
    <3>7. SaveThen(m, "start")
      BY <2>3, <3>1, <3>3
    <3> QED
      BY <1>2, <3>4, <3>5, <3>6, <3>7, SavesLogin
  <2> QED
    BY <2>2, <2>3, <1>4 DEF Login
<1>5. CASE Callback /\ ~Stop
  <2>1. /\ mem.login.flow > 0 /\ SaveThen([mem EXCEPT !.login.code = TRUE], "exchange")
    BY <1>5 DEF Callback
  <2>2. PICK login : login = [mem.login EXCEPT !.code = TRUE]
    OBVIOUS
  <2>3. PICK m : m = [mem EXCEPT !.login = login]
    OBVIOUS
  <2>4. m.token = mem.token /\ m.login = login /\ m.pending = mem.pending
        /\ m.revocation = mem.revocation /\ m = [mem EXCEPT !.login.code = TRUE]
    BY <2>2, <2>3, Fields
  <2>5. login.flow = mem.login.flow /\ login.started = mem.login.started /\ login \in LoginRecord
    BY <2>2, <1>1 DEF LoginRecord
  <2>6. mem.token[Device] = 0 /\ mem.login.flow # 0
    BY <2>1, <1>1 DEF NoLogin, LoginRecord
  <2>7. LoginFits(mem, m.login)
    BY <2>4, <2>5, <2>6, <1>1 DEF LoginFits, Formed, Sound, Evident
  <2>8. Seen(m, "exchange")
    BY <2>4, <2>5, <2>6 DEF Seen
  <2> QED
    BY <1>2, <2>1, <2>4, <2>7, <2>8, SavesLogin
<1>6. CASE Decline /\ ~Stop
  <2>1. SaveThen([mem EXCEPT !.login = NoLogin], "idle")
    BY <1>6 DEF Decline
  <2>2. PICK m : m = [mem EXCEPT !.login = NoLogin]
    OBVIOUS
  <2>3. m.token = mem.token /\ m.login = NoLogin /\ m.pending = mem.pending
        /\ m.revocation = mem.revocation
    BY <2>2, Fields
  <2>4. LoginFits(mem, m.login)
    BY <2>3, <1>1 DEF LoginFits, NoLogin, LoginRecord
  <2>5. Seen(m, "idle")
    BY DEF Seen
  <2> QED
    BY <1>2, <2>1, <2>2, <2>3, <2>4, <2>5, SavesLogin
<1> QED
  BY <1>3, <1>4, <1>5, <1>6

\* The other decisions: what pends is sent again, a request begins, or the operation ends.
LEMMA DecisionReach ==
    ASSUME SaveInv, ReachInv,
           \/ Refused \/ RecoverFirst \/ Refresh \/ Enroll \/ Served \/ Cancel \/ Bind
           \/ Reconcile \/ Exchange \/ Logout
    PROVE  ReachInv'
<1>1. /\ op.at \notin {"idle", "answer"} /\ UNCHANGED <<vault, remote>>
      /\ Sound(mem) /\ Formed(mem) /\ Going
  <2>1. op.at \notin {"idle", "answer"} /\ UNCHANGED <<vault, remote>>
    BY DEF Refused, RecoverFirst, Refresh, Enroll, Served, Cancel, Bind, Reconcile, Exchange,
       Logout, Doing
  <2> QED
    BY <2>1 DEF ReachInv, Sound
<1>2. CASE Refused \/ Served
  <2>1. Calm /\ Stop
    BY <1>1, <1>2, Decides DEF Refused, Served
  <2> QED
    BY <2>1, StopsReach
<1>3. CASE RecoverFirst
  <2>1. Calm /\ RecoverPending /\ mem.pending.kind # "none"
    BY <1>1, <1>3, Decides DEF RecoverFirst, Outstanding
  <2> QED
    BY <2>1, <1>1, RecoversReach
<1>4. CASE Refresh
  <2>1. CASE op.rounds = 2
    <3>1. Calm /\ Stop
      BY <2>1, <1>1, <1>4, Decides DEF Refresh
    <3> QED
      BY <3>1, StopsReach
  <2>2. CASE op.rounds # 2
    <3>1. Begin("refresh", Needed, mem.token[Needed], 0) /\ mem.token[Needed] # 0
          /\ mem.pending.kind = "none" /\ op.job \in Gated \ {"login"}
      BY <2>2, <1>4 DEF Refresh, Doing, Outstanding
    <3>2. Needed \in Creds
      BY <3>1, <1>1, DeviceIs DEF Needed, Gated, Going
    <3>3. Begun("refresh", Needed, mem.token[Needed], 0)
      BY <3>1, <3>2 DEF Begun
    <3>4. PICK c, t : c = Needed /\ t = mem.token[Needed]
      OBVIOUS
    <3>5. Begin("refresh", c, t, 0) /\ Begun("refresh", c, t, 0)
      BY <3>1, <3>3, <3>4
    <3> QED
      BY <3>1, <3>5, <1>1, BeginsReach
  <2> QED
    BY <2>1, <2>2
<1>5. CASE Enroll
  <2>1. CASE mem.token[op.org] # 0
    <3>1. Calm /\ Stop
      BY <2>1, <1>1, <1>5, Decides DEF Enroll
    <3> QED
      BY <3>1, StopsReach
  <2>2. CASE mem.token[op.org] = 0
    <3>1. Begin("enroll", op.org, 0, 0) /\ mem.pending.kind = "none" /\ op.job = "select"
          /\ mem.token[Device] # 0
      BY <2>2, <1>5 DEF Enroll, Doing, Outstanding, UsableToken
    <3>2. PICK c : c = op.org
      OBVIOUS
    <3>3. Begin("enroll", c, 0, 0) /\ Begun("enroll", c, 0, 0)
      BY <2>2, <3>1, <3>2, <1>1 DEF Begun, Going
    <3> QED
      BY <3>1, <3>3, <1>1, BeginsReach
  <2> QED
    BY <2>1, <2>2
<1>6. CASE Cancel
  <2>1. CASE CancelLogin(mem)
    BY <2>1, <1>1, CancelsReach
  <2>2. CASE Stop /\ begins' = begins
    <3>1. Calm
      BY <2>2, <1>1, Decides
    <3> QED
      BY <2>2, <3>1, StopsReach
  <2> QED
    BY <2>1, <2>2, <1>6 DEF Cancel
<1>7. CASE Bind
  <2>1. Calm /\ op.at # "idle"
    BY <1>1, <1>7, Decides DEF Bind
  <2>2. ASSUME NEW receipt, NEW p \in {"reconcile", "idle"},
               SaveThen([mem EXCEPT !.receipts[op.key] = receipt], p)
        PROVE  ReachInv'
    <3>1. PICK m : m = [mem EXCEPT !.receipts[op.key] = receipt]
      OBVIOUS
    <3>2. m.token = mem.token /\ m.login = mem.login /\ m.pending = mem.pending
          /\ m.revocation = mem.revocation
      BY <3>1, Fields
    <3>3. Seen(m, p)
      BY <2>2 DEF Seen
    <3> QED
      BY <2>1, <2>2, <3>1, <3>2, <3>3, SavesAlike
  <2>3. CASE Continue("reconcile")
    BY <2>1, <2>3, ContinuesReach
  <2>4. CASE Stop
    BY <2>1, <2>4, StopsReach
  <2>5. ASSUME NEW verdict, NEW p \in {"reconcile", "idle"},
               SaveThen([mem EXCEPT !.receipts[op.key] = [ref |-> op.ref, state |-> verdict]], p)
        PROVE  ReachInv'
    <3>1. PICK receipt : receipt = [ref |-> op.ref, state |-> verdict]
      OBVIOUS
    <3>2. SaveThen([mem EXCEPT !.receipts[op.key] = receipt], p)
      BY <2>5, <3>1
    <3> QED
      BY <2>2, <3>2
  <2> QED
    BY <2>3, <2>4, <2>5, <1>7 DEF Bind
<1>8. CASE Reconcile
  <2>1. Calm /\ op.at # "idle"
    BY <1>1, <1>8, Decides DEF Reconcile
  <2>2. CASE Outstanding
    BY <2>1, <2>2, <1>8, RecoversReach DEF Reconcile, Outstanding
  <2>3. CASE ~Outstanding /\ mem.login.code
    <3>1. Continue("exchange") /\ mem.login.flow # 0
      BY <2>3, <1>1, <1>8 DEF Reconcile, Formed
    <3> QED
      BY <2>1, <3>1, ContinuesReach
  <2>4. CASE ~Outstanding /\ ~mem.login.code
    BY <2>1, <2>4, <1>8, StopsReach DEF Reconcile
  <2> QED
    BY <2>2, <2>3, <2>4
<1>9. CASE Exchange
  <2>1. CASE Outstanding
    <3>1. Calm /\ Stop
      BY <2>1, <1>1, <1>9, Decides DEF Exchange
    <3> QED
      BY <3>1, StopsReach
  <2>2. CASE ~Outstanding
    <3>1. Begin("exchange", Device, 0, mem.login.flow) /\ mem.pending.kind = "none"
          /\ mem.login.flow # 0
      BY <2>2, <1>1, <1>9 DEF Exchange, Outstanding, Going, At
    <3>2. PICK f : f = mem.login.flow
      OBVIOUS
    <3>3. Begin("exchange", Device, 0, f) /\ Begun("exchange", Device, 0, f)
      BY <3>1, <3>2 DEF Begun
    <3> QED
      BY <3>1, <3>3, <1>1, BeginsReach
  <2> QED
    BY <2>1, <2>2
<1>10. CASE Logout
  <2>1. Calm /\ op.at # "idle"
    BY <1>1, <1>10, Decides DEF Logout
  <2>2. CASE Confirmed(mem)
    BY <2>1, <2>2, <1>10, ContinuesReach DEF Logout
  <2>3. CASE ~Confirmed(mem)
    <3>1. PICK m : m = [mem EXCEPT !.logout = TRUE]
      OBVIOUS
    <3>2. m.token = mem.token /\ m.login = mem.login /\ m.pending = mem.pending
          /\ m.revocation = mem.revocation
      BY <3>1, Fields
    <3>3. Seen(m, "revoke") /\ SaveThen(m, "revoke")
      BY <2>3, <3>1, <1>10 DEF Seen, Logout
    <3> QED
      BY <2>1, <3>2, <3>3, SavesAlike
  <2> QED
    BY <2>2, <2>3
<1> QED
  BY <1>2, <1>3, <1>4, <1>5, <1>6, <1>7, <1>8, <1>9, <1>10
-----------------------------------------------------------------------------
\* The backend opened the transaction that was asked for.
LEMMA StartReach ==
    ASSUME SaveInv, ReachInv, StartAnswered
    PROVE  ReachInv'
<1> DEFINE f == mem.login.flow
<1>1. /\ op.at = "start" /\ UNCHANGED <<vault, transit, issued, minted, barred, begins>>
      /\ tx' = [tx EXCEPT ![f] = IF @ = "none" THEN "open" ELSE @]
      /\ Backend /\ Sound(mem) /\ begins \in Nat /\ tx \in [1 .. MaxFlows -> TxStates]
      /\ mem.pending.kind = "none" /\ mem.revocation = "none" /\ f # 0 /\ mem.token[Device] = 0
      /\ mem.login \in LoginRecord
  BY DEF StartAnswered, ReachInv, Backend, Going, At, Sound, Formed
<1>2. Calm
  <2>1. Quiet
    <3>1. \A g \in 1 .. MaxFlows : tx'[g] = tx[g] \/ (tx[g] = "none" /\ tx'[g] = "open")
      BY <1>1
    <3>2. tx' \in [1 .. MaxFlows -> TxStates]
      <4>1. DOMAIN tx' = 1 .. MaxFlows /\ tx' = [g \in 1 .. MaxFlows |-> tx'[g]]
        BY <1>1
      <4> QED
        BY <1>1, <3>1, <4>1 DEF TxStates
    <3> QED
      BY <1>1, <3>1, <3>2 DEF Quiet, Issued
  <2> QED
    BY <2>1, <1>1, Unwaited DEF Calm, Hushed, Again
<1>3. CASE Stop
  BY <1>2, <1>3, StopsReach
<1>4. ASSUME NEW stale \in BOOLEAN,
             SaveThen([mem EXCEPT !.login.started = TRUE, !.login.stale = stale], "idle")
      PROVE  ReachInv'
  <2>1. PICK login : login = [mem.login EXCEPT !.started = TRUE, !.stale = stale]
    OBVIOUS
  <2>2. PICK m : m = [mem EXCEPT !.login = login]
    OBVIOUS
  <2>3. m.token = mem.token /\ m.login = login /\ m.pending = mem.pending
        /\ m.revocation = mem.revocation
        /\ m = [mem EXCEPT !.login.started = TRUE, !.login.stale = stale]
    BY <2>1, <2>2, Fields
  <2>4. login.flow = f /\ login \in LoginRecord
    BY <2>1, <1>1, <1>4 DEF LoginRecord
  <2>5. LoginFits(mem, m.login)
    BY <2>3, <2>4, <1>1 DEF LoginFits
  <2>6. Seen(m, "idle")
    BY DEF Seen
  <2> QED
    BY <1>1, <1>2, <1>4, <2>3, <2>5, <2>6, SavesLogin
<1> QED
  BY <1>3, <1>4 DEF StartAnswered

\* A save with nothing that pends, of the tokens that are valid.
LEMMA SavesSettled ==
    ASSUME SaveInv, ReachInv, Calm, op.at # "idle", NEW m, NEW p, SaveThen(m, p), Sound(m),
           p \in {"idle", "revoke", "decide"}
    PROVE  ReachInv'
<1>1. Seen(m, p)
  BY DEF Seen
<1>2. Sound(m)'
  BY CalmKeeps DEF ReachInv
<1> QED
  BY <1>1, <1>2, SavesReach

\* An enrollment that was never sent is dropped.
LEMMA FencedReach ==
    ASSUME SaveInv, ReachInv, TransmitFenced
    PROVE  ReachInv'
<1>1. /\ op.at = "transmit" /\ UNCHANGED <<vault, remote>> /\ begins' = begins
      /\ mem.pending.kind = "enroll" /\ Backend /\ Sound(mem) /\ Formed(mem) /\ Going
      /\ mem.token[Device] # 0
  BY DEF TransmitFenced, Fenced, ReachInv, Sound, Formed
<1>2. Calm /\ op.at # "idle"
  BY <1>1, Decides
<1>3. CASE op.recovery
  BY <1>2, <1>3, StopsReach DEF TransmitFenced
<1>4. CASE ~op.recovery
  <2>1. PICK m : m = [mem EXCEPT !.pending = NoPending]
    OBVIOUS
  <2>2. m.token = mem.token /\ m.login = mem.login /\ m.pending = NoPending
        /\ m.revocation = mem.revocation
    BY <2>1, Fields
  <2>3. /\ issued[mem.pending.cred].now = 0
        /\ \A r \in transit : r.kind = "enroll" => r.ref # mem.pending.ref
    BY <1>1, <1>4 DEF Going, At
  <2>4. \A c \in Creds : issued[c].now # 0 => mem.token[c] = issued[c].now
    BY <1>1, <2>3 DEF Sound, Reached, Formed
  <2>5. \A r \in transit : ~RotatesYet(r) /\ ~EnrollsYet(r) /\ ~BindsYet(r)
    BY <1>1, <2>3 DEF Sound, Covers, EnrollsYet, Formed
  <2>6. Sound(m)
    <3>1. /\ m.login \in LoginRecord
          /\ m.token \in [Creds -> Nat] /\ \A c \in Creds : m.token[c] <= minted
          /\ m.token[Device] # 0 /\ m.login = NoLogin
          /\ m.login.started \/ m.login.code => m.login.flow # 0
          /\ m.revocation = "device" => \A c \in Creds : issued[c].now = 0
      BY <1>1, <2>2 DEF Sound, Formed, Evident
    <3> QED
      BY <1>1, <2>2, <2>4, <2>5, <3>1, SettledSound
  <2> QED
    BY <1>2, <1>4, <2>1, <2>6, SavesSettled DEF TransmitFenced
<1> QED
  BY <1>3, <1>4

\* An answer is here: nobody waits any more, and it is for what pends.
LEMMA Answers ==
    ASSUME SaveInv, ReachInv, NEW kinds, Answered(kinds), UNCHANGED <<vault, remote>>,
           begins' = begins
    PROVE  /\ Calm /\ op.at = "answer" /\ op.reply.state # "none" /\ Meant
           /\ Backend /\ Sound(mem) /\ Formed(mem) /\ mem.pending.kind \in kinds
<1>1. op.at = "answer" /\ op.next # "clear" /\ op.reply.state # "none"
      /\ mem.pending.kind \in kinds
  BY DEF Answered, mem
<1>2. begins \in Nat /\ Meant /\ Backend /\ Sound(mem) /\ Formed(mem)
  BY <1>1 DEF ReachInv, Backend, Going, Sound
<1> QED
  BY <1>1, <1>2, Steady

\* The exchange went through: its bootstrap takes its place.
LEMMA AdoptExchangeReach ==
    ASSUME SaveInv, ReachInv, AdoptExchange
    PROVE  ReachInv'
<1>1. /\ Calm /\ op.at # "idle" /\ Backend /\ Sound(mem) /\ Formed(mem) /\ Reached(mem)
      /\ Evident(mem)
      /\ mem.pending.kind = "exchange" /\ tx[mem.pending.flow] \in Issued
      /\ mem.pending \in PendingForm
      /\ \A r \in transit : Covers(mem, r)
  <2>1. /\ Answered({"exchange"}) /\ op.reply.state = "ok" /\ UNCHANGED <<vault, remote>>
        /\ begins' = begins
    BY DEF AdoptExchange
  <2>2. /\ Calm /\ op.at = "answer" /\ Meant /\ Backend /\ Sound(mem) /\ Formed(mem)
        /\ mem.pending.kind = "exchange"
    BY <2>1, Answers
  <2> QED
    BY <2>1, <2>2 DEF Meant, Sound, Formed
<1>2. PICK pending : pending = [mem.pending EXCEPT !.kind = "bootstrap", !.used = FALSE]
  OBVIOUS
<1>3. PICK m : m = [mem EXCEPT !.pending = pending]
  OBVIOUS
<1>4. /\ op'.at = "save" /\ op'.next = "transmit" /\ op'.job = op.job /\ op'.org = op.org
      /\ mem' = m /\ m.pending = pending /\ m.token = mem.token /\ m.login = mem.login
      /\ m.revocation = mem.revocation
  BY <1>2, <1>3, Fields DEF AdoptExchange, mem
<1>5. /\ pending \in PendingForm /\ pending.kind = "bootstrap" /\ pending.cred = mem.pending.cred
      /\ pending.from = mem.pending.from /\ pending.flow = mem.pending.flow
      /\ pending.ref = mem.pending.ref /\ pending.over = mem.pending.over
  <2>1. \A q \in PendingForm : [q EXCEPT !.kind = "bootstrap", !.used = FALSE] \in PendingForm
    BY DEF PendingForm, Targets
  <2>2. DOMAIN mem.pending = {"kind", "cred", "from", "flow", "ref", "used", "revoke", "over"}
    BY <1>1 DEF PendingForm
  <2> QED
    BY <1>1, <1>2, <2>1, <2>2
<1>6. Sound(m)
  <2>1. Formed(m)
    BY <1>1, <1>4, <1>5 DEF Formed, Counted
  <2>2. Reached(m)
    BY <1>1, <1>4, <1>5 DEF Reached, Formed
  <2>3. Ended(m) /\ Evident(m)
    BY <1>1, <1>4, <1>5 DEF Ended, Evident, Formed
  <2>4. ASSUME NEW r \in transit PROVE Covers(m, r)
    BY <1>1, <1>4, <1>5, <2>4 DEF Covers, Formed
  <2> QED
    BY <2>1, <2>2, <2>3, <2>4 DEF Sound
<1>7. Sound(mem)'
  <2>1. Sound(m)'
    BY <1>1, <1>6, CalmKeeps
  <2> QED
    BY <1>4, <2>1 DEF Sound, Formed, Reached, Ended, Evident, Covers
<1>8. Going'
  <2>1. op.job \in {"select", "credential", "bound"} => op.org \in Orgs
    BY <1>1 DEF ReachInv, Going
  <2> QED
    BY <1>4, <1>5, <2>1 DEF Going, At
<1> QED
  BY <1>1, <1>7, <1>8, Calmly

\* A credential is adopted: it is the valid one, or none is.
LEMMA AdoptReach ==
    ASSUME SaveInv, ReachInv, Adopt
    PROVE  ReachInv'
<1> DEFINE c == mem.pending.cred
           gen == op.reply.gen
           kind == mem.pending.kind
<1>1. /\ Calm /\ op.at # "idle" /\ Backend /\ Sound(mem) /\ Formed(mem) /\ Reached(mem)
      /\ Evident(mem) /\ Meant /\ op.reply.state = "ok"
      /\ kind \in {"bootstrap", "refresh", "enroll"}
      /\ \A r \in transit : Covers(mem, r)
  <2>1. /\ Answered({"bootstrap", "refresh", "enroll"}) /\ op.reply.state = "ok"
        /\ UNCHANGED <<vault, remote>> /\ begins' = begins
    BY DEF Adopt
  <2>2. /\ Calm /\ op.at = "answer" /\ Meant /\ Backend /\ Sound(mem) /\ Formed(mem)
        /\ kind \in {"bootstrap", "refresh", "enroll"}
    BY <2>1, Answers
  <2> QED
    BY <2>1, <2>2 DEF Sound
<1>2. PICK token, login :
        /\ token = [mem.token EXCEPT ![c] = gen]
        /\ login = IF kind = "bootstrap" THEN NoLogin ELSE mem.login
  OBVIOUS
<1>3. PICK m : m = Settle([mem EXCEPT !.token = token, !.login = login])
  OBVIOUS
<1>4. SaveThen(m, Back)
  <2>1. [mem EXCEPT !.token[c] = gen, !.login = IF kind = "bootstrap" THEN NoLogin ELSE @]
          = [mem EXCEPT !.token = token, !.login = login]
    BY <1>2, Fields
  <2> QED
    BY <1>3, <2>1 DEF Adopt
<1>5. m.token = token /\ m.login = login /\ m.pending = NoPending /\ m.revocation = mem.revocation
  BY <1>3, Fields DEF Settle
<1>6. /\ c \in Creds /\ Device \in Creds /\ gen \in Nat /\ gen <= minted /\ minted \in Nat
      /\ mem.token \in [Creds -> Nat] /\ \A x \in Creds : mem.token[x] <= minted
      /\ mem.token[Device] = 0 => \A x \in Creds : mem.token[x] = 0
      /\ kind = "bootstrap" => c = Device /\ mem.token[Device] = 0
      /\ kind \in {"refresh", "enroll"} => mem.token[Device] # 0 /\ mem.login = NoLogin
      /\ kind = "refresh" => gen # 0 /\ mem.pending.from = mem.token[c] /\ gen # mem.pending.from
      /\ kind = "enroll" => c # Device
      /\ mem.pending.over = "none"
  BY <1>1, DeviceIs, FormedFlows DEF Formed, Meant, Backend
<1>7. login = NoLogin
  BY <1>1, <1>2, <1>6
<1>8. /\ token \in [Creds -> Nat] /\ token[c] = gen
      /\ \A x \in Creds : x # c => token[x] = mem.token[x]
      /\ \A x \in Creds : token[x] <= minted
      /\ token[Device] = 0 => \A x \in Creds : token[x] = 0
  <2>1. /\ token \in [Creds -> Nat] /\ token[c] = gen
        /\ \A x \in Creds : x # c => token[x] = mem.token[x]
    BY <1>2, <1>6
  <2>2. \A x \in Creds : token[x] <= minted
    BY <2>1, <1>6
  <2>3. token[Device] = 0 => \A x \in Creds : token[x] = 0
    BY <2>1, <1>1, <1>6
  <2> QED
    BY <2>1, <2>2, <2>3
<1>9. ASSUME NEW x \in Creds, issued[x].now # 0 PROVE token[x] = issued[x].now
  <2>1. CASE x = c
    BY <2>1, <1>1, <1>6, <1>8, <1>9 DEF Meant
  <2>2. CASE x # c
    <3>1. mem.token[x] = issued[x].now
      BY <2>2, <1>1, <1>6, <1>9 DEF Reached
    <3> QED
      BY <2>2, <3>1, <1>8
  <2> QED
    BY <2>1, <2>2
<1>10. ASSUME NEW r \in transit PROVE ~RotatesYet(r) /\ ~EnrollsYet(r) /\ ~BindsYet(r)
  <2>1. Covers(mem, r)
    BY <1>1
  <2>2. ~RotatesYet(r)
    BY <2>1, <1>1, <1>6 DEF Covers, RotatesYet, Meant, Formed
  <2>3. ~EnrollsYet(r)
    BY <2>1, <1>1 DEF Covers, EnrollsYet, Meant
  <2>4. ~BindsYet(r)
    BY <2>1, <1>1, <1>6 DEF Covers, BindsYet, Meant
  <2> QED
    BY <2>2, <2>3, <2>4
<1>11. Sound(m)
  <2>1. NoLogin \in LoginRecord /\ ~NoLogin.started /\ ~NoLogin.code
    BY AuthAssumption DEF NoLogin, LoginRecord
  <2>2. mem.revocation = "device" => \A x \in Creds : issued[x].now = 0
    BY <1>1 DEF Evident
  <2> QED
    BY <1>1, <1>5, <1>7, <1>8, <1>9, <1>10, <2>1, <2>2, SettledSound
<1>12. Back \in {"idle", "revoke", "decide"}
  BY DEF Back
<1>13. PICK p : p = Back
  OBVIOUS
<1> QED
  BY <1>1, <1>4, <1>11, <1>12, <1>13, SavesSettled

\* A sign-in that is canceled leaves nothing valid.
LEMMA CanceledReach ==
    ASSUME SaveInv, ReachInv, Canceled
    PROVE  ReachInv'
<1>1. /\ op.at = "canceled" /\ UNCHANGED <<vault, remote>> /\ begins' = begins
      /\ mem.pending.kind = "cancel" /\ tx[mem.pending.flow] = "canceled"
      /\ Backend /\ Sound(mem) /\ Formed(mem) /\ Reached(mem) /\ Evident(mem)
      /\ \A r \in transit : Covers(mem, r)
  BY DEF Canceled, ReachInv, Going, At, Sound
<1>2. Calm /\ op.at # "idle"
  BY <1>1, Decides
<1>3. PICK m : m = Settle([mem EXCEPT !.login = NoLogin])
  OBVIOUS
<1>4. m.token = mem.token /\ m.login = NoLogin /\ m.pending = NoPending
      /\ m.revocation = mem.revocation
  BY <1>3, Fields DEF Settle
<1>5. \A c \in Creds : mem.token[c] = 0 /\ mem.token \in [Creds -> Nat]
      /\ (\A x \in Creds : mem.token[x] <= minted)
  BY <1>1 DEF Formed
<1>6. mem.token[Device] = 0 /\ mem.token \in [Creds -> Nat]
      /\ \A x \in Creds : mem.token[x] <= minted
  BY <1>5, DeviceIs
<1>7. \A c \in Creds : issued[c].now # 0 => mem.token[c] = issued[c].now
  BY <1>1 DEF Reached
<1>8. \A r \in transit : ~RotatesYet(r) /\ ~EnrollsYet(r) /\ ~BindsYet(r)
  BY <1>1 DEF Covers, BindsYet
<1>9. Sound(m)
  <2>1. NoLogin \in LoginRecord /\ ~NoLogin.started /\ ~NoLogin.code
    BY AuthAssumption DEF NoLogin, LoginRecord
  <2>2. mem.revocation = "device" => \A x \in Creds : issued[x].now = 0
    BY <1>1 DEF Evident
  <2> QED
    BY <1>1, <1>4, <1>5, <1>6, <1>7, <1>8, <2>1, <2>2, SettledSound
<1>10. Back \in {"idle", "revoke", "decide"}
  BY DEF Back
<1>11. PICK p : p = Back
  OBVIOUS
<1>12. SaveThen(m, p)
  BY <1>3, <1>11 DEF Canceled
<1> QED
  BY <1>2, <1>9, <1>10, <1>11, <1>12, SavesSettled

\* A cancellation that is confirmed is, in a logout, its evidence.
LEMMA AdoptCancelReach ==
    ASSUME SaveInv, ReachInv, AdoptCancel
    PROVE  ReachInv'
<1>1. /\ Calm /\ op.at # "idle" /\ Backend /\ Sound(mem) /\ Formed(mem) /\ Evident(mem)
      /\ mem.pending.kind = "cancel" /\ tx[mem.pending.flow] = "canceled"
  <2>1. /\ Answered({"cancel"}) /\ op.reply.state = "ok" /\ UNCHANGED <<vault, remote>>
        /\ begins' = begins
    BY DEF AdoptCancel
  <2>2. /\ Calm /\ op.at = "answer" /\ Meant /\ Backend /\ Sound(mem) /\ Formed(mem)
        /\ mem.pending.kind = "cancel"
    BY <2>1, Answers
  <2> QED
    BY <2>1, <2>2 DEF Meant, Sound
<1>2. CASE mem.logout
  <2>1. PICK m : m = [mem EXCEPT !.revocation = "cancel"]
    OBVIOUS
  <2>2. m.token = mem.token /\ m.login = mem.login /\ m.pending = mem.pending
        /\ m.revocation = "cancel"
    BY <2>1, Fields
  <2>3. Sound(m)
    <3>1. Formed(m)
      BY <1>1, <2>2 DEF Formed
    <3>2. Reached(m)
      BY <1>1, <2>2 DEF Sound, Reached
    <3>3. Ended(m)
      BY <1>1, <2>2 DEF Sound, Ended
    <3>4. Evident(m)
      BY <1>1, <2>2 DEF Evident, Formed
    <3>5. \A r \in transit : Covers(m, r)
      BY <1>1, <2>2 DEF Sound, Covers
    <3> QED
      BY <3>1, <3>2, <3>3, <3>4, <3>5 DEF Sound
  <2>4. Sound(m)'
    BY <1>1, <2>3, CalmKeeps
  <2>5. Seen(m, "canceled") /\ SaveThen(m, "canceled")
    BY <1>1, <1>2, <2>1, <2>2 DEF Seen, AdoptCancel
  <2> QED
    BY <1>1, <2>4, <2>5, SavesReach
<1>3. CASE ~mem.logout
  BY <1>1, <1>3, ContinuesReach DEF AdoptCancel
<1> QED
  BY <1>2, <1>3

\* A cancellation that is refused puts back what it displaced.
LEMMA NotCanceledReach ==
    ASSUME SaveInv, ReachInv, NotCanceled
    PROVE  ReachInv'
<1> DEFINE over == mem.pending.over
<1>1. /\ Calm /\ op.at # "idle" /\ Backend /\ Sound(mem) /\ Formed(mem) /\ Evident(mem)
      /\ Reached(mem) /\ mem.pending.kind = "cancel" /\ MaxFlows \in Nat /\ MaxBegins \in Nat
      /\ mem.pending.flow \in 1 .. MaxFlows /\ over \in {"none", "exchange", "bootstrap"}
      /\ \A r \in transit : Covers(mem, r)
  <2>1. /\ Answered({"cancel"}) /\ UNCHANGED <<vault, remote>> /\ begins' = begins
    BY DEF NotCanceled
  <2>2. /\ Calm /\ op.at = "answer" /\ Backend /\ Sound(mem) /\ Formed(mem)
        /\ mem.pending.kind = "cancel"
    BY <2>1, Answers
  <2> QED
    BY <2>1, <2>2, AuthAssumption, FormedFlows DEF Sound
<1>2. PICK pending :
        pending = [NoPending EXCEPT !.kind = over,
                     !.flow = IF over = "none" THEN 0 ELSE mem.pending.flow,
                     !.ref = IF over = "none" THEN 0 ELSE -mem.pending.flow]
  OBVIOUS
<1>3. /\ pending.kind = over /\ pending.cred = Device /\ pending.from = 0
      /\ pending.over = "none"
      /\ over # "none" => pending.flow = mem.pending.flow /\ pending.ref < 0
  BY <1>1, <1>2 DEF NoPending
<1>4. pending \in PendingForm
  <2>1. pending = [kind |-> over, cred |-> Device, from |-> 0,
                   flow |-> IF over = "none" THEN 0 ELSE mem.pending.flow,
                   ref |-> IF over = "none" THEN 0 ELSE -mem.pending.flow,
                   used |-> FALSE, revoke |-> FALSE, over |-> "none"]
    BY <1>2 DEF NoPending
  <2>2. /\ (IF over = "none" THEN 0 ELSE mem.pending.flow) \in 0 .. MaxFlows
        /\ (IF over = "none" THEN 0 ELSE -mem.pending.flow) \in Int
    BY <1>1
  <2> QED
    BY <1>1, <2>1, <2>2, DeviceIs DEF PendingForm, Targets
<1>5. PICK m : m = [mem EXCEPT !.pending = pending]
  OBVIOUS
<1>6. m.token = mem.token /\ m.login = mem.login /\ m.pending = pending
      /\ m.revocation = mem.revocation
  BY <1>5, Fields
<1>7. Sound(m)
  <2>1. Formed(m)
    BY <1>1, <1>3, <1>4, <1>6 DEF Formed, Counted
  <2>2. Reached(m)
    BY <1>1, <1>3, <1>6 DEF Reached
  <2>3. Ended(m) /\ Evident(m)
    BY <1>1, <1>3, <1>6 DEF Ended, Evident
  <2>4. ASSUME NEW r \in transit PROVE Covers(m, r)
    BY <1>1, <1>3, <1>6, <2>4 DEF Covers
  <2> QED
    BY <2>1, <2>2, <2>3, <2>4 DEF Sound
<1>8. SaveThen(m, "idle")
  BY <1>2, <1>5 DEF NotCanceled
<1> QED
  BY <1>1, <1>7, <1>8, SavesSettled

\* An enrollment that is refused is dropped: it issued nothing, or everything is revoked.
LEMMA RejectionReach ==
    ASSUME SaveInv, ReachInv, AdoptRejection
    PROVE  ReachInv'
<1>1. /\ Calm /\ op.at # "idle" /\ Backend /\ Sound(mem) /\ Formed(mem) /\ Evident(mem)
      /\ Reached(mem) /\ Ended(mem) /\ Meant /\ op.reply.state = "refused"
      /\ \A r \in transit : Covers(mem, r)
  <2>1. /\ Answered(Targets \ {"none"})
        /\ op.reply.state = "refused" /\ UNCHANGED <<vault, remote>> /\ begins' = begins
    BY DEF AdoptRejection
  <2>2. Calm /\ op.at = "answer" /\ Backend /\ Sound(mem) /\ Formed(mem) /\ Meant
    BY <2>1, Answers
  <2> QED
    BY <2>1, <2>2 DEF Sound
<1>2. PICK m : m = [mem EXCEPT !.receipts = Marked(mem, "rejected"),
                               !.pending = IF mem.pending.kind = "enroll" THEN NoPending ELSE @]
  OBVIOUS
<1>3. m.token = mem.token /\ m.login = mem.login /\ m.revocation = mem.revocation
      /\ m.pending = IF mem.pending.kind = "enroll" THEN NoPending ELSE mem.pending
  BY <1>2, Fields
<1>4. Sound(m)
  <2>1. CASE mem.pending.kind # "enroll"
    <3>1. Alike(mem, m)
      BY <2>1, <1>1, <1>3 DEF Alike, Formed
    <3> QED
      BY <1>1, <3>1, AlikeSound
  <2>2. CASE mem.pending.kind = "enroll"
    <3>1. /\ mem.pending.cred \in Orgs /\ mem.pending.cred # Device /\ mem.token[Device] # 0
          /\ mem.login = NoLogin /\ mem.pending.over = "none" /\ Device \in Creds
      BY <2>2, <1>1, DeviceIs DEF Formed
    <3>2. mem.pending.ref \in barred \/ issued[Device].now = 0
      <4>1. issued[Device].now # 0 => Family(mem.token[Device])
        BY <1>1, <3>1 DEF Reached, Family
      <4> QED
        BY <4>1, <2>2, <1>1 DEF Meant
    <3>3. issued[mem.pending.cred].now = 0
      BY <3>1, <3>2, <2>2, <1>1, DeviceIs DEF Ended, Backend
    <3>4. \A c \in Creds : issued[c].now # 0 => mem.token[c] = issued[c].now
      BY <3>1, <3>3, <2>2, <1>1 DEF Reached
    <3>5. \A r \in transit : ~RotatesYet(r) /\ ~EnrollsYet(r) /\ ~BindsYet(r)
      BY <3>1, <3>2, <2>2, <1>1 DEF Covers, EnrollsYet
    <3>6. /\ mem.token \in [Creds -> Nat] /\ \A c \in Creds : mem.token[c] <= minted
          /\ NoLogin \in LoginRecord /\ ~NoLogin.started /\ ~NoLogin.code
          /\ mem.revocation = "device" => \A c \in Creds : issued[c].now = 0
      BY <1>1, AuthAssumption DEF Formed, Evident, NoLogin, LoginRecord
    <3> QED
      BY <1>1, <1>3, <2>2, <3>1, <3>4, <3>5, <3>6, SettledSound
  <2> QED
    BY <2>1, <2>2
<1>5. SaveThen(m, "idle")
  BY <1>2 DEF AdoptRejection
<1> QED
  BY <1>1, <1>4, <1>5, SavesSettled
-----------------------------------------------------------------------------
\* All is revoked, and that is evidence enough.
LEMMA RevokedReach ==
    ASSUME SaveInv, ReachInv, Revoked
    PROVE  ReachInv'
<1>1. /\ op.at = "answer" /\ op.next = "clear" /\ op.reply.state # "none"
      /\ UNCHANGED <<vault, remote>> /\ begins' = begins /\ begins \in Nat
      /\ Backend /\ Sound(mem) /\ Formed(mem) /\ mem.token[Device] # 0 /\ AllRevoked
  BY DEF Revoked, ReachInv, Backend, Going, Sound
<1>2. Calm
  BY <1>1, Steady
<1>3. CASE op.reply.state # "ok"
  BY <1>2, <1>3, StopsReach DEF Revoked
<1>4. CASE op.reply.state = "ok"
  <2>1. PICK m : m = [mem EXCEPT !.revocation = "device"]
    OBVIOUS
  <2>2. m.token = mem.token /\ m.login = mem.login /\ m.pending = mem.pending
        /\ m.revocation = "device"
    BY <2>1, Fields
  <2>3. Sound(m)
    <3>1. Formed(m)
      BY <1>1, <2>2 DEF Formed
    <3>2. Reached(m) /\ Ended(m)
      BY <1>1, <2>2 DEF Sound, Reached, Ended
    <3>3. Evident(m)
      BY <1>1, <2>2 DEF Evident, Formed, AllRevoked
    <3>4. \A r \in transit : Covers(m, r)
      BY <1>1, <2>2 DEF Sound, Covers
    <3> QED
      BY <3>1, <3>2, <3>3, <3>4 DEF Sound
  <2>4. Sound(m)'
    BY <1>1, <1>2, <2>3, CalmKeeps
  <2>5. Seen(m, "clear") /\ SaveThen(m, "clear")
    BY <1>4, <2>1, <2>2 DEF Seen, Revoked
  <2> QED
    BY <1>1, <1>2, <2>4, <2>5, SavesReach
<1> QED
  BY <1>3, <1>4

\* With its evidence saved, or with nothing there, a logout leaves nothing that is valid or
\* that may yet be issued.
LEMMA NothingValid ==
    ASSUME Backend, Sound(mem),
           Confirmed(mem) \/ (mem.pending.kind = "none" /\ \A c \in Creds : mem.token[c] = 0)
    PROVE  /\ \A c \in Creds : issued[c].now = 0
           /\ \A r \in transit : ~RotatesYet(r) /\ ~EnrollsYet(r) /\ ~BindsYet(r)
<1>1. /\ Formed(mem) /\ Reached(mem) /\ Evident(mem) /\ \A r \in transit : Covers(mem, r)
      /\ Device \in Creds
  BY DeviceIs DEF Sound
<1>2. CASE mem.revocation = "device"
  <2>1. \A c \in Creds : issued[c].now = 0
    BY <1>1, <1>2 DEF Evident
  <2>2. "bootstrap" \notin {mem.pending.kind, mem.pending.over}
    BY <1>1, <1>2 DEF Evident
  <2>3. \A r \in transit : ~RotatesYet(r) /\ ~EnrollsYet(r)
    BY <2>1, <1>1, Requested DEF RotatesYet, EnrollsYet
  <2> QED
    BY <2>1, <2>2, <2>3, <1>1 DEF Covers
<1>3. CASE mem.revocation # "device"
  <2>1. \A c \in Creds : mem.token[c] = 0
    BY <1>3 DEF Confirmed
  <2>2. "bootstrap" \in {mem.pending.kind, mem.pending.over} => tx[mem.pending.flow] = "canceled"
    <3>1. mem.pending.kind = "none" => mem.pending.over = "none"
      BY <1>1 DEF Formed
    <3> QED
      BY <3>1, <2>1, <1>1, <1>3 DEF Confirmed, Evident
  <2>3. \A c \in Creds : issued[c].now = 0
    <3>1. mem.pending.kind \notin {"refresh", "enroll"}
      BY <2>1, <1>1 DEF Formed
    <3> QED
      BY <3>1, <2>1, <2>2, <1>1 DEF Reached
  <2>4. \A r \in transit : ~RotatesYet(r) /\ ~EnrollsYet(r)
    BY <2>3, <1>1, Requested DEF RotatesYet, EnrollsYet
  <2>5. \A r \in transit : ~BindsYet(r)
    BY <2>2, <1>1 DEF Covers, BindsYet
  <2> QED
    BY <2>3, <2>4, <2>5
<1> QED
  BY <1>2, <1>3

\* Then the credentials go.
LEMMA ClearReach ==
    ASSUME SaveInv, ReachInv, Clear
    PROVE  ReachInv'
<1>1. /\ op.at = "clear" /\ UNCHANGED <<vault, remote>> /\ begins' = begins
      /\ Backend /\ Sound(mem)
      /\ Confirmed(mem) \/ (mem.pending.kind = "none" /\ \A c \in Creds : mem.token[c] = 0)
  BY DEF Clear, ReachInv, Going
<1>2. Calm /\ op.at # "idle"
  BY <1>1, Decides
<1>3. PICK m : m = [SignedOut EXCEPT !.revocation = mem.revocation, !.receipts = mem.receipts]
  OBVIOUS
<1>4. m.token = [c \in Creds |-> 0] /\ m.login = NoLogin /\ m.pending = NoPending
  BY <1>3 DEF SignedOut
<1>5. /\ \A c \in Creds : issued[c].now = 0
      /\ \A r \in transit : ~RotatesYet(r) /\ ~EnrollsYet(r) /\ ~BindsYet(r)
  BY <1>1, NothingValid
<1>6. Sound(m)
  <2>1. NoLogin \in LoginRecord /\ ~NoLogin.started /\ ~NoLogin.code
    BY AuthAssumption DEF NoLogin, LoginRecord
  <2>2. minted \in Nat /\ m.token \in [Creds -> Nat] /\ m.token[Device] = 0
        /\ \A c \in Creds : m.token[c] = 0 /\ m.token[c] <= minted
    BY <1>1, <1>4, DeviceIs DEF Backend
  <2> QED
    BY <1>1, <1>4, <1>5, <2>1, <2>2, SettledSound
<1>7. SaveThen(m, "idle")
  BY <1>3 DEF Clear
<1> QED
  BY <1>2, <1>6, <1>7, SavesSettled

\* A logout without the device's credential ends, or cancels the sign-in.
LEMMA WithoutDeviceReach ==
    ASSUME SaveInv, ReachInv, LogoutWithoutDevice
    PROVE  ReachInv'
<1>1. /\ op.at = "revoke" /\ UNCHANGED <<vault, remote>> /\ mem.token[Device] = 0
      /\ Formed(mem)
  BY DEF LogoutWithoutDevice, ReachInv, Sound
<1>2. CASE CancelLogin(mem)
  BY <1>1, <1>2, CancelsReach
<1>3. CASE begins' = begins
  <2>1. Calm /\ op.at # "idle"
    BY <1>1, <1>3, Decides
  <2>2. CASE Stop
    BY <2>1, <2>2, StopsReach
  <2>3. CASE mem.pending.kind = "bootstrap" /\ RecoverPending
    BY <2>1, <2>3, RecoversReach
  <2>4. CASE Confirmed(mem) /\ Continue("clear")
    BY <2>1, <2>4, ContinuesReach
  <2>5. CASE ~Outstanding /\ ~Enrolled /\ Continue("clear")
    <3>1. mem.pending.kind = "none" /\ \A c \in Creds : mem.token[c] = 0
      BY <2>5, <1>1 DEF Outstanding, Formed
    <3> QED
      BY <2>1, <2>5, <3>1, ContinuesReach
  <2>6. CancelLogin(mem) \/ Stop \/ (mem.pending.kind = "bootstrap" /\ RecoverPending)
          \/ (Confirmed(mem) /\ Continue("clear"))
          \/ (~Outstanding /\ ~Enrolled /\ Continue("clear"))
    BY DEF LogoutWithoutDevice
  <2> QED
    BY <1>2, <2>2, <2>3, <2>4, <2>5, <2>6
<1> QED
  BY <1>2, <1>3 DEF LogoutWithoutDevice

\* No answer comes: what was begun is sent once more, or left to a later operation.
LEMMA NoAnswerReach ==
    ASSUME SaveInv, ReachInv, NoAnswer
    PROVE  ReachInv'
<1>1. /\ op.at = "answer" /\ UNCHANGED <<vault, begins, tx, issued, minted, barred>>
      /\ transit' = {[r EXCEPT !.awaited = FALSE] : r \in transit} /\ Backend /\ Going
  BY DEF NoAnswer, ReachInv
<1>2. Calm /\ op.at # "idle"
  BY <1>1, Forgets DEF Calm
<1>3. CASE op.retry /\ op.next # "clear"
  <2>1. mem.pending.kind # "none" /\ RecoverPending
    BY <1>1, <1>3 DEF Going, NoAnswer
  <2> QED
    BY <1>2, <2>1, RecoversReach
<1>4. CASE ~(op.retry /\ op.next # "clear")
  BY <1>2, <1>4, StopsReach DEF NoAnswer
<1> QED
  BY <1>3, <1>4
-----------------------------------------------------------------------------
\* A request leaves that is the one in the Keychain.
LEMMA SendsReach ==
    ASSUME SaveInv, ReachInv, op.at \in {"transmit", "revoke"},
           UNCHANGED <<vault, begins, tx, issued, minted, barred>>, mem' = mem,
           NEW r, transit' = transit \cup {r}, Asked(r), Covers(mem, r), r = Sent',
           op'.at = "answer", op'.reply.state = "none", Going'
    PROVE  ReachInv'
<1>1. /\ Backend /\ Sound(mem) /\ mem = keychain /\ keychain' = keychain /\ ~late'.on
      /\ begins \in Nat /\ MaxFlows \in Nat
  BY AuthAssumption DEF ReachInv, SaveInv, Backend, vault
<1>2. Quiet
  BY <1>1 DEF Quiet, Backend
<1>3. \A q \in transit : ~q.awaited
  BY <1>1, Unwaited
<1>4. \A q \in transit' : /\ (\E x \in transit : Again(x, q)) \/ q = r
                          /\ q.awaited => q = r
  BY <1>3 DEF Again
<1>5. Backend'
  BY <1>1, <1>2, <1>4, BackendQuiet
<1>6. PICK m : m = mem
  OBVIOUS
<1>7. Sound(m)'
  <2>1. r.kind = "bootstrap" => r.flow \in 1 .. MaxFlows /\ tx[r.flow] \in Issued
    BY <1>1 DEF Asked
  <2>2. Sound(m) /\ Covers(m, r)
    BY <1>1, <1>6
  <2> QED
    BY <1>1, <1>2, <1>4, <2>1, <2>2, QuietKeeps
<1>8. Sound(mem)' /\ Sound(keychain)'
  BY <1>1, <1>6, <1>7 DEF Sound, Formed, Reached, Ended, Evident, Covers
<1> QED
  BY <1>1, <1>5, <1>8 DEF ReachInv

\* What pends is sent.
LEMMA TransmitReach ==
    ASSUME SaveInv, ReachInv, Transmit
    PROVE  ReachInv'
<1> DEFINE p == mem.pending
<1>1. PICK r : r = [kind |-> p.kind, cred |-> p.cred, from |-> p.from, flow |-> p.flow,
                    ref |-> p.ref, by |-> mem.token[Device], revoke |-> p.revoke,
                    recovery |-> op.recovery, awaited |-> TRUE]
  OBVIOUS
<1>2. /\ op.at = "transmit" /\ transit' = transit \cup {r}
      /\ op' = [op EXCEPT !.at = "answer", !.reply = NoReply]
      /\ UNCHANGED <<vault, begins, tx, issued, minted, barred>>
      /\ Backend /\ Sound(mem) /\ Formed(mem) /\ Going
      /\ op.next = "transmit" /\ p.kind # "none"
  BY <1>1 DEF Transmit, Deposit, ReachInv, Sound, Going
<1>3. /\ op'.at = "answer" /\ op'.reply.state = "none" /\ op'.next = "transmit" /\ mem' = mem
      /\ op'.recovery = op.recovery /\ op'.job = op.job /\ op'.org = op.org
  BY <1>2, Fields DEF mem, NoReply
<1>4. r = Sent'
  BY <1>1, <1>3 DEF Sent
<1>5. Asked(r)
  <2>1. /\ minted \in Nat /\ mem.token \in [Creds -> Nat] /\ Device \in Creds
        /\ \A c \in Creds : mem.token[c] <= minted
        /\ p.cred \in Creds /\ p.flow \in 0 .. MaxFlows /\ p.ref \in Int /\ MaxFlows \in Nat
        /\ p.kind \in Targets
    BY <1>2, DeviceIs, FormedFlows, AuthAssumption DEF Backend, Formed
  <2>2. mem.token[Device] \in 0 .. minted
    BY <2>1
  <2>3. /\ p.kind = "refresh" => p.from # 0 /\ p.from = mem.token[p.cred]
        /\ p.kind = "enroll" => p.from = 0 /\ p.cred \in Orgs /\ mem.token[Device] # 0
        /\ p.kind \in Counted => p.ref \in 0 .. begins
        /\ p.kind \in {"exchange", "bootstrap"} => p.ref < 0
        /\ p.kind \in {"exchange", "bootstrap", "cancel"} =>
             p.flow # 0 /\ p.cred = Device /\ p.from = 0
        /\ p.kind = "bootstrap" => tx[p.flow] \in Issued
    BY <1>2 DEF Formed
  <2>4. p.from \in 0 .. minted
    BY <1>2, <2>1, <2>3 DEF Targets
  <2>5. /\ r.kind = p.kind /\ r.cred = p.cred /\ r.from = p.from /\ r.flow = p.flow
        /\ r.ref = p.ref /\ r.by = mem.token[Device] /\ DOMAIN r = RequestFields
    BY <1>1 DEF RequestFields
  <2> HIDE DEF p
  <2> QED
    BY <2>1, <2>2, <2>3, <2>4, <2>5 DEF Asked
<1>6. Covers(mem, r)
  BY <1>1, <1>2 DEF Covers, RotatesYet, EnrollsYet, BindsYet, Formed
<1>7. Going'
  <2>1. Meant'
    BY <1>3 DEF Meant
  <2>2. op.job \in {"select", "credential", "bound"} => op.org \in Orgs
    BY <1>2 DEF Going
  <2> QED
    BY <1>2, <1>3, <2>1, <2>2 DEF Going, At
<1> QED
  BY <1>2, <1>3, <1>4, <1>5, <1>6, <1>7, SendsReach

\* A logout asks the backend to revoke the device.
LEMMA LogoutDeviceReach ==
    ASSUME SaveInv, ReachInv, LogoutDevice
    PROVE  ReachInv'
<1>1. PICK r : r = [kind |-> "logout", cred |-> Device, from |-> 0, flow |-> 0, ref |-> 0,
                    by |-> mem.token[Device], revoke |-> TRUE, recovery |-> FALSE,
                    awaited |-> TRUE]
  OBVIOUS
<1>2. /\ op.at = "revoke" /\ mem.token[Device] # 0 /\ transit' = transit \cup {r}
      /\ op' = [op EXCEPT !.at = "answer", !.next = "clear"]
      /\ UNCHANGED <<vault, begins, tx, issued, minted, barred>>
      /\ Backend /\ Sound(mem) /\ Formed(mem) /\ Going /\ op.reply.state = "none"
  BY <1>1 DEF LogoutDevice, ReachInv, Sound, Going, At
<1>3. /\ op'.at = "answer" /\ op'.reply.state = "none" /\ op'.next = "clear" /\ mem' = mem
      /\ op'.job = op.job /\ op'.org = op.org
  BY <1>2, Fields DEF mem
<1>4. r = Sent'
  BY <1>1, <1>3 DEF Sent
<1>5. Asked(r)
  <2>1. /\ minted \in Nat /\ mem.token \in [Creds -> Nat] /\ Device \in Creds
        /\ \A c \in Creds : mem.token[c] <= minted
        /\ MaxFlows \in Nat
    BY <1>2, DeviceIs, AuthAssumption DEF Backend, Formed
  <2>2. mem.token[Device] \in 0 .. minted
    BY <2>1
  <2> QED
    BY <1>1, <2>1, <2>2 DEF Asked, RequestFields, Counted
<1>6. Covers(mem, r)
  BY <1>1 DEF Covers, RotatesYet, EnrollsYet, BindsYet, Counted
<1>7. Going'
  <2>1. op.job \in {"select", "credential", "bound"} => op.org \in Orgs
    BY <1>2 DEF Going
  <2> QED
    BY <1>2, <1>3, <2>1 DEF Going, At
<1> QED
  BY <1>2, <1>3, <1>4, <1>5, <1>6, <1>7, SendsReach

\* The backend serves a request.
LEMMA ServeReach ==
    ASSUME SaveInv, ReachInv, NEW r \in transit, Serve(r)
    PROVE  ReachInv'
<1>1. /\ Backend /\ Sound(keychain) /\ (late.on => Sound(late.mem))
      /\ op.at # "idle" => Sound(mem) /\ Going
      /\ keychain' = keychain /\ late' = late /\ DOMAIN op = DOMAIN NoOp
  BY DEF ReachInv, Serve, vault, SaveInv
<1>2. Backend'
  BY <1>1, BackendServe
<1>3. \A m : Sound(m) => Sound(m)'
  BY <1>1, ServeKeepsSound
<1>4. op'.at = op.at /\ mem' = mem
  BY <1>1 DEF Serve, NoOp, mem
<1>5. Sound(keychain)' /\ (late'.on => Sound(late.mem)') /\ (op.at # "idle" => Sound(mem)')
  <2>1. PICK k, l, m : k = keychain /\ l = late.mem /\ m = mem
    OBVIOUS
  <2>2. Sound(k)' /\ (late.on => Sound(l)') /\ (op.at # "idle" => Sound(m)')
    BY <1>1, <1>3, <2>1
  <2> QED
    BY <1>1, <1>4, <2>1, <2>2 DEF Sound, Formed, Reached, Ended, Evident, Covers
<1>6. op.at # "idle" => Going'
  BY <1>1, <1>2, GoingServe
<1> QED
  BY <1>2, <1>4, <1>5, <1>6 DEF ReachInv

\* The backend refuses a request for good: an enrollment only while it issued nothing.  That
\* of a sign-in has the number of its flow, which no enrollment has.
LEMMA BarKeeps ==
    ASSUME Backend, NEW r \in transit, Bar(r), NEW m, Sound(m)
    PROVE  Sound(m)'
<1>1. /\ UNCHANGED <<begins, transit, tx, issued, minted>> /\ barred' = barred \cup {r.ref}
      /\ r.kind \in Counted \/ r.ref < 0
      /\ r.kind = "enroll" => issued[r.cred].now = 0
      /\ Formed(m) /\ Reached(m) /\ Ended(m) /\ Evident(m) /\ \A q \in transit : Covers(m, q)
  BY DEF Bar, Sound, Counted, Backend, Proper, Asked
<1>2. Formed(m)' /\ Reached(m)' /\ Evident(m)'
  BY <1>1 DEF Formed, Reached, Evident
<1>3. Ended(m)'
  <2>1. m.pending.kind = "enroll" => ~(m.pending.ref < 0)
    BY <1>1 DEF Formed, Counted, Backend
  <2>2. m.pending.kind = "enroll" /\ m.pending.ref = r.ref => issued[m.pending.cred].now = 0
    BY <1>1, <2>1 DEF Covers
  <2> QED
    BY <2>2, <1>1 DEF Ended
<1>4. ASSUME NEW q \in transit' PROVE Covers(m, q)'
  <2>1. Covers(m, q) /\ (EnrollsYet(q)' => EnrollsYet(q))
    BY <1>1, <1>4 DEF EnrollsYet, Family
  <2> QED
    BY <2>1, <1>1 DEF Covers, RotatesYet, BindsYet
<1> QED
  BY <1>2, <1>3, <1>4 DEF Sound

\* So the refusal leaves everything as it has to be.
LEMMA BarReach ==
    ASSUME SaveInv, ReachInv, NEW r \in transit, Bar(r)
    PROVE  ReachInv'
<1>1. /\ UNCHANGED <<keychain, late, op, begins, transit, tx, issued, minted>>
      /\ barred' = barred \cup {r.ref} /\ Backend /\ mem' = mem
  BY DEF Bar, ReachInv, vault, mem
<1>2. Backend'
  BY <1>1 DEF Backend, Proper, Asked, Sent
<1>3. Sound(keychain)' /\ (late'.on => Sound(late.mem)') /\ (op.at # "idle" => Sound(mem)')
  <2>1. PICK k, l, m : k = keychain /\ l = late.mem /\ m = mem
    OBVIOUS
  <2>2. Sound(k)' /\ (late.on => Sound(l)') /\ (op.at # "idle" => Sound(m)')
    <3>1. Sound(k) /\ (late.on => Sound(l)) /\ (op.at # "idle" => Sound(m))
      BY <2>1 DEF ReachInv
    <3> QED
      BY <1>1, <3>1, BarKeeps
  <2> QED
    BY <1>1, <2>1, <2>2 DEF Sound, Formed, Reached, Ended, Evident, Covers
<1>4. op.at # "idle" => Going'
  <2>1. Meant => Meant'
    BY <1>1 DEF Meant, Family
  <2>2. Confirmed(mem)' <=> Confirmed(mem)
    BY <1>1 DEF Confirmed
  <2> QED
    BY <1>1, <2>1, <2>2 DEF ReachInv, Going, At, AllRevoked
<1> QED
  BY <1>1, <1>2, <1>3, <1>4 DEF ReachInv

\* A request is lost, a sign-in decided in the browser, time passes.
LEMMA AwayReach ==
    ASSUME SaveInv, ReachInv,
           \/ \E r \in transit : Lost(r)
           \/ \E f \in 1 .. MaxFlows : Decide(f)
           \/ \E c \in Creds : Expire(c)
           \/ UNCHANGED authVars
    PROVE  ReachInv'
<1>1. /\ UNCHANGED <<keychain, late, op, begins, issued, minted, barred>>
      /\ transit' \subseteq transit /\ Backend /\ mem' = mem
      /\ tx' = tx \/ \E f \in 1 .. MaxFlows, d \in {"approved", "denied"} :
                       tx[f] = "open" /\ tx' = [tx EXCEPT ![f] = d]
  BY DEF Lost, Decide, Expire, authVars, vault, remote, ReachInv, mem
<1>2. Quiet
  <2>1. tx \in [1 .. MaxFlows -> TxStates] /\ begins \in Nat
    BY <1>1 DEF Backend
  <2>2. CASE tx' = tx
    BY <1>1, <2>1, <2>2 DEF Quiet
  <2>3. ASSUME NEW f \in 1 .. MaxFlows, NEW d \in {"approved", "denied"}, tx[f] = "open",
               tx' = [tx EXCEPT ![f] = d]
        PROVE  Quiet
    BY <1>1, <2>1, <2>3 DEF Quiet, TxStates, Issued
  <2> QED
    BY <1>1, <2>2, <2>3
<1>3. \A r \in transit' : \E q \in transit : Again(q, r)
  BY <1>1 DEF Again
<1>4. Backend'
  <2>1. \A r \in transit' : r.awaited =>
          (op.at = "answer" /\ op.reply.state = "none")' /\ r = Sent'
    BY <1>1 DEF Backend, Proper, Sent
  <2> QED
    BY <1>1, <1>2, <1>3, <2>1, BackendQuiet
<1>5. \A m : Sound(m) => Sound(m)'
  BY <1>1, <1>2, <1>3, QuietKeeps
<1>6. Sound(keychain)' /\ (late'.on => Sound(late.mem)') /\ (op.at # "idle" => Sound(mem)')
  <2>1. PICK k, l, m : k = keychain /\ l = late.mem /\ m = mem
    OBVIOUS
  <2>2. Sound(k)' /\ (late.on => Sound(l)') /\ (op.at # "idle" => Sound(m)')
    BY <1>5, <2>1 DEF ReachInv
  <2> QED
    BY <1>1, <2>1, <2>2 DEF Sound, Formed, Reached, Ended, Evident, Covers
<1>7. op.at # "idle" => Going'
  BY <1>1, <1>2, <1>3, GoingQuiet DEF ReachInv
<1> QED
  BY <1>1, <1>4, <1>6, <1>7 DEF ReachInv

\* The first state: nothing pends, and what is held is what the backend holds valid.
LEMMA ReachInit == AuthInit => ReachInv
<1> SUFFICES ASSUME AuthInit PROVE ReachInv
  OBVIOUS
<1>1. PICK held \in {{}} \cup {{Device} \cup e : e \in SUBSET Orgs} :
        keychain = [SignedOut EXCEPT !.token = [c \in Creds |-> IF c \in held THEN 1 ELSE 0]]
  BY DEF AuthInit
<1>2. /\ late = NoLate /\ op = NoOp /\ begins = 0 /\ transit = {} /\ barred = {}
      /\ tx = [f \in 1 .. MaxFlows |-> "none"] /\ minted = 1
      /\ issued = [c \in Creds |-> [now |-> keychain.token[c], before |-> 0]]
  BY DEF AuthInit
<1>3. /\ keychain.token = [c \in Creds |-> IF c \in held THEN 1 ELSE 0]
      /\ keychain.login = NoLogin /\ keychain.pending = NoPending
      /\ keychain.revocation = "none"
  BY <1>1 DEF SignedOut
<1>4. Device \in Creds /\ (Device \notin held => \A c \in Creds : keychain.token[c] = 0)
  BY <1>1, <1>3, DeviceIs
<1>5. /\ keychain.token \in [Creds -> Nat] /\ \A c \in Creds : keychain.token[c] <= minted
      /\ keychain.token[Device] = 0 => \A c \in Creds : keychain.token[c] = 0
      /\ \A c \in Creds : issued[c].now = keychain.token[c]
  BY <1>2, <1>3, <1>4
<1>6. Backend
  BY <1>2, <1>3, <1>4, <1>5 DEF Backend, TxStates
<1>7. Sound(keychain)
  <2>1. NoLogin \in LoginRecord /\ ~NoLogin.started /\ ~NoLogin.code
    BY AuthAssumption DEF NoLogin, LoginRecord
  <2> QED
    BY <1>2, <1>3, <1>5, <1>6, <2>1, SettledSound
<1> QED
  BY <1>2, <1>6, <1>7 DEF ReachInv, NoOp, NoLate

\* Every step keeps it.
LEMMA ReachNext == SaveInv /\ ReachInv /\ [AuthNext]_authVars => ReachInv'
<1> SUFFICES ASSUME SaveInv, ReachInv, [AuthNext]_authVars PROVE ReachInv'
  OBVIOUS
<1>1. CASE Step
  BY <1>1, SavedReach, LoginReach, DecisionReach, StartReach, FencedReach, TransmitReach,
     AdoptExchangeReach, AdoptReach, AdoptCancelReach, CanceledReach, NotCanceledReach,
     RejectionReach, WithoutDeviceReach, LogoutDeviceReach, RevokedReach, ClearReach DEF Step
<1>2. CASE ~Step
  BY <1>2, OpenReach, VaultReach, NoAnswerReach, ServeReach, BarReach, AwayReach DEF AuthNext
<1> QED
  BY <1>1, <1>2

(***************************************************************************)
(* No credential that the backend holds valid is out of the device's       *)
(* reach: the Keychain holds it, or the request that pends there recovers  *)
(* or cancels it.  It is so for every interleaving of failed and late      *)
(* saves, crashes, lost requests, requests served after their caller gave  *)
(* up, refusals and logouts; after a logout nothing is left valid.         *)
(***************************************************************************)
THEOREM CredentialsReachable == AuthSpec => []CredentialReachable
<1>1. ReachInv => CredentialReachable
  BY DEF ReachInv, Sound, Reached, CredentialReachable, Reaches
<1> QED
  BY <1>1, ReachInit, ReachNext, SavesCorrect, PTL DEF AuthSpec
=============================================================================
