----------------------------- MODULE AuthRotation -----------------------------
(***************************************************************************)
(* The credentials of the device and of its organizations (auth.rs).  The  *)
(* Keychain holds one protected state.  An operation that may change a     *)
(* credential saves what it is about to send, sends it, and adopts the     *)
(* answer in one save; what was sent and not answered is sent again as a   *)
(* recovery of the same request, by any later operation.                   *)
(*                                                                         *)
(* One operation runs at a time (operation_lock), over a copy of the       *)
(* protected state.  A save may fail, or outlive the operation that asked  *)
(* for it and land later; the daemon may crash at any point; requests may  *)
(* be lost, and may reach the backend after their caller gave up.          *)
(***************************************************************************)
EXTENDS Integers, FiniteSets, FiniteSetsExt

CONSTANTS
  Orgs,          \* organizations
  RecoveryKeys,  \* idempotency keys of auth.recover
  MaxFlows,      \* browser sign-ins
  MaxBegins,     \* credential requests begun
  AuthLimits     \* how often each kind of event strikes, and all of them

ASSUME AuthAssumption ==
  /\ IsFiniteSet(Orgs) /\ IsFiniteSet(RecoveryKeys) /\ "device" \notin Orgs
  /\ {MaxFlows, MaxBegins} \subseteq Nat
  /\ AuthLimits \in [{"crashes", "losses", "expiries", "refusals", "logouts", "total"} -> Nat]

Device == "device"
Creds == {Device} \cup Orgs
Gens == 0 .. 2 * (MaxFlows + MaxBegins) + 2     \* 0: no credential
Refs == -MaxFlows .. MaxBegins                  \* one per begin, one per flow (negative)

Reply == [state : {"none", "ok", "refused"}, gen : Gens]
NoReply == [state |-> "none", gen |-> 0]

(* pending of the protected state; a cancellation keeps what it displaced. *)
Targets == {"none", "exchange", "bootstrap", "cancel", "refresh", "enroll"}
PendingRecord == [kind : Targets, cred : Creds, from : Gens, flow : 0 .. MaxFlows, ref : Refs,
                  used : BOOLEAN, revoke : BOOLEAN, over : {"none", "exchange", "bootstrap"}]
NoPending == [kind |-> "none", cred |-> Device, from |-> 0, flow |-> 0, ref |-> 0,
              used |-> FALSE, revoke |-> FALSE, over |-> "none"]

LoginRecord == [flow : 0 .. MaxFlows, started : BOOLEAN, code : BOOLEAN, stale : BOOLEAN]
NoLogin == [flow |-> 0, started |-> FALSE, code |-> FALSE, stale |-> FALSE]

Receipt == [ref : Refs, state : {"none", "bound", "done", "rejected"}]

Protected == [token : [Creds -> Gens], login : LoginRecord, pending : PendingRecord,
              logout : BOOLEAN, revocation : {"none", "device", "cancel"},
              receipts : [RecoveryKeys -> Receipt]]
SignedOut == [token |-> [c \in Creds |-> 0], login |-> NoLogin, pending |-> NoPending,
              logout |-> FALSE, revocation |-> "none",
              receipts |-> [k \in RecoveryKeys |-> [ref |-> 0, state |-> "none"]]]

NoLate == [on |-> FALSE, mem |-> SignedOut]

Jobs == {"login", "callback", "decline", "cancel", "organizations", "select", "credential",
         "bound", "reconcile", "recover", "logout"}
OpPoints == {"idle", "decide", "bind", "start", "exchange", "reconcile", "save", "transmit",
             "answer", "canceled", "revoke", "clear"}
Operation == [at : OpPoints, next : OpPoints, job : Jobs, org : Orgs, key : RecoveryKeys,
              ref : Refs, mem : Protected, recovery : BOOLEAN, retry : BOOLEAN, rounds : 0 .. 2,
              reply : Reply]
NoOp == [at |-> "idle", next |-> "idle", job |-> "login", org |-> CHOOSE o \in Orgs : TRUE,
         key |-> CHOOSE k \in RecoveryKeys : TRUE, ref |-> 0, mem |-> SignedOut,
         recovery |-> FALSE, retry |-> FALSE, rounds |-> 0, reply |-> NoReply]

VARIABLES
  keychain,  \* the protected state in the Keychain
  late,      \* a save whose caller timed out, and that may still land
  op,        \* the operation that holds operation_lock, its copy and its answer
  expired,   \* credentials whose access token is no longer usable
  begins,    \* credential requests begun so far
  transit,   \* requests on their way to the backend
  tx,        \* browser transactions at the backend
  issued,    \* the credential the backend holds valid, and the one before
  minted,    \* generations of credentials the backend has given out
  barred,    \* requests the backend refuses for good
  faults     \* how much of AuthLimits is used

vault == <<keychain, late>>
remote == <<transit, tx, issued, minted, barred>>
authVars == <<keychain, late, op, expired, begins, transit, tx, issued, minted, barred,
              faults>>

Request == [kind : Targets \cup {"logout"}, cred : Creds, from : Gens, flow : 0 .. MaxFlows,
            ref : Refs, by : Gens, revoke : BOOLEAN, recovery : BOOLEAN, awaited : BOOLEAN]
TxStates == {"none", "open", "approved", "exchanged", "bound", "denied", "canceled"}

AuthTypeOK ==
  /\ keychain \in Protected /\ late.on \in BOOLEAN /\ late.mem \in Protected
  /\ op \in Operation /\ expired \subseteq Creds \X Gens /\ begins \in 0 .. MaxBegins
  /\ transit \subseteq Request
  /\ tx \in [1 .. MaxFlows -> TxStates]
  /\ issued \in [Creds -> [now : Gens, before : Gens]] /\ minted \in Gens
  /\ barred \subseteq Refs /\ faults \in [DOMAIN AuthLimits -> Nat]

(* Signed out, or signed in with some organizations enrolled.              *)
AuthInit ==
  \E held \in {{}} \cup {{Device} \cup e : e \in SUBSET Orgs} :
    /\ keychain = [SignedOut EXCEPT !.token = [c \in Creds |-> IF c \in held THEN 1 ELSE 0]]
    /\ late = NoLate /\ op = NoOp
    /\ expired = {} /\ begins = 0
    /\ transit = {} /\ barred = {}
    /\ tx = [f \in 1 .. MaxFlows |-> "none"]
    /\ issued = [c \in Creds |-> [now |-> keychain.token[c], before |-> 0]] /\ minted = 1
    /\ faults = [l \in DOMAIN AuthLimits |-> 0]

-----------------------------------------------------------------------------
Strike(l) ==
  /\ faults[l] < AuthLimits[l] /\ faults' = [faults EXCEPT ![l] = @ + 1, !.total = @ + 1]
  /\ faults.total < AuthLimits.total

mem == op.mem
Doing(p, jobs) == op.at = p /\ op.job \in jobs
Stop == op' = NoOp
Continue(p) == op' = [op EXCEPT !.at = p]
Outstanding == mem.pending.kind # "none"
UsableToken(c) == mem.token[c] # 0 /\ <<c, mem.token[c]>> \notin expired

(* auth_recovery_ref: the flow once its code is here, else the pending.    *)
AuthRef(s) ==
  IF s.login.code /\ s.pending.kind \in {"none", "exchange", "bootstrap"}
  THEN -s.login.flow ELSE s.pending.ref

SaveThen(m, p) == op' = [op EXCEPT !.mem = m, !.at = "save", !.next = p, !.reply = NoReply]

Saved ==
  /\ op.at = "save" /\ ~late.on
  /\ keychain' = mem /\ op' = IF op.next = "idle" THEN NoOp ELSE [op EXCEPT !.at = op.next]
  /\ UNCHANGED <<late, expired, begins, remote, faults>>

(* The store fails; or the OS call outlives its budget, with no other      *)
(* overtaking it, and completes later.                                     *)
SaveFails ==
  /\ op.at = "save" /\ Strike("losses") /\ Stop
  /\ \/ UNCHANGED late
     \/ late' = [on |-> TRUE, mem |-> mem]
  /\ UNCHANGED <<keychain, expired, begins, remote>>

LateWrite ==
  /\ late.on /\ keychain' = late.mem /\ late' = NoLate
  /\ UNCHANGED <<op, expired, begins, remote, faults>>

-----------------------------------------------------------------------------
Due(c) == keychain.token[c] # 0 /\ <<c, keychain.token[c]>> \in expired
SignedIn == keychain.token[Device] # 0
Pends == keychain.pending.kind # "none"

(* An operation enters the gate and reads the protected state.             *)
Open(job, org, key, ref) ==
  /\ op.at = "idle" /\ ~late.on
  /\ begins + 3 <= MaxBegins \/ (job = "reconcile" /\ Pends)
  /\ op' = [NoOp EXCEPT !.at = "decide", !.job = job, !.org = org, !.key = key, !.ref = ref,
                        !.mem = keychain]
  /\ UNCHANGED <<vault, expired, begins, remote, faults>>

(* A call that neither changes nor sends anything is left out.             *)
Ask ==
  \/ /\ ~keychain.logout
     /\ \/ /\ Pends \/ (~SignedIn /\ (keychain.login.stale \/ ~keychain.login.started))
           /\ Open("login", NoOp.org, NoOp.key, 0)
        \/ (Pends \/ Due(Device)) /\ Open("organizations", NoOp.org, NoOp.key, 0)
        \/ \E o \in Orgs :
             \/ /\ Pends \/ (SignedIn /\ (Due(Device) \/ keychain.token[o] = 0))
                /\ Open("select", o, NoOp.key, 0)
             \/ (Pends \/ Due(o)) /\ \E j \in {"credential", "bound"} : Open(j, o, NoOp.key, 0)
  \/ ~SignedIn /\ keychain.login.started /\ Open("cancel", NoOp.org, NoOp.key, 0)
  \/ (Pends \/ keychain.login.code) /\ Open("reconcile", NoOp.org, NoOp.key, 0)
  \/ \E k \in RecoveryKeys, r \in {AuthRef(keychain)} \cup (1 .. Min({begins, 1})) :
       keychain.receipts[k].state \in {"none", "bound"} /\ r # 0 /\ Open("recover", NoOp.org, k, r)

AskLogout ==
  /\ op.at = "idle" /\ ~late.on /\ begins + 3 <= MaxBegins /\ Strike("logouts")
  /\ op' = [NoOp EXCEPT !.at = "decide", !.job = "logout", !.mem = keychain]
  /\ UNCHANGED <<vault, expired, begins, remote>>

(* The browser returns to the callback listener, which connection keeps up.*)
BrowserReturns ==
  \E f \in 1 .. MaxFlows :
    /\ keychain.login.flow = f /\ keychain.pending.kind \notin {"exchange", "bootstrap"}
    /\ \/ tx[f] = "approved" /\ Open("callback", NoOp.org, NoOp.key, 0)
       \/ tx[f] = "denied" /\ Open("decline", NoOp.org, NoOp.key, 0)

(* recover: what is pending is marked and sent again, as a recovery, as    *)
(* often as it takes.  The mutant forgets to say that it is one.           *)
RecoverUnflagged ==
  op' = [op EXCEPT !.mem.pending.used = TRUE, !.at = "save", !.next = "transmit",
                   !.retry = FALSE]

RecoverPending ==
  op' = [op EXCEPT !.mem.pending.used = TRUE, !.at = "save", !.next = "transmit",
                   !.recovery = TRUE, !.retry = FALSE]

(* The mutant of Begin sends before it saves.                              *)
BeginUnsaved(kind, cred, from, flow) ==
  /\ begins' = begins + 1
  /\ op' = [op EXCEPT !.at = "transmit", !.recovery = FALSE, !.retry = TRUE,
              !.mem.revocation = "none",
              !.mem.pending = [NoPending EXCEPT !.kind = kind, !.cred = cred, !.from = from,
                                 !.flow = flow, !.ref = IF flow > 0 THEN -flow ELSE begins + 1]]

Begin(kind, cred, from, flow) ==
  /\ begins' = begins + 1
  /\ op' = [op EXCEPT !.at = "save", !.next = "transmit", !.recovery = FALSE, !.retry = TRUE,
              !.rounds = IF kind = "refresh" THEN @ + 1 ELSE @,
              !.mem.revocation = "none",
              !.mem.pending = [NoPending EXCEPT !.kind = kind, !.cred = cred, !.from = from,
                                 !.flow = flow, !.ref = IF flow > 0 THEN -flow ELSE begins + 1]]

(* login, select, organizations and credential refuse during a logout and  *)
(* recover what is pending before anything else.  An owner-bound caller    *)
(* recovers refreshes only.                                                *)
Gated == {"login", "organizations", "select", "credential", "bound"}

BoundOwnerValid ==
  /\ mem.token[op.org] # 0 /\ mem.login.flow = 0
  /\ mem.pending.kind \in {"none", "refresh"}
  /\ mem.pending.kind = "refresh" => mem.token[mem.pending.cred] # 0

Refused ==
  /\ Doing("decide", Gated) /\ Stop
  /\ \/ mem.logout
     \/ op.job \in {"organizations", "select"} /\ ~Outstanding /\ mem.token[Device] = 0
     \/ op.job = "bound" /\ ~BoundOwnerValid
     \/ op.job = "credential" /\ ~Outstanding /\ mem.token[op.org] = 0
  /\ UNCHANGED <<vault, expired, begins, remote, faults>>

RecoverFirst ==
  /\ Doing("decide", Gated) /\ ~mem.logout /\ Outstanding
  /\ op.job = "bound" => BoundOwnerValid
  /\ RecoverPending
  /\ UNCHANGED <<vault, expired, begins, remote, faults>>

(* ensure_device, and credential: at most two refreshes, then the call has *)
(* its credential or fails.                                                *)
Needed == IF op.job \in {"organizations", "select"} THEN Device ELSE op.org

Refresh ==
  /\ Doing("decide", Gated \ {"login"}) /\ ~mem.logout /\ ~Outstanding
  /\ mem.token[Needed] # 0 /\ ~UsableToken(Needed)
  /\ op.job = "bound" => BoundOwnerValid
  /\ IF op.rounds = 2 THEN Stop /\ UNCHANGED begins
     ELSE Begin("refresh", Needed, mem.token[Needed], 0)
  /\ UNCHANGED <<vault, expired, remote, faults>>

Enroll ==
  /\ Doing("decide", {"select"}) /\ ~mem.logout /\ ~Outstanding /\ UsableToken(Device)
  /\ IF mem.token[op.org] # 0 THEN Stop /\ UNCHANGED begins ELSE Begin("enroll", op.org, 0, 0)
  /\ UNCHANGED <<vault, expired, remote, faults>>

Served ==
  /\ Doing("decide", {"organizations", "credential", "bound"}) /\ ~mem.logout /\ ~Outstanding
  /\ op.job = "bound" => BoundOwnerValid
  /\ UsableToken(Needed) /\ Stop
  /\ UNCHANGED <<vault, expired, begins, remote, faults>>

-----------------------------------------------------------------------------
(* login: a flow that lost its start is started again, a stale one is      *)
(* replaced under a new key or asked about under its own.                  *)
Login ==
  /\ Doing("decide", {"login"}) /\ ~mem.logout /\ ~Outstanding
  /\ \/ /\ mem.token[Device] # 0 \/ (mem.login.started /\ ~mem.login.stale)
        /\ Stop
     \/ /\ mem.token[Device] = 0 /\ mem.login.flow > 0
        /\ mem.login.stale \/ ~mem.login.started
        /\ SaveThen([mem EXCEPT !.revocation = "none"], "start")
     \/ /\ mem.token[Device] = 0 /\ mem.login.flow < MaxFlows
        /\ mem.login.flow = 0 \/ mem.login.stale \/ ~mem.login.started
        /\ \E f \in 1 .. MaxFlows :
             /\ f = 1 + Cardinality({g \in 1 .. MaxFlows : tx[g] # "none"})
             /\ SaveThen([mem EXCEPT !.revocation = "none",
                                     !.login = [NoLogin EXCEPT !.flow = f]], "start")
  /\ UNCHANGED <<vault, expired, begins, remote, faults>>

(* The start is idempotent; a transaction already decided comes back stale.*)
StartAnswered ==
  LET f == mem.login.flow IN
    /\ op.at = "start"
    /\ tx' = [tx EXCEPT ![f] = IF @ = "none" THEN "open" ELSE @]
    /\ \/ /\ SaveThen([mem EXCEPT !.login.started = TRUE, !.login.stale = tx'[f] # "open"], "idle")
          /\ UNCHANGED faults
       \/ Strike("losses") /\ Stop
    /\ UNCHANGED <<vault, expired, begins, transit, issued, minted, barred>>

Callback ==
  /\ Doing("decide", {"callback"})
  /\ IF mem.login.flow > 0 /\ ~mem.login.stale /\ ~mem.login.code
     THEN SaveThen([mem EXCEPT !.login.code = TRUE], "exchange") ELSE Stop
  /\ UNCHANGED <<vault, expired, begins, remote, faults>>

Decline ==
  /\ Doing("decide", {"decline"})
  /\ IF mem.login.flow > 0 /\ ~mem.login.stale
     THEN SaveThen([mem EXCEPT !.login = NoLogin], "idle") ELSE Stop
  /\ UNCHANGED <<vault, expired, begins, remote, faults>>

(* cancel_login: the displaced operation is kept until the cancellation is *)
(* confirmed.                                                              *)
CancelLogin(s) ==
  LET decided == s.pending.kind # "none" \/ s.login.code \/ s.login.stale IN
    /\ s.token[Device] = 0 /\ s.login.started
    /\ IF s.pending.kind = "cancel" THEN RecoverPending /\ UNCHANGED begins
       ELSE /\ s.pending.kind \in {"none", "exchange", "bootstrap"}
            /\ begins' = begins + 1
            /\ op' = [op EXCEPT !.at = "save", !.next = "transmit", !.recovery = FALSE,
                        !.retry = FALSE,
                        !.mem.pending = [NoPending EXCEPT !.kind = "cancel",
                           !.flow = s.login.flow, !.ref = begins + 1,
                           !.revoke = decided, !.over = s.pending.kind]]

Cancel ==
  /\ Doing("decide", {"cancel"})
  /\ \/ CancelLogin(mem)
     \/ (mem.token[Device] # 0 \/ ~mem.login.started) /\ Stop /\ UNCHANGED begins
  /\ UNCHANGED <<vault, expired, remote, faults>>

(* reconcile_bound: a recovery key is bound, on disk and before the        *)
(* network, to the operation it names.                                     *)
Bind ==
  LET r == mem.receipts[op.key]
      verdict == IF op.ref = AuthRef(mem) THEN "bound" ELSE "rejected"
  IN /\ Doing("decide", {"recover"})
     /\ CASE r.state = "none" ->
               SaveThen([mem EXCEPT !.receipts[op.key] = [ref |-> op.ref, state |-> verdict]],
                        IF verdict = "bound" THEN "reconcile" ELSE "idle")
          [] r.state = "bound" /\ r.ref = op.ref /\ r.ref = AuthRef(mem) -> Continue("reconcile")
          [] OTHER -> Stop
     /\ UNCHANGED <<vault, expired, begins, remote, faults>>

Reconcile ==
  /\ op.at = "reconcile" \/ Doing("decide", {"reconcile"})
  /\ IF Outstanding THEN RecoverPending
     ELSE IF mem.login.code THEN Continue("exchange") ELSE Stop
  /\ UNCHANGED <<vault, expired, begins, remote, faults>>

Exchange ==
  /\ op.at = "exchange"
  /\ IF Outstanding THEN Stop /\ UNCHANGED begins
     ELSE Begin("exchange", Device, 0, mem.login.flow)
  /\ UNCHANGED <<vault, expired, remote, faults>>

-----------------------------------------------------------------------------
(* transmit: an enrollment needs a usable device.  One that was never sent *)
(* is dropped without it, one that may have been sent is kept.             *)
Fenced == mem.pending.kind = "enroll" /\ ~UsableToken(Device)

TransmitFenced ==
  /\ op.at = "transmit" /\ Fenced
  /\ IF op.recovery THEN Stop ELSE SaveThen([mem EXCEPT !.pending = NoPending], "idle")
  /\ UNCHANGED <<vault, expired, begins, remote, faults>>

Deposit(r) ==
  /\ transit' = transit \cup {r}
  /\ op' = [op EXCEPT !.at = "answer", !.reply = NoReply]
  /\ UNCHANGED <<vault, expired, begins, tx, issued, minted, barred, faults>>

Transmit ==
  LET p == mem.pending IN
    /\ op.at = "transmit" /\ ~Fenced
    /\ Deposit([kind |-> p.kind, cred |-> p.cred, from |-> p.from, flow |-> p.flow,
                ref |-> p.ref, by |-> mem.token[Device], revoke |-> p.revoke, recovery |-> op.recovery, awaited |-> TRUE])

(* After each answer the protected state must read back unchanged.         *)
Answered(kinds) ==
  /\ op.at = "answer" /\ op.mem.pending.kind \in kinds /\ op.next # "clear"
  /\ op.reply.state # "none"

Back == CASE op.job \in {"callback", "reconcile", "recover", "cancel"} -> "idle"
          [] op.job = "logout" -> "revoke"
          [] OTHER -> "decide"

(* What is settled leaves pending and enters its receipts in one save; in  *)
(* the mutant, any that is bound.                                          *)
MarkedBound(s, verdict) ==
  [k \in RecoveryKeys |-> IF s.receipts[k].state = "bound"
                          THEN [s.receipts[k] EXCEPT !.state = verdict] ELSE s.receipts[k]]

Marked(s, verdict) ==
  [k \in RecoveryKeys |-> IF s.receipts[k] = [ref |-> AuthRef(s), state |-> "bound"]
                          THEN [s.receipts[k] EXCEPT !.state = verdict] ELSE s.receipts[k]]
Settle(s) == [s EXCEPT !.pending = NoPending, !.receipts = Marked(mem, "done")]

AdoptExchange ==
  /\ Answered({"exchange"}) /\ op.reply.state = "ok"
  /\ op' = [op EXCEPT !.at = "save", !.next = "transmit", !.recovery = FALSE, !.reply = NoReply,
                      !.mem.pending.kind = "bootstrap", !.mem.pending.used = FALSE]
  /\ UNCHANGED <<vault, expired, begins, remote, faults>>

Adopt ==
  LET c == mem.pending.cred
      held == [mem EXCEPT !.token[c] = op.reply.gen,
                          !.login = IF mem.pending.kind = "bootstrap" THEN NoLogin ELSE @]
  IN /\ Answered({"bootstrap", "refresh", "enroll"}) /\ op.reply.state = "ok"
     /\ SaveThen(Settle(held), Back)
     /\ UNCHANGED <<vault, expired, begins, remote, faults>>

(* A confirmed cancellation is the evidence of a logout, saved first.      *)
AdoptCancel ==
  /\ Answered({"cancel"}) /\ op.reply.state = "ok"
  /\ IF mem.logout THEN SaveThen([mem EXCEPT !.revocation = "cancel"], "canceled")
     ELSE Continue("canceled")
  /\ UNCHANGED <<vault, expired, begins, remote, faults>>

Canceled ==
  /\ op.at = "canceled" /\ SaveThen(Settle([mem EXCEPT !.login = NoLogin]), Back)
  /\ UNCHANGED <<vault, expired, begins, remote, faults>>

NotCanceled ==
  /\ Answered({"cancel"}) /\ op.reply.state = "refused"
  /\ SaveThen([mem EXCEPT !.pending = [NoPending EXCEPT !.kind = mem.pending.over,
                             !.flow = IF mem.pending.over = "none" THEN 0 ELSE mem.pending.flow,
                             !.ref = IF mem.pending.over = "none" THEN 0
                                     ELSE -mem.pending.flow]],
              "idle")
  /\ UNCHANGED <<vault, expired, begins, remote, faults>>

(* A definite rejection ends an enrollment, and the receipts of any.  A    *)
(* cancellation may be rejected, too, where it is not answered.            *)
AdoptRejection ==
  /\ Answered(Targets \ {"none"}) /\ op.reply.state = "refused"
  /\ IF mem.pending.kind = "cancel" /\ mem.pending.ref \notin barred
     THEN Strike("refusals") ELSE UNCHANGED faults
  /\ SaveThen([mem EXCEPT !.receipts = Marked(mem, "rejected"),
                          !.pending = IF mem.pending.kind = "enroll" THEN NoPending ELSE @],
              "idle")
  /\ UNCHANGED <<vault, expired, begins, remote>>

(* No answer in time.  What was just begun is recovered once, at once.     *)
Silent == op.reply.state = "none" /\ ~\E r \in transit : r.awaited

NoAnswer ==
  /\ op.at = "answer" /\ IF Silent THEN UNCHANGED faults ELSE Strike("losses")
  /\ transit' = {[r EXCEPT !.awaited = FALSE] : r \in transit}
  /\ IF op.retry /\ op.next # "clear" THEN RecoverPending ELSE Stop
  /\ UNCHANGED <<vault, expired, begins, tx, issued, minted, barred>>

-----------------------------------------------------------------------------
(* cleanup_locked: the intent is saved, the backend revokes, the evidence  *)
(* is saved, and only then the credentials go.                             *)
Confirmed(s) ==
  CASE s.revocation = "device" -> TRUE
    [] s.revocation = "cancel" -> \A c \in Creds : s.token[c] = 0
    [] OTHER -> FALSE

Logout ==
  /\ Doing("decide", {"logout"})
  /\ IF Confirmed(mem) THEN Continue("clear")
     ELSE SaveThen([mem EXCEPT !.logout = TRUE], "revoke")
  /\ UNCHANGED <<vault, expired, begins, remote, faults>>

Enrolled == \E o \in Orgs : mem.token[o] # 0

LogoutWithoutDevice ==
  /\ op.at = "revoke" /\ mem.token[Device] = 0
  /\ IF Confirmed(mem) THEN Continue("clear") /\ UNCHANGED begins
     ELSE IF mem.login.started
     THEN IF Enrolled THEN Stop /\ UNCHANGED begins ELSE CancelLogin(mem)
     ELSE /\ UNCHANGED begins
          /\ IF ~Outstanding /\ ~Enrolled THEN Continue("clear")
             ELSE IF mem.pending.kind = "bootstrap" THEN RecoverPending ELSE Stop
  /\ UNCHANGED <<vault, expired, remote, faults>>

LogoutDevice ==
  /\ op.at = "revoke" /\ mem.token[Device] # 0
  /\ transit' = transit \cup {[kind |-> "logout", cred |-> Device, from |-> 0,
                  flow |-> 0, ref |-> 0, by |-> mem.token[Device], revoke |-> TRUE, recovery |-> FALSE, awaited |-> TRUE]}
  /\ op' = [op EXCEPT !.at = "answer", !.next = "clear"]
  /\ UNCHANGED <<vault, expired, begins, tx, issued, minted, barred, faults>>

Revoked ==
  /\ op.at = "answer" /\ op.next = "clear" /\ op.reply.state # "none"
  /\ IF op.reply.state = "ok" THEN SaveThen([mem EXCEPT !.revocation = "device"], "clear") ELSE Stop
  /\ UNCHANGED <<vault, expired, begins, remote, faults>>

Clear ==
  /\ op.at = "clear"
  /\ SaveThen([SignedOut EXCEPT !.revocation = mem.revocation, !.receipts = mem.receipts], "idle")
  /\ UNCHANGED <<vault, expired, begins, remote, faults>>

-----------------------------------------------------------------------------
(* The backend.  An exact recovery of the newest request returns what that *)
(* request issued; an older one, or one past the deadline, is refused.     *)
Family(g) == g \in {issued[Device].now, issued[Device].before}

Accepts(r) ==
  LET c == issued[r.cred] IN
    /\ r.ref \notin barred \/ r.kind = "logout"
    /\ CASE r.kind = "exchange" -> \/ tx[r.flow] = "approved"
                                   \/ tx[r.flow] \in {"exchanged", "bound"} /\ r.recovery
         [] r.kind = "bootstrap" -> \/ tx[r.flow] = "exchanged"
                                    \/ tx[r.flow] = "bound" /\ r.recovery
         [] r.kind = "cancel" -> tx[r.flow] \in {"open", "denied", "canceled"} \/ r.revoke
         [] r.kind = "refresh" -> \/ c.now = r.from
                                  \/ c.before = r.from /\ c.now # 0 /\ r.recovery
         [] r.kind = "enroll" -> Family(r.by) /\ issued[Device].now # 0
         [] OTHER -> TRUE

Fresh == minted + 1                   \* no credential ever had this generation

Issues(r) == CASE r.kind = "bootstrap" -> tx[r.flow] = "exchanged"
               [] r.kind = "refresh" -> issued[r.cred].now = r.from
               [] r.kind = "enroll" -> issued[r.cred].now = 0
               [] OTHER -> FALSE
Revokes(r) ==
  \/ r.kind = "logout" /\ Family(r.by)
  \/ r.kind = "cancel" /\ tx[r.flow] = "bound"

Serve(r) ==
  LET ok == Accepts(r) IN
    /\ r \in transit /\ transit' = transit \ {r}
    /\ issued' = IF ok /\ Issues(r)
                 THEN [issued EXCEPT ![r.cred] = [now |-> Fresh, before |-> r.from]]
                 ELSE IF ok /\ Revokes(r) THEN [c \in Creds |-> [now |-> 0, before |-> issued[c].now]]
                 ELSE issued
    /\ minted' = IF ok /\ Issues(r) THEN Fresh ELSE minted
    /\ tx' = CASE ok /\ r.kind = "exchange" /\ tx[r.flow] = "approved" ->
                         [tx EXCEPT ![r.flow] = "exchanged"]
               [] ok /\ r.kind = "bootstrap" -> [tx EXCEPT ![r.flow] = "bound"]
               [] ok /\ r.kind = "cancel" -> [tx EXCEPT ![r.flow] = "canceled"]
               [] OTHER -> tx
    /\ op' = IF ~r.awaited THEN op
             ELSE [op EXCEPT !.reply = [state |-> IF ok THEN "ok" ELSE "refused",
                                        gen |-> issued'[r.cred].now]]
    /\ UNCHANGED <<vault, expired, begins, barred, faults>>

(* The request is lost, and its caller left to its timeout.                *)
Lost(r) ==
  /\ r \in transit /\ Strike("losses") /\ transit' = transit \ {r}
  /\ UNCHANGED <<vault, op, expired, begins, tx, issued, minted, barred>>

(* The deadline of a rotation passes, a recovery comes too late or once too*)
(* often, an enrollment is not allowed, or an older backend does not revoke*)
(* what was approved.                                                      *)
Bar(r) ==
  /\ r \in transit /\ Strike("refusals")
  /\ \/ r.kind = "refresh"
     \/ r.kind \in {"exchange", "bootstrap"} /\ r.recovery
     \/ r.kind = "enroll" /\ issued[r.cred].now = 0
     \/ r.kind = "cancel" /\ r.revoke /\ tx[r.flow] # "canceled"
  /\ barred' = barred \cup {r.ref}
  /\ UNCHANGED <<vault, op, expired, begins, transit, tx, issued, minted>>

Decide(f) ==
  /\ tx[f] = "open"
  /\ \E d \in {"approved", "denied"} : tx' = [tx EXCEPT ![f] = d]
  /\ UNCHANGED <<vault, op, expired, begins, transit, issued, minted, barred, faults>>

(* Time passes over an access token, or over a sign-in.                    *)
Expire(c) ==
  /\ keychain.token[c] # 0 /\ <<c, keychain.token[c]>> \notin expired /\ Strike("expiries")
  /\ expired' = expired \cup {<<c, keychain.token[c]>>}
  /\ UNCHANGED <<vault, op, begins, remote>>

ExpireLogin ==
  /\ op.at = "idle" /\ ~late.on /\ keychain.login.started /\ ~keychain.login.stale
  /\ Strike("expiries")
  /\ keychain' = [keychain EXCEPT !.login.stale = TRUE]
  /\ UNCHANGED <<late, op, expired, begins, remote>>

AuthCrash ==
  /\ Strike("crashes") /\ Stop /\ late' = NoLate
  /\ transit' = {[r EXCEPT !.awaited = FALSE] : r \in transit}
  /\ UNCHANGED <<keychain, expired, begins, tx, issued, minted, barred>>

-----------------------------------------------------------------------------
Step ==
  \/ Saved \/ Refused \/ RecoverFirst \/ Refresh \/ Enroll \/ Served
  \/ Login \/ StartAnswered \/ Callback \/ Decline \/ Cancel \/ Bind \/ Reconcile \/ Exchange
  \/ TransmitFenced \/ Transmit \/ AdoptExchange \/ Adopt \/ AdoptCancel \/ Canceled
  \/ NotCanceled \/ AdoptRejection
  \/ Logout \/ LogoutWithoutDevice \/ LogoutDevice \/ Revoked \/ Clear

AuthNext ==
  \/ Step \/ Ask \/ AskLogout \/ BrowserReturns
  \/ SaveFails \/ LateWrite \/ NoAnswer \/ ExpireLogin \/ AuthCrash
  \/ \E r \in transit : Serve(r) \/ Lost(r) \/ Bar(r)
  \/ \E f \in 1 .. MaxFlows : Decide(f)
  \/ \E c \in Creds : Expire(c)

AuthSpec == AuthInit /\ [][AuthNext]_authVars

(* An operation that started goes on, times out or is answered; the OS     *)
(* completes its writes; and somebody reconciles what is pending.          *)
AuthFairness ==
  /\ WF_authVars(Step) /\ WF_authVars(LateWrite)
  /\ WF_authVars(NoAnswer \/ \E r \in transit : Serve(r))
  /\ SF_authVars(Pends /\ Open("reconcile", NoOp.org, NoOp.key, 0))

AuthFairSpec == AuthSpec /\ AuthFairness

-----------------------------------------------------------------------------
(* A credential the backend holds valid is never out of reach: it is the   *)
(* one in the Keychain, or the pending operation there recovers or cancels *)
(* it ("Credential creation and rotation persist the exact pending         *)
(* operation before transmission").  So it is through failed and late      *)
(* saves, crashes, and requests that arrive after their caller gave up; a  *)
(* logout leaves nothing valid behind.                                     *)
Reaches(s, c) ==
  \/ s.token[c] = issued[c].now
  \/ /\ s.pending.kind \in {"refresh", "enroll"} /\ s.pending.cred = c
     /\ s.token[c] = issued[c].before
  \/ c = Device /\ (s.pending.kind = "bootstrap" \/ s.pending.over = "bootstrap")

CredentialReachable == \A c \in Creds : issued[c].now # 0 => Reaches(keychain, c)

(* A recovery key never adopts a later operation than the one it names ("an*)
(* RPC key never acquires authority over a later pending generation").     *)
ReceiptsExact ==
  [][\A k \in RecoveryKeys :
       keychain'.receipts[k].state = "done" /\ keychain.receipts[k].state # "done"
         => /\ keychain.receipts[k].ref = AuthRef(keychain)
            /\ keychain'.pending.kind = "none"]_authVars

(* What is pending is settled by reconciling it as often as it takes, as   *)
(* long as the backend takes a repeated recovery and, for an enrollment,   *)
(* the device token has not expired meanwhile: see the README.             *)
Blocked ==
  \/ keychain.pending.ref \in barred
  \/ keychain.pending.kind = "enroll" /\ <<Device, keychain.token[Device]>> \in expired

PendingSettles == Pends ~> ~Pends \/ Blocked

(* "Only the backend-defined one-time recovery may resend bootstrap,       *)
(* enrollment, or refresh material" (architecture.md:39), "repeated        *)
(* recovery is intentionally blocked" (operations.md:75).                  *)
RecoveredOnce ==
  [][op'.at = "save" /\ op'.recovery /\ ~op.recovery
       /\ mem.pending.kind \in {"bootstrap", "enroll", "refresh"}
     => ~mem.pending.used]_authVars
=============================================================================
