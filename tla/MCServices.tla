----------------------------- MODULE MCServices -----------------------------
(* Services of the daemon that share no state, one of them at work in each   *)
(* behaviour: the product of their interleavings would show nothing more.    *)
EXTENDS OperationCache, AuthRotation

VARIABLE atWork

Operations == atWork = "operations"
Authorization == atWork = "authorization"

OpBounds == [crashes |-> 2, losses |-> 3, denials |-> 1, expiries |-> 1]
AuthBounds == [crashes |-> 1, losses |-> 1, expiries |-> 1, refusals |-> 1, logouts |-> 1,
               total |-> 3]

Init ==
  /\ atWork \in {"operations", "authorization"}
  /\ OpInit /\ (Operations \/ \A k \in OpKeys : method[k] = "plain")
  /\ AuthInit /\ (Authorization \/ keychain = SignedOut)

Next ==
  /\ UNCHANGED atWork
  /\ \/ Operations /\ OpNext /\ UNCHANGED authVars
     \/ Authorization /\ AuthNext /\ UNCHANGED opVars

FairSpec ==
  /\ Init /\ [][Next]_<<atWork, opVars, authVars>>
  /\ OpFairness /\ AuthFairness

TypeOK == OpTypeOK /\ AuthTypeOK

\* A call that is repeated learns how its mutation ended, and an authorization
\* operation that somebody keeps reconciling ends.
AnswersArrive == OutcomeSurfaces /\ PendingSettles
=============================================================================
