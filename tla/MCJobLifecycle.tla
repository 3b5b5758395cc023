--------------------------- MODULE MCJobLifecycle ---------------------------
(***************************************************************************)
(* Instances of JobLifecycle for TLC.  A fault budget names how often each *)
(* kind of fault strikes; kinds that are not named never do.               *)
(***************************************************************************)
EXTENDS JobLifecycle, TLC

CONSTANTS c1, r1

Budget(kinds) == [k \in FaultKinds |-> IF k \in DOMAIN kinds THEN kinds[k] ELSE 0]

OneCommand == {c1}
OneRequest == {r1}
Empty == {}

CrashFaults == Budget([crash |-> 1, expiry |-> 1, loss |-> 1, renew |-> 1,
                       panic |-> 1, relet |-> 1, disk |-> 1,
                       delete |-> 1])

\* Restarts and lost replies, but every lease outlasts the task that holds it.
DeliveryFaults == Budget([crash |-> 1, loss |-> 2, cancel |-> 1, renew |-> 1,
                          drain |-> 1, refuse |-> 1])

\* One lease runs out under a task that holds it.
ExpiryFaults == Budget([crash |-> 1, expiry |-> 1])

\* One write of a record fails.
DiskFaults == Budget([disk |-> 1])
=============================================================================
