----------------------------- MODULE JobJournal -----------------------------
(***************************************************************************)
(* The durable record of one leased job (src/src/jobs/journal.rs): its     *)
(* phases, the transitions `Journal::transition' accepts, and the terminal *)
(* body a record would submit.                                             *)
(***************************************************************************)
EXTENDS Integers

\* No journal.json exists for the job.
Absent == "absent"

Phases == {"leased", "start_pending", "started", "spawn_intent", "running",
           "exited", "terminal_pending", "acknowledged", "delivery_blocked"}

\* Phases with a durable outcome that only has to be delivered.
Undelivered == {"exited", "terminal_pending"}

\* Phases no task of the runner touches again.
Settled == {"acknowledged", "delivery_blocked"}

Unfinished == Phases \ (Undelivered \cup Settled)

Edges ==
    {<<"leased", "start_pending">>, <<"start_pending", "started">>,
     <<"started", "spawn_intent">>, <<"started", "running">>,
     <<"spawn_intent", "running">>, <<"running", "exited">>,
     <<"exited", "delivery_blocked">>,
     <<"terminal_pending", "delivery_blocked">>,
     <<"terminal_pending", "acknowledged">>}
    \cup {<<p, "terminal_pending">> : p \in Unfinished \cup {"exited"}}

CanTransition(from, to) == from = to \/ <<from, to>> \in Edges

(***************************************************************************)
(* What an `error' object claims.  "not_launched" stands for every error   *)
(* with indeterminate:false, "indeterminate" for every one with            *)
(* indeterminate:true, "artifact" for ARTIFACT_FINALIZATION_FAILED, whose  *)
(* object has no such field because the command did finish.                *)
(***************************************************************************)
Errors == {"none", "not_launched", "indeterminate", "artifact"}

Outcomes == {"none", "result"} \cup (Errors \ {"none"})

(***************************************************************************)
(* A record: phase; sess, rec: session and recovery_session (0: none);     *)
(* ver: job.leaseVersion; live: leasedUntilEpochMs is in the future; err,  *)
(* res: error and result; ident: the guardian identity is recorded;        *)
(* canceling: job.status is "canceling".                                   *)
(***************************************************************************)
Record == [phase : Phases \cup {Absent}, sess : Nat, rec : Nat, ver : Nat,
           live : BOOLEAN, err : Errors, res : BOOLEAN, ident : BOOLEAN,
           canceling : BOOLEAN]

NoJournal == [phase |-> Absent, sess |-> 0, rec |-> 0, ver |-> 0,
              live |-> FALSE, err |-> "none", res |-> FALSE,
              ident |-> FALSE, canceling |-> FALSE]

Leased(s, v) == [NoJournal EXCEPT !.phase = "leased", !.sess = s, !.ver = v,
                                  !.live = TRUE]

\* The body deliver() sends: an error wins over a result.
Outcome(r) == IF r.err # "none" THEN r.err
              ELSE IF r.res THEN "result" ELSE "none"
=============================================================================
