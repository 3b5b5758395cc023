------------------------ MODULE PresentationDeliveries ------------------------
(***************************************************************************)
(* The delivery of a continuation's prompt to the host, by whichever card  *)
(* shows it (src/src/presentation.rs and continuation_resolution.rs).  A   *)
(* card begins an attempt, sends the prompt, and settles what came of it;  *)
(* its calls may be lost or sent again, and cards come and go.  The owner  *)
(* may close a delivery for good, once the run behind it was observed.     *)
(***************************************************************************)
EXTENDS Integers, FiniteSets

CONSTANTS Deliveries, Cards,
          MaxAttempts,     \* attempts with a key of their own, of all cards
          MaxMonths        \* sweeps that find receipts of thirty days

ASSUME DeliveryAssumption == MaxAttempts \in Nat /\ MaxMonths \in Nat

VARIABLES
    row,          \* presentation_deliveries
    kept,         \* receipts of delivery.begin and delivery.settle
    card,         \* what each card is doing
    owner,        \* the maintenance request, from listing to closing
    observed,     \* continuation_observations: the row each was made for
    closure,      \* continuation_resolutions
    former,       \* outcomes of cards of the first version, in the states of their views
    accepted,     \* external: prompts the host took, of each delivery
    forgotten,    \* history: those of them whose outcome went before it was imported
    deliveryLeft  \* attempts and months that may still come

deliveryVars == <<row, kept, card, owner, observed, closure, former, accepted, forgotten,
                  deliveryLeft>>

NoRow == [status |-> "none", rev |-> 0, attempt |-> 0]
Attempts == 1..MaxAttempts
Outcomes == {"not_sent", "acknowledged", "rejected", "unknown"}
Retryable == {"ready", "not_sent", "rejected"}
DeliveryRow == [status : {"none", "ready", "sending"} \cup Outcomes,
                rev : Nat, attempt : 0..MaxAttempts]
NoCard == [at |-> "idle"]
\* begin and settle: the call is being made; sent: the host has been given the prompt.
Doing == [at : {"idle", "begin", "send", "settle"}, on : Deliveries, rev : Nat,
          attempt : Attempts, status : {"none"} \cup Outcomes]
NotAsked == [at |-> "none"]

DeliveryTypeOK ==
    /\ row \in [Deliveries -> DeliveryRow]
    /\ kept \subseteq [method : {"begin", "settle"}, attempt : Attempts]
    /\ card \in [Cards -> {NoCard} \cup Doing]
    /\ owner = NotAsked \/ owner \in [at : {"listed"}, on : Deliveries, seen : DeliveryRow]
    /\ observed \in [Deliveries -> DeliveryRow] /\ closure \in [Deliveries -> DeliveryRow]
    /\ former \in [Deliveries -> SUBSET Outcomes]
    /\ accepted \in [Deliveries -> Nat] /\ forgotten \in [Deliveries -> {0, 1}]
    /\ deliveryLeft \in [{"attempts", "months"} -> Nat]

\* A card of the first version may have delivered the prompt, and recorded what came of
\* it: acknowledged, unknown (or still sending), or not sent.
DeliveryInit ==
    /\ row = [d \in Deliveries |-> NoRow]
    /\ kept = {}
    /\ card = [c \in Cards |-> NoCard]
    /\ owner = NotAsked
    /\ observed = [d \in Deliveries |-> NoRow] /\ closure = [d \in Deliveries |-> NoRow]
    /\ former \in [Deliveries -> {{}, {"acknowledged"}, {"unknown"}, {"not_sent"},
                                  {"acknowledged", "not_sent"}}]
    /\ accepted \in [Deliveries -> {0, 1}]
    /\ \A d \in Deliveries : /\ "acknowledged" \in former[d] => accepted[d] = 1
                             /\ former[d] \subseteq {"not_sent"} => accepted[d] = 0
    /\ forgotten = [d \in Deliveries |-> 0]
    /\ deliveryLeft = [attempts |-> MaxAttempts, months |-> MaxMonths]

Counts(event) == /\ deliveryLeft[event] > 0
                 /\ deliveryLeft' = [deliveryLeft EXCEPT ![event] = @ - 1]
-----------------------------------------------------------------------------
\* register_delivery: the same continuation again changes nothing.
Registered(r) == IF r.status = "none" THEN [r EXCEPT !.status = "ready"] ELSE r

\* Mutant of Imported: what an older card was still sending may be sent again.
ImportedOnlyKnown(d, r) ==
    IF closure[d] # NoRow \/ r.rev # 0 \/ r.status # "ready" \/ former[d] = {} THEN r
    ELSE [r EXCEPT !.rev = 1,
                   !.status = IF Cardinality(former[d]) = 1 THEN CHOOSE s \in former[d] : TRUE
                              ELSE "not_sent"]

\* import_legacy_delivery: into a row nobody has used; outcomes that differ are unknown.
Imported(d, r) ==
    IF closure[d] # NoRow \/ r.rev # 0 \/ r.status # "ready" \/ former[d] = {} THEN r
    ELSE [r EXCEPT !.rev = 1,
                   !.status = IF Cardinality(former[d]) = 1 THEN CHOOSE s \in former[d] : TRUE
                              ELSE "unknown"]

\* An accepted answer, a start or its commit registers its continuation.
Register(d) ==
    /\ row[d].status = "none"
    /\ row' = [row EXCEPT ![d] = Registered(@)]
    /\ UNCHANGED <<kept, card, owner, observed, closure, former, accepted, deliveryLeft, forgotten>>

\* delivery_get_or_derive, for a card that then takes up a delivery it may begin.
Get(c, d) ==
    LET r == Imported(d, Registered(row[d])) IN
    /\ card[c] = NoCard
    /\ row' = [row EXCEPT ![d] = r]
    /\ \/ /\ closure[d] = NoRow /\ r.status \in Retryable /\ Counts("attempts")
          /\ card' = [card EXCEPT ![c] =
                        [at |-> "begin", on |-> d, rev |-> r.rev, status |-> "none",
                         attempt |-> MaxAttempts + 1 - deliveryLeft["attempts"]]]
       \/ UNCHANGED <<card, deliveryLeft>>
    /\ UNCHANGED <<kept, owner, observed, closure, former, accepted, forgotten>>

\* delivery_begin; its answer comes, or is lost and the call made again.
Begins(c) ==
    LET m == card[c]
        receipt == [method |-> "begin", attempt |-> m.attempt]
        fresh == receipt \notin kept
        allowed == row[m.on].rev = m.rev /\ row[m.on].status \in Retryable
    IN /\ m.at = "begin"
       /\ IF closure[m.on] # NoRow \/ (fresh /\ ~allowed)
          THEN card' = [card EXCEPT ![c] = NoCard] /\ UNCHANGED <<row, kept>>
          ELSE /\ card' \in {card, [card EXCEPT ![c].at = "send"]}
               /\ kept' = kept \cup {receipt}
               /\ row' = IF fresh
                         THEN [row EXCEPT ![m.on] = [status |-> "sending", rev |-> @.rev + 1,
                                                     attempt |-> m.attempt]]
                         ELSE row
       /\ UNCHANGED <<owner, observed, closure, former, accepted, deliveryLeft, forgotten>>

\* The card gives the prompt to the host, and learns what came of it or not.
SendPrompt(c) ==
    LET m == card[c] IN
    /\ m.at = "send"
    /\ \E status \in Outcomes, taken \in {0, 1} :
         /\ status = "acknowledged" => taken = 1
         /\ status \in {"not_sent", "rejected"} => taken = 0
         /\ accepted' = [accepted EXCEPT ![m.on] = @ + taken]
         /\ card' = [card EXCEPT ![c].at = "settle", ![c].status = status]
    /\ UNCHANGED <<row, kept, owner, observed, closure, former, deliveryLeft, forgotten>>

\* delivery_settle, with the revision the begin answered.
Settles(c) ==
    LET m == card[c]
        receipt == [method |-> "settle", attempt |-> m.attempt]
        fresh == receipt \notin kept
        allowed == row[m.on] = [status |-> "sending", rev |-> m.rev + 1, attempt |-> m.attempt]
    IN /\ m.at = "settle"
       /\ IF closure[m.on] # NoRow \/ (fresh /\ ~allowed)
          THEN card' = [card EXCEPT ![c] = NoCard] /\ UNCHANGED <<row, kept>>
          ELSE /\ card' \in {card, [card EXCEPT ![c] = NoCard]}
               /\ kept' = kept \cup {receipt}
               /\ row' = IF fresh THEN [row EXCEPT ![m.on].status = m.status, ![m.on].rev = @ + 1]
                         ELSE row
       /\ UNCHANGED <<owner, observed, closure, former, accepted, deliveryLeft, forgotten>>

\* The card is closed, whatever it was doing.
CardCloses(c) ==
    /\ card[c] # NoCard /\ card' = [card EXCEPT ![c] = NoCard]
    /\ UNCHANGED <<row, kept, owner, observed, closure, former, accepted, deliveryLeft, forgotten>>

(***************************************************************************)
(* What a card of the first version recorded is in its view's state, which *)
(* goes when the view does: updated, deleted, or swept thirty days after   *)
(* it ended.  An outcome that was not imported by then is lost.            *)
(***************************************************************************)
FormerGoes(d, outcome) ==
    /\ outcome \in former[d]
    /\ former' = [former EXCEPT ![d] = @ \ {outcome}]
    /\ forgotten' = IF outcome # "not_sent" /\ row[d].rev = 0
                    THEN [forgotten EXCEPT ![d] = accepted[d]] ELSE forgotten
    /\ UNCHANGED <<row, kept, card, owner, observed, closure, accepted, deliveryLeft>>

\* Receipts go after thirty days.
ReceiptsExpire ==
    /\ kept # {} /\ Counts("months") /\ kept' = {}
    /\ UNCHANGED <<row, card, owner, observed, closure, former, accepted, forgotten>>
-----------------------------------------------------------------------------
\* maintenance_candidates: the owner's request names the row as it was listed.
List(d) ==
    /\ owner = NotAsked /\ row[d].status # "none"
    /\ owner' = [at |-> "listed", on |-> d, seen |-> row[d]]
    /\ UNCHANGED <<row, kept, card, observed, closure, former, accepted, deliveryLeft, forgotten>>

\* maintenance_reconcile: what the backend says of the run is kept with the row's digest.
Reconcile ==
    /\ owner # NotAsked /\ row[owner.on] = owner.seen
    /\ observed' = [observed EXCEPT ![owner.on] = owner.seen]
    /\ UNCHANGED <<row, kept, card, owner, closure, former, accepted, deliveryLeft, forgotten>>

\* maintenance_retire, replayed by its digest; a second request finds it closed.
Retire ==
    /\ owner # NotAsked /\ owner' = NotAsked
    /\ LET d == owner.on IN
       closure' = IF row[d] = owner.seen /\ observed[d] = row[d] /\ closure[d] = NoRow
                  THEN [closure EXCEPT ![d] = row[d]] ELSE closure
    /\ UNCHANGED <<row, kept, card, observed, former, accepted, deliveryLeft, forgotten>>
-----------------------------------------------------------------------------
DeliveryNext ==
    \/ \E d \in Deliveries : Register(d) \/ List(d) \/ \E c \in Cards : Get(c, d)
    \/ \E c \in Cards : Begins(c) \/ SendPrompt(c) \/ Settles(c) \/ CardCloses(c)
    \/ \E d \in Deliveries, outcome \in Outcomes : FormerGoes(d, outcome)
    \/ ReceiptsExpire \/ Reconcile \/ Retire

DeliverySpec == DeliveryInit /\ [][DeliveryNext]_deliveryVars
-----------------------------------------------------------------------------
(***************************************************************************)
(* The host takes a continuation's prompt at most once, whichever cards    *)
(* show it and however often their calls are repeated                      *)
(* (delivery_outcomes_have_exact_retry_rules, presentation.rs:2538, one    *)
(* step at a time): once it did, the row may not be begun again.  A prompt *)
(* that a card of the first version delivered counts, unless its outcome   *)
(* went with the card's view before it was imported.  And a closure is     *)
(* final: the row it was made for never changes, so it goes on proving the *)
(* delivery resolved.                                                      *)
(***************************************************************************)
PromptedOnce ==
    \A d \in Deliveries :
        /\ accepted[d] <= 1 + forgotten[d]
        /\ accepted[d] = 1 + forgotten[d] /\ row[d].rev > 0 => row[d].status \notin Retryable
        /\ closure[d] # NoRow => row[d] = closure[d]

\* "Legacy delivery import never replays": a prompt that a card of the first version
\* delivered is not delivered again by a later one.
LegacyNeverReplays == \A d \in Deliveries : accepted[d] <= 1
=============================================================================
