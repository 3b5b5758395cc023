----------------------------- MODULE StoreProofs -----------------------------
(***************************************************************************)
(* Three stores that are asked again whenever an answer is lost, and act   *)
(* once all the same: the deliveries of continuations, the journal of a    *)
(* host's automation and the operation cache of control mutations.         *)
(*                                                                         *)
(* Each part gives the invariant of one store, with what its callers       *)
(* remember of it, and proves that a prompt is taken once at most, that    *)
(* there is one automation at most and that one key has one effect: for    *)
(* every number of cards, keys, calls, attempts and months, whatever is    *)
(* repeated, lost, swept or interrupted by a crash.                        *)
(***************************************************************************)
EXTENDS PresentationDeliveries, HostAutomation, OperationCache, SequenceTheorems,
        FiniteSetTheorems, TLAPS

HostSpec == HostInit /\ [][HostNext]_hostVars
-----------------------------------------------------------------------------
\* The key the next attempt gets.
NextAttempt == MaxAttempts + 1 - deliveryLeft["attempts"]

ClaimedRow(m) == [status |-> "sending", rev |-> m.rev + 1, attempt |-> m.attempt]

\* A card between its begin and the host holds the row: nobody else moves it.
CardKnows(c) ==
    LET m == card[c]
        claimed == row[m.on] = ClaimedRow(m)
    IN m.at # "idle" =>
         /\ m.attempt < NextAttempt
         /\ m.rev = 0 => former[m.on] = {}
         /\ m.at = "begin" /\ [method |-> "begin", attempt |-> m.attempt] \in kept
              => claimed /\ accepted[m.on] = forgotten[m.on]
         /\ m.at = "send" => claimed /\ accepted[m.on] = forgotten[m.on]
         /\ m.at = "settle" =>
              /\ m.status \in Outcomes
              /\ claimed /\ accepted[m.on] = 1 + forgotten[m.on] => m.status \notin Retryable

KeysApart ==
    /\ deliveryLeft["attempts"] <= MaxAttempts
    /\ \A r \in kept : r.attempt < NextAttempt
    /\ \A b, c \in Cards : /\ card[b].at # "idle" /\ card[c].at # "idle"
                           /\ card[b].attempt = card[c].attempt
                           => b = c

\* A row that may be begun has not been delivered; an unused one is as the older cards left it.
DeliveryKnown(d) ==
    /\ row[d].status = "none" => row[d] = NoRow
    /\ row[d].rev = 0 => row[d].status \in {"none", "ready"}
    /\ row[d].rev = 0 /\ former[d] \subseteq {"not_sent"} => accepted[d] = forgotten[d]
    /\ former[d] \in {{}, {"acknowledged"}, {"unknown"}, {"not_sent"},
                      {"acknowledged", "not_sent"}}
    /\ row[d].rev = 0 => accepted[d] \in {0, 1}
    /\ forgotten[d] <= accepted[d]

DeliveryInv ==
    /\ DeliveryTypeOK
    /\ KeysApart
    /\ \A c \in Cards : CardKnows(c)
    /\ \A d \in Deliveries : DeliveryKnown(d)
    /\ PromptedOnce
-----------------------------------------------------------------------------
\* What a card that is doing something remembers.
LEMMA Busy ==
    ASSUME DeliveryTypeOK, NEW c \in Cards, card[c].at # "idle"
    PROVE  /\ card[c] \in Doing /\ card[c].on \in Deliveries /\ card[c].rev \in Nat
           /\ card[c].attempt \in Attempts /\ card[c].status \in {"none"} \cup Outcomes
           /\ row[card[c].on] \in DeliveryRow
  BY DEF DeliveryTypeOK, Doing, NoCard

\* The row a card claims is a row.
LEMMA ClaimIsRow ==
    ASSUME NEW m \in Doing, m.attempt \in Attempts, MaxAttempts \in Nat
    PROVE  ClaimedRow(m) \in DeliveryRow
  BY DEF ClaimedRow, Doing, DeliveryRow, Attempts

\* The model of a store without use.
LEMMA DeliveryStarts ==
    ASSUME DeliveryInit PROVE DeliveryInv
<1>1. DeliveryTypeOK
  BY DeliveryAssumption DEF DeliveryInit, DeliveryTypeOK, DeliveryRow, NoRow, NoCard,
       Outcomes
<1>2. KeysApart
  BY DeliveryAssumption DEF DeliveryInit, KeysApart, NoCard
<1>3. \A c \in Cards : CardKnows(c)
  BY DEF DeliveryInit, CardKnows, NoCard
<1>4. \A d \in Deliveries : DeliveryKnown(d)
  BY DEF DeliveryInit, DeliveryKnown, NoRow
<1>5. PromptedOnce
  BY DEF DeliveryInit, PromptedOnce, NoRow
<1> QED
  BY <1>1, <1>2, <1>3, <1>4, <1>5 DEF DeliveryInv

\* A card that leaves forgets, and holds nothing.
LEMMA CardLeaves ==
    ASSUME DeliveryInv, NEW c \in Cards, card' = [card EXCEPT ![c] = NoCard],
           UNCHANGED <<row, kept, owner, observed, closure, former, accepted, deliveryLeft, forgotten>>
    PROVE  DeliveryInv'
<1>0. \A b \in Cards : card'[b].at # "idle" => card'[b] = card[b] /\ card[b].at # "idle"
  BY DEF DeliveryInv, DeliveryTypeOK, NoCard
<1>1. DeliveryTypeOK'
  BY DEF DeliveryInv, DeliveryTypeOK
<1>2. KeysApart'
  BY <1>0 DEF DeliveryInv, KeysApart, NextAttempt
<1>3. \A b \in Cards : CardKnows(b)'
  BY <1>0 DEF DeliveryInv, CardKnows, NextAttempt, ClaimedRow
<1>4. \A d \in Deliveries : DeliveryKnown(d)'
  BY DEF DeliveryInv, DeliveryKnown
<1>5. PromptedOnce'
  BY DEF DeliveryInv, PromptedOnce
<1> QED
  BY <1>1, <1>2, <1>3, <1>4, <1>5 DEF DeliveryInv

\* Nothing a card or a row knows rests on the owner's request and on observations.
LEMMA OwnerLooks ==
    ASSUME DeliveryInv, DeliveryTypeOK',
           \A d \in Deliveries : closure'[d] # NoRow => row[d] = closure'[d],
           UNCHANGED <<row, kept, card, former, accepted, deliveryLeft, forgotten>>
    PROVE  DeliveryInv'
<1>2. KeysApart'
  BY DEF DeliveryInv, KeysApart, NextAttempt
<1>3. \A b \in Cards : CardKnows(b)'
  BY DEF DeliveryInv, CardKnows, NextAttempt, ClaimedRow
<1>4. \A d \in Deliveries : DeliveryKnown(d)'
  BY DEF DeliveryInv, DeliveryKnown
<1>5. PromptedOnce'
  BY DEF DeliveryInv, PromptedOnce
<1> QED
  BY <1>2, <1>3, <1>4, <1>5 DEF DeliveryInv

\* The owner lists, reconciles and retires: the cards keep what they know.
LEMMA OwnerKeeps ==
    ASSUME DeliveryInv, (\E d \in Deliveries : List(d)) \/ Reconcile \/ Retire
    PROVE  DeliveryInv'
<1>1. CASE \E d \in Deliveries : List(d)
  <2>1. DeliveryTypeOK'
    BY <1>1 DEF List, DeliveryInv, DeliveryTypeOK
  <2> QED
    BY <1>1, <2>1, OwnerLooks DEF List, DeliveryInv, PromptedOnce
<1>2. CASE Reconcile
  <2>1. DeliveryTypeOK'
    BY <1>2 DEF Reconcile, DeliveryInv, DeliveryTypeOK
  <2> QED
    BY <1>2, <2>1, OwnerLooks DEF Reconcile, DeliveryInv, PromptedOnce
<1>3. CASE Retire
  <2>0. owner.on \in Deliveries
    BY <1>3 DEF Retire, DeliveryInv, DeliveryTypeOK
  <2>1. DeliveryTypeOK'
    BY <1>3, <2>0 DEF Retire, DeliveryInv, DeliveryTypeOK
  <2>2. \A d \in Deliveries : closure'[d] # NoRow => row[d] = closure'[d]
    BY <1>3, <2>0 DEF Retire, DeliveryInv, DeliveryTypeOK, PromptedOnce
  <2> QED
    BY <1>3, <2>1, <2>2, OwnerLooks DEF Retire
<1> QED
  BY <1>1, <1>2, <1>3

\* A receipt that expires is one of an attempt no card can make again.
LEMMA ExpiryKeeps ==
    ASSUME DeliveryInv, ReceiptsExpire
    PROVE  DeliveryInv'
<1>0. deliveryLeft'["attempts"] = deliveryLeft["attempts"]
  BY DEF ReceiptsExpire, Counts, DeliveryInv, DeliveryTypeOK
<1>1. DeliveryTypeOK'
  BY DEF ReceiptsExpire, Counts, DeliveryInv, DeliveryTypeOK
<1>2. KeysApart'
  BY <1>0 DEF ReceiptsExpire, DeliveryInv, KeysApart, NextAttempt
<1>3. \A b \in Cards : CardKnows(b)'
  BY <1>0 DEF ReceiptsExpire, DeliveryInv, CardKnows, NextAttempt, ClaimedRow
<1>4. \A d \in Deliveries : DeliveryKnown(d)'
  BY DEF ReceiptsExpire, DeliveryInv, DeliveryKnown
<1>5. PromptedOnce'
  BY DEF ReceiptsExpire, DeliveryInv, PromptedOnce
<1> QED
  BY <1>1, <1>2, <1>3, <1>4, <1>5 DEF DeliveryInv

\* An outcome that goes before it is imported is counted, and no card holds such a row.
LEMMA FormerKeeps ==
    ASSUME DeliveryInv, NEW d \in Deliveries, NEW outcome \in Outcomes, FormerGoes(d, outcome)
    PROVE  DeliveryInv'
<1>1. /\ former' = [former EXCEPT ![d] = @ \ {outcome}] /\ outcome \in former[d]
      /\ forgotten' = IF outcome # "not_sent" /\ row[d].rev = 0
                      THEN [forgotten EXCEPT ![d] = accepted[d]] ELSE forgotten
      /\ UNCHANGED <<row, kept, card, owner, observed, closure, accepted, deliveryLeft>>
  BY DEF FormerGoes
<1>2. /\ row \in [Deliveries -> DeliveryRow] /\ former \in [Deliveries -> SUBSET Outcomes]
      /\ accepted \in [Deliveries -> Nat] /\ forgotten \in [Deliveries -> {0, 1}]
  BY DEF DeliveryInv, DeliveryTypeOK
<1>3. \A e \in Deliveries : /\ DeliveryKnown(e)
                            /\ row[e].rev > 0 => forgotten'[e] = forgotten[e]
                            /\ e # d => forgotten'[e] = forgotten[e] /\ former'[e] = former[e]
  BY <1>1, <1>2 DEF DeliveryInv
<1>4. DeliveryTypeOK'
  <2>1. forgotten' \in [Deliveries -> {0, 1}]
    BY <1>1, <1>2, <1>3 DEF DeliveryKnown
  <2>2. former' \in [Deliveries -> SUBSET Outcomes]
    BY <1>1, <1>2
  <2> QED
    BY <1>1, <2>1, <2>2 DEF DeliveryInv, DeliveryTypeOK
<1>5. KeysApart'
  BY <1>1 DEF DeliveryInv, KeysApart, NextAttempt
<1>6. ASSUME NEW c \in Cards PROVE CardKnows(c)'
  <2> SUFFICES ASSUME card[c].at # "idle" PROVE CardKnows(c)'
    BY <1>1 DEF CardKnows
  <2>1. card[c].on \in Deliveries /\ card[c].rev \in Nat /\ CardKnows(c)
    BY Busy DEF DeliveryInv
  <2>2. row[card[c].on] = ClaimedRow(card[c]) => forgotten'[card[c].on] = forgotten[card[c].on]
    BY <2>1, <1>3 DEF ClaimedRow
  <2>3. former[card[c].on] = {} => former'[card[c].on] = {}
    BY <2>1, <1>1, <1>2
  <2> QED
    BY <2>1, <2>2, <2>3, <1>1 DEF CardKnows, NextAttempt, ClaimedRow
<1>7. ASSUME NEW e \in Deliveries PROVE DeliveryKnown(e)'
  <2>1. CASE e # d
    BY <2>1, <1>1, <1>3 DEF DeliveryKnown
  <2>2. CASE e = d
    <3>1. /\ former'[d] = former[d] \ {outcome}
          /\ former[d] \in {{}, {"acknowledged"}, {"unknown"}, {"not_sent"},
                            {"acknowledged", "not_sent"}}
      BY <1>1, <1>2, <1>3 DEF DeliveryKnown
    <3>2. former'[d] \in {{}, {"acknowledged"}, {"unknown"}, {"not_sent"},
                         {"acknowledged", "not_sent"}}
      BY <3>1
    <3>3. row[d].rev = 0 /\ former'[d] \subseteq {"not_sent"} => accepted[d] = forgotten'[d]
      <4>1. CASE outcome = "not_sent"
        <5>1. former'[d] \subseteq {"not_sent"} => former[d] \subseteq {"not_sent"}
          BY <3>1, <4>1
        <5> QED
          BY <4>1, <5>1, <1>1, <1>3 DEF DeliveryKnown
      <4>2. CASE outcome # "not_sent"
        BY <4>2, <1>1, <1>2
      <4> QED
        BY <4>1, <4>2
    <3> QED
      BY <2>2, <3>2, <3>3, <1>1, <1>3 DEF DeliveryKnown
  <2> QED
    BY <2>1, <2>2
<1>8. PromptedOnce'
  <2> SUFFICES ASSUME NEW e \in Deliveries
               PROVE  /\ accepted[e] <= 1 + forgotten'[e]
                      /\ accepted[e] = 1 + forgotten'[e] /\ row[e].rev > 0
                           => row[e].status \notin Retryable
                      /\ closure[e] # NoRow => row[e] = closure[e]
    BY <1>1 DEF PromptedOnce
  <2>1. CASE forgotten'[e] = forgotten[e]
    BY <2>1 DEF DeliveryInv, PromptedOnce
  <2>2. CASE forgotten'[e] # forgotten[e]
    BY <2>2, <1>1, <1>2, <1>3 DEF DeliveryInv, PromptedOnce
  <2> QED
    BY <2>1, <2>2
<1> QED
  BY <1>4, <1>5, <1>6, <1>7, <1>8 DEF DeliveryInv

\* Only one row is written, and no card holds it.
LEMMA RegisterKeeps ==
    ASSUME DeliveryInv, NEW d \in Deliveries, Register(d)
    PROVE  DeliveryInv'
<1> DEFINE ready == [status |-> "ready", rev |-> 0, attempt |-> 0]
<1>0. row[d] = NoRow /\ row' = [row EXCEPT ![d] = ready] /\ row \in [Deliveries -> DeliveryRow]
  <2>1. row[d] = NoRow /\ row \in [Deliveries -> DeliveryRow]
    BY DEF Register, DeliveryInv, DeliveryKnown, DeliveryTypeOK
  <2>2. Registered(NoRow) = ready
    BY DEF Registered, NoRow
  <2> QED
    BY <2>1, <2>2 DEF Register
<1>1. DeliveryTypeOK'
  BY <1>0, DeliveryAssumption DEF Register, DeliveryInv, DeliveryTypeOK, DeliveryRow
<1>2. KeysApart'
  BY DEF Register, DeliveryInv, KeysApart, NextAttempt
<1>3. \A b \in Cards : CardKnows(b)'
  <2> SUFFICES ASSUME NEW b \in Cards, card[b].at # "idle" PROVE CardKnows(b)'
    BY DEF Register, CardKnows
  <2>1. row'[card[b].on] = ClaimedRow(card[b]) <=> row[card[b].on] = ClaimedRow(card[b])
    BY <1>0, Busy DEF DeliveryInv, ClaimedRow, NoRow
  <2> QED
    BY <2>1 DEF Register, DeliveryInv, CardKnows, NextAttempt, ClaimedRow
<1>4. \A e \in Deliveries : DeliveryKnown(e)'
  BY <1>0 DEF Register, DeliveryInv, DeliveryKnown, NoRow
<1>5. PromptedOnce'
  BY <1>0 DEF Register, DeliveryInv, PromptedOnce, NoRow
<1> QED
  BY <1>1, <1>2, <1>3, <1>4, <1>5 DEF DeliveryInv
\* What a card that gets a delivery finds: an unused row may have been imported.
LEMMA Derived ==
    ASSUME DeliveryInv, NEW d \in Deliveries, NEW r, r = Imported(d, Registered(row[d]))
    PROVE  /\ r \in DeliveryRow /\ r.status # "none"
           /\ r.status = "sending" \/ row[d].status = "sending" \/ closure[d] # NoRow => r = row[d]
           /\ r.rev = 0 => r.status = "ready" /\ row[d].rev = 0
           /\ r.rev = 0 /\ closure[d] = NoRow => former[d] = {}
           /\ r.rev > 0 /\ accepted[d] = 1 + forgotten[d] => r.status \notin Retryable
<1> DEFINE s == row[d]
           t == Registered(s)
           sole == Cardinality(former[d]) = 1
           chosen == IF sole THEN CHOOSE x \in former[d] : TRUE ELSE "unknown"
<1>1. /\ s \in DeliveryRow
      /\ s.status = "none" => s = NoRow
      /\ s.rev = 0 => s.status \in {"none", "ready"}
      /\ s.rev = 0 /\ former[d] \subseteq {"not_sent"} => accepted[d] = forgotten[d]
      /\ s.rev > 0 /\ accepted[d] = 1 + forgotten[d] => s.status \notin Retryable
      /\ closure[d] # NoRow => s = closure[d]
      /\ former[d] \in {{}, {"acknowledged"}, {"unknown"}, {"not_sent"},
                        {"acknowledged", "not_sent"}}
  BY DEF DeliveryInv, DeliveryKnown, DeliveryTypeOK, PromptedOnce
<1>2. /\ t \in DeliveryRow /\ t.rev = s.rev /\ t.status # "none"
      /\ s.status # "none" => t = s
      /\ s.status = "none" => t.status = "ready"
  <2>1. CASE s.status = "none"
    BY <2>1, <1>1, DeliveryAssumption DEF Registered, DeliveryRow, NoRow
  <2>2. CASE s.status # "none"
    BY <2>2, <1>1 DEF Registered
  <2> QED
    BY <2>1, <2>2
<1>3. closure[d] # NoRow => t = s
  BY <1>1, <1>2
<1>4. CASE closure[d] # NoRow \/ t.rev # 0 \/ t.status # "ready" \/ former[d] = {}
  <2>1. r = t
    BY <1>4 DEF Imported
  <2>2. t.status = "sending" \/ s.status = "sending" => t = s
    BY <1>2
  <2>3. t.rev = 0 => t.status = "ready" /\ s.rev = 0
    BY <1>1, <1>2
  <2>4. t.rev > 0 /\ accepted[d] = 1 + forgotten[d] => t.status \notin Retryable
    BY <1>1, <1>2 DEF NoRow
  <2> QED
    BY <2>1, <2>2, <2>3, <2>4, <1>2, <1>3, <1>4
<1>5. CASE closure[d] = NoRow /\ t.rev = 0 /\ t.status = "ready" /\ former[d] # {}
  <2>1. r = [t EXCEPT !.rev = 1, !.status = chosen]
    BY <1>5 DEF Imported
  <2>2. chosen \in {"acknowledged", "unknown", "not_sent"}
    BY <1>1, <1>5
  <2>3. chosen = "not_sent" => accepted[d] = forgotten[d]
    <3>1. CASE former[d] = {"not_sent"}
      BY <3>1, <1>1, <1>2, <1>5
    <3>2. CASE former[d] = {"acknowledged", "not_sent"}
      <4>1. IsFiniteSet({"not_sent"}) /\ Cardinality({"not_sent"}) = 1
        BY FS_Singleton
      <4>2. Cardinality({"not_sent"} \cup {"acknowledged"}) = 1 + 1
        <5>1. "acknowledged" \notin {"not_sent"}
          OBVIOUS
        <5> QED
          BY <4>1, <5>1, FS_AddElement, Zenon
      <4>3. former[d] = {"not_sent"} \cup {"acknowledged"}
        BY <3>2
      <4> QED
        BY <4>2, <4>3
    <3>3. CASE former[d] \in {{"acknowledged"}, {"unknown"}}
      <4>1. (CHOOSE x \in former[d] : TRUE) \in former[d]
        BY <3>3
      <4> QED
        BY <4>1, <3>3
    <3> QED
      BY <3>1, <3>2, <3>3, <1>1, <1>5
  <2> HIDE DEF chosen
  <2>4. r.rev = 1 /\ r.status = chosen /\ r \in DeliveryRow
    <3>1. r = [status |-> chosen, rev |-> 1, attempt |-> t.attempt]
      BY <2>1, <1>2 DEF DeliveryRow
    <3> QED
      BY <3>1, <2>2, <1>2 DEF DeliveryRow, Outcomes
  <2>5. s.status \in {"none", "ready"}
    BY <1>1, <1>2, <1>5
  <2>6. accepted[d] \in Nat /\ forgotten[d] \in Nat
    BY DEF DeliveryInv, DeliveryTypeOK
  <2>7. accepted[d] = 1 + forgotten[d] => chosen # "not_sent"
    BY <2>3, <2>6
  <2>8. accepted[d] = 1 + forgotten[d] => r.status \notin Retryable
    BY <2>2, <2>4, <2>7 DEF Retryable
  <2>9. r.status \notin {"none", "sending"} /\ r.rev # 0
    BY <2>2, <2>4
  <2>10. row[d].status # "sending"
    BY <2>5
  <2> HIDE DEF s, t, sole
  <2> QED
    BY <2>4, <2>8, <2>9, <2>10, <1>5
<1> QED
  BY <1>4, <1>5

\* A card that reads a delivery knows the row it read, and no more.
LEMMA GetKeeps ==
    ASSUME DeliveryInv, NEW c \in Cards, NEW d \in Deliveries, Get(c, d)
    PROVE  DeliveryInv'
<1> DEFINE r == Imported(d, Registered(row[d]))
           new == [at |-> "begin", on |-> d, rev |-> r.rev, status |-> "none",
                   attempt |-> NextAttempt]
<1>1. /\ r \in DeliveryRow /\ r.status # "none"
      /\ r.status = "sending" \/ row[d].status = "sending" \/ closure[d] # NoRow => r = row[d]
      /\ r.rev = 0 => r.status = "ready" /\ row[d].rev = 0
      /\ r.rev = 0 /\ closure[d] = NoRow => former[d] = {}
      /\ r.rev > 0 /\ accepted[d] = 1 + forgotten[d] => r.status \notin Retryable
  BY Derived
<1>2. /\ card[c] = NoCard /\ row' = [row EXCEPT ![d] = r]
      /\ UNCHANGED <<kept, owner, observed, closure, former, accepted, forgotten>>
      /\ \/ /\ closure[d] = NoRow /\ Counts("attempts") /\ card' = [card EXCEPT ![c] = new]
         \/ UNCHANGED <<card, deliveryLeft>>
  BY DEF Get, NextAttempt
<1> HIDE DEF r
<1>3. /\ row \in [Deliveries -> DeliveryRow] /\ card \in [Cards -> {NoCard} \cup Doing]
      /\ deliveryLeft \in [{"attempts", "months"} -> Nat]
      /\ deliveryLeft["attempts"] <= MaxAttempts
  BY DEF DeliveryInv, DeliveryTypeOK, KeysApart
<1>4. /\ deliveryLeft' \in [{"attempts", "months"} -> Nat]
      /\ deliveryLeft'["attempts"] <= MaxAttempts
      /\ card' = card => NextAttempt' >= NextAttempt
      /\ card' # card => NextAttempt \in Attempts /\ NextAttempt' = NextAttempt + 1
  BY <1>2, <1>3, DeliveryAssumption DEF Counts, NextAttempt, Attempts
<1>5. DeliveryTypeOK'
  <2>1. card' \in [Cards -> {NoCard} \cup Doing]
    <3>1. CASE card' = card
      BY <3>1, <1>3
    <3>2. CASE card' # card
      <4>1. new \in Doing
        BY <3>2, <1>1, <1>4 DEF Doing, DeliveryRow
      <4> QED
        BY <3>2, <4>1, <1>2, <1>3
    <3> QED
      BY <3>1, <3>2
  <2> QED
    BY <2>1, <1>1, <1>2, <1>4 DEF DeliveryInv, DeliveryTypeOK
<1>6. \A b \in Cards : card'[b].at # "idle" => \/ card'[b] = card[b] /\ card[b].at # "idle"
                                               \/ b = c /\ card'[b] = new /\ card' # card
  BY <1>2, <1>3 DEF NoCard
<1>7. KeysApart'
  <2>1. \A k \in kept : k.attempt < NextAttempt
    BY DEF DeliveryInv, KeysApart
  <2>2. \A k \in kept' : k.attempt < NextAttempt'
    BY <2>1, <1>2, <1>3, <1>4, DeliveryAssumption DEF DeliveryInv, DeliveryTypeOK, Attempts,
         NextAttempt
  <2>3. ASSUME NEW b \in Cards, card[b].at # "idle" PROVE card[b].attempt # NextAttempt
    <3>1. card[b].attempt < NextAttempt
      BY <2>3 DEF DeliveryInv, CardKnows
    <3>2. card[b].attempt \in Nat /\ NextAttempt \in Int
      BY <1>3, <2>3, Busy, DeliveryAssumption DEF DeliveryInv, NextAttempt, Attempts
    <3> QED
      BY <3>1, <3>2
  <2>4. ASSUME NEW a \in Cards, NEW b \in Cards, card'[a].at # "idle", card'[b].at # "idle",
               card'[a].attempt = card'[b].attempt
        PROVE  a = b
    BY <2>3, <2>4, <1>6 DEF DeliveryInv, KeysApart
  <2> QED
    BY <2>2, <2>4, <1>4 DEF KeysApart
<1>8. ASSUME NEW b \in Cards PROVE CardKnows(b)'
  <2>1. CASE card'[b].at = "idle"
    BY <2>1 DEF CardKnows
  <2>2. CASE card'[b] = card[b] /\ card[b].at # "idle"
    <3>1. card[b].attempt \in Nat /\ card[b].on \in Deliveries
      BY <2>2, Busy DEF DeliveryInv, Attempts
    <3>4. card[b].attempt < NextAttempt
      BY <2>2 DEF DeliveryInv, CardKnows
    <3>2. card[b].attempt < NextAttempt'
      BY <3>1, <3>4, <1>2, <1>3, <1>4, DeliveryAssumption DEF NextAttempt
    <3>3. row'[card[b].on] = ClaimedRow(card[b]) <=> row[card[b].on] = ClaimedRow(card[b])
      BY <3>1, <1>1, <1>2, <1>3 DEF ClaimedRow
    <3> QED
      BY <2>2, <3>2, <3>3, <1>2 DEF DeliveryInv, CardKnows, ClaimedRow
  <2>3. CASE card'[b] = new /\ card' # card
    <3>1. [method |-> "begin", attempt |-> NextAttempt] \notin kept
      BY <1>3, DeliveryAssumption DEF DeliveryInv, KeysApart, NextAttempt
    <3>2. NextAttempt < NextAttempt'
      BY <2>3, <1>3, <1>4, DeliveryAssumption DEF NextAttempt
    <3>3. r.rev = 0 => former[d] = {}
      BY <2>3, <1>1, <1>2
    <3> QED
      BY <2>3, <3>1, <3>2, <3>3, <1>2 DEF CardKnows
  <2> QED
    BY <2>1, <2>2, <2>3, <1>6
<1>9. \A e \in Deliveries : DeliveryKnown(e)'
  <2>1. /\ r.status = "none" => r = NoRow
        /\ r.rev = 0 => r.status \in {"none", "ready"}
        /\ r.rev = 0 => row[d].rev = 0
    BY <1>1
  <2> QED
    BY <2>1, <1>2, <1>3 DEF DeliveryInv, DeliveryKnown
<1>10. PromptedOnce'
  BY <1>1, <1>2, <1>3 DEF DeliveryInv, PromptedOnce
<1> QED
  BY <1>5, <1>7, <1>8, <1>9, <1>10 DEF DeliveryInv
\* A begin that is answered holds the row, whether it was begun now or before.
LEMMA BeginKeeps ==
    ASSUME DeliveryInv, NEW c \in Cards, Begins(c)
    PROVE  DeliveryInv'
<1> DEFINE m == card[c]
           d == m.on
           receipt == [method |-> "begin", attempt |-> m.attempt]
           fresh == receipt \notin kept
<1>1. /\ m.at = "begin" /\ m \in Doing /\ d \in Deliveries /\ m.rev \in Nat
      /\ m.attempt \in Attempts /\ m.attempt < NextAttempt
      /\ m.rev = 0 => former[d] = {}
      /\ ~fresh => row[d] = ClaimedRow(m) /\ accepted[d] = forgotten[d]
  BY Busy DEF Begins, DeliveryInv, CardKnows
<1>2. /\ row \in [Deliveries -> DeliveryRow] /\ card \in [Cards -> {NoCard} \cup Doing]
      /\ accepted \in [Deliveries -> Nat]
  BY DEF DeliveryInv, DeliveryTypeOK
<1>3. CASE /\ card' = [card EXCEPT ![c] = NoCard] /\ UNCHANGED <<row, kept>>
  BY <1>3, CardLeaves DEF Begins
<1>4. CASE /\ card' \in {card, [card EXCEPT ![c].at = "send"]} /\ kept' = kept \cup {receipt}
           /\ closure[d] = NoRow
           /\ fresh => row[d].rev = m.rev /\ row[d].status \in Retryable
           /\ row' = IF fresh THEN [row EXCEPT ![d] = [status |-> "sending", rev |-> @.rev + 1,
                                                       attempt |-> m.attempt]]
                     ELSE row
  <2>1. row' = [row EXCEPT ![d] = ClaimedRow(m)] /\ row'[d] = ClaimedRow(m)
    BY <1>1, <1>2, <1>4 DEF ClaimedRow
  <2>2. accepted[d] = forgotten[d]
    <3>1. CASE fresh /\ m.rev = 0
      BY <3>1, <1>1, <1>2, <1>4 DEF DeliveryInv, DeliveryKnown
    <3>2. CASE fresh /\ m.rev > 0
      <4>1. accepted[d] # 1 + forgotten[d] /\ accepted[d] <= 1 + forgotten[d]
        BY <3>2, <1>1, <1>4 DEF DeliveryInv, PromptedOnce
      <4>2. forgotten[d] <= accepted[d] /\ accepted[d] \in Nat /\ forgotten[d] \in Nat
        BY <1>1 DEF DeliveryInv, DeliveryKnown, DeliveryTypeOK
      <4> QED
        BY <4>1, <4>2
    <3> QED
      BY <3>1, <3>2, <1>1
  <2>3. ClaimedRow(m) \in DeliveryRow /\ ClaimedRow(m).status = "sending" /\ ClaimedRow(m).rev > 0
    BY <1>1, ClaimIsRow, DeliveryAssumption DEF ClaimedRow
  <2>4. \A b \in Cards : card'[b].at # "idle" =>
          /\ card[b].at # "idle" /\ card'[b].on = card[b].on /\ card'[b].rev = card[b].rev
          /\ card'[b].attempt = card[b].attempt /\ card'[b].status = card[b].status
          /\ card'[b].at = card[b].at \/ (b = c /\ card'[b].at = "send")
    BY <1>1, <1>2, <1>4 DEF Doing
  <2>5. DeliveryTypeOK'
    <3>1. [m EXCEPT !.at = "send"] \in Doing
      BY <1>1 DEF Doing
    <3>2. card' \in [Cards -> {NoCard} \cup Doing]
      BY <3>1, <1>2, <1>4
    <3>3. kept' \subseteq [method : {"begin", "settle"}, attempt : Attempts]
      BY <1>1, <1>4 DEF DeliveryInv, DeliveryTypeOK
    <3> QED
      BY <2>1, <2>3, <3>2, <3>3, <1>2 DEF Begins, DeliveryInv, DeliveryTypeOK
  <2>6. KeysApart'
    <3>1. \A k \in kept' : k.attempt < NextAttempt
      BY <1>1, <1>4 DEF DeliveryInv, KeysApart
    <3>2. NextAttempt' = NextAttempt
      BY DEF Begins, NextAttempt
    <3> QED
      BY <2>4, <3>1, <3>2 DEF Begins, DeliveryInv, KeysApart
  <2>7. ASSUME NEW b \in Cards PROVE CardKnows(b)'
    <3> SUFFICES ASSUME card'[b].at # "idle" PROVE CardKnows(b)'
      BY DEF CardKnows
    <3>1. /\ card[b].at # "idle" /\ card[b].on \in Deliveries /\ card[b].rev \in Nat
          /\ CardKnows(b) /\ NextAttempt' = NextAttempt
      BY <2>4, Busy DEF Begins, DeliveryInv, NextAttempt
    <3>2. CASE b = c
      <4>1. card'[b].at \in {"begin", "send"}
        BY <3>2, <2>4, <1>1
      <4> QED
        BY <4>1, <3>1, <3>2, <2>1, <2>2, <2>4 DEF Begins, CardKnows, ClaimedRow
    <3>3. CASE b # c
      <4>1. card[b].attempt # m.attempt
        BY <3>1, <3>3, <1>1 DEF DeliveryInv, KeysApart
      <4>2. [method |-> "begin", attempt |-> card[b].attempt] \in kept'
              => [method |-> "begin", attempt |-> card[b].attempt] \in kept
        BY <4>1, <1>4
      <4>3. row'[card[b].on] = ClaimedRow(card[b]) => row[card[b].on] = ClaimedRow(card[b])
        BY <4>1, <3>1, <2>1, <1>2 DEF ClaimedRow
      <4>4. row[card[b].on] = ClaimedRow(card[b]) => row'[card[b].on] = ClaimedRow(card[b])
        <5>1. CASE card[b].on = d
          BY <5>1, <4>1, <1>1, <1>4 DEF ClaimedRow, Retryable
        <5>2. CASE card[b].on # d
          BY <5>2, <3>1, <2>1, <1>2
        <5> QED
          BY <5>1, <5>2
      <4>5. card'[b].at = card[b].at /\ ClaimedRow(card'[b]) = ClaimedRow(card[b])
        BY <2>4, <3>3 DEF ClaimedRow
      <4> QED
        BY <4>2, <4>3, <4>4, <4>5, <3>1, <2>4 DEF Begins, CardKnows
    <3> QED
      BY <3>2, <3>3
  <2>8. \A e \in Deliveries : DeliveryKnown(e)'
    BY <2>1, <2>3, <1>2 DEF Begins, DeliveryInv, DeliveryKnown
  <2>9. PromptedOnce'
    BY <2>1, <2>2, <1>2, <1>4 DEF Begins, DeliveryInv, PromptedOnce
  <2> QED
    BY <2>5, <2>6, <2>7, <2>8, <2>9 DEF DeliveryInv
<1> QED
  BY <1>3, <1>4 DEF Begins

\* The host is given the prompt of a row that its card holds and that it has not taken.
LEMMA SendKeeps ==
    ASSUME DeliveryInv, NEW c \in Cards, SendPrompt(c)
    PROVE  DeliveryInv'
<1> DEFINE m == card[c]
           d == m.on
<1>1. /\ m.at = "send" /\ m \in Doing /\ d \in Deliveries /\ m.rev \in Nat
      /\ row[d] = ClaimedRow(m) /\ accepted[d] = forgotten[d] /\ m.attempt \in Attempts
  BY Busy DEF SendPrompt, DeliveryInv, CardKnows
<1>2. PICK status \in Outcomes, taken \in {0, 1} :
        /\ status \in {"not_sent", "rejected"} => taken = 0
        /\ accepted' = [accepted EXCEPT ![d] = @ + taken]
        /\ card' = [card EXCEPT ![c].at = "settle", ![c].status = status]
  BY DEF SendPrompt
<1>3. /\ card \in [Cards -> {NoCard} \cup Doing] /\ accepted \in [Deliveries -> Nat]
      /\ row \in [Deliveries -> DeliveryRow] /\ forgotten \in [Deliveries -> {0, 1}]
  BY DEF DeliveryInv, DeliveryTypeOK
<1>4. accepted'[d] = forgotten[d] + taken /\ \A e \in Deliveries \ {d} : accepted'[e] = accepted[e]
  BY <1>1, <1>2, <1>3
<1>11. /\ UNCHANGED <<row, kept, owner, observed, closure, former, deliveryLeft, forgotten>>
       /\ NextAttempt' = NextAttempt
  BY DEF SendPrompt, NextAttempt
<1>5. /\ \A b \in Cards : b # c => card'[b] = card[b]
      /\ card'[c].on = d /\ card'[c].rev = m.rev /\ card'[c].attempt = m.attempt
      /\ card'[c].at = "settle" /\ card'[c].status = status /\ card'[c] \in Doing
  <2>1. card'[c] = [m EXCEPT !.at = "settle", !.status = status]
    BY <1>2, <1>3
  <2>2. card'[c] = [at |-> "settle", on |-> d, rev |-> m.rev, attempt |-> m.attempt,
                    status |-> status]
    BY <2>1, <1>1 DEF Doing
  <2> QED
    BY <2>2, <1>1, <1>2, <1>3 DEF Doing
<1>6. DeliveryTypeOK'
  <2>1. card' \in [Cards -> {NoCard} \cup Doing]
    BY <1>2, <1>3, <1>5
  <2> QED
    BY <2>1, <1>1, <1>2, <1>3, <1>11 DEF DeliveryInv, DeliveryTypeOK
<1>7. KeysApart'
  <2>1. \A b \in Cards : card'[b].at # "idle" =>
          card[b].at # "idle" /\ card'[b].attempt = card[b].attempt
    BY <1>1, <1>5
  <2> QED
    BY <2>1, <1>11 DEF DeliveryInv, KeysApart
<1>8. ASSUME NEW b \in Cards PROVE CardKnows(b)'
  <2>1. CASE b = c
    <3>1. taken = 1 => status \notin Retryable
      BY <1>2 DEF Outcomes, Retryable
    <3>2. m.attempt < NextAttempt /\ (m.rev = 0 => former[d] = {})
      BY <1>1 DEF DeliveryInv, CardKnows
    <3>3. /\ card'[c].on = d /\ card'[c].rev = m.rev /\ card'[c].attempt = m.attempt
          /\ card'[c].at = "settle" /\ card'[c].status = status /\ status \in Outcomes
          /\ accepted'[d] = 1 + forgotten'[d] => taken = 1
      BY <1>1, <1>2, <1>3, <1>4, <1>5, <1>11
    <3> QED
      BY <2>1, <3>1, <3>2, <3>3, <1>11 DEF CardKnows
  <2>2. CASE b # c /\ card[b].at # "idle"
    <3>1. card[b].on \in Deliveries /\ card[b].attempt # m.attempt
      BY <2>2, <1>1, Busy DEF DeliveryInv, KeysApart
    <3>2. row[card[b].on] = ClaimedRow(card[b]) => accepted'[card[b].on] = accepted[card[b].on]
      BY <3>1, <1>1, <1>3, <1>4 DEF ClaimedRow
    <3> QED
      BY <2>2, <3>1, <3>2, <1>5, <1>11 DEF DeliveryInv, CardKnows, ClaimedRow
  <2> QED
    BY <2>1, <2>2, <1>5 DEF CardKnows
<1>9. \A e \in Deliveries : DeliveryKnown(e)'
  BY <1>1, <1>3, <1>4 DEF SendPrompt, DeliveryInv, DeliveryKnown, ClaimedRow
<1>10. PromptedOnce'
  BY <1>1, <1>2, <1>3, <1>4 DEF SendPrompt, DeliveryInv, PromptedOnce, ClaimedRow, Retryable
<1> QED
  BY <1>6, <1>7, <1>8, <1>9, <1>10 DEF DeliveryInv

\* What came of it is written into the row its card still holds, or nowhere.
LEMMA SettleKeeps ==
    ASSUME DeliveryInv, NEW c \in Cards, Settles(c)
    PROVE  DeliveryInv'
<1> DEFINE m == card[c]
           d == m.on
           receipt == [method |-> "settle", attempt |-> m.attempt]
           settled == [status |-> m.status, rev |-> m.rev + 2, attempt |-> m.attempt]
<1>1. /\ m.at = "settle" /\ m \in Doing /\ d \in Deliveries /\ m.rev \in Nat
      /\ m.attempt \in Attempts /\ m.attempt < NextAttempt /\ m.status \in Outcomes
      /\ row[d] = ClaimedRow(m) /\ accepted[d] = 1 + forgotten[d] => m.status \notin Retryable
  BY Busy DEF Settles, DeliveryInv, CardKnows
<1>2. /\ row \in [Deliveries -> DeliveryRow] /\ card \in [Cards -> {NoCard} \cup Doing]
  BY DEF DeliveryInv, DeliveryTypeOK
<1>3. CASE /\ card' = [card EXCEPT ![c] = NoCard] /\ UNCHANGED <<row, kept>>
  BY <1>3, CardLeaves DEF Settles
<1>4. CASE /\ card' \in {card, [card EXCEPT ![c] = NoCard]} /\ kept' = kept \cup {receipt}
           /\ closure[d] = NoRow
           /\ \/ row' = row
              \/ /\ row[d] = ClaimedRow(m)
                 /\ row' = [row EXCEPT ![d].status = m.status, ![d].rev = @ + 1]
  <2>1. row' = row \/ (row[d] = ClaimedRow(m) /\ row' = [row EXCEPT ![d] = settled])
    BY <1>1, <1>2, <1>4 DEF ClaimedRow
  <2>2. settled \in DeliveryRow
    BY <1>1, DeliveryAssumption DEF DeliveryRow, Attempts
  <2>3. \A b \in Cards : card'[b].at # "idle" => card[b].at # "idle" /\ card'[b] = card[b]
    BY <1>2, <1>4 DEF NoCard
  <2>4. DeliveryTypeOK'
    <3>1. card' \in [Cards -> {NoCard} \cup Doing]
      BY <1>2, <1>4
    <3>2. kept' \subseteq [method : {"begin", "settle"}, attempt : Attempts]
      BY <1>1, <1>4 DEF DeliveryInv, DeliveryTypeOK
    <3>3. row' \in [Deliveries -> DeliveryRow]
      BY <2>1, <2>2, <1>2
    <3> QED
      BY <3>1, <3>2, <3>3 DEF Settles, DeliveryInv, DeliveryTypeOK
  <2>5. KeysApart'
    <3>1. \A k \in kept' : k.attempt < NextAttempt
      BY <1>1, <1>4 DEF DeliveryInv, KeysApart
    <3>2. NextAttempt' = NextAttempt
      BY DEF Settles, NextAttempt
    <3> QED
      BY <2>3, <3>1, <3>2 DEF Settles, DeliveryInv, KeysApart
  <2>6. ASSUME NEW b \in Cards PROVE CardKnows(b)'
    <3> SUFFICES ASSUME card'[b].at # "idle" PROVE CardKnows(b)'
      BY DEF CardKnows
    <3>1. /\ card[b].at # "idle" /\ card'[b] = card[b] /\ card[b].on \in Deliveries
          /\ CardKnows(b) /\ NextAttempt' = NextAttempt
      BY <2>3, Busy DEF Settles, DeliveryInv, NextAttempt
    <3>2. row'[card[b].on] = ClaimedRow(card[b]) => row[card[b].on] = ClaimedRow(card[b])
      BY <3>1, <2>1, <1>1, <1>2 DEF ClaimedRow, Outcomes
    <3>3. [method |-> "begin", attempt |-> card[b].attempt] \in kept'
            => [method |-> "begin", attempt |-> card[b].attempt] \in kept
      BY <1>4
    <3>4. b # c /\ row[card[b].on] = ClaimedRow(card[b]) => row'[card[b].on] = ClaimedRow(card[b])
      <4> SUFFICES ASSUME b # c, row[card[b].on] = ClaimedRow(card[b])
                   PROVE  row'[card[b].on] = ClaimedRow(card[b])
        OBVIOUS
      <4>1. card[b].attempt # m.attempt
        BY <3>1, <1>1 DEF DeliveryInv, KeysApart
      <4> QED
        BY <4>1, <3>1, <2>1, <1>2 DEF ClaimedRow
    <3> QED
      BY <3>1, <3>2, <3>3, <3>4, <1>1 DEF Settles, CardKnows, ClaimedRow
  <2>7. \A e \in Deliveries : DeliveryKnown(e)'
    BY <2>1, <1>1, <1>2 DEF Settles, DeliveryInv, DeliveryKnown, Outcomes
  <2>8. PromptedOnce'
    BY <2>1, <1>1, <1>2, <1>4 DEF Settles, DeliveryInv, PromptedOnce
  <2> QED
    BY <2>4, <2>5, <2>6, <2>7, <2>8 DEF DeliveryInv
<1> QED
  BY <1>3, <1>4 DEF Settles, ClaimedRow

\* The invariant of the deliveries: what a card, or the owner, once read of a row is still
\* true of it, or the row has moved past it and refuses what was made of it.
THEOREM DeliveryCorrect == DeliverySpec => []DeliveryInv
<1>1. DeliveryInit => DeliveryInv
  BY DeliveryStarts
<1>2. DeliveryInv /\ [DeliveryNext]_deliveryVars => DeliveryInv'
  <2> SUFFICES ASSUME DeliveryInv, [DeliveryNext]_deliveryVars PROVE DeliveryInv'
    OBVIOUS
  <2>1. ASSUME NEW d \in Deliveries, Register(d) PROVE DeliveryInv'
    BY <2>1, RegisterKeeps
  <2>2. CASE (\E d \in Deliveries : List(d)) \/ Reconcile \/ Retire
    BY <2>2, OwnerKeeps
  <2>3. ASSUME NEW c \in Cards, NEW d \in Deliveries, Get(c, d) PROVE DeliveryInv'
    BY <2>3, GetKeeps
  <2>4. ASSUME NEW c \in Cards, Begins(c) PROVE DeliveryInv'
    BY <2>4, BeginKeeps
  <2>5. ASSUME NEW c \in Cards, SendPrompt(c) PROVE DeliveryInv'
    BY <2>5, SendKeeps
  <2>6. ASSUME NEW c \in Cards, Settles(c) PROVE DeliveryInv'
    BY <2>6, SettleKeeps
  <2>7. ASSUME NEW c \in Cards, CardCloses(c) PROVE DeliveryInv'
    BY <2>7, CardLeaves DEF CardCloses
  <2>8. CASE ReceiptsExpire
    BY <2>8, ExpiryKeeps
  <2>10. ASSUME NEW d \in Deliveries, NEW outcome \in Outcomes, FormerGoes(d, outcome)
         PROVE  DeliveryInv'
    BY <2>10, FormerKeeps
  <2>9. CASE UNCHANGED deliveryVars
    <3>1. DeliveryTypeOK'
      BY <2>9 DEF deliveryVars, DeliveryInv, DeliveryTypeOK
    <3> QED
      BY <2>9, <3>1, OwnerLooks DEF deliveryVars, DeliveryInv, PromptedOnce
  <2> QED
    BY <2>1, <2>2, <2>3, <2>4, <2>5, <2>6, <2>7, <2>8, <2>9,
       <2>10 DEF DeliveryNext
<1> QED
  BY <1>1, <1>2, PTL DEF DeliverySpec

\* For every number of cards, attempts and months, the host takes a continuation's prompt
\* once at most, and a closure stays true of its row, whatever calls are lost, repeated or
\* swept away (presentation.rs, continuation_resolution.rs).  A prompt of a card of the first
\* version whose outcome went with its view before it was imported is not counted.
THEOREM DeliveredOnce == DeliverySpec => []PromptedOnce
<1>1. DeliveryInv => PromptedOnce
  BY DEF DeliveryInv
<1> QED
  BY <1>1, DeliveryCorrect, PTL
-----------------------------------------------------------------------------
\* The journal, whatever a method has made of it, against what was permitted and done.
\* An operation is in flight exactly while the record names it.
OpsKnown(store, asked, happened, count) ==
    /\ \A o, p \in store.ops : o.id = p.id \/ o.key = p.key => o = p
    /\ \A o \in store.ops :
        /\ o.id \in 1..store.serial
        /\ o.status = "in_flight" <=> o.id = store.record.op
        /\ o.do = "create" /\ o.id \in asked => count = 0
        /\ o.do = "remove" /\ o.status = "in_flight" /\ o.id \in happened => count = 0

\* Only the record of a removed automation is ever swept.
RecordKnown(rec) ==
    /\ rec.reg = "none" <=> rec = Absent
    /\ rec.reg = "attempt_in_flight" <=> rec.op # 0
    /\ rec.ends <= MaxWindows => rec.reg = "removed"

\* A permission is that of the operation in flight, or of one that was given up as
\* ambiguous, after which none is given any more.
PermissionsKnown(store, asked, happened, count) ==
    /\ asked \cup happened \subseteq 1..store.serial
    /\ asked \cap happened = {}
    /\ \A i, j \in asked : i = j
    /\ \A i \in asked : i = store.record.op \/ store.record.reg = "ambiguous"
    /\ count \in 0..1
    /\ count > 0 => store.record.reg \in {"attempt_in_flight", "registered", "ambiguous"}

StoreKnown(store, asked, happened, count) ==
    /\ store \in [record : BindingRecord, ops : SUBSET Work, serial : Nat,
                  receipts : SUBSET [key : NoteKeys, ends : Nat]]
    /\ OpsKnown(store, asked, happened, count)
    /\ RecordKnown(store.record)
    /\ PermissionsKnown(store, asked, happened, count)

\* A host task reports the success of what it has seen done.
NotesKnown ==
    \A k \in NoteKeys :
        note[k].kind = "settle" /\ note[k].status = "succeeded" => note[k].op \in done

HostInv ==
    /\ HostTypeOK
    /\ StoreKnown(ledger, attempts, done, automations)
    /\ NotesKnown

\* What one method may not forget of the journal it found.
Remembers(store, next) ==
    /\ \A o \in store.ops : o.status # "succeeded" => \E p \in next.ops : p.id = o.id
    /\ store.record.reg \notin {"none", "removed"} => next.record.reg # "none"
-----------------------------------------------------------------------------
\* Dating a record changes its end alone.
LEMMA DatedRecord ==
    ASSUME window \in 0..MaxWindows, NEW r \in BindingRecord, NEW t, t = Dated(r)
    PROVE  /\ t \in BindingRecord
           /\ t.reg = r.reg /\ t.op = r.op
           /\ t.ends <= MaxWindows => t.reg = "removed"
<1> DEFINE last == IF r.reg = "removed" /\ r.life = "removed" /\ r.op = 0 /\ ~r.waiting
                   THEN window + 1 ELSE Forever
<1>1. t = [r EXCEPT !.ends = last]
  BY DEF Dated
<1>2. last \in Nat /\ (last <= MaxWindows => r.reg = "removed")
  BY HostAssumption DEF Forever
<1> HIDE DEF last
<1> QED
  BY <1>1, <1>2 DEF BindingRecord

\* Of what was never registered, or was swept, nothing is known.
LEMMA AbsentRecord == Absent \in BindingRecord /\ RecordKnown(Absent)
  BY HostAssumption DEF Absent, BindingRecord, Registrations, Forever, RecordKnown

\* A record may change in what the journal does not rest on.
LEMMA RecordChanges ==
    ASSUME NEW s, NEW a, NEW h, NEW n, StoreKnown(s, a, h, n),
           NEW r \in BindingRecord, NEW t, t = [s EXCEPT !.record = r],
           r.op = s.record.op, r.ends <= MaxWindows => r.reg = "removed",
           r.reg = s.record.reg \/ (s.record.reg = "none" /\ r.reg = "not_attempted"),
           r.reg # "none"
    PROVE  StoreKnown(t, a, h, n) /\ Remembers(s, t)
<1>1. /\ t \in [record : BindingRecord, ops : SUBSET Work, serial : Nat,
                receipts : SUBSET [key : NoteKeys, ends : Nat]]
      /\ t.record = r /\ t.ops = s.ops /\ t.serial = s.serial
  BY DEF StoreKnown
<1>2. OpsKnown(t, a, h, n)
  BY <1>1 DEF StoreKnown, OpsKnown
<1>3. RecordKnown(t.record)
  BY <1>1 DEF StoreKnown, RecordKnown, Absent
<1>4. PermissionsKnown(t, a, h, n)
  BY <1>1 DEF StoreKnown, PermissionsKnown
<1> QED
  BY <1>1, <1>2, <1>3, <1>4 DEF StoreKnown, Remembers

\* A receipt more is all a repeated method leaves.
LEMMA ReceiptKept ==
    ASSUME NEW s, NEW a, NEW h, NEW n, StoreKnown(s, a, h, n), NEW k \in NoteKeys,
           window \in 0..MaxWindows, NEW t, t = Receipted(s, k)
    PROVE  StoreKnown(t, a, h, n) /\ t.ops = s.ops /\ t.record = s.record
<1> DEFINE unswept == s.receipts \cup {[key |-> k, ends |-> window + 1]}
<1>1. t = [s EXCEPT !.receipts = unswept]
  BY DEF Receipted
<1>2. unswept \in SUBSET [key : NoteKeys, ends : Nat]
  BY HostAssumption DEF StoreKnown
<1> HIDE DEF unswept
<1>3. /\ t \in [record : BindingRecord, ops : SUBSET Work, serial : Nat,
                receipts : SUBSET [key : NoteKeys, ends : Nat]]
      /\ t.record = s.record /\ t.ops = s.ops /\ t.serial = s.serial
  BY <1>1, <1>2 DEF StoreKnown
<1> QED
  BY <1>3 DEF StoreKnown, OpsKnown, PermissionsKnown

\* The sweep takes receipts, successes and the record of what was removed, and no more.
LEMMA SweepKept ==
    ASSUME NEW s, NEW a, NEW h, NEW n, StoreKnown(s, a, h, n),
           window \in 0..MaxWindows, NEW t, t = Lapsed(s)
    PROVE  /\ StoreKnown(t, a, h, n)
           /\ t.ops \subseteq s.ops
           /\ \A o \in s.ops : o.status # "succeeded" => o \in t.ops
           /\ s.record.reg \notin {"none", "removed"} => t.record = s.record
<1> DEFINE ops == {o \in s.ops : o.status # "succeeded" \/ o.ends > window}
           unswept == {r \in s.receipts : r.ends > window}
           left == IF s.record.ends <= window THEN Absent ELSE s.record
<1>1. t = [s EXCEPT !.receipts = unswept, !.ops = ops, !.record = left]
  BY DEF Lapsed
<1>2. /\ left \in BindingRecord /\ RecordKnown(left)
      /\ left = s.record \/ (left = Absent /\ s.record.reg = "removed")
  BY AbsentRecord, HostAssumption DEF StoreKnown, RecordKnown, BindingRecord
<1>3. ops \subseteq s.ops /\ \A o \in s.ops : o.status # "succeeded" => o \in ops
  OBVIOUS
<1>4. unswept \in SUBSET [key : NoteKeys, ends : Nat] /\ ops \in SUBSET Work
  BY DEF StoreKnown
<1> HIDE DEF ops, unswept, left
<1>5. /\ t \in [record : BindingRecord, ops : SUBSET Work, serial : Nat,
                receipts : SUBSET [key : NoteKeys, ends : Nat]]
      /\ t.record = left /\ t.ops = ops /\ t.serial = s.serial
  BY <1>1, <1>2, <1>4 DEF StoreKnown
<1>6. CASE left = s.record
  BY <1>3, <1>5, <1>6 DEF StoreKnown, OpsKnown, PermissionsKnown
<1>7. CASE left = Absent /\ s.record.reg = "removed"
  <2>1. s.record.op = 0 /\ left.op = 0 /\ left.reg = "none"
    BY <1>7 DEF StoreKnown, RecordKnown, Absent
  <2>2. a = {} /\ n = 0
    BY <2>1, <1>7 DEF StoreKnown, PermissionsKnown
  <2>3. OpsKnown(t, a, h, n)
    BY <2>1, <1>3, <1>5 DEF StoreKnown, OpsKnown
  <2>4. PermissionsKnown(t, a, h, n)
    BY <2>1, <2>2, <1>5 DEF StoreKnown, PermissionsKnown
  <2> QED
    BY <2>3, <2>4, <1>2, <1>3, <1>5, <1>7 DEF StoreKnown
<1> QED
  BY <1>2, <1>6, <1>7

\* A note of what the host saw begins nothing and permits nothing.
LEMMA NotedKept ==
    ASSUME NEW s, NEW a, NEW h, NEW n, StoreKnown(s, a, h, n), window \in 0..MaxWindows,
           NEW c \in Notes, c.kind = "note", NEW t, t = Noted(s, c)
    PROVE  StoreKnown(t, a, h, n) /\ Remembers(s, t)
<1> DEFINE old == s.record
           fresh == IF old = Absent THEN [old EXCEPT !.reg = "not_attempted"] ELSE old
           next == [fresh EXCEPT !.rev = @ + 1, !.intent = c.intent, !.waiting = c.waiting]
           new == IF old = Absent THEN next ELSE Dated(next)
<1>1. t = [s EXCEPT !.record = new]
  BY DEF Noted
<1>2. c.intent \in {"enabled", "stopped"} /\ c.waiting \in BOOLEAN
  BY DEF Notes
<1>3. old \in BindingRecord /\ RecordKnown(old)
  BY DEF StoreKnown
<1>4. /\ fresh \in BindingRecord /\ fresh.op = old.op /\ fresh.ends = old.ends
      /\ fresh.reg = IF old.reg = "none" THEN "not_attempted" ELSE old.reg
  BY <1>3 DEF BindingRecord, Registrations, RecordKnown
<1> HIDE DEF fresh
<1>5. /\ next \in BindingRecord /\ next.op = old.op /\ next.ends = old.ends
      /\ next.reg = fresh.reg
  <2>1. PICK v \in Nat : v = fresh.rev + 1
    BY <1>4 DEF BindingRecord
  <2>2. next = [fresh EXCEPT !.rev = v, !.intent = c.intent, !.waiting = c.waiting]
    BY <2>1
  <2> QED
    BY <2>2, <1>2, <1>4 DEF BindingRecord
<1> HIDE DEF next
<1>6. /\ new \in BindingRecord /\ new.op = old.op /\ new.reg = fresh.reg
      /\ new.ends <= MaxWindows => new.reg = "removed"
  BY <1>3, <1>4, <1>5, DatedRecord DEF RecordKnown, Absent
<1> HIDE DEF new
<1> QED
  BY <1>1, <1>4, <1>6, RecordChanges

\* A begun operation is the only one in flight, and may be permitted once.
LEMMA StartedKept ==
    ASSUME NEW s, NEW a, NEW h, NEW n, StoreKnown(s, a, h, n), window \in 0..MaxWindows,
           NEW c \in Notes, c.kind = "begin", NEW t, t = Started(s, c),
           s.record.op = 0, Allowed(s.record, c), \A o \in s.ops : o.key # c.key,
           NEW b, b \in {a, a \cup {s.serial + 1}}
    PROVE  StoreKnown(t, b, h, n) /\ Remembers(s, t)
<1>1. PICK id \in Nat, rev \in Nat : id = s.serial + 1 /\ rev = s.record.rev + 1
  BY DEF StoreKnown, BindingRecord
<1> DEFINE begun == [id |-> s.serial + 1, key |-> c.key, do |-> c.do,
                     status |-> "in_flight", ends |-> Forever]
           ops == s.ops \cup {begun}
           next == [s.record EXCEPT !.rev = @ + 1, !.reg = "attempt_in_flight",
                                    !.op = s.serial + 1]
           new == Dated(next)
<1>2. t = [s EXCEPT !.serial = s.serial + 1, !.ops = ops, !.record = new]
  BY DEF Started
<1>3. begun \in Work /\ ops \in SUBSET Work
  BY <1>1, HostAssumption DEF StoreKnown, Notes, Work, Forever
<1>4. next \in BindingRecord /\ next.reg = "attempt_in_flight" /\ next.op = id
  <2>1. next = [s.record EXCEPT !.rev = rev, !.reg = "attempt_in_flight", !.op = id]
    BY <1>1
  <2> QED
    BY <2>1 DEF StoreKnown, BindingRecord, Registrations
<1> HIDE DEF next
<1>5. /\ new \in BindingRecord /\ new.reg = "attempt_in_flight" /\ new.op = id
      /\ ~(new.ends <= MaxWindows)
  BY <1>4, DatedRecord
<1>6. /\ begun.id = id /\ begun.key = c.key /\ begun.do = c.do
      /\ begun.status = "in_flight" /\ ops = s.ops \cup {begun}
  BY <1>1
<1> HIDE DEF new, begun, ops
<1>7. /\ t \in [record : BindingRecord, ops : SUBSET Work, serial : Nat,
                receipts : SUBSET [key : NoteKeys, ends : Nat]]
      /\ t.record = new /\ t.ops = s.ops \cup {begun} /\ t.serial = id
  <2>1. t = [s EXCEPT !.serial = id, !.ops = ops, !.record = new]
    BY <1>1, <1>2
  <2> QED
    BY <2>1, <1>3, <1>5, <1>6 DEF StoreKnown
<1>8. /\ s.record.reg \in {"not_attempted", "registered"}
      /\ c.do = "create" => s.record.reg = "not_attempted"
  BY DEF Allowed
<1>9. /\ a = {} /\ h \subseteq 1..s.serial
      /\ \A o \in s.ops : o.id \in 1..s.serial /\ o.status # "in_flight"
      /\ c.do = "create" => n = 0
  BY <1>8 DEF StoreKnown, OpsKnown, PermissionsKnown
<1>10. b \subseteq {id} /\ id \notin h /\ \A o \in s.ops : o.id # id /\ o.id \in 1..id
  <2>1. s.serial \in Nat
    BY DEF StoreKnown
  <2>2. \A i \in 1..s.serial : i # id /\ i \in 1..id
    BY <2>1, <1>1
  <2> QED
    BY <2>2, <1>1, <1>9
<1>11. OpsKnown(t, b, h, n)
  <2>1. \A o, p \in t.ops : o.id = p.id \/ o.key = p.key => o = p
    BY <1>6, <1>7, <1>10 DEF StoreKnown, OpsKnown
  <2>2. ASSUME NEW o \in s.ops
        PROVE  /\ o.id \in 1..id /\ (o.status = "in_flight" <=> o.id = id)
               /\ o.id \notin b /\ (o.do = "remove" /\ o.status = "in_flight" => FALSE)
    BY <1>9, <1>10
  <2>3. /\ id \in 1..id
        /\ begun.do = "create" => n = 0
    BY <1>1, <1>6, <1>9, <1>10 DEF StoreKnown
  <2> QED
    BY <2>1, <2>2, <2>3, <1>5, <1>6, <1>7, <1>10 DEF OpsKnown
<1>12. RecordKnown(t.record)
  BY <1>1, <1>5, <1>7 DEF StoreKnown, RecordKnown, Absent
<1>13. PermissionsKnown(t, b, h, n)
  <2>1. b \cup h \subseteq 1..id /\ b \cap h = {}
    BY <1>1, <1>9, <1>10 DEF StoreKnown
  <2>2. n \in 0..1
    BY DEF StoreKnown, PermissionsKnown
  <2> QED
    BY <2>1, <2>2, <1>5, <1>7, <1>10 DEF PermissionsKnown
<1>14. Remembers(s, t)
  BY <1>5, <1>7 DEF Remembers
<1> QED
  BY <1>7, <1>11, <1>12, <1>13, <1>14 DEF StoreKnown

\* A settled operation is not in flight; a success leaves no permission behind.
LEMMA SettledKept ==
    ASSUME NEW s, NEW a, NEW h, NEW n, StoreKnown(s, a, h, n), window \in 0..MaxWindows,
           NEW c \in Notes, c.kind = "settle", NEW o \in s.ops, NEW t, t = Settled(s, o, c),
           o.id = c.op, s.record.op = c.op, o.status = "in_flight",
           c.status = "succeeded" => c.op \in h
    PROVE  StoreKnown(t, a, h, n) /\ Remembers(s, t)
<1>1. PICK rev \in Nat, end \in Nat : rev = s.record.rev + 1 /\ end = window + 1
  BY HostAssumption DEF StoreKnown, BindingRecord
<1> DEFINE r == [s.record EXCEPT !.rev = rev, !.op = 0]
           next == IF c.status = "ambiguous"
                   THEN [r EXCEPT !.reg = "ambiguous", !.life = "ambiguous"]
                   ELSE IF o.do = "remove" THEN [r EXCEPT !.reg = "removed", !.life = "removed"]
                   ELSE [r EXCEPT !.reg = "registered", !.life = c.life]
           new == Dated(next)
           over == [o EXCEPT !.status = c.status, !.ends = end]
           ops == (s.ops \ {o}) \cup {over}
<1>2. t = [s EXCEPT !.ops = ops, !.record = new]
  BY <1>1 DEF Settled
<1>3. /\ c.status \in {"succeeded", "ambiguous"}
      /\ c.life \in {"unchecked", "verified", "removed"}
  BY DEF Notes
<1>4. r \in BindingRecord /\ r.op = 0
  BY DEF StoreKnown, BindingRecord
<1> HIDE DEF r
<1>5. /\ next \in BindingRecord /\ next.op = 0
      /\ next.reg = IF c.status = "ambiguous" THEN "ambiguous"
                    ELSE IF o.do = "remove" THEN "removed" ELSE "registered"
  BY <1>3, <1>4 DEF BindingRecord, Registrations
<1> HIDE DEF next
<1>6. /\ new \in BindingRecord /\ new.op = 0 /\ new.reg = next.reg
      /\ new.ends <= MaxWindows => new.reg = "removed"
  BY <1>5, DatedRecord
<1> HIDE DEF new
<1>7. /\ over \in Work /\ over.id = o.id /\ over.key = o.key /\ over.do = o.do
      /\ over.status # "in_flight"
  BY <1>3 DEF StoreKnown, Work
<1>16. ops \in SUBSET Work /\ ops = (s.ops \ {o}) \cup {over}
  BY <1>7 DEF StoreKnown
<1> HIDE DEF over, ops
<1>8. /\ t \in [record : BindingRecord, ops : SUBSET Work, serial : Nat,
                receipts : SUBSET [key : NoteKeys, ends : Nat]]
      /\ t.record = new /\ t.ops = (s.ops \ {o}) \cup {over} /\ t.serial = s.serial
  BY <1>2, <1>6, <1>16 DEF StoreKnown
<1>9. /\ o.id \in 1..s.serial /\ s.record.op # 0 /\ s.record.reg = "attempt_in_flight"
      /\ \A p \in s.ops : p # o => p.id # o.id /\ p.key # o.key /\ p.status # "in_flight"
  BY DEF StoreKnown, OpsKnown, RecordKnown
<1>10. \A i \in a : i = o.id
  BY <1>9 DEF StoreKnown, PermissionsKnown
<1>11. c.status = "succeeded" => a = {} /\ (o.do = "remove" => n = 0)
  BY <1>10 DEF StoreKnown, PermissionsKnown, OpsKnown
<1>12. OpsKnown(t, a, h, n)
  <2>1. \A p, q \in t.ops : p.id = q.id \/ p.key = q.key => p = q
    BY <1>7, <1>8, <1>9 DEF StoreKnown, OpsKnown
  <2>2. ASSUME NEW p \in s.ops, p # o
        PROVE  /\ p.id \in 1..s.serial /\ p.status # "in_flight" /\ p.id # 0
               /\ p.do = "create" /\ p.id \in a => n = 0
    BY <2>2, <1>9 DEF StoreKnown, OpsKnown
  <2>3. /\ over.id \in 1..s.serial /\ over.id # 0
        /\ over.do = "create" /\ over.id \in a => n = 0
    BY <1>7, <1>9 DEF StoreKnown, OpsKnown
  <2> QED
    BY <2>1, <2>2, <2>3, <1>6, <1>7, <1>8 DEF OpsKnown
<1>13. RecordKnown(t.record)
  BY <1>3, <1>5, <1>6, <1>8 DEF RecordKnown, Absent
<1>14. PermissionsKnown(t, a, h, n)
  <2>1. \A i \in a : new.reg = "ambiguous"
    BY <1>3, <1>5, <1>6, <1>11
  <2>2. n > 0 => new.reg \in {"registered", "ambiguous"}
    BY <1>3, <1>5, <1>6, <1>11 DEF StoreKnown, PermissionsKnown
  <2> QED
    BY <2>1, <2>2, <1>8 DEF StoreKnown, PermissionsKnown
<1>15. Remembers(s, t)
  BY <1>5, <1>6, <1>7, <1>8 DEF Remembers
<1> QED
  BY <1>8, <1>12, <1>13, <1>14, <1>15 DEF StoreKnown

\* The host task uses up the one permission there is.
LEMMA AttemptKept ==
    ASSUME HostInv, NEW i \in attempts, Attempt(i)
    PROVE  StoreKnown(ledger, attempts', done', automations')
<1> DEFINE s == ledger
           n == automations
<1>1. /\ StoreKnown(s, attempts, done, n) /\ i \in 1..s.serial /\ attempts = {i}
      /\ i \notin done
  BY DEF HostInv, StoreKnown, PermissionsKnown
<1>2. PICK o \in s.ops :
        /\ o.id = i
        /\ automations' = CASE o.do = "create" -> n + 1
                            [] o.do = "remove" -> 0
                            [] OTHER -> n
  BY DEF Attempt, OpOf
<1>3. /\ o.do = "create" => n = 0 /\ automations' = 1
      /\ o.do = "remove" => automations' = 0
      /\ o.do \notin {"create", "remove"} => automations' = n
      /\ n \in 0..1
  BY <1>1, <1>2 DEF StoreKnown, OpsKnown, PermissionsKnown
<1>4. attempts' = {} /\ done' = done \cup {i}
  BY <1>1 DEF Attempt
<1>5. s.record.reg \in {"attempt_in_flight", "ambiguous"}
  BY <1>1 DEF StoreKnown, PermissionsKnown, RecordKnown
<1>6. ASSUME NEW p \in s.ops, p.do = "remove", p.status = "in_flight", p.id \in done'
      PROVE  automations' = 0
  <2>1. p.id = s.record.op /\ p.id # 0
    BY <1>1, <1>6 DEF StoreKnown, OpsKnown
  <2>2. p.id = i
    BY <2>1, <1>1 DEF StoreKnown, PermissionsKnown, RecordKnown
  <2>3. p = o
    BY <2>2, <1>1, <1>2 DEF StoreKnown, OpsKnown
  <2> QED
    BY <2>3, <1>3, <1>6
<1>7. OpsKnown(s, attempts', done', automations')
  BY <1>1, <1>4, <1>6 DEF StoreKnown, OpsKnown
<1>8. PermissionsKnown(s, attempts', done', automations')
  <2>1. automations' \in 0..1
    BY <1>3
  <2> QED
    BY <2>1, <1>1, <1>4, <1>5 DEF StoreKnown, PermissionsKnown
<1> QED
  BY <1>1, <1>7, <1>8 DEF StoreKnown

\* A method works on what the sweep left, of which it forgets nothing that matters.
LEMMA SweptThenKept ==
    ASSUME NEW s, NEW t, NEW u, NEW a, NEW h, NEW n, StoreKnown(s, a, h, n),
           window \in 0..MaxWindows, t = Lapsed(s), Remembers(t, u)
    PROVE  Remembers(s, u)
  BY SweepKept DEF Remembers

\* What a method does to the journal, of the states it can meet.
LEMMA MethodKept ==
    ASSUME HostInv, NEW k \in NoteKeys, Note(k) \/ BeginWork(k) \/ SettleWork(k)
    PROVE  StoreKnown(ledger', attempts', done, automations) /\ Remembers(ledger, ledger')
<1> DEFINE s == Lapsed(ledger)
           c == note[k]
           a == attempts
           h == done
           n == automations
<1>1. /\ StoreKnown(ledger, a, h, n) /\ window \in 0..MaxWindows /\ StoreKnown(s, a, h, n)
      /\ c \in {NoNote} \cup Notes
  BY SweepKept DEF HostInv, HostTypeOK
<1>2. /\ c.kind = "note" => c \in Notes
      /\ c.kind = "begin" => c \in Notes
      /\ c.kind = "settle" => c \in Notes
  BY <1>1 DEF NoNote
<1>3. \A u : Remembers(s, u) => Remembers(ledger, u)
  BY <1>1, SweptThenKept
<1>4. Remembers(s, s)
  BY DEF Remembers
<1>5. \A t : StoreKnown(t, a, h, n) =>
               /\ StoreKnown(Receipted(t, k), a, h, n)
               /\ Receipted(t, k).ops = t.ops /\ Receipted(t, k).record = t.record
  BY <1>1, ReceiptKept
<1> HIDE DEF s
<1>6. CASE Note(k)
  <2>1. attempts' = a /\ c.kind = "note" /\ ledger' \in {s, Receipted(Noted(s, c), k)}
    BY <1>6 DEF Note, Arrives, s
  <2>2. StoreKnown(Noted(s, c), a, h, n) /\ Remembers(s, Noted(s, c))
    BY <2>1, <1>1, <1>2, NotedKept
  <2> QED
    BY <2>1, <2>2, <1>1, <1>3, <1>4, <1>5 DEF Remembers
<1>7. CASE BeginWork(k)
  <2>1. c.kind = "begin" /\ c \in Notes
    BY <1>2, <1>7 DEF BeginWork, Arrives
  <2>2. CASE attempts' = a /\ ledger' \in {s, Receipted(s, k)}
    BY <2>2, <1>1, <1>3, <1>4, <1>5 DEF Remembers
  <2>3. CASE /\ s.record.op = 0 /\ Allowed(s.record, c) /\ \A o \in s.ops : o.key # c.key
             /\ ledger' = Receipted(Started(s, c), k) /\ Permits(s.serial + 1)
    <3>1. StoreKnown(Started(s, c), attempts', h, n) /\ Remembers(s, Started(s, c))
      BY <2>1, <2>3, <1>1, StartedKept DEF Permits
    <3>2. /\ StoreKnown(ledger', attempts', h, n)
          /\ ledger'.ops = Started(s, c).ops /\ ledger'.record = Started(s, c).record
      BY <3>1, <2>3, <1>1, ReceiptKept
    <3> QED
      BY <3>1, <3>2, <1>3 DEF Remembers
  <2> QED
    BY <2>2, <2>3, <1>7 DEF BeginWork, Replay, s
<1>8. CASE SettleWork(k)
  <2>1. c.kind = "settle" /\ c \in Notes /\ attempts' = a
    BY <1>2, <1>8 DEF SettleWork, Arrives
  <2>2. CASE ledger' = s
    BY <2>1, <2>2, <1>1, <1>3, <1>4
  <2>3. ASSUME NEW o \in s.ops, o.id = c.op, s.record.op = c.op, o.status = "in_flight",
               ledger' = Receipted(Settled(s, o, c), k)
        PROVE  StoreKnown(ledger', attempts', done, automations) /\ Remembers(ledger, ledger')
    <3>1. c.status = "succeeded" => c.op \in h
      BY <2>1 DEF HostInv, NotesKnown
    <3>2. StoreKnown(Settled(s, o, c), a, h, n) /\ Remembers(s, Settled(s, o, c))
      BY <3>1, <2>1, <2>3, <1>1, SettledKept
    <3> QED
      BY <3>2, <2>1, <2>3, <1>3, <1>5 DEF Remembers
  <2> QED
    BY <2>2, <2>3, <1>8 DEF SettleWork, OpOf, s
<1> QED
  BY <1>6, <1>7, <1>8

\* An empty journal knows everything.
LEMMA HostStarts ==
    ASSUME HostInit PROVE HostInv
<1>1. Absent \in BindingRecord /\ RecordKnown(Absent) /\ Absent.op = 0 /\ Absent.reg = "none"
  BY AbsentRecord DEF Absent
<1>2. NotesKnown
  BY DEF HostInit, NotesKnown, NoNote
<1>3. CASE /\ ledger = [record |-> Absent, ops |-> {}, receipts |-> {}, serial |-> 0]
           /\ automations = 0 /\ done = {}
  <2>1. StoreKnown(ledger, attempts, done, automations)
    BY <1>1, <1>3 DEF HostInit, StoreKnown, OpsKnown, PermissionsKnown
  <2>2. HostTypeOK
    BY <1>1, <1>3, HostAssumption DEF HostInit, HostTypeOK
  <2> QED
    BY <2>1, <2>2, <1>2 DEF HostInv
<1>4. CASE /\ ledger = [record |-> [Absent EXCEPT !.rev = 3, !.reg = "registered"],
                        ops |-> {Created}, receipts |-> {}, serial |-> 1]
           /\ automations = 1 /\ done = {1}
  <2>1. /\ ledger.record \in BindingRecord /\ ledger.record.reg = "registered"
        /\ ledger.record.op = 0 /\ ledger.record.ends = Forever
    BY <1>1, <1>4 DEF BindingRecord, Registrations, Absent
  <2>2. RecordKnown(ledger.record)
    BY <2>1, HostAssumption DEF RecordKnown, Absent, Forever
  <2>3. /\ Created \in Work /\ Created.id = 1 /\ Created.status = "succeeded"
    BY DEF Created, Work, OperationKeys, Works
  <2>4. /\ ledger.ops = {Created} /\ ledger.receipts = {} /\ ledger.serial = 1
        /\ ledger \in [record : BindingRecord, ops : SUBSET Work, serial : Nat,
                       receipts : SUBSET [key : NoteKeys, ends : Nat]]
    BY <2>1, <2>3, <1>4
  <2>5. OpsKnown(ledger, attempts, done, automations)
    BY <2>1, <2>3, <2>4, <1>4 DEF HostInit, OpsKnown
  <2>6. PermissionsKnown(ledger, attempts, done, automations)
    BY <2>1, <2>4, <1>4 DEF HostInit, PermissionsKnown
  <2>7. HostTypeOK
    BY <2>4, <2>3, <1>4, HostAssumption DEF HostInit, HostTypeOK
  <2> QED
    BY <2>2, <2>4, <2>5, <2>6, <2>7, <1>2 DEF HostInv, StoreKnown
<1> QED
  BY <1>3, <1>4 DEF HostInit

\* The type of the journal is part of what is known of it.
LEMMA JournalTyped ==
    ASSUME window \in 0..MaxWindows, note \in [NoteKeys -> {NoNote} \cup Notes],
           StoreKnown(ledger, attempts, done, automations), NotesKnown
    PROVE  HostInv
  BY DEF HostInv, HostTypeOK, StoreKnown, OpsKnown, PermissionsKnown

\* What a host task asks is made from the record it reads, and reports what it did.
LEMMA AskKept ==
    ASSUME HostInv, NEW k \in NoteKeys, Ask(k)
    PROVE  HostInv'
<1> DEFINE r == ledger.record
<1>1. r \in BindingRecord /\ note \in [NoteKeys -> {NoNote} \cup Notes]
  BY DEF HostInv, HostTypeOK
<1>2. PICK c \in Notes :
        /\ note' = [note EXCEPT ![k] = c]
        /\ c.kind = "settle" /\ c.status = "succeeded" => c.op \in done
  <2>1. ASSUME NEW intent \in {"enabled", "stopped"}, NEW waiting \in BOOLEAN
        PROVE  [kind |-> "note", rev |-> r.rev, intent |-> intent, waiting |-> waiting] \in Notes
    BY <1>1 DEF BindingRecord, Notes
  <2>2. ASSUME NEW do \in Works, NEW key \in OperationKeys
        PROVE  [kind |-> "begin", rev |-> r.rev, do |-> do, key |-> key] \in Notes
    BY <1>1 DEF BindingRecord, Notes
  <2>3. ASSUME NEW status \in {"succeeded", "ambiguous"},
               NEW life \in {"unchecked", "verified", "removed"}
        PROVE  [kind |-> "settle", rev |-> r.rev, op |-> r.op, status |-> status,
                life |-> life] \in Notes
    BY <1>1 DEF BindingRecord, Notes
  <2> QED
    BY <2>1, <2>2, <2>3 DEF Ask
<1>3. note' \in [NoteKeys -> {NoNote} \cup Notes] /\ NotesKnown'
  BY <1>1, <1>2 DEF Ask, HostInv, NotesKnown
<1>4. UNCHANGED <<window, ledger, attempts, done, automations>>
  BY DEF Ask
<1> QED
  BY <1>3, <1>4 DEF HostInv, HostTypeOK

\* What every step keeps, and what no step forgets.
LEMMA HostStep ==
    ASSUME HostInv, HostNext
    PROVE  HostInv' /\ Remembers(ledger, ledger')
<1>0. /\ window \in 0..MaxWindows /\ note \in [NoteKeys -> {NoNote} \cup Notes]
      /\ StoreKnown(ledger, attempts, done, automations) /\ NotesKnown
  BY DEF HostInv, HostTypeOK
<1>1. Remembers(ledger, ledger)
  BY DEF Remembers
<1>2. ASSUME NEW k \in NoteKeys, Ask(k) PROVE HostInv' /\ Remembers(ledger, ledger')
  <2>1. ledger' = ledger
    BY <1>2 DEF Ask
  <2> QED
    BY <2>1, <1>1, <1>2, AskKept
<1>3. ASSUME NEW k \in NoteKeys, Note(k) \/ BeginWork(k) \/ SettleWork(k)
      PROVE  HostInv' /\ Remembers(ledger, ledger')
  <2>1. UNCHANGED <<window, note, done, automations>>
    BY <1>3 DEF Note, BeginWork, SettleWork
  <2>2. StoreKnown(ledger', attempts', done', automations') /\ Remembers(ledger, ledger')
    BY <2>1, <1>3, MethodKept
  <2>3. window' \in 0..MaxWindows /\ note' \in [NoteKeys -> {NoNote} \cup Notes] /\ NotesKnown'
    BY <2>1, <1>0 DEF NotesKnown
  <2>4. HostTypeOK'
    BY <2>2, <2>3 DEF HostTypeOK, StoreKnown, OpsKnown, PermissionsKnown
  <2> QED
    BY <2>2, <2>3, <2>4 DEF HostInv
<1>4. ASSUME NEW i \in attempts, Attempt(i) PROVE HostInv' /\ Remembers(ledger, ledger')
  <2>1. UNCHANGED <<window, ledger, note>> /\ done \subseteq done'
    BY <1>4 DEF Attempt
  <2>2. StoreKnown(ledger', attempts', done', automations')
    BY <2>1, <1>4, AttemptKept
  <2>3. window' \in 0..MaxWindows /\ note' \in [NoteKeys -> {NoNote} \cup Notes] /\ NotesKnown'
    BY <2>1, <1>0 DEF NotesKnown
  <2>4. HostTypeOK'
    BY <2>2, <2>3 DEF HostTypeOK, StoreKnown, OpsKnown, PermissionsKnown
  <2> QED
    BY <2>1, <2>2, <2>3, <2>4, <1>1 DEF HostInv
<1>5. CASE Reopen
  <2>1. UNCHANGED <<window, note, attempts, done, automations>>
    BY <1>5 DEF Reopen
  <2>2. StoreKnown(ledger', attempts', done', automations')
    BY <2>1, <1>0, <1>5, SweepKept DEF Reopen
  <2>3. Remembers(ledger, ledger')
    BY <1>0, <1>5, SweepKept DEF Reopen, Remembers
  <2>4. window' \in 0..MaxWindows /\ note' \in [NoteKeys -> {NoNote} \cup Notes] /\ NotesKnown'
    BY <2>1, <1>0 DEF NotesKnown
  <2>5. HostTypeOK'
    BY <2>2, <2>4 DEF HostTypeOK, StoreKnown, OpsKnown, PermissionsKnown
  <2> QED
    BY <2>2, <2>3, <2>4, <2>5 DEF HostInv
<1>6. CASE WindowPasses
  <2>1. window' \in 0..MaxWindows
    BY <1>0, <1>6, HostAssumption DEF WindowPasses
  <2> QED
    BY <2>1, <1>1, <1>6 DEF WindowPasses, HostInv, HostTypeOK, NotesKnown
<1> QED
  BY <1>2, <1>3, <1>4, <1>5, <1>6 DEF HostNext

\* One permission at most is one at most to count.
LEMMA OnePermission ==
    ASSUME HostInv PROVE Cardinality(attempts) <= 1
<1>1. \A i, j \in attempts : i = j
  BY DEF HostInv, StoreKnown, PermissionsKnown
<1>2. CASE attempts = {}
  BY <1>2, FS_EmptySet
<1>3. ASSUME NEW i \in attempts PROVE Cardinality(attempts) <= 1
  <2>1. attempts = {i}
    BY <1>1, <1>3
  <2> QED
    BY <2>1, FS_Singleton
<1> QED
  BY <1>2, <1>3

\* The invariant of the journal: every operation and every permission given under it is
\* still accounted for by its record.
THEOREM HostCorrect == HostSpec => []HostInv
<1>1. HostInit => HostInv
  BY HostStarts
<1>2. HostInv /\ [HostNext]_hostVars => HostInv'
  <2>1. HostInv /\ UNCHANGED hostVars => HostInv'
    BY DEF hostVars, HostInv, HostTypeOK, NotesKnown
  <2> QED
    BY <2>1, HostStep
<1> QED
  BY <1>1, <1>2, PTL DEF HostSpec

\* For every number of calls and of windows of thirty days, the journal of a host's
\* automation never permits, and the host never has, a second automation, and nothing that
\* may still happen or have happened is forgotten: recovery.rs, whatever answers are lost,
\* calls repeated and rows swept.
THEOREM AutomationOnce == HostSpec => AutomatedOnce
<1>1. HostInv /\ HostNext =>
        /\ automations <= 1 /\ Cardinality(attempts) <= 1
        /\ \A o \in ledger.ops : o.status # "succeeded" => \E p \in ledger'.ops : p.id = o.id
        /\ automations > 0 \/ attempts # {} => ledger'.record # Absent
  <2> SUFFICES ASSUME HostInv, HostNext
               PROVE  /\ automations <= 1 /\ Cardinality(attempts) <= 1
                      /\ \A o \in ledger.ops :
                           o.status # "succeeded" => \E p \in ledger'.ops : p.id = o.id
                      /\ automations > 0 \/ attempts # {} => ledger'.record # Absent
    OBVIOUS
  <2>1. StoreKnown(ledger, attempts, done, automations) /\ Remembers(ledger, ledger')
    BY HostStep DEF HostInv
  <2>2. automations \in 0..1
    BY <2>1 DEF StoreKnown, PermissionsKnown
  <2>3. automations > 0 \/ attempts # {} => ledger.record.reg \notin {"none", "removed"}
    BY <2>1 DEF StoreKnown, PermissionsKnown, RecordKnown
  <2> QED
    BY <2>1, <2>2, <2>3, OnePermission DEF Remembers, Absent
<1> QED
  BY <1>1, HostCorrect, PTL DEF HostSpec, AutomatedOnce

-----------------------------------------------------------------------------
\* A key, once used, names one request, on disk and on the way to the backend.
RequestKnown(k) ==
    /\ record[k].stage = "absent" <=> record[k].request = NoRequest
    /\ \A i \in 1..Len(wire[k]) : wire[k][i] = record[k].request
    /\ \A i \in 1..Len(executed[k]) : executed[k][i] = record[k].request

\* What the record and the patch journal say of the outcome is true.
OutcomeKnown(k) ==
    /\ record[k].result \/ record[k].expired =>
         record[k].stage = "accepted" /\ executed[k] # <<>>
    /\ journal[k] = "acknowledged" => executed[k] # <<>>
    /\ method[k] # "prepare" => Len(wire[k]) + Len(executed[k]) <= 1 /\ ReplayableUnsent(k)

\* The call that holds the lock of a key has its record in hand, and sends from a record
\* that says so; before that nothing was sent.
CallKnown(c) ==
    LET k == call[c].key
        copy == call[c].copy
        p == call[c].at
    IN p \notin {"idle", "waiting"} =>
         /\ copy.request = call[c].request /\ record[k].request = call[c].request
         /\ copy.result \/ copy.expired => copy.stage = "accepted"
         /\ p \in {"dispatch", "handle", "send", "answer"} =>
              copy.stage \in {"not_dispatched", "dispatch_uncertain"}
         /\ p \in {"dispatch", "handle", "send"} /\ method[k] # "prepare" =>
              wire[k] = <<>> /\ executed[k] = <<>>
         /\ p \in {"handle", "send", "answer"} /\ method[k] # "prepare" => ~Replayable(k)
         /\ p \in {"acknowledge", "complete"} => executed[k] # <<>>
         /\ copy.stage # "absent"

\* What retention has read is still the outcome of its key.
SweepKnown ==
    sweep.on => /\ sweep.copy.result /\ sweep.copy.stage = "accepted"
                /\ sweep.copy.request = record[sweep.key].request
                /\ executed[sweep.key] # <<>>

\* The lock of a key has one holder.
OneHolder ==
    \A c, d \in Callers :
        /\ call[c].at \notin {"idle", "waiting"} /\ call[d].at \notin {"idle", "waiting"}
        /\ call[c].key = call[d].key
        => c = d

OpTyped ==
    /\ method \in [OpKeys -> Methods]
    /\ record \in [OpKeys -> OpRecord]
    /\ journal \in [OpKeys -> {"absent", "submitted", "rejected", "acknowledged"}]
    /\ call \in [Callers -> Call]
    /\ sweep \in [on : BOOLEAN, key : OpKeys, copy : OpRecord]
    /\ wire \in [OpKeys -> Seq(Requests)] /\ executed \in [OpKeys -> Seq(Requests)]
    /\ spent \in [DOMAIN OpLimits -> Nat]

OpInv ==
    /\ OpTyped
    /\ \A k \in OpKeys : RequestKnown(k) /\ OutcomeKnown(k)
    /\ \A c \in Callers : CallKnown(c)
    /\ SweepKnown
    /\ OneHolder

Holds(c) == call[c].at \notin {"idle", "waiting"}
-----------------------------------------------------------------------------
\* Appending an element leaves the others where they are.
LEMMA Longer ==
    ASSUME NEW S, NEW s \in Seq(S), NEW e \in S
    PROVE  /\ Append(s, e) \in Seq(S) /\ Len(Append(s, e)) = Len(s) + 1
           /\ \A i \in 1..Len(s) : Append(s, e)[i] = s[i]
           /\ Append(s, e)[Len(s) + 1] = e /\ Append(s, e) # <<>>
  OBVIOUS

\* Removing an element leaves elements of the sequence, one fewer.
LEMMA Shorter ==
    ASSUME NEW S, NEW s \in Seq(S), NEW i \in 1..Len(s)
    PROVE  /\ RemoveAt(s, i) \in Seq(S) /\ Len(RemoveAt(s, i)) = Len(s) - 1
           /\ \A j \in 1..(Len(s) - 1) : \E m \in 1..Len(s) : RemoveAt(s, i)[j] = s[m]
<1> DEFINE a == SubSeq(s, 1, i - 1)
           b == SubSeq(s, i + 1, Len(s))
<1>1. Len(s) \in Nat /\ \A j \in 1..Len(s) : s[j] \in S
  BY LenProperties, ElementOfSeq
<1>2. /\ a \in Seq(S) /\ Len(a) = i - 1
      /\ \A j \in 1..(i - 1) : a[j] = s[j]
  BY <1>1, SubSeqProperties
<1>3. /\ b \in Seq(S) /\ Len(b) = Len(s) - i
      /\ \A j \in 1..(Len(s) - i) : b[j] = s[i + j]
  <2>1. \A j \in (i + 1)..Len(s) : s[j] \in S
    BY <1>1
  <2>2. /\ b \in Seq(S) /\ Len(b) = (IF i + 1 <= Len(s) THEN Len(s) - (i + 1) + 1 ELSE 0)
        /\ \A j \in 1..(Len(s) - (i + 1) + 1) : b[j] = s[(i + 1) + j - 1]
    BY <2>1, <1>1, SubSeqProperties
  <2> QED
    BY <2>2, <1>1
<1> HIDE DEF a, b
<1>4. /\ a \o b \in Seq(S) /\ Len(a \o b) = Len(s) - 1
      /\ \A j \in 1..(Len(s) - 1) : (a \o b)[j] = IF j <= i - 1 THEN a[j] ELSE b[j - (i - 1)]
  <2>1. /\ a \o b \in Seq(S) /\ Len(a \o b) = Len(a) + Len(b)
        /\ \A j \in 1..Len(a) + Len(b) :
             (a \o b)[j] = IF j <= Len(a) THEN a[j] ELSE b[j - Len(a)]
    BY <1>2, <1>3, ConcatProperties
  <2>2. Len(a) + Len(b) = Len(s) - 1
    BY <1>1, <1>2, <1>3
  <2> QED
    BY <2>1, <2>2, <1>2
<1>5. ASSUME NEW j \in 1..(Len(s) - 1) PROVE \E m \in 1..Len(s) : (a \o b)[j] = s[m]
  <2>1. CASE j <= i - 1
    <3>1. (a \o b)[j] = s[j] /\ j \in 1..Len(s)
      BY <2>1, <1>1, <1>2, <1>4
    <3> QED
      BY <3>1
  <2>2. CASE ~(j <= i - 1)
    <3>1. (a \o b)[j] = b[j - (i - 1)]
      BY <2>2, <1>4
    <3>2. j - (i - 1) \in 1..(Len(s) - i) /\ i + (j - (i - 1)) = j + 1 /\ j + 1 \in 1..Len(s)
      BY <2>2, <1>1
    <3>3. b[j - (i - 1)] = s[i + (j - (i - 1))]
      BY <3>2, <1>3
    <3> QED
      BY <3>1, <3>2, <3>3
  <2> QED
    BY <2>1, <2>2
<1>6. RemoveAt(s, i) = a \o b
  BY DEF RemoveAt, a, b
<1> QED
  BY <1>4, <1>5, <1>6

\* A call at rest, and a key that was never used, are of their types.
LEMMA RestTyped == AtRest \in Call /\ AtRest.at = "idle" /\ NoRecord \in OpRecord
<1>1. (CHOOSE k \in OpKeys : TRUE) \in OpKeys /\ (CHOOSE r \in Requests : TRUE) \in Requests
  BY OpAssumption
<1>2. NoRecord \in OpRecord
  BY DEF NoRecord, OpRecord, Stages
<1> QED
  BY <1>1, <1>2 DEF AtRest, Call, CallPoints

\* Spending a fault is counted.
LEMMA SpendTyped ==
    ASSUME spent \in [DOMAIN OpLimits -> Nat], NEW l \in DOMAIN OpLimits, OpSpend(l)
    PROVE  spent' \in [DOMAIN OpLimits -> Nat]
  BY DEF OpSpend

\* A call that moves on keeps its key, its request and its copy of the record.
LEMMA Moved ==
    ASSUME call \in [Callers -> Call], NEW c \in Callers, NEW p \in CallPoints, Goto(c, p)
    PROVE  /\ call' \in [Callers -> Call]
           /\ call'[c].at = p /\ call'[c].key = call[c].key
           /\ call'[c].request = call[c].request /\ call'[c].copy = call[c].copy
           /\ \A b \in Callers : b # c => call'[b] = call[b]
  BY DEF Goto, Call

\* A request that is on its way or executed has left its name in the record.
LEMMA Named ==
    ASSUME OpInv, NEW k \in OpKeys, wire[k] # <<>> \/ executed[k] # <<>>
    PROVE  record[k].request \in Requests
<1>1. wire[k] \in Seq(Requests) /\ executed[k] \in Seq(Requests)
  BY DEF OpInv, OpTyped
<1>2. CASE wire[k] # <<>>
  <2>1. 1 \in 1..Len(wire[k]) /\ wire[k][1] \in Requests
    BY <1>1, <1>2, EmptySeq, ElementOfSeq
  <2> QED
    BY <2>1 DEF OpInv, RequestKnown
<1>3. CASE executed[k] # <<>>
  <2>1. 1 \in 1..Len(executed[k]) /\ executed[k][1] \in Requests
    BY <1>1, <1>3, EmptySeq, ElementOfSeq
  <2> QED
    BY <2>1 DEF OpInv, RequestKnown
<1> QED
  BY <1>2, <1>3

\* The one call that holds a key changes what belongs to the key.
LEMMA HolderSteps ==
    ASSUME OpInv, NEW c \in Callers, NEW k \in OpKeys,
           OpTyped', method' = method,
           \A j \in OpKeys : j # k => /\ record'[j] = record[j] /\ journal'[j] = journal[j]
                                      /\ wire'[j] = wire[j] /\ executed'[j] = executed[j],
           \A b \in Callers : b # c => call'[b] = call[b],
           call'[c].at \in {"idle", "waiting"} \/ call'[c].key = k,
           \A b \in Callers : b # c /\ Holds(b) => call[b].key # k,
           RequestKnown(k)', OutcomeKnown(k)', CallKnown(c)', SweepKnown'
    PROVE  OpInv'
<1>1. \A j \in OpKeys : RequestKnown(j)'
  BY DEF OpInv, RequestKnown
<1>2. \A j \in OpKeys : OutcomeKnown(j)'
  BY DEF OpInv, OutcomeKnown, ReplayableUnsent, Replayable
<1>3. ASSUME NEW b \in Callers PROVE CallKnown(b)'
  <2>1. CASE b = c
    BY <2>1
  <2>2. CASE b # c
    <3>1. call'[b] = call[b] /\ call[b].key \in OpKeys
      BY <2>2 DEF OpInv, OpTyped, Call
    <3>2. CASE Holds(b)
      <4>1. call[b].key # k
        BY <2>2, <3>2
      <4> QED
        BY <3>1, <4>1 DEF OpInv, CallKnown, Replayable
    <3>3. CASE ~Holds(b)
      BY <3>1, <3>3 DEF CallKnown, Holds
    <3> QED
      BY <3>2, <3>3
  <2> QED
    BY <2>1, <2>2
<1>4. OneHolder'
  BY DEF OpInv, OneHolder, Holds
<1> QED
  BY <1>1, <1>2, <1>3, <1>4 DEF OpInv

\* A call that is refused, or gives up, or waits, changes nothing that is known.
LEMMA CallRests ==
    ASSUME OpInv, NEW c \in Callers, NEW v \in Call, v.at \in {"idle", "waiting"},
           call' = [call EXCEPT ![c] = v], spent' \in [DOMAIN OpLimits -> Nat],
           UNCHANGED <<method, record, journal, sweep, wire, executed>>
    PROVE  OpInv'
<1>1. \A b \in Callers : Holds(b)' => b # c /\ call'[b] = call[b]
  BY DEF OpInv, OpTyped, Holds
<1>2. OpTyped'
  BY DEF OpInv, OpTyped
<1>3. \A k \in OpKeys : RequestKnown(k)' /\ OutcomeKnown(k)'
  BY DEF OpInv, RequestKnown, OutcomeKnown, ReplayableUnsent, Replayable
<1>4. \A b \in Callers : CallKnown(b)'
  BY <1>1 DEF OpInv, CallKnown, Holds, Replayable
<1>5. SweepKnown'
  BY DEF OpInv, SweepKnown
<1>6. OneHolder'
  BY <1>1 DEF OpInv, OneHolder, Holds
<1> QED
  BY <1>2, <1>3, <1>4, <1>5, <1>6 DEF OpInv

\* No key was used, and no call is made, at first.
LEMMA OpStarts ==
    ASSUME OpInit PROVE OpInv
<1>1. OpTyped
  <2>1. <<>> \in Seq(Requests)
    BY EmptySeq
  <2>2. sweep \in [on : BOOLEAN, key : OpKeys, copy : OpRecord]
    BY RestTyped DEF OpInit, Call
  <2> QED
    BY <2>1, <2>2, RestTyped DEF OpInit, OpTyped
<1>2. \A k \in OpKeys : RequestKnown(k) /\ OutcomeKnown(k)
  BY EmptySeq DEF OpInit, RequestKnown, OutcomeKnown, ReplayableUnsent, NoRecord
<1>3. \A c \in Callers : CallKnown(c)
  BY RestTyped DEF OpInit, CallKnown
<1>4. SweepKnown /\ OneHolder
  BY RestTyped DEF OpInit, SweepKnown, OneHolder
<1> QED
  BY <1>1, <1>2, <1>3, <1>4 DEF OpInv

\* A call that enters, is refused, finds no receipt or gives up.
LEMMA RestKeeps ==
    ASSUME OpInv, NEW c \in Callers,
           \/ \E k \in OpKeys, r \in Requests : Enter(c, k, r)
           \/ Refuse(c) \/ NoReceipt(c) \/ GiveUp(c)
    PROVE  OpInv'
<1>0. spent \in [DOMAIN OpLimits -> Nat] /\ "losses" \in DOMAIN OpLimits
  BY OpAssumption DEF OpInv, OpTyped
<1>1. ASSUME NEW k \in OpKeys, NEW r \in Requests, Enter(c, k, r) PROVE OpInv'
  <2> DEFINE v == [at |-> "waiting", key |-> k, request |-> r, copy |-> NoRecord]
  <2>1. v \in Call /\ v.at = "waiting"
    BY RestTyped DEF Call, CallPoints
  <2>2. /\ call' = [call EXCEPT ![c] = v] /\ spent' = spent
        /\ UNCHANGED <<method, record, journal, sweep, wire, executed>>
    BY <1>1 DEF Enter, local, backend
  <2> HIDE DEF v
  <2> QED
    BY <2>1, <2>2, <1>0, CallRests
<1>2. CASE Refuse(c) \/ NoReceipt(c)
  <2>1. /\ call' = [call EXCEPT ![c] = AtRest] /\ spent' = spent
        /\ UNCHANGED <<method, record, journal, sweep, wire, executed>>
    BY <1>2 DEF Refuse, NoReceipt, Return, local, backend
  <2> QED
    BY <2>1, <1>0, CallRests, RestTyped
<1>3. CASE GiveUp(c)
  <2>1. /\ call' = [call EXCEPT ![c] = AtRest] /\ OpSpend("losses")
        /\ UNCHANGED <<method, record, journal, sweep, wire, executed>>
    BY <1>3 DEF GiveUp, Return, local, backend
  <2> QED
    BY <2>1, <1>0, CallRests, RestTyped, SpendTyped
<1> QED
  BY <1>1, <1>2, <1>3

\* What an action of the call that holds a key may rest on.
LEMMA Holding ==
    ASSUME OpInv, NEW c \in Callers, Holds(c)
    PROVE  /\ call[c] \in Call /\ call[c].key \in OpKeys /\ call[c].copy \in OpRecord
           /\ call[c].request \in Requests /\ CallKnown(c)
           /\ \A b \in Callers : b # c /\ Holds(b) => call[b].key # call[c].key
           /\ RequestKnown(call[c].key) /\ OutcomeKnown(call[c].key)
  BY DEF OpInv, OpTyped, OneHolder, Holds, Call

\* A record that has no outcome, of a key whose request was not sent.
LEMMA OutcomeUnsent ==
    ASSUME NEW k \in OpKeys, OutcomeKnown(k), ~record'[k].result, ~record'[k].expired,
           UNCHANGED <<method, journal, wire, executed>>,
           method[k] # "prepare" => wire[k] = <<>> /\ executed[k] = <<>>
    PROVE  OutcomeKnown(k)'
<1>1. journal'[k] = "acknowledged" => executed'[k] # <<>>
  BY DEF OutcomeKnown
<1>2. method'[k] # "prepare" => Len(wire'[k]) + Len(executed'[k]) <= 1 /\ ReplayableUnsent(k)'
  BY DEF OutcomeKnown, ReplayableUnsent
<1> QED
  BY <1>1, <1>2 DEF OutcomeKnown

\* A call takes the lock of its key when the record proves that nothing was sent.
LEMMA ClaimKeeps ==
    ASSUME OpInv, NEW c \in Callers, Claim(c)
    PROVE  OpInv'
<1> DEFINE k == call[c].key
           r == call[c].request
           fresh == [NoRecord EXCEPT !.stage = "not_dispatched", !.request = r]
<1>1. /\ call[c] \in Call /\ k \in OpKeys /\ r \in Requests /\ call[c].at = "waiting"
      /\ record \in [OpKeys -> OpRecord] /\ call \in [Callers -> Call]
      /\ RequestKnown(k) /\ OutcomeKnown(k)
      /\ wire[k] \in Seq(Requests) /\ executed[k] \in Seq(Requests)
  BY DEF OpInv, OpTyped, Call, Claim, Acquire, On
<1>2. \A b \in Callers : b # c /\ Holds(b) => call[b].key # k
  BY DEF Claim, Acquire, Holder, Sharers, Holds, KeyOf
<1>3. /\ record[k].request \in {NoRequest, r}
      /\ record' = [record EXCEPT ![k] = fresh]
      /\ call' = [call EXCEPT ![c].at = "dispatch", ![c].copy = fresh]
      /\ UNCHANGED <<method, journal, sweep, wire, executed, spent>>
  BY DEF Claim, Acquire, KeyOf, local, backend
<1>4. /\ fresh.stage = "not_dispatched" /\ fresh.request = r /\ ~fresh.result /\ ~fresh.expired
      /\ fresh \in OpRecord
  BY <1>1 DEF NoRecord, OpRecord, Stages
<1> HIDE DEF fresh
<1>5. record'[k] = fresh /\ \A j \in OpKeys : j # k => record'[j] = record[j]
  BY <1>1, <1>3
<1>6. /\ call' \in [Callers -> Call]
      /\ call'[c].at = "dispatch" /\ call'[c].key = k /\ call'[c].request = r
      /\ call'[c].copy = fresh
      /\ \A b \in Callers : b # c => call'[b] = call[b]
  BY <1>1, <1>3, <1>4 DEF Call, CallPoints
<1>7. OpTyped'
  BY <1>3, <1>4, <1>6 DEF OpInv, OpTyped
<1>8. wire[k] # <<>> \/ executed[k] # <<>> => record[k].request = r
  BY <1>1, <1>3, Named, OpAssumption
<1>9. RequestKnown(k)'
  <2>1. \A i \in 1..Len(wire[k]) : wire[k][i] = r
    BY <1>1, <1>8, EmptySeq DEF RequestKnown
  <2>2. \A i \in 1..Len(executed[k]) : executed[k][i] = r
    BY <1>1, <1>8, EmptySeq DEF RequestKnown
  <2> QED
    BY <2>1, <2>2, <1>1, <1>3, <1>4, <1>5, OpAssumption DEF RequestKnown
<1>10. method[k] # "prepare" => wire[k] = <<>> /\ executed[k] = <<>>
  <2>1. \/ record[k].stage \in {"absent", "not_dispatched"}
        \/ record[k].stage = "rejected"
    BY DEF Claim, Unsent, KeyOf
  <2> QED
    BY <2>1, <1>1 DEF OutcomeKnown, ReplayableUnsent, Replayable
<1>11. OutcomeKnown(k)'
  BY <1>1, <1>3, <1>4, <1>5, <1>10, OutcomeUnsent
<1>12. CallKnown(c)'
  BY <1>3, <1>4, <1>5, <1>6, <1>10 DEF CallKnown
<1>13. SweepKnown'
  <2>1. sweep.on /\ sweep.key = k => record[k].request = r
    BY <1>8 DEF OpInv, SweepKnown
  <2>2. sweep.key \in OpKeys
    BY DEF OpInv, OpTyped
  <2> QED
    BY <2>1, <2>2, <1>3, <1>4, <1>5 DEF OpInv, SweepKnown
<1> QED
  BY <1>1, <1>2, <1>3, <1>5, <1>6, <1>7, <1>9, <1>11, <1>12, <1>13, HolderSteps

\* A caller that only reads what became of an earlier call.
LEMMA ObserveKeeps ==
    ASSUME OpInv, NEW c \in Callers, Observe(c)
    PROVE  OpInv'
<1> DEFINE k == call[c].key
           r == call[c].request
           p == ObservedAt(c)
<1>1. /\ call[c] \in Call /\ k \in OpKeys /\ r \in Requests /\ call[c].at = "waiting"
      /\ record \in [OpKeys -> OpRecord] /\ call \in [Callers -> Call]
      /\ RequestKnown(k) /\ OutcomeKnown(k)
      /\ spent \in [DOMAIN OpLimits -> Nat]
      /\ UNCHANGED <<method, record, journal, sweep, wire, executed, spent>>
  BY DEF OpInv, OpTyped, Call, Observe, Acquire, On, local, backend
<1>2. \A b \in Callers : b # c /\ Holds(b) => call[b].key # k
  BY DEF Observe, Acquire, Holder, Sharers, Holds, KeyOf
<1>3. p \in {"idle", "receipt", "complete"}
  BY DEF ObservedAt
<1>4. p = "complete" => record[k].result \/ journal[k] = "acknowledged"
  BY DEF ObservedAt, KeyOf
<1> HIDE DEF p
<1>5. CASE p = "idle"
  <2>1. call' = [call EXCEPT ![c] = AtRest]
    BY <1>5 DEF Observe, Return, p
  <2> QED
    BY <2>1, <1>1, CallRests, RestTyped
<1>6. CASE p # "idle"
  <2>1. call' = [call EXCEPT ![c].at = p, ![c].copy = record[k]]
    BY <1>6 DEF Observe, KeyOf, p
  <2>2. /\ call' \in [Callers -> Call]
        /\ call'[c].at = p /\ call'[c].key = k /\ call'[c].request = r
        /\ call'[c].copy = record[k]
        /\ \A b \in Callers : b # c => call'[b] = call[b]
    BY <2>1, <1>1, <1>3 DEF Call, CallPoints
  <2>3. OpTyped'
    BY <2>2, <1>1 DEF OpInv, OpTyped
  <2>4. RequestKnown(k)' /\ OutcomeKnown(k)' /\ SweepKnown'
    <3>1. RequestKnown(k)'
      BY <1>1, <2>2 DEF RequestKnown
    <3>2. OutcomeKnown(k)'
      BY <1>1, <2>2 DEF OutcomeKnown, ReplayableUnsent, Replayable
    <3>3. SweepKnown'
      BY <1>1 DEF OpInv, SweepKnown
    <3> QED
      BY <3>1, <3>2, <3>3
  <2>5. record[k].stage \notin {"absent", "not_dispatched"}
    BY DEF Observe, Unsent, KeyOf
  <2>6. record[k].request = r
    BY <2>5, <1>1 DEF Observe, Acquire, KeyOf, RequestKnown
  <2>7. p = "complete" => executed[k] # <<>>
    BY <1>1, <1>4 DEF OutcomeKnown
  <2>8. CallKnown(c)'
    BY <2>2, <2>5, <2>6, <2>7, <1>1, <1>3, <1>6 DEF CallKnown, OutcomeKnown
  <2> QED
    BY <2>2, <2>3, <2>4, <2>8, <1>1, <1>2, HolderSteps
<1> QED
  BY <1>5, <1>6

\* Whatever the holder does to its record alone, in the order of dispatch_body.
LEMMA MarkKeeps ==
    ASSUME OpInv, NEW c \in Callers, MarkDispatch(c)
    PROVE  OpInv'
<1> DEFINE k == call[c].key
           copy == call[c].copy
           marked == [copy EXCEPT !.stage = "dispatch_uncertain"]
<1>1. Holds(c) /\ call[c].at = "dispatch"
  BY DEF MarkDispatch, On, Holds
<1>2. /\ call[c] \in Call /\ k \in OpKeys /\ copy \in OpRecord /\ CallKnown(c)
      /\ \A b \in Callers : b # c /\ Holds(b) => call[b].key # k
      /\ RequestKnown(k) /\ OutcomeKnown(k) /\ call[c].request \in Requests
  BY <1>1, Holding
<1>3. /\ record \in [OpKeys -> OpRecord] /\ call \in [Callers -> Call]
      /\ record' = [record EXCEPT ![k] = marked]
      /\ call' = [call EXCEPT ![c].at = "handle", ![c].copy = marked]
      /\ UNCHANGED <<method, journal, sweep, wire, executed, spent>>
  BY DEF OpInv, OpTyped, MarkDispatch, KeyOf, backend
<1>4. /\ marked \in OpRecord /\ marked.stage = "dispatch_uncertain"
      /\ marked.request = copy.request
      /\ marked.result = copy.result /\ marked.expired = copy.expired
  BY <1>2 DEF OpRecord, Stages
<1> HIDE DEF marked
<1>5. record'[k] = marked /\ \A j \in OpKeys : j # k => record'[j] = record[j]
  BY <1>2, <1>3
<1>6. /\ call' \in [Callers -> Call]
      /\ call'[c].at = "handle" /\ call'[c].key = k /\ call'[c].request = call[c].request
      /\ call'[c].copy = marked
      /\ \A b \in Callers : b # c => call'[b] = call[b]
  BY <1>2, <1>3, <1>4 DEF Call, CallPoints
<1>7. OpTyped'
  BY <1>3, <1>4, <1>6 DEF OpInv, OpTyped
<1>8. /\ copy.request = call[c].request /\ record[k].request = call[c].request
      /\ ~copy.result /\ ~copy.expired
      /\ method[k] # "prepare" => wire[k] = <<>> /\ executed[k] = <<>>
  BY <1>1, <1>2 DEF CallKnown
<1>9. RequestKnown(k)'
  BY <1>2, <1>3, <1>4, <1>5, <1>8, OpAssumption DEF RequestKnown
<1>10. OutcomeKnown(k)'
  BY <1>2, <1>3, <1>4, <1>5, <1>8, OutcomeUnsent
<1>11. CallKnown(c)'
  BY <1>3, <1>4, <1>5, <1>6, <1>8 DEF CallKnown, Replayable
<1>12. SweepKnown'
  <2>1. sweep.key \in OpKeys
    BY DEF OpInv, OpTyped
  <2> QED
    BY <2>1, <1>3, <1>4, <1>5, <1>8 DEF OpInv, SweepKnown
<1> QED
  BY <1>2, <1>3, <1>5, <1>6, <1>7, <1>9, <1>10, <1>11, <1>12, HolderSteps


\* The answer was denied to the account that asked: the record is as before the dispatch.
LEMMA DenyKeeps ==
    ASSUME OpInv, NEW c \in Callers, Deny(c)
    PROVE  OpInv'
<1> DEFINE copy == call[c].copy
           denied == [copy EXCEPT !.stage = "not_dispatched"]
<1>1. PICK k \in OpKeys : k = call[c].key /\ method[k] = "prepare" /\ Holds(c)
  BY DEF Deny, On, Holds, MethodOf, KeyOf, OpInv, OpTyped, Call
<1>2. /\ call[c] \in Call /\ copy \in OpRecord /\ CallKnown(c) /\ call[c].request \in Requests
      /\ \A b \in Callers : b # c /\ Holds(b) => call[b].key # k
      /\ RequestKnown(k) /\ OutcomeKnown(k)
  BY <1>1, Holding
<1>3. /\ record \in [OpKeys -> OpRecord] /\ call \in [Callers -> Call]
      /\ record' = [record EXCEPT ![k] = denied]
      /\ call' = [call EXCEPT ![c] = AtRest] /\ OpSpend("denials")
      /\ copy.stage = "dispatch_uncertain"
      /\ UNCHANGED <<method, journal, sweep, wire, executed>>
  BY <1>1 DEF OpInv, OpTyped, Deny, WriteBack, Return, KeyOf, backend
<1>4. /\ denied \in OpRecord /\ denied.stage = "not_dispatched"
      /\ denied.request = copy.request
      /\ denied.result = copy.result /\ denied.expired = copy.expired
  BY <1>2 DEF OpRecord, Stages
<1> HIDE DEF denied
<1>5. record'[k] = denied /\ \A j \in OpKeys : j # k => record'[j] = record[j]
  BY <1>3
<1>6. /\ call' \in [Callers -> Call] /\ call'[c].at = "idle"
      /\ \A b \in Callers : b # c => call'[b] = call[b]
  BY <1>3, RestTyped
<1>7. OpTyped'
  <2>1. spent' \in [DOMAIN OpLimits -> Nat]
    BY <1>3, SpendTyped, OpAssumption DEF OpInv, OpTyped
  <2> QED
    BY <2>1, <1>3, <1>4, <1>6 DEF OpInv, OpTyped
<1>8. /\ copy.request = call[c].request /\ record[k].request = call[c].request
      /\ ~copy.result /\ ~copy.expired
  BY <1>1, <1>2, <1>3 DEF CallKnown, Holds
<1>9. RequestKnown(k)'
  BY <1>2, <1>3, <1>4, <1>5, <1>8, OpAssumption DEF RequestKnown
<1>10. OutcomeKnown(k)'
  BY <1>1, <1>2, <1>3, <1>4, <1>5, <1>8, OutcomeUnsent
<1>11. CallKnown(c)'
  BY <1>6 DEF CallKnown
<1>12. SweepKnown'
  <2>1. sweep.key \in OpKeys
    BY DEF OpInv, OpTyped
  <2> QED
    BY <2>1, <1>3, <1>4, <1>5, <1>8 DEF OpInv, SweepKnown
<1> QED
  BY <1>2, <1>3, <1>5, <1>6, <1>7, <1>9, <1>10, <1>11, <1>12, HolderSteps

\* Steps of the holder that leave its record alone.
LEMMA HolderMoves ==
    ASSUME OpInv, NEW c \in Callers, Holds(c), NEW k \in OpKeys, k = call[c].key,
           NEW p \in CallPoints \ {"idle", "waiting"}, Goto(c, p) \/ Return(c),
           UNCHANGED <<method, record, sweep, executed, spent>>,
           \A j \in OpKeys : j # k => journal'[j] = journal[j] /\ wire'[j] = wire[j],
           journal' \in [OpKeys -> {"absent", "submitted", "rejected", "acknowledged"}],
           wire' \in [OpKeys -> Seq(Requests)],
           RequestKnown(k)', OutcomeKnown(k)', Return(c) \/ CallKnown(c)'
    PROVE  OpInv'
<1>1. /\ call \in [Callers -> Call] /\ call[c] \in Call
      /\ \A b \in Callers : b # c /\ Holds(b) => call[b].key # k
  BY Holding DEF OpInv, OpTyped
<1>2. /\ call' \in [Callers -> Call]
      /\ call'[c].at = "idle" \/ call'[c].key = k
      /\ \A b \in Callers : b # c => call'[b] = call[b]
      /\ CallKnown(c)'
  <2>1. CASE Return(c)
    BY <2>1, <1>1, RestTyped DEF Return, CallKnown
  <2>2. CASE Goto(c, p) /\ CallKnown(c)'
    BY <2>2, <1>1, Moved
  <2> QED
    BY <2>1, <2>2
<1>3. OpTyped'
  BY <1>2 DEF OpInv, OpTyped
<1>4. SweepKnown'
  BY DEF OpInv, SweepKnown
<1> QED
  BY <1>1, <1>2, <1>3, <1>4, HolderSteps

\* An answer, or a receipt, is one of a request that was executed.
LEMMA LearnKeeps ==
    ASSUME OpInv, NEW c \in Callers, Learn(c)
    PROVE  OpInv'
<1> DEFINE p == IF MethodOf(c) = "patch" THEN "acknowledge" ELSE "complete"
<1>1. PICK k \in OpKeys : k = call[c].key /\ Holds(c)
  BY DEF Learn, On, Holds, OpInv, OpTyped, Call
<1>2. /\ call[c] \in Call /\ CallKnown(c) /\ call[c].request \in Requests
      /\ RequestKnown(k) /\ OutcomeKnown(k)
      /\ executed[k] \in Seq(Requests) /\ call \in [Callers -> Call]
      /\ wire \in [OpKeys -> Seq(Requests)]
      /\ journal \in [OpKeys -> {"absent", "submitted", "rejected", "acknowledged"}]
  BY <1>1, Holding DEF OpInv, OpTyped
<1>3. /\ Goto(c, p) /\ p \in {"acknowledge", "complete"}
      /\ Contains(executed[k], call[c].request)
      /\ UNCHANGED <<method, record, journal, sweep, wire, executed, spent>>
  BY <1>1 DEF Learn, Executed, KeyOf, local, backend
<1> HIDE DEF p
<1>4. executed[k] # <<>>
  BY <1>2, <1>3, EmptySeq DEF Contains
<1>5. p \in CallPoints \ {"idle", "waiting"}
  BY <1>3 DEF CallPoints
<1>6. RequestKnown(k)' /\ OutcomeKnown(k)'
  BY <1>2, <1>3 DEF RequestKnown, OutcomeKnown, ReplayableUnsent, Replayable
<1>7. CallKnown(c)'
  <2>1. /\ call'[c].at = p /\ call'[c].key = k /\ call'[c].request = call[c].request
        /\ call'[c].copy = call[c].copy
    BY <1>1, <1>2, <1>3, <1>5, Moved
  <2> QED
    BY <2>1, <1>1, <1>2, <1>3, <1>4 DEF CallKnown, Holds
<1> QED
  BY <1>1, <1>2, <1>3, <1>5, <1>6, <1>7, HolderMoves

\* The patch journal is written before the patch is sent.
LEMMA SubmitKeeps ==
    ASSUME OpInv, NEW c \in Callers, SubmitPatch(c)
    PROVE  OpInv'
<1>1. PICK k \in OpKeys : k = call[c].key /\ Holds(c) /\ call[c].at = "handle"
  BY DEF SubmitPatch, On, Holds, OpInv, OpTyped, Call
<1>2. /\ call[c] \in Call /\ CallKnown(c) /\ call[c].request \in Requests
      /\ RequestKnown(k) /\ OutcomeKnown(k) /\ call \in [Callers -> Call]
      /\ wire \in [OpKeys -> Seq(Requests)]
      /\ journal \in [OpKeys -> {"absent", "submitted", "rejected", "acknowledged"}]
  BY <1>1, Holding DEF OpInv, OpTyped
<1>3. /\ \/ journal' = [journal EXCEPT ![k] = "submitted"] /\ Goto(c, "send")
         \/ journal' = journal /\ Return(c)
      /\ UNCHANGED <<method, record, sweep, wire, executed, spent>>
  BY <1>1 DEF SubmitPatch, KeyOf, backend
<1>4. /\ journal' \in [OpKeys -> {"absent", "submitted", "rejected", "acknowledged"}]
      /\ \A j \in OpKeys : j # k => journal'[j] = journal[j]
      /\ journal'[k] = "acknowledged" => journal[k] = "acknowledged"
  BY <1>2, <1>3
<1>5. RequestKnown(k)' /\ OutcomeKnown(k)'
  BY <1>2, <1>3, <1>4 DEF RequestKnown, OutcomeKnown, ReplayableUnsent, Replayable
<1>6. Goto(c, "send") => CallKnown(c)'
  <2> SUFFICES ASSUME Goto(c, "send") PROVE CallKnown(c)'
    OBVIOUS
  <2>1. /\ call'[c].at = "send" /\ call'[c].key = k /\ call'[c].request = call[c].request
        /\ call'[c].copy = call[c].copy
    BY <1>1, <1>2, Moved DEF CallPoints
  <2> QED
    BY <2>1, <1>1, <1>2, <1>3 DEF CallKnown, Replayable
<1> QED
  BY <1>1, <1>2, <1>3, <1>4, <1>5, <1>6, HolderMoves DEF CallPoints

\* The one step that puts a request on its way.
LEMMA OpSendKeeps ==
    ASSUME OpInv, NEW c \in Callers, Send(c)
    PROVE  OpInv'
<1>1. PICK k \in OpKeys : k = call[c].key /\ Holds(c) /\ call[c].at \in {"handle", "send"}
  BY DEF Send, On, Holds, OpInv, OpTyped, Call
<1>2. /\ call[c] \in Call /\ CallKnown(c) /\ call[c].request \in Requests
      /\ RequestKnown(k) /\ OutcomeKnown(k) /\ call \in [Callers -> Call]
      /\ wire \in [OpKeys -> Seq(Requests)] /\ wire[k] \in Seq(Requests)
      /\ executed[k] \in Seq(Requests)
      /\ journal \in [OpKeys -> {"absent", "submitted", "rejected", "acknowledged"}]
  BY <1>1, Holding DEF OpInv, OpTyped
<1>3. /\ wire' = [wire EXCEPT ![k] = Append(wire[k], call[c].request)] /\ Goto(c, "answer")
      /\ UNCHANGED <<method, record, journal, sweep, executed, spent>>
  BY <1>1 DEF Send, KeyOf, local
<1>4. /\ wire' \in [OpKeys -> Seq(Requests)]
      /\ \A j \in OpKeys : j # k => wire'[j] = wire[j]
      /\ Len(wire'[k]) = Len(wire[k]) + 1
      /\ \A i \in 1..Len(wire[k]) : wire'[k][i] = wire[k][i]
      /\ wire'[k][Len(wire[k]) + 1] = call[c].request
  BY <1>2, <1>3, Longer
<1>5. /\ record[k].request = call[c].request
      /\ method[k] # "prepare" => wire[k] = <<>> /\ executed[k] = <<>> /\ ~Replayable(k)
  BY <1>1, <1>2 DEF CallKnown, OutcomeKnown, ReplayableUnsent, Replayable
<1>6. RequestKnown(k)'
  <2>1. ASSUME NEW i \in 1..Len(wire'[k]) PROVE wire'[k][i] = record[k].request
    <3>1. i \in 1..Len(wire[k]) \/ i = Len(wire[k]) + 1
      BY <1>2, <1>4, LenProperties
    <3> QED
      BY <3>1, <1>2, <1>4, <1>5 DEF RequestKnown
  <2> QED
    BY <2>1, <1>2, <1>3 DEF RequestKnown
<1>7. OutcomeKnown(k)'
  <2>1. ASSUME method[k] # "prepare" PROVE Len(wire'[k]) + Len(executed[k]) <= 1
    <3>1. Len(wire[k]) = 0
      BY <2>1, <1>5, EmptySeq
    <3>2. Len(executed[k]) = 0
      BY <2>1, <1>5, EmptySeq
    <3>3. Len(wire'[k]) = Len(wire[k]) + 1
      BY <1>4
    <3> QED
      BY <3>1, <3>2, <3>3
  <2> QED
    BY <2>1, <1>2, <1>3, <1>5 DEF OutcomeKnown, ReplayableUnsent, Replayable
<1>8. CallKnown(c)'
  <2>1. /\ call'[c].at = "answer" /\ call'[c].key = k /\ call'[c].request = call[c].request
        /\ call'[c].copy = call[c].copy
    BY <1>1, <1>2, <1>3, Moved DEF CallPoints
  <2> QED
    BY <2>1, <1>1, <1>2, <1>3, <1>5 DEF CallKnown, Replayable
<1> QED
  BY <1>1, <1>2, <1>3, <1>4, <1>6, <1>7, <1>8, HolderMoves DEF CallPoints

\* The patch journal is told of an execution that took place.
LEMMA AcknowledgeKeeps ==
    ASSUME OpInv, NEW c \in Callers, Acknowledge(c)
    PROVE  OpInv'
<1>1. PICK k \in OpKeys : k = call[c].key /\ Holds(c) /\ call[c].at = "acknowledge"
  BY DEF Acknowledge, On, Holds, OpInv, OpTyped, Call
<1>2. /\ call[c] \in Call /\ CallKnown(c) /\ call[c].request \in Requests
      /\ RequestKnown(k) /\ OutcomeKnown(k) /\ call \in [Callers -> Call]
      /\ wire \in [OpKeys -> Seq(Requests)]
      /\ journal \in [OpKeys -> {"absent", "submitted", "rejected", "acknowledged"}]
  BY <1>1, Holding DEF OpInv, OpTyped
<1>3. /\ journal' = [journal EXCEPT ![k] = "acknowledged"] /\ Goto(c, "complete")
      /\ UNCHANGED <<method, record, sweep, wire, executed, spent>>
  BY <1>1 DEF Acknowledge, KeyOf, backend
<1>4. /\ journal' \in [OpKeys -> {"absent", "submitted", "rejected", "acknowledged"}]
      /\ \A j \in OpKeys : j # k => journal'[j] = journal[j]
  BY <1>2, <1>3
<1>5. executed[k] # <<>>
  BY <1>1, <1>2 DEF CallKnown
<1>6. RequestKnown(k)' /\ OutcomeKnown(k)'
  BY <1>2, <1>3, <1>5 DEF RequestKnown, OutcomeKnown, ReplayableUnsent, Replayable
<1>7. CallKnown(c)'
  <2>1. /\ call'[c].at = "complete" /\ call'[c].key = k /\ call'[c].request = call[c].request
        /\ call'[c].copy = call[c].copy
    BY <1>1, <1>2, <1>3, Moved DEF CallPoints
  <2> QED
    BY <2>1, <1>1, <1>2, <1>3, <1>5 DEF CallKnown, Replayable
<1> QED
  BY <1>1, <1>2, <1>3, <1>4, <1>6, <1>7, HolderMoves DEF CallPoints


\* A request that was refused is not on its way, and no other was sent.
LEMMA RejectKeeps ==
    ASSUME OpInv, NEW c \in Callers, Rejected(c)
    PROVE  OpInv'
<1> DEFINE copy == call[c].copy
           refused == [copy EXCEPT !.stage = "rejected"]
<1>1. PICK k \in OpKeys : k = call[c].key /\ Holds(c) /\ call[c].at = "answer"
  BY DEF Rejected, On, Holds, OpInv, OpTyped, Call
<1>2. /\ call[c] \in Call /\ CallKnown(c) /\ call[c].request \in Requests
      /\ copy \in OpRecord
      /\ RequestKnown(k) /\ OutcomeKnown(k) /\ call \in [Callers -> Call]
      /\ wire \in [OpKeys -> Seq(Requests)] /\ wire[k] \in Seq(Requests)
      /\ executed[k] \in Seq(Requests) /\ record \in [OpKeys -> OpRecord]
      /\ journal \in [OpKeys -> {"absent", "submitted", "rejected", "acknowledged"}]
      /\ \A b \in Callers : b # c /\ Holds(b) => call[b].key # k
  BY <1>1, Holding DEF OpInv, OpTyped
<1>3. PICK i \in 1..Len(wire[k]) :
        /\ wire' = [wire EXCEPT ![k] = RemoveAt(wire[k], i)]
        /\ \/ method[k] = "start" /\ record' = [record EXCEPT ![k] = refused] /\ journal' = journal
           \/ record' = record /\ journal' = [journal EXCEPT ![k] = "rejected"]
           \/ record' = record /\ journal' = journal
  <2>1. DOMAIN wire[k] = 1..Len(wire[k])
    BY <1>2, LenProperties
  <2>2. PICK i \in DOMAIN wire[k] :
          /\ wire' = [wire EXCEPT ![k] = RemoveAt(@, i)]
          /\ \/ method[k] = "start" /\ WriteBack(c, "rejected") /\ journal' = journal
             \/ /\ method[k] = "patch" /\ record' = record
                /\ journal' = [journal EXCEPT ![k] = "rejected"]
             \/ UNCHANGED local
    BY <1>1 DEF Rejected, KeyOf, MethodOf
  <2>3. \/ method[k] = "start" /\ record' = [record EXCEPT ![k] = refused] /\ journal' = journal
        \/ record' = record /\ journal' = [journal EXCEPT ![k] = "rejected"]
        \/ record' = record /\ journal' = journal
    BY <2>2, <1>1 DEF WriteBack, KeyOf, local
  <2>4. wire' = [wire EXCEPT ![k] = RemoveAt(wire[k], i)] /\ i \in 1..Len(wire[k])
    BY <2>1, <2>2
  <2> QED
    BY <2>3, <2>4
<1>4. /\ call' = [call EXCEPT ![c] = AtRest]
      /\ UNCHANGED <<method, sweep, executed, spent>>
  BY DEF Rejected, Return
<1>5. /\ refused \in OpRecord /\ refused.stage = "rejected" /\ refused.request = copy.request
      /\ refused.result = copy.result /\ refused.expired = copy.expired
  BY <1>2 DEF OpRecord, Stages
<1> HIDE DEF refused
<1>6. /\ wire' \in [OpKeys -> Seq(Requests)] /\ wire'[k] \in Seq(Requests)
      /\ \A j \in OpKeys : j # k => wire'[j] = wire[j]
      /\ Len(wire'[k]) = Len(wire[k]) - 1
      /\ \A n \in 1..Len(wire'[k]) : \E m \in 1..Len(wire[k]) : wire'[k][n] = wire[k][m]
  <2>1. /\ RemoveAt(wire[k], i) \in Seq(Requests)
        /\ Len(RemoveAt(wire[k], i)) = Len(wire[k]) - 1
        /\ \A n \in 1..(Len(wire[k]) - 1) :
             \E m \in 1..Len(wire[k]) : RemoveAt(wire[k], i)[n] = wire[k][m]
    BY <1>2, Shorter
  <2> DEFINE rest == RemoveAt(wire[k], i)
  <2> HIDE DEF rest
  <2>2. /\ wire' = [wire EXCEPT ![k] = rest] /\ rest \in Seq(Requests)
        /\ Len(rest) = Len(wire[k]) - 1
        /\ \A n \in 1..(Len(wire[k]) - 1) : \E m \in 1..Len(wire[k]) : rest[n] = wire[k][m]
    BY <2>1, <1>3 DEF rest
  <2>3. /\ wire' \in [OpKeys -> Seq(Requests)] /\ wire'[k] = rest
        /\ \A j \in OpKeys : j # k => wire'[j] = wire[j]
    BY <2>2, <1>2
  <2> QED
    BY <2>2, <2>3
<1>7. /\ copy.request = call[c].request /\ record[k].request = call[c].request
      /\ ~copy.result /\ ~copy.expired
      /\ method[k] # "prepare" => ~Replayable(k)
  BY <1>1, <1>2 DEF CallKnown
<1>8. /\ record' \in [OpKeys -> OpRecord]
      /\ journal' \in [OpKeys -> {"absent", "submitted", "rejected", "acknowledged"}]
      /\ \A j \in OpKeys : j # k => record'[j] = record[j] /\ journal'[j] = journal[j]
      /\ record'[k] = record[k] \/ (method[k] = "start" /\ record'[k] = refused)
      /\ journal'[k] = "acknowledged" => journal[k] = "acknowledged"
  BY <1>2, <1>3, <1>5
<1>9. /\ call' \in [Callers -> Call] /\ call'[c].at = "idle"
      /\ \A b \in Callers : b # c => call'[b] = call[b]
  BY <1>2, <1>4, RestTyped
<1>10. OpTyped'
  BY <1>4, <1>6, <1>8, <1>9 DEF OpInv, OpTyped
<1>11. record'[k].request = record[k].request
  BY <1>5, <1>7, <1>8
<1>12. RequestKnown(k)'
  <2>1. record'[k].stage = "absent" <=> record'[k].request = NoRequest
    BY <1>2, <1>5, <1>7, <1>8, OpAssumption DEF RequestKnown
  <2> QED
    BY <2>1, <1>2, <1>4, <1>6, <1>11 DEF RequestKnown
<1>13. OutcomeKnown(k)'
  <2>1. record'[k].result \/ record'[k].expired =>
          record'[k].stage = "accepted" /\ executed'[k] # <<>>
    BY <1>2, <1>4, <1>5, <1>7, <1>8 DEF OutcomeKnown
  <2>2. journal'[k] = "acknowledged" => executed'[k] # <<>>
    BY <1>2, <1>4, <1>8 DEF OutcomeKnown
  <2>3. method[k] # "prepare" => wire'[k] = <<>> /\ executed[k] = <<>>
    <3>1. Len(wire[k]) \in Nat /\ Len(executed[k]) \in Nat /\ Len(wire[k]) >= 1
      BY <1>2, <1>3, LenProperties
    <3>2. method[k] # "prepare" => Len(wire'[k]) = 0 /\ Len(executed[k]) = 0
      BY <3>1, <1>2, <1>6 DEF OutcomeKnown
    <3> QED
      BY <3>2, <1>2, <1>6, EmptySeq
  <2>4. ASSUME method[k] # "prepare" PROVE Len(wire'[k]) + Len(executed[k]) <= 1
    <3>1. Len(wire'[k]) = 0
      BY <2>3, <2>4, EmptySeq
    <3>2. Len(executed[k]) = 0
      BY <2>3, <2>4, EmptySeq
    <3> QED
      BY <3>1, <3>2
  <2> QED
    BY <2>1, <2>2, <2>3, <2>4, <1>4 DEF OutcomeKnown, ReplayableUnsent
<1>14. CallKnown(c)'
  BY <1>9 DEF CallKnown
<1>15. SweepKnown'
  <2>1. sweep.key \in OpKeys
    BY DEF OpInv, OpTyped
  <2> QED
    BY <2>1, <1>4, <1>8, <1>11 DEF OpInv, SweepKnown
<1> QED
  BY <1>2, <1>4, <1>6, <1>8, <1>9, <1>10, <1>12, <1>13, <1>14, <1>15, HolderSteps

\* A record with a result, or the tombstone of one, of a request that was executed.
LEMMA OutcomeWritten ==
    ASSUME NEW k \in OpKeys, OutcomeKnown(k), record'[k].stage = "accepted", executed[k] # <<>>,
           UNCHANGED <<method, journal, wire, executed>>
    PROVE  OutcomeKnown(k)'
<1>1. method'[k] # "prepare" => Len(wire'[k]) + Len(executed'[k]) <= 1 /\ ReplayableUnsent(k)'
  BY DEF OutcomeKnown, ReplayableUnsent, Replayable
<1> QED
  BY <1>1 DEF OutcomeKnown

\* The result is written over the record, whose request was executed.
LEMMA CompleteKeeps ==
    ASSUME OpInv, NEW c \in Callers, Complete(c)
    PROVE  OpInv'
<1> DEFINE copy == call[c].copy
           completed == [copy EXCEPT !.stage = "accepted", !.result = TRUE]
<1>1. PICK k \in OpKeys : k = call[c].key /\ Holds(c) /\ call[c].at = "complete"
  BY DEF Complete, On, Holds, OpInv, OpTyped, Call
<1>2. /\ call[c] \in Call /\ copy \in OpRecord /\ CallKnown(c) /\ call[c].request \in Requests
      /\ \A b \in Callers : b # c /\ Holds(b) => call[b].key # k
      /\ RequestKnown(k) /\ OutcomeKnown(k)
  BY <1>1, Holding
<1>3. /\ record \in [OpKeys -> OpRecord] /\ call \in [Callers -> Call]
      /\ record' = [record EXCEPT ![k] = completed]
      /\ call' = [call EXCEPT ![c] = AtRest]
      /\ UNCHANGED <<method, journal, sweep, wire, executed, spent>>
  BY <1>1 DEF OpInv, OpTyped, Complete, Return, KeyOf, backend
<1>4. /\ completed \in OpRecord /\ completed.stage = "accepted"
      /\ completed.request = copy.request
  BY <1>2 DEF OpRecord, Stages
<1> HIDE DEF completed
<1>5. record'[k] = completed /\ \A j \in OpKeys : j # k => record'[j] = record[j]
  BY <1>3
<1>6. /\ call' \in [Callers -> Call] /\ call'[c].at = "idle"
      /\ \A b \in Callers : b # c => call'[b] = call[b]
  BY <1>3, RestTyped
<1>7. OpTyped'
  BY <1>3, <1>4, <1>6 DEF OpInv, OpTyped
<1>8. /\ copy.request = call[c].request /\ record[k].request = call[c].request
      /\ executed[k] # <<>>
  BY <1>1, <1>2 DEF CallKnown
<1>9. RequestKnown(k)'
  BY <1>2, <1>3, <1>4, <1>5, <1>8, OpAssumption DEF RequestKnown
<1>10. OutcomeKnown(k)'
  BY <1>2, <1>3, <1>4, <1>5, <1>8, OutcomeWritten
<1>11. CallKnown(c)'
  BY <1>6 DEF CallKnown
<1>12. SweepKnown'
  <2>1. sweep.key \in OpKeys
    BY DEF OpInv, OpTyped
  <2> QED
    BY <2>1, <1>3, <1>4, <1>5, <1>8 DEF OpInv, SweepKnown
<1> QED
  BY <1>2, <1>3, <1>5, <1>6, <1>7, <1>9, <1>10, <1>11, <1>12, HolderSteps

\* Retention reads a result and, later, writes its tombstone, without the lock of the key.
LEMMA ExpiryKeepsKey ==
    ASSUME OpInv, ExpiryWrite \/ \E k \in OpKeys : ExpiryRead(k)
    PROVE  OpInv'
<1>0. /\ sweep \in [on : BOOLEAN, key : OpKeys, copy : OpRecord]
      /\ record \in [OpKeys -> OpRecord] /\ sweep.key \in OpKeys /\ sweep.copy \in OpRecord
  BY DEF OpInv, OpTyped
<1>1. ASSUME NEW k \in OpKeys, ExpiryRead(k) PROVE OpInv'
  <2>1. /\ record[k].result /\ OpSpend("expiries")
        /\ sweep' = [on |-> TRUE, key |-> k, copy |-> record[k]]
        /\ UNCHANGED <<method, record, journal, call, wire, executed>>
    BY <1>1 DEF ExpiryRead, local, backend
  <2>2. OpTyped'
    <3>1. spent' \in [DOMAIN OpLimits -> Nat]
      BY <2>1, SpendTyped, OpAssumption DEF OpInv, OpTyped
    <3>2. sweep' \in [on : BOOLEAN, key : OpKeys, copy : OpRecord]
      BY <2>1, <1>0
    <3> QED
      BY <3>1, <3>2, <2>1 DEF OpInv, OpTyped
  <2>3. SweepKnown'
    BY <2>1 DEF OpInv, OutcomeKnown, SweepKnown
  <2>4. ASSUME NEW j \in OpKeys PROVE RequestKnown(j)' /\ OutcomeKnown(j)'
    <3>1. RequestKnown(j) /\ OutcomeKnown(j)
      BY DEF OpInv
    <3>2. RequestKnown(j)'
      BY <2>1, <3>1 DEF RequestKnown
    <3>3. OutcomeKnown(j)'
      BY <2>1, <3>1 DEF OutcomeKnown, ReplayableUnsent, Replayable
    <3> QED
      BY <3>2, <3>3
  <2>5. \A c \in Callers : CallKnown(c)'
    BY <2>1 DEF OpInv, CallKnown, Replayable
  <2>6. OneHolder'
    BY <2>1 DEF OpInv, OneHolder
  <2> QED
    BY <2>2, <2>3, <2>4, <2>5, <2>6 DEF OpInv
<1>2. CASE ExpiryWrite
  <2> DEFINE tombstone == [sweep.copy EXCEPT !.result = FALSE, !.expired = TRUE]
  <2>1. PICK k \in OpKeys :
          /\ k = sweep.key /\ sweep.on /\ sweep' = [sweep EXCEPT !.on = FALSE]
          /\ record' = [record EXCEPT ![k] = tombstone]
          /\ UNCHANGED <<method, journal, call, wire, executed, spent>>
    BY <1>0, <1>2 DEF ExpiryWrite, backend
  <2>2. /\ tombstone \in OpRecord /\ tombstone.stage = sweep.copy.stage
        /\ tombstone.request = sweep.copy.request
    BY <1>0 DEF OpRecord
  <2> HIDE DEF tombstone
  <2>3. /\ tombstone.stage = "accepted" /\ tombstone.request = record[k].request
        /\ executed[k] # <<>> /\ RequestKnown(k) /\ OutcomeKnown(k)
    BY <2>1, <2>2 DEF OpInv, SweepKnown
  <2>4. record'[k] = tombstone /\ \A j \in OpKeys : j # k => record'[j] = record[j]
    BY <2>1, <1>0
  <2>5. sweep' \in [on : BOOLEAN, key : OpKeys, copy : OpRecord] /\ ~sweep'.on
    BY <2>1, <1>0
  <2>6. OpTyped'
    BY <2>1, <2>2, <2>5 DEF OpInv, OpTyped
  <2>7. \A j \in OpKeys : RequestKnown(j)'
    <3>1. record[k].request \in Requests
      BY <2>3, Named
    <3>2. RequestKnown(k)'
      BY <3>1, <2>1, <2>3, <2>4, OpAssumption DEF RequestKnown
    <3>3. \A j \in OpKeys : j # k => RequestKnown(j)'
      BY <2>1, <2>4 DEF OpInv, RequestKnown
    <3> QED
      BY <3>2, <3>3
  <2>8. \A j \in OpKeys : OutcomeKnown(j)'
    <3>1. OutcomeKnown(k)'
      BY <2>1, <2>3, <2>4, OutcomeWritten
    <3>2. \A j \in OpKeys : j # k => OutcomeKnown(j)'
      BY <2>1, <2>4 DEF OpInv, OutcomeKnown, ReplayableUnsent, Replayable
    <3> QED
      BY <3>1, <3>2
  <2>9. ASSUME NEW c \in Callers PROVE CallKnown(c)'
    <3>1. call'[c] = call[c] /\ call[c].key \in OpKeys /\ CallKnown(c)
      BY <2>1 DEF OpInv, OpTyped, Call
    <3>2. CASE call[c].key # k
      BY <3>1, <3>2, <2>1, <2>4 DEF CallKnown, Replayable
    <3>3. CASE call[c].key = k
      BY <3>1, <3>3, <2>1, <2>3, <2>4 DEF CallKnown, Replayable
    <3> QED
      BY <3>2, <3>3
  <2>10. SweepKnown' /\ OneHolder'
    BY <2>1, <2>5 DEF OpInv, SweepKnown, OneHolder
  <2> QED
    BY <2>6, <2>7, <2>8, <2>9, <2>10 DEF OpInv
<1> QED
  BY <1>1, <1>2

\* A request arrives, or is lost.
LEMMA DeliverKeeps ==
    ASSUME OpInv, NEW k \in OpKeys, Deliver(k)
    PROVE  OpInv'
<1>1. /\ wire \in [OpKeys -> Seq(Requests)] /\ wire[k] \in Seq(Requests)
      /\ executed \in [OpKeys -> Seq(Requests)] /\ executed[k] \in Seq(Requests)
      /\ RequestKnown(k) /\ OutcomeKnown(k)
  BY DEF OpInv, OpTyped
<1>2. PICK i \in 1..Len(wire[k]) :
        /\ wire' = [wire EXCEPT ![k] = RemoveAt(wire[k], i)]
        /\ \/ executed' = [executed EXCEPT ![k] = Append(executed[k], wire[k][i])]
              /\ UNCHANGED spent
           \/ OpSpend("losses") /\ UNCHANGED executed
        /\ UNCHANGED <<method, record, journal, call, sweep>>
  BY <1>1, LenProperties DEF Deliver, local
<1>3. wire[k][i] \in Requests /\ wire[k][i] = record[k].request /\ Len(wire[k]) \in Nat
  BY <1>1, <1>2, ElementOfSeq, LenProperties DEF RequestKnown
<1>4. /\ wire' \in [OpKeys -> Seq(Requests)] /\ wire'[k] \in Seq(Requests)
      /\ \A j \in OpKeys : j # k => wire'[j] = wire[j]
      /\ Len(wire'[k]) = Len(wire[k]) - 1
      /\ \A n \in 1..Len(wire'[k]) : \E m \in 1..Len(wire[k]) : wire'[k][n] = wire[k][m]
  <2>1. /\ RemoveAt(wire[k], i) \in Seq(Requests)
        /\ Len(RemoveAt(wire[k], i)) = Len(wire[k]) - 1
        /\ \A n \in 1..(Len(wire[k]) - 1) :
             \E m \in 1..Len(wire[k]) : RemoveAt(wire[k], i)[n] = wire[k][m]
    BY <1>1, Shorter
  <2> DEFINE rest == RemoveAt(wire[k], i)
  <2> HIDE DEF rest
  <2>2. /\ wire' = [wire EXCEPT ![k] = rest] /\ rest \in Seq(Requests)
        /\ Len(rest) = Len(wire[k]) - 1
        /\ \A n \in 1..(Len(wire[k]) - 1) : \E m \in 1..Len(wire[k]) : rest[n] = wire[k][m]
    BY <2>1, <1>2 DEF rest
  <2>3. /\ wire' \in [OpKeys -> Seq(Requests)] /\ wire'[k] = rest
        /\ \A j \in OpKeys : j # k => wire'[j] = wire[j]
    BY <2>2, <1>1
  <2> QED
    BY <2>2, <2>3
<1>5. /\ executed' \in [OpKeys -> Seq(Requests)] /\ executed'[k] \in Seq(Requests)
      /\ \A j \in OpKeys : j # k => executed'[j] = executed[j]
      /\ Len(executed'[k]) \in {Len(executed[k]), Len(executed[k]) + 1}
      /\ \A n \in 1..Len(executed'[k]) : executed'[k][n] = record[k].request
      /\ executed[k] # <<>> => executed'[k] # <<>>
  <2>1. CASE executed' = executed
    BY <2>1, <1>1 DEF RequestKnown
  <2>2. CASE executed' = [executed EXCEPT ![k] = Append(executed[k], wire[k][i])]
    <3>1. /\ executed' \in [OpKeys -> Seq(Requests)] /\ executed'[k] \in Seq(Requests)
          /\ \A j \in OpKeys : j # k => executed'[j] = executed[j]
          /\ Len(executed'[k]) = Len(executed[k]) + 1
          /\ \A n \in 1..Len(executed[k]) : executed'[k][n] = executed[k][n]
          /\ executed'[k][Len(executed[k]) + 1] = wire[k][i]
          /\ executed'[k] # <<>>
      BY <2>2, <1>1, <1>3, Longer
    <3>2. ASSUME NEW n \in 1..Len(executed'[k]) PROVE executed'[k][n] = record[k].request
      <4>1. n \in 1..Len(executed[k]) \/ n = Len(executed[k]) + 1
        BY <3>1, <1>1, LenProperties
      <4> QED
        BY <4>1, <3>1, <1>1, <1>3 DEF RequestKnown
    <3> QED
      BY <3>1, <3>2
  <2> QED
    BY <2>1, <2>2, <1>2
<1>6. OpTyped'
  <2>1. spent' \in [DOMAIN OpLimits -> Nat]
    BY <1>2, SpendTyped, OpAssumption DEF OpInv, OpTyped
  <2> QED
    BY <2>1, <1>2, <1>4, <1>5 DEF OpInv, OpTyped
<1>7. \A j \in OpKeys : RequestKnown(j)'
  <2>1. RequestKnown(k)'
    BY <1>1, <1>2, <1>4, <1>5 DEF RequestKnown
  <2>2. \A j \in OpKeys : j # k => RequestKnown(j)'
    BY <1>2, <1>4, <1>5 DEF OpInv, RequestKnown
  <2> QED
    BY <2>1, <2>2
<1>8. wire[k] # <<>>
  BY <1>1, <1>2, EmptySeq
<1>9. \A j \in OpKeys : OutcomeKnown(j)'
  <2>1. OutcomeKnown(k)'
    <3>1. method[k] # "prepare" => Len(wire'[k]) + Len(executed'[k]) <= 1
      <4>1. Len(executed[k]) \in Nat
        BY <1>1, LenProperties
      <4> QED
        BY <4>1, <1>1, <1>3, <1>4, <1>5 DEF OutcomeKnown
    <3>2. method[k] # "prepare" => ~Replayable(k)
      BY <1>1, <1>8 DEF OutcomeKnown, ReplayableUnsent
    <3> QED
      BY <3>1, <3>2, <1>1, <1>2, <1>5 DEF OutcomeKnown, ReplayableUnsent, Replayable
  <2>2. \A j \in OpKeys : j # k => OutcomeKnown(j)'
    BY <1>2, <1>4, <1>5 DEF OpInv, OutcomeKnown, ReplayableUnsent, Replayable
  <2> QED
    BY <2>1, <2>2
<1>10. ASSUME NEW c \in Callers PROVE CallKnown(c)'
  <2>1. call'[c] = call[c] /\ call[c].key \in OpKeys /\ CallKnown(c)
    BY <1>2 DEF OpInv, OpTyped, Call
  <2>2. CASE call[c].key # k
    BY <2>1, <2>2, <1>2, <1>4, <1>5 DEF CallKnown, Replayable
  <2>3. CASE call[c].key = k
    BY <2>1, <2>3, <1>2, <1>5, <1>8 DEF CallKnown, Replayable
  <2> QED
    BY <2>2, <2>3
<1>11. SweepKnown'
  BY <1>2, <1>5 DEF OpInv, OpTyped, SweepKnown
<1>12. OneHolder'
  BY <1>2 DEF OpInv, OneHolder
<1> QED
  BY <1>6, <1>7, <1>9, <1>10, <1>11, <1>12 DEF OpInv

\* A crash ends the calls and the sweep, and leaves the records.
LEMMA CrashKeepsKey ==
    ASSUME OpInv, OpCrash
    PROVE  OpInv'
<1>1. /\ call' = [c \in Callers |-> AtRest] /\ sweep' = [sweep EXCEPT !.on = FALSE]
      /\ OpSpend("crashes") /\ UNCHANGED <<method, record, journal, wire, executed>>
  BY DEF OpCrash, local, backend
<1>2. sweep' \in [on : BOOLEAN, key : OpKeys, copy : OpRecord] /\ ~sweep'.on
  BY <1>1 DEF OpInv, OpTyped
<1>3. OpTyped'
  <2>1. spent' \in [DOMAIN OpLimits -> Nat]
    BY <1>1, SpendTyped, OpAssumption DEF OpInv, OpTyped
  <2> QED
    BY <2>1, <1>1, <1>2, RestTyped DEF OpInv, OpTyped
<1>4. \A j \in OpKeys : RequestKnown(j)' /\ OutcomeKnown(j)'
  BY <1>1 DEF OpInv, RequestKnown, OutcomeKnown, ReplayableUnsent, Replayable
<1>5. (\A c \in Callers : CallKnown(c)') /\ SweepKnown' /\ OneHolder'
  BY <1>1, <1>2, RestTyped DEF CallKnown, SweepKnown, OneHolder
<1> QED
  BY <1>3, <1>4, <1>5 DEF OpInv

\* The invariant of the operation cache, for every number of keys, of concurrent calls and
\* of requests, however often crashes, losses, denials and expiries strike.
THEOREM CacheCorrect == OpSpec => []OpInv
<1>1. OpInit => OpInv
  BY OpStarts
<1>2. OpInv /\ [OpNext]_opVars => OpInv'
  <2> SUFFICES ASSUME OpInv, [OpNext]_opVars PROVE OpInv'
    OBVIOUS
  <2>1. ASSUME NEW c \in Callers, Granted(c) PROVE OpInv'
    BY <2>1, ClaimKeeps, ObserveKeeps, RestKeeps DEF Granted
  <2>2. ASSUME NEW c \in Callers, Onward(c) PROVE OpInv'
    BY <2>2, MarkKeeps, SubmitKeeps, OpSendKeeps, LearnKeeps, AcknowledgeKeeps, RestKeeps,
       RejectKeeps, CompleteKeeps DEF Onward
  <2>3. ASSUME NEW c \in Callers, Deny(c) \/ \E k \in OpKeys, r \in Requests : Enter(c, k, r)
        PROVE  OpInv'
    BY <2>3, DenyKeeps, RestKeeps
  <2>4. CASE ExpiryWrite \/ \E k \in OpKeys : ExpiryRead(k)
    BY <2>4, ExpiryKeepsKey
  <2>5. ASSUME NEW k \in OpKeys, Deliver(k) PROVE OpInv'
    BY <2>5, DeliverKeeps
  <2>6. CASE OpCrash
    BY <2>6, CrashKeepsKey
  <2>7. CASE UNCHANGED opVars
    BY <2>7 DEF opVars, OpInv, OpTyped, RequestKnown, OutcomeKnown, ReplayableUnsent,
         Replayable,
       CallKnown, SweepKnown, OneHolder
  <2> QED
    BY <2>1, <2>2, <2>3, <2>4, <2>5, <2>6, <2>7 DEF OpNext
<1> QED
  BY <1>1, <1>2, PTL DEF OpSpec

\* One key has one effect: dispatch_body, operation_cache.rs and retention.rs, whatever is
\* repeated, lost, rejected, expired or interrupted by a crash.
THEOREM OneEffect == OpSpec => []KeyHonoured
<1>1. OpInv => KeyHonoured
  <2> SUFFICES ASSUME OpInv, NEW k \in OpKeys
               PROVE  /\ method[k] # "prepare" =>
                           Len(wire[k]) + Len(executed[k]) <= 1 /\ ReplayableUnsent(k)
                      /\ \A r \in Requests : Executed(k, r) => record[k].request = r
                      /\ record[k].result \/ record[k].expired => executed[k] # <<>>
    BY DEF KeyHonoured
  <2> QED
    BY DEF OpInv, RequestKnown, OutcomeKnown, Executed, Contains
<1> QED
  BY <1>1, CacheCorrect, PTL

\* Every variable of the operation cache keeps its type, and a key one caller at a time.
THEOREM CacheTyped == OpSpec => []OpTypeOK
<1>1. OpInv => OpTypeOK
  <2> SUFFICES ASSUME OpInv, NEW k \in OpKeys PROVE Cardinality(Holder(k)) <= 1
    BY DEF OpInv, OpTyped, OpTypeOK
  <2>1. \A c, d \in Holder(k) : c = d
    BY DEF Holder, Sharers, OpInv, OneHolder
  <2>2. CASE Holder(k) = {}
    BY <2>2, FS_EmptySet
  <2>3. CASE Holder(k) # {}
    <3>1. PICK c : Holder(k) = {c}
      BY <2>1, <2>3
    <3>2. Cardinality({c}) = 1
      BY FS_Singleton
    <3> QED
      BY <3>1, <3>2
  <2> QED
    BY <2>2, <2>3
<1> QED
  BY <1>1, CacheCorrect, PTL
=============================================================================
