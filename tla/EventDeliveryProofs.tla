------------------------ MODULE EventDeliveryProofs ------------------------
(***************************************************************************)
(* Theorems about the event outbox, for every number of events, publishers *)
(* attempts and cycles: its rows keep their types, a fence names one       *)
(* claim, and the outbox implements Outbox.                                *)
(*                                                                         *)
(* Uniqueness of the fence is not inductive, because a claim that meets a  *)
(* gap gives its attempt number back and the number is handed out again.   *)
(* ClaimsBehind is the reason why that is harmless: no outstanding claim   *)
(* is ahead of its row, so the next number of a row is free, and the claim *)
(* that gives a number back is the only one that holds it.                 *)
(***************************************************************************)
EXTENDS EventDelivery, TLAPS

\* The claim is not ahead of its row; a purged row issues no more numbers.
Behind(c, r) ==
    \/ r.state = "purged"
    \/ c.cycle < r.cycle
    \/ c.cycle = r.cycle /\ c.attempt <= r.attempts

ClaimsBehind ==
    \A w \in Publishers : \A c \in Outstanding(w) : Behind(c, delivery[c.delivery])

ClaimsDisjoint ==
    \A v, w \in Publishers : v # w => Outstanding(v) \cap Outstanding(w) = {}

\* A pass that has an answer has the claim it is about, apart from the claims it
\* has not posted; its claims have rows, and Cloud has what it accepted.
PassKnows(w) ==
    /\ publisher[w].answer = "none" <=> publisher[w].posting = NoClaim
    /\ publisher[w].posting \notin publisher[w].claims
    /\ publisher[w].answer = "accepted" => publisher[w].posting.delivery \in applied

ClaimsHaveRows ==
    \A w \in Publishers : \A c \in Outstanding(w) : delivery[c.delivery].state # "none"

EventInv ==
    /\ TypeOK /\ ClaimsBehind /\ ClaimsDisjoint /\ ClaimsHaveRows
    /\ \A w \in Publishers : PassKnows(w)

-----------------------------------------------------------------------------
(* Rows.                                                                   *)

OkRow(r) == r \in Row /\ RebuildsDeliveryEnvelope(r)

\* What every step but the deferral of a gap does to a row that exists: its number
\* grows, and it stays a row.
Advances(r, s) ==
    /\ r.state # "none" => s.state # "none"
    /\ \/ r.state = "none" \/ s.state = "purged"
       \/ /\ r.state # "purged"
          /\ r.cycle < s.cycle \/ (r.cycle = s.cycle /\ r.attempts <= s.attempts)

\* A claim behind a row is behind what the row advances to.
LEMMA BehindAdvances ==
  ASSUME NEW r \in Row, NEW s \in Row, NEW c \in Claim, Behind(c, r), Advances(r, s),
         r.state # "none"
  PROVE  Behind(c, s)
<1>. DEFINE a == r.attempts b == s.attempts x == r.cycle y == s.cycle
            k == c.attempt z == c.cycle
<1>1. a \in Int /\ b \in Int /\ x \in Int /\ y \in Int /\ k \in Int /\ z \in Int
  BY DeliveryBounds DEF Row, Claim
<1>. HIDE DEF a, b, x, y, k, z
<1>2. r.state = "purged" \/ z < x \/ (z = x /\ k <= a)
  BY DEF Behind, a, x, k, z
<1>3. s.state = "purged" \/ (r.state # "purged" /\ (x < y \/ (x = y /\ a <= b)))
  BY DEF Advances, a, b, x, y
<1>4. s.state = "purged" \/ z < y \/ (z = y /\ k <= b)
  BY <1>1, <1>2, <1>3
<1>. QED
  BY <1>4 DEF Behind, b, y, k, z

\* A row that keeps its number, and does not leave purged, advances.
LEMMA SameNumberAdvances ==
  ASSUME NEW r \in Row, NEW s \in Row, s.attempts = r.attempts, s.cycle = r.cycle,
         r.state # "none" => s.state # "none", r.state = "purged" => s.state = "purged"
  PROVE  Advances(r, s)
<1>1. r.attempts <= r.attempts
  BY DeliveryBounds DEF Row
<1>. QED
  BY <1>1 DEF Advances

\* Rows are created, purged and redriven as rows.
LEMMA FreshRows ==
  /\ OkRow(NoRow) /\ OkRow(NewRow) /\ OkRow([NoRow EXCEPT !.state = "purged"])
  /\ NewRow.state = "pending" /\ [NoRow EXCEPT !.state = "purged"].state = "purged"
<1>1. 0 \in 0..MaxDeliveryAttempts /\ 0 \in 0..MaxCycle
  BY DeliveryBounds
<1>. QED
  BY <1>1 DEF OkRow, RebuildsDeliveryEnvelope, Unsettled, NoRow, NewRow, Row

\* An open row that is parked stays a row and keeps its number.
LEMMA ParkedRow ==
  ASSUME NEW r, OkRow(r), r.state \in Unsettled
  PROVE  /\ OkRow(ParkExhausted(r)) /\ ParkExhausted(r).state = "exhausted"
         /\ Advances(r, ParkExhausted(r))
<1>1. r \in Row
  BY DEF OkRow
<1>2. /\ ParkExhausted(r) \in Row /\ ParkExhausted(r).state = "exhausted"
      /\ ParkExhausted(r).attempts = r.attempts /\ ParkExhausted(r).cycle = r.cycle
  BY <1>1 DEF ParkExhausted, Row
<1>3. RebuildsDeliveryEnvelope(ParkExhausted(r))
  BY <1>2 DEF RebuildsDeliveryEnvelope, Unsettled
<1>4. Advances(r, ParkExhausted(r))
  BY <1>1, <1>2, SameNumberAdvances DEF Unsettled
<1>. QED
  BY <1>2, <1>3, <1>4 DEF OkRow

\* The next repair cycle of an open row, or its end.
LEMMA RepairedRow ==
  ASSUME NEW r, OkRow(r), r.state \in Unsettled, NEW g \in BOOLEAN
  PROVE  /\ OkRow(TransitionToRepair(r, g))
         /\ TransitionToRepair(r, g).state \in {"pending", "exhausted"}
         /\ Advances(r, TransitionToRepair(r, g))
<1>1. CASE ~RebuildsDeliveryEnvelope(r) \/ r.cycle >= MaxRepairCycles
  BY <1>1, ParkedRow DEF TransitionToRepair
<1>2. CASE RebuildsDeliveryEnvelope(r) /\ ~(r.cycle >= MaxRepairCycles)
  <2>. DEFINE s == [r EXCEPT !.state = "pending", !.cycle = r.cycle + 1, !.attempts = 0,
                             !.due = FALSE, !.lease = "none", !.gapError = g]
  <2>1. r \in Row /\ r.envelope
    BY DEF OkRow, RebuildsDeliveryEnvelope
  <2>2. r.cycle \in Nat /\ r.cycle + 1 \in 0..MaxCycle /\ 0 \in 0..MaxDeliveryAttempts
    BY <1>2, <2>1, DeliveryBounds DEF Row
  <2>3. /\ s \in Row /\ s.envelope = r.envelope /\ s.state = "pending"
        /\ s.cycle = r.cycle + 1
    BY <2>1, <2>2 DEF Row
  <2>4. TransitionToRepair(r, g) = s
    BY <1>2 DEF TransitionToRepair
  <2>5. r.cycle < r.cycle + 1
    BY <2>2
  <2>. HIDE DEF s
  <2>6. RebuildsDeliveryEnvelope(s)
    BY <2>1, <2>3 DEF RebuildsDeliveryEnvelope
  <2>7. Advances(r, s)
    BY <2>3, <2>5 DEF Advances, Unsettled
  <2>. QED
    BY <2>3, <2>4, <2>6, <2>7 DEF OkRow
<1>. QED
  BY <1>1, <1>2

\* A recorded failure: parked, repaired, or back to pending with its number.
LEMMA FailedRow ==
  ASSUME NEW r, OkRow(r), r.state \in Unsettled, NEW answer
  PROVE  /\ OkRow(MarkedFailed(r, answer))
         /\ MarkedFailed(r, answer).state \in {"pending", "exhausted"}
         /\ Advances(r, MarkedFailed(r, answer))
<1>1. CASE answer = "rejected"
  BY <1>1, ParkedRow DEF MarkedFailed
<1>2. CASE answer # "rejected" /\ r.attempts >= MaxDeliveryAttempts
  BY <1>2, RepairedRow DEF MarkedFailed
<1>3. CASE answer # "rejected" /\ ~(r.attempts >= MaxDeliveryAttempts)
  <2>. DEFINE s == [r EXCEPT !.state = "pending", !.due = FALSE, !.lease = "none",
                             !.gapError = (answer = "gap_overdue")]
  <2>1. r \in Row /\ r.envelope
    BY DEF OkRow, RebuildsDeliveryEnvelope
  <2>2. /\ s \in Row /\ s.envelope = r.envelope /\ s.state = "pending"
        /\ s.cycle = r.cycle /\ s.attempts = r.attempts
    BY <2>1 DEF Row
  <2>3. MarkedFailed(r, answer) = s
    BY <1>3 DEF MarkedFailed
  <2>. HIDE DEF s
  <2>4. RebuildsDeliveryEnvelope(s)
    BY <2>1, <2>2 DEF RebuildsDeliveryEnvelope
  <2>5. Advances(r, s)
    BY <2>1, <2>2, SameNumberAdvances DEF Unsettled
  <2>. QED
    BY <2>2, <2>3, <2>4, <2>5 DEF OkRow
<1>. QED
  BY <1>1, <1>2, <1>3

\* A delivered row keeps its number.
LEMMA DeliveredRow ==
  ASSUME NEW r, OkRow(r), r.state = "delivering"
  PROVE  /\ OkRow(MarkedDelivered(r)) /\ MarkedDelivered(r).state = "delivered"
         /\ Advances(r, MarkedDelivered(r))
<1>1. r \in Row
  BY DEF OkRow
<1>2. /\ MarkedDelivered(r) \in Row /\ MarkedDelivered(r).state = "delivered"
      /\ MarkedDelivered(r).attempts = r.attempts /\ MarkedDelivered(r).cycle = r.cycle
  BY <1>1 DEF MarkedDelivered, Row
<1>3. RebuildsDeliveryEnvelope(MarkedDelivered(r))
  BY <1>2 DEF RebuildsDeliveryEnvelope, Unsettled
<1>4. Advances(r, MarkedDelivered(r))
  BY <1>1, <1>2, SameNumberAdvances
<1>. QED
  BY <1>2, <1>3, <1>4 DEF OkRow

\* A redriven row starts a cycle.
LEMMA RedrivenRow ==
  ASSUME NEW r, OkRow(r), r.state = "exhausted", r.cycle < MaxCycle
  PROVE  /\ OkRow(Redriven(r)) /\ Redriven(r).state = "pending"
         /\ Advances(r, Redriven(r))
<1>1. r \in Row /\ r.cycle \in Nat
  BY DeliveryBounds DEF OkRow, Row
<1>2. r.cycle + 1 \in 0..MaxCycle /\ 0 \in 0..MaxDeliveryAttempts /\ r.cycle < r.cycle + 1
  BY <1>1, DeliveryBounds
<1>3. /\ Redriven(r) \in Row /\ Redriven(r).state = "pending" /\ Redriven(r).envelope
      /\ Redriven(r).cycle = r.cycle + 1
  BY <1>1, <1>2 DEF Redriven, Row
<1>. QED
  BY <1>2, <1>3 DEF OkRow, Advances, RebuildsDeliveryEnvelope

\* What a claim makes of a due row: its next number.
Issued(r) == [r EXCEPT !.state = "delivering", !.attempts = @ + 1, !.lease = "held"]

\* The next number of a due row is within the budget of its cycle.
LEMMA IssuedRow ==
  ASSUME NEW r, OkRow(r), Claimable(r)
  PROVE  /\ OkRow(Issued(r)) /\ Issued(r).state = "delivering"
         /\ Issued(r).attempts = r.attempts + 1 /\ Issued(r).cycle = r.cycle
         /\ Advances(r, Issued(r))
<1>1. r \in Row /\ r.envelope /\ r.state \in {"pending", "delivering"}
  BY DEF OkRow, RebuildsDeliveryEnvelope, Claimable, Unsettled
<1>2. /\ r.attempts \in Nat /\ r.attempts + 1 \in 0..MaxDeliveryAttempts
      /\ r.attempts <= r.attempts + 1
  BY <1>1, DeliveryBounds DEF Claimable, Row
<1>3. /\ Issued(r) \in Row /\ Issued(r).state = "delivering"
      /\ Issued(r).envelope = r.envelope
      /\ Issued(r).attempts = r.attempts + 1 /\ Issued(r).cycle = r.cycle
  BY <1>1, <1>2 DEF Issued, Row
<1>4. Advances(r, Issued(r))
  BY <1>1, <1>2, <1>3 DEF Advances
<1>. QED
  BY <1>1, <1>3, <1>4 DEF OkRow, RebuildsDeliveryEnvelope

\* A deferred row gets the number before the claim's.
LEMMA DeferredRow ==
  ASSUME NEW r, OkRow(r), r.state = "delivering", NEW c \in Claim
  PROVE  /\ OkRow(Deferred(r, c)) /\ Deferred(r, c).state = "pending"
         /\ Deferred(r, c).attempts = c.attempt - 1 /\ Deferred(r, c).cycle = r.cycle
<1>1. r \in Row /\ r.envelope
  BY DEF OkRow, RebuildsDeliveryEnvelope, Unsettled
<1>2. c.attempt - 1 \in 0..MaxDeliveryAttempts
  BY DeliveryBounds DEF Claim
<1>3. /\ Deferred(r, c) \in Row /\ Deferred(r, c).state = "pending"
      /\ Deferred(r, c).envelope = r.envelope
      /\ Deferred(r, c).attempts = c.attempt - 1 /\ Deferred(r, c).cycle = r.cycle
  BY <1>1, <1>2 DEF Deferred, Row
<1>. QED
  BY <1>1, <1>3 DEF OkRow, RebuildsDeliveryEnvelope

\* Time changes neither the state of a row nor its number.
LEMMA TimedRow ==
  ASSUME NEW r, OkRow(r)
  PROVE  /\ OkRow([r EXCEPT !.due = TRUE]) /\ Advances(r, [r EXCEPT !.due = TRUE])
         /\ [r EXCEPT !.due = TRUE].state = r.state
         /\ OkRow([r EXCEPT !.lease = "expired"])
         /\ Advances(r, [r EXCEPT !.lease = "expired"])
         /\ [r EXCEPT !.lease = "expired"].state = r.state
         /\ OkRow([r EXCEPT !.gap = "overdue"])
         /\ Advances(r, [r EXCEPT !.gap = "overdue"])
         /\ [r EXCEPT !.gap = "overdue"].state = r.state
<1>. DEFINE s1 == [r EXCEPT !.due = TRUE]
            s2 == [r EXCEPT !.lease = "expired"]
            s3 == [r EXCEPT !.gap = "overdue"]
            Same(s) == /\ s \in Row /\ s.state = r.state /\ s.envelope = r.envelope
                       /\ s.cycle = r.cycle /\ s.attempts = r.attempts
<1>1. r \in Row
  BY DEF OkRow
<1>2. Same(s1) /\ Same(s2) /\ Same(s3)
  BY <1>1 DEF Row
<1>. HIDE DEF s1, s2, s3
<1>3. ASSUME NEW s, Same(s) PROVE OkRow(s) /\ Advances(r, s) /\ s.state = r.state
  <2>1. Advances(r, s)
    BY <1>1, <1>3, SameNumberAdvances
  <2>. QED
    BY <1>3, <2>1 DEF OkRow, RebuildsDeliveryEnvelope
<1>4. /\ OkRow(s1) /\ Advances(r, s1) /\ s1.state = r.state
      /\ OkRow(s2) /\ Advances(r, s2) /\ s2.state = r.state
      /\ OkRow(s3) /\ Advances(r, s3) /\ s3.state = r.state
  BY <1>2, <1>3
<1>. QED
  BY <1>4 DEF s1, s2, s3

-----------------------------------------------------------------------------
(* Steps.                                                                  *)

\* A claim in hand is a claim, and names a row that exists and is well formed.
LEMMA OutstandingClaims ==
  ASSUME EventInv, NEW w \in Publishers, NEW c \in Outstanding(w)
  PROVE  /\ c \in Claim /\ c.delivery \in Deliveries
         /\ OkRow(delivery[c.delivery]) /\ Behind(c, delivery[c.delivery])
         /\ delivery[c.delivery].state # "none"
<1>1. publisher[w] \in Pass
  BY DEF EventInv, TypeOK
<1>2. c \in Claim
  BY <1>1 DEF Outstanding, Pass
<1>3. c.delivery \in Deliveries
  BY <1>2 DEF Claim
<1>. QED
  BY <1>2, <1>3 DEF EventInv, TypeOK, OkRow, ClaimsBehind, ClaimsHaveRows

\* The claim of an answer is one of the claims in hand.
LEMMA PostingIsOutstanding ==
  ASSUME EventInv, NEW w \in Publishers, publisher[w].answer # "none"
  PROVE  publisher[w].posting \in Outstanding(w)
  BY DEF EventInv, PassKnows, Outstanding

\* A step that advances the rows, and after which every pass has no claims but
\* those it had, keeps the invariant.
LEMMA PassesShrink ==
  ASSUME EventInv, faults' \in 0..MaxFaults, applied' \subseteq Deliveries,
         delivery' \in [Deliveries -> Row], publisher' \in [Publishers -> Pass],
         \A d \in Deliveries : /\ RebuildsDeliveryEnvelope(delivery'[d])
                               /\ Advances(delivery[d], delivery'[d]),
         \A w \in Publishers : Outstanding(w)' \subseteq Outstanding(w) /\ PassKnows(w)'
  PROVE  EventInv'
<1>1. TypeOK'
  BY DEF TypeOK
<1>2. ClaimsBehind' /\ ClaimsHaveRows'
  <2>1. ASSUME NEW w \in Publishers, NEW c \in Outstanding(w)'
        PROVE  Behind(c, delivery'[c.delivery]) /\ delivery'[c.delivery].state # "none"
    <3>1. c \in Outstanding(w)
      BY <2>1
    <3>2. /\ c \in Claim /\ c.delivery \in Deliveries
          /\ delivery[c.delivery] \in Row /\ Behind(c, delivery[c.delivery])
          /\ delivery[c.delivery].state # "none"
      BY <3>1, OutstandingClaims DEF OkRow
    <3>3. delivery'[c.delivery] \in Row /\ Advances(delivery[c.delivery], delivery'[c.delivery])
      BY <3>2
    <3>. QED
      BY <3>2, <3>3, BehindAdvances DEF Advances
  <2>. QED
    BY <2>1 DEF ClaimsBehind, ClaimsHaveRows
<1>3. ClaimsDisjoint'
  BY DEF EventInv, ClaimsDisjoint
<1>. QED
  BY <1>1, <1>2, <1>3 DEF EventInv

\* A step that changes no more than one row, and advances it.
LEMMA OneRow ==
  ASSUME EventInv, NEW d \in Deliveries, NEW r, OkRow(r), Advances(delivery[d], r),
         delivery' = [delivery EXCEPT ![d] = r]
  PROVE  /\ delivery' \in [Deliveries -> Row]
         /\ \A f \in Deliveries : /\ RebuildsDeliveryEnvelope(delivery'[f])
                                  /\ Advances(delivery[f], delivery'[f])
<1>1. delivery \in [Deliveries -> Row]
  BY DEF EventInv, TypeOK
<1>2. \A f \in Deliveries : Advances(delivery[f], delivery[f])
  BY <1>1, SameNumberAdvances
<1>. QED
  BY <1>1, <1>2 DEF EventInv, TypeOK, OkRow

\* The outbox starts empty, with nobody at work.
LEMMA EventInit == Init => EventInv
<1>. SUFFICES ASSUME Init PROVE EventInv
  OBVIOUS
<1>1. IdlePublisher \in Pass
  BY DEF IdlePublisher, NoClaim, Pass
<1>2. TypeOK
  BY <1>1, FreshRows, DeliveryBounds DEF Init, TypeOK, OkRow
<1>3. \A w \in Publishers : Outstanding(w) = {} /\ PassKnows(w)
  BY DEF Init, Outstanding, PassKnows, IdlePublisher
<1>. QED
  BY <1>2, <1>3 DEF EventInv, ClaimsBehind, ClaimsDisjoint, ClaimsHaveRows

\* What the owner of the outbox, an operator and time do to it.
LEMMA EventInvRow ==
  ASSUME EventInv, NEW d \in Deliveries,
         \/ EnqueueEventDelivery(d) \/ RedriveEventDelivery(d) \/ BecomeDue(d)
         \/ LeaseExpires(d) \/ HolderStalls(d) \/ PatienceRunsOut(d)
  PROVE  EventInv'
<1>1. OkRow(delivery[d])
  BY DEF EventInv, TypeOK, OkRow
<1>2. PICK r : /\ OkRow(r) /\ Advances(delivery[d], r)
               /\ delivery' = [delivery EXCEPT ![d] = r]
  <2>1. CASE EnqueueEventDelivery(d)
    <3>1. Advances(delivery[d], NewRow)
      BY <2>1 DEF EnqueueEventDelivery, Advances
    <3>. QED
      BY <2>1, <3>1, FreshRows DEF EnqueueEventDelivery
  <2>2. CASE RedriveEventDelivery(d)
    BY <1>1, <2>2, RedrivenRow DEF RedriveEventDelivery
  <2>3. CASE BecomeDue(d)
    BY <1>1, <2>3, TimedRow DEF BecomeDue
  <2>4. CASE LeaseExpires(d) \/ HolderStalls(d)
    BY <1>1, <2>4, TimedRow DEF LeaseExpires, HolderStalls
  <2>5. CASE PatienceRunsOut(d)
    BY <1>1, <2>5, TimedRow DEF PatienceRunsOut
  <2>. QED
    BY <2>1, <2>2, <2>3, <2>4, <2>5
<1>3. UNCHANGED <<publisher, applied>>
  BY DEF EnqueueEventDelivery, RedriveEventDelivery, BecomeDue, LeaseExpires,
         HolderStalls, PatienceRunsOut
<1>4. faults' \in 0..MaxFaults
  BY DeliveryBounds DEF EventInv, TypeOK, EnqueueEventDelivery, RedriveEventDelivery,
         BecomeDue, LeaseExpires, HolderStalls, PatienceRunsOut
<1>5. \A w \in Publishers : Outstanding(w)' \subseteq Outstanding(w) /\ PassKnows(w)'
  BY <1>3 DEF EventInv, Outstanding, PassKnows
<1>. QED
  BY <1>2, <1>3, <1>4, <1>5, OneRow, PassesShrink DEF EventInv, TypeOK

\* The purge of the profile removes every row there is.
LEMMA EventInvPurge == ASSUME EventInv, PurgeDeliveries PROVE EventInv'
<1>1. delivery' = [d \in Deliveries |-> IF delivery[d].state = "none" THEN NoRow
                                        ELSE [NoRow EXCEPT !.state = "purged"]]
  BY DEF PurgeDeliveries
<1>2. delivery' \in [Deliveries -> Row]
  BY <1>1, FreshRows DEF OkRow
<1>3. \A d \in Deliveries : /\ RebuildsDeliveryEnvelope(delivery'[d])
                            /\ Advances(delivery[d], delivery'[d])
  BY <1>1, FreshRows DEF OkRow, Advances
<1>4. \A w \in Publishers : Outstanding(w)' \subseteq Outstanding(w) /\ PassKnows(w)'
  BY DEF EventInv, PurgeDeliveries, Outstanding, PassKnows
<1>. QED
  BY <1>2, <1>3, <1>4, PassesShrink DEF EventInv, TypeOK, PurgeDeliveries

\* What the pass of one publisher leaves of the other passes.
LEMMA OtherPasses ==
  ASSUME EventInv, NEW w \in Publishers, NEW q \in Pass,
         publisher' = [publisher EXCEPT ![w] = q], applied \subseteq applied'
  PROVE  /\ publisher' \in [Publishers -> Pass] /\ publisher'[w] = q
         /\ \A v \in Publishers \ {w} : Outstanding(v)' = Outstanding(v) /\ PassKnows(v)'
<1>1. publisher \in [Publishers -> Pass]
  BY DEF EventInv, TypeOK
<1>2. \A v \in Publishers \ {w} : publisher'[v] = publisher[v]
  BY <1>1
<1>3. \A v \in Publishers : PassKnows(v)
  BY DEF EventInv
<1>. QED
  BY <1>1, <1>2, <1>3 DEF Outstanding, PassKnows

\* A claim hands out the next number of every due row, and parks or repairs the
\* rows whose last attempt nobody reported.
LEMMA EventInvClaim ==
  ASSUME EventInv, NEW w \in Publishers, ClaimEventDeliveries(w)
  PROVE  EventInv'
<1>. DEFINE Due == {f \in Deliveries : ~ExpiredFinal(delivery[f]) /\ Claimable(delivery[f])}
            ClaimOf(d) == [delivery |-> d, attempt |-> delivery[d].attempts + 1,
                           cycle |-> delivery[d].cycle]
            New == {ClaimOf(d) : d \in Due}
<1>1. \A d \in Deliveries : OkRow(delivery[d])
  BY DEF EventInv, TypeOK, OkRow
<1>2. /\ delivery' = [d \in Deliveries |->
              IF ExpiredFinal(delivery[d]) THEN TransitionToRepair(delivery[d], FALSE)
              ELSE IF Claimable(delivery[d]) THEN Issued(delivery[d]) ELSE delivery[d]]
      /\ publisher' = [publisher EXCEPT ![w].claims = New]
      /\ applied' = applied /\ faults' = faults /\ publisher[w] = IdlePublisher
  BY DEF ClaimEventDeliveries, Issued, Idle
<1>3. \A d \in Due : /\ OkRow(delivery'[d]) /\ delivery'[d].state = "delivering"
                     /\ delivery'[d].attempts = delivery[d].attempts + 1
                     /\ delivery'[d].cycle = delivery[d].cycle
  BY <1>1, <1>2, IssuedRow
<1>4. \A d \in Deliveries : OkRow(delivery'[d]) /\ Advances(delivery[d], delivery'[d])
  <2>1. SUFFICES ASSUME NEW d \in Deliveries
                 PROVE  OkRow(delivery'[d]) /\ Advances(delivery[d], delivery'[d])
    OBVIOUS
  <2>2. CASE ExpiredFinal(delivery[d])
    <3>1. delivery[d].state \in Unsettled
      BY <2>2 DEF ExpiredFinal, Unsettled
    <3>2. delivery'[d] = TransitionToRepair(delivery[d], FALSE)
      BY <1>2, <2>2
    <3>. QED
      BY <1>1, <3>1, <3>2, RepairedRow
  <2>3. CASE ~ExpiredFinal(delivery[d]) /\ Claimable(delivery[d])
    BY <1>1, <1>2, <2>3, IssuedRow
  <2>4. CASE ~ExpiredFinal(delivery[d]) /\ ~Claimable(delivery[d])
    BY <1>1, <1>2, <2>4, SameNumberAdvances DEF OkRow
  <2>. QED
    BY <2>2, <2>3, <2>4
<1>5. delivery' \in [Deliveries -> Row]
  BY <1>2, <1>4 DEF OkRow
<1>6. New \subseteq Claim
  <2>1. SUFFICES ASSUME NEW d \in Due PROVE ClaimOf(d) \in Claim
    OBVIOUS
  <2>2. delivery[d] \in Row /\ Claimable(delivery[d]) /\ d \in Deliveries
    BY <1>1 DEF OkRow
  <2>3. delivery[d].attempts + 1 \in 1..MaxDeliveryAttempts /\ delivery[d].cycle \in 0..MaxCycle
    BY <2>2, DeliveryBounds DEF Claimable, Row
  <2>. QED
    BY <2>2, <2>3 DEF Claim
<1>7. /\ [IdlePublisher EXCEPT !.claims = New] \in Pass
      /\ publisher' = [publisher EXCEPT ![w] = [IdlePublisher EXCEPT !.claims = New]]
  <2>1. [IdlePublisher EXCEPT !.claims = New] \in Pass
    BY <1>6 DEF IdlePublisher, NoClaim, Pass
  <2>. QED
    BY <1>2, <2>1
<1>8. /\ publisher' \in [Publishers -> Pass]
      /\ publisher'[w] = [IdlePublisher EXCEPT !.claims = New]
      /\ \A v \in Publishers \ {w} : Outstanding(v)' = Outstanding(v) /\ PassKnows(v)'
  BY <1>2, <1>7, OtherPasses
<1>9. NoClaim \notin Claim
  BY DEF NoClaim, Claim, Deliveries
<1>10. Outstanding(w)' = New /\ PassKnows(w)'
  BY <1>6, <1>8, <1>9 DEF Outstanding, PassKnows, IdlePublisher
<1>11. ASSUME NEW v \in Publishers \ {w}, NEW c \in Outstanding(v)
       PROVE  /\ Behind(c, delivery'[c.delivery]) /\ delivery'[c.delivery].state # "none"
              /\ c \notin New
  <2>1. /\ c \in Claim /\ c.delivery \in Deliveries /\ OkRow(delivery[c.delivery])
        /\ Behind(c, delivery[c.delivery]) /\ delivery[c.delivery].state # "none"
    BY OutstandingClaims
  <2>2. Behind(c, delivery'[c.delivery]) /\ delivery'[c.delivery].state # "none"
    <3>1. /\ delivery'[c.delivery] \in Row /\ delivery[c.delivery] \in Row
          /\ Advances(delivery[c.delivery], delivery'[c.delivery])
      BY <1>4, <2>1 DEF OkRow
    <3>. QED
      BY <2>1, <3>1, BehindAdvances DEF Advances
  <2>3. ASSUME NEW d \in Due, c = ClaimOf(d) PROVE FALSE
    <3>1. /\ c.delivery = d /\ c.attempt = delivery[d].attempts + 1
          /\ c.cycle = delivery[d].cycle
      BY <2>3
    <3>2. delivery[d].state # "purged" /\ delivery[d] \in Row
      BY <1>1 DEF Claimable, OkRow
    <3>3. delivery[d].attempts \in Nat /\ delivery[d].cycle \in Nat
      BY <3>2, DeliveryBounds DEF Row
    <3>. QED
      BY <2>1, <3>1, <3>2, <3>3 DEF Behind
  <2>. QED
    BY <2>2, <2>3
<1>12. ASSUME NEW c \in New
       PROVE  Behind(c, delivery'[c.delivery]) /\ delivery'[c.delivery].state # "none"
  <2>1. PICK d \in Due : c = ClaimOf(d)
    OBVIOUS
  <2>2. /\ c.delivery = d /\ c.attempt = delivery[d].attempts + 1
        /\ c.cycle = delivery[d].cycle
    BY <2>1
  <2>3. delivery'[d].attempts \in Nat
    BY <1>3, DeliveryBounds DEF OkRow, Row
  <2>. QED
    BY <1>3, <2>2, <2>3 DEF Behind
<1>13. TypeOK'
  BY <1>2, <1>4, <1>5, <1>8 DEF TypeOK, EventInv, OkRow
<1>14. ClaimsBehind' /\ ClaimsHaveRows' /\ ClaimsDisjoint'
  <2>. HIDE DEF New
  <2>1. ClaimsBehind'
    BY <1>8, <1>10, <1>11, <1>12 DEF ClaimsBehind
  <2>2. ClaimsHaveRows'
    BY <1>8, <1>10, <1>11, <1>12 DEF ClaimsHaveRows
  <2>3. ClaimsDisjoint'
    BY <1>8, <1>10, <1>11 DEF ClaimsDisjoint, EventInv
  <2>. QED
    BY <2>1, <2>2, <2>3
<1>. QED
  BY <1>8, <1>10, <1>13, <1>14 DEF EventInv

\* The pass has posted one of its claims: it has the same claims in hand.
LEMMA EventInvPost ==
  ASSUME EventInv, NEW w \in Publishers, PostToCloud(w)
  PROVE  EventInv'
<1>1. PICK c \in publisher[w].claims,
           answer \in {"accepted", "gap", "rejected", "unavailable"} :
        /\ publisher' = [publisher EXCEPT ![w].claims = @ \ {c},
                                          ![w].posting = c, ![w].answer = answer]
        /\ applied' = applied \/ applied' = applied \cup {c.delivery}
        /\ answer = "accepted" => applied' = applied \cup {c.delivery}
        /\ faults' = faults \/ (faults < MaxFaults /\ faults' = faults + 1)
  <2>1. PICK c \in publisher[w].claims :
          LET Answered(answer) ==
                publisher' = [publisher EXCEPT ![w].claims = @ \ {c},
                                               ![w].posting = c, ![w].answer = answer]
          IN  \/ applied' = applied \cup {c.delivery} /\ Answered("accepted") /\ UNCHANGED faults
              \/ Answered("gap") /\ UNCHANGED <<applied, faults>>
              \/ Answered("rejected") /\ UNCHANGED <<applied, faults>>
              \/ /\ Answered("unavailable") /\ faults < MaxFaults /\ faults' = faults + 1
                 /\ UNCHANGED applied \/ applied' = applied \cup {c.delivery}
    BY Zenon DEF PostToCloud
  <2>. QED
    BY <2>1
<1>2. /\ publisher \in [Publishers -> Pass] /\ publisher[w] \in Pass
      /\ publisher[w].posting = NoClaim /\ delivery' = delivery
  BY DEF PostToCloud, EventInv, TypeOK
<1>3. c \in Claim /\ c.delivery \in Deliveries
  BY <1>2 DEF Pass, Claim
<1>4. c # NoClaim
  BY <1>3 DEF NoClaim, Deliveries
<1>. DEFINE q == [publisher[w] EXCEPT !.claims = publisher[w].claims \ {c},
                                      !.posting = c, !.answer = answer]
<1>5. q \in Pass /\ publisher' = [publisher EXCEPT ![w] = q]
  <2>1. q \in Pass
    BY <1>2, <1>3 DEF Pass
  <2>2. publisher' = [publisher EXCEPT ![w] = q]
    BY <1>1, <1>2
  <2>. QED
    BY <2>1, <2>2
<1>6. /\ publisher' \in [Publishers -> Pass] /\ publisher'[w] = q
      /\ \A v \in Publishers \ {w} : Outstanding(v)' = Outstanding(v) /\ PassKnows(v)'
  <2>. HIDE DEF q
  <2>. QED
    BY <1>1, <1>5, OtherPasses
<1>7. /\ publisher'[w].claims = publisher[w].claims \ {c}
      /\ publisher'[w].posting = c /\ publisher'[w].answer = answer
  BY <1>2, <1>6 DEF Pass
<1>8. Outstanding(w)' \subseteq Outstanding(w) /\ PassKnows(w)'
  <2>1. Outstanding(w)' \subseteq Outstanding(w)
    BY <1>2, <1>4, <1>7 DEF Outstanding
  <2>2. PassKnows(w)'
    BY <1>1, <1>4, <1>7 DEF PassKnows
  <2>. QED
    BY <2>1, <2>2
<1>9. applied' \subseteq Deliveries /\ faults' \in 0..MaxFaults
  BY <1>1, <1>3, DeliveryBounds DEF EventInv, TypeOK
<1>10. \A d \in Deliveries : Advances(delivery[d], delivery[d])
  BY SameNumberAdvances DEF EventInv, TypeOK
<1>. QED
  BY <1>1, <1>2, <1>6, <1>8, <1>9, <1>10, PassesShrink DEF EventInv, TypeOK

\* A pass that is done with a claim, or with everything, has fewer claims.
LEMMA EndedPass ==
  ASSUME EventInv, NEW w \in Publishers, applied' = applied,
         \/ \E k \in Deliveries \cup {0} : Resolved(w, k)
         \/ publisher' = [publisher EXCEPT ![w] = IdlePublisher]
         \/ publisher' = [publisher EXCEPT ![w].wake = 0]
  PROVE  /\ publisher' \in [Publishers -> Pass]
         /\ \A v \in Publishers : Outstanding(v)' \subseteq Outstanding(v) /\ PassKnows(v)'
<1>1. publisher \in [Publishers -> Pass] /\ publisher[w] \in Pass /\ PassKnows(w)
  BY DEF EventInv, TypeOK
<1>2. NoClaim \notin Claim
  BY DEF NoClaim, Claim, Deliveries
<1>3. PICK q \in Pass : /\ publisher' = [publisher EXCEPT ![w] = q]
                        /\ \/ /\ q.posting = NoClaim /\ q.answer = "none"
                              /\ q.claims \subseteq publisher[w].claims
                           \/ /\ q.posting = publisher[w].posting
                              /\ q.answer = publisher[w].answer
                              /\ q.claims = publisher[w].claims
  <2>1. ASSUME NEW k \in Deliveries \cup {0}, Resolved(w, k)
        PROVE  \E q \in Pass : /\ publisher' = [publisher EXCEPT ![w] = q]
                               /\ q.posting = NoClaim /\ q.answer = "none"
                               /\ q.claims \subseteq publisher[w].claims
    <3>. DEFINE q == [publisher[w] EXCEPT !.posting = NoClaim, !.answer = "none", !.wake = k]
    <3>1. q \in Pass /\ q.posting = NoClaim /\ q.answer = "none" /\ q.claims = publisher[w].claims
      BY <1>1 DEF Pass
    <3>2. publisher' = [publisher EXCEPT ![w] = q]
      BY <1>1, <2>1 DEF Resolved
    <3>. HIDE DEF q
    <3>. QED
      BY <3>1, <3>2
  <2>2. CASE publisher' = [publisher EXCEPT ![w] = IdlePublisher]
    <3>1. /\ IdlePublisher \in Pass /\ IdlePublisher.posting = NoClaim
          /\ IdlePublisher.answer = "none" /\ IdlePublisher.claims = {}
      BY DEF IdlePublisher, NoClaim, Pass
    <3>. QED
      BY <2>2, <3>1
  <2>3. CASE publisher' = [publisher EXCEPT ![w].wake = 0]
    <3>. DEFINE q == [publisher[w] EXCEPT !.wake = 0]
    <3>1. /\ q \in Pass /\ q.posting = publisher[w].posting
          /\ q.answer = publisher[w].answer /\ q.claims = publisher[w].claims
      BY <1>1 DEF Pass
    <3>2. publisher' = [publisher EXCEPT ![w] = q]
      BY <1>1, <2>3
    <3>. HIDE DEF q
    <3>. QED
      BY <3>1, <3>2
  <2>. QED
    BY <2>1, <2>2, <2>3
<1>4. /\ publisher' \in [Publishers -> Pass] /\ publisher'[w] = q
      /\ \A v \in Publishers \ {w} : Outstanding(v)' = Outstanding(v) /\ PassKnows(v)'
  BY <1>3, OtherPasses
<1>5. NoClaim \notin q.claims
  BY <1>2 DEF Pass
<1>6. Outstanding(w)' \subseteq Outstanding(w) /\ PassKnows(w)'
  BY <1>1, <1>3, <1>4, <1>5 DEF Outstanding, PassKnows
<1>. QED
  BY <1>4, <1>6

\* The answer of a claim is recorded in its row, when the row is still the claim's.
LEMMA EventInvMark ==
  ASSUME EventInv, NEW w \in Publishers, MarkDelivered(w) \/ MarkFailed(w)
  PROVE  EventInv'
<1>. DEFINE c == publisher[w].posting
<1>1. /\ c \in Claim /\ c.delivery \in Deliveries /\ OkRow(delivery[c.delivery])
  BY PostingIsOutstanding, OutstandingClaims
     DEF MarkDelivered, MarkFailed, SuccessAnswers, FailureAnswers
<1>2. \E k \in Deliveries \cup {0} : Resolved(w, k)
  BY <1>1 DEF MarkDelivered, MarkFailed
<1>3. UNCHANGED <<applied, faults>>
  BY DEF MarkDelivered, MarkFailed
<1>4. /\ delivery' \in [Deliveries -> Row]
      /\ \A f \in Deliveries : /\ RebuildsDeliveryEnvelope(delivery'[f])
                               /\ Advances(delivery[f], delivery'[f])
  <2>1. CASE FenceMatches(c)
    <3>1. delivery[c.delivery].state = "delivering" /\ delivery[c.delivery].state \in Unsettled
      BY <2>1 DEF FenceMatches, Unsettled
    <3>2. \/ delivery' = [delivery EXCEPT ![c.delivery] = MarkedDelivered(delivery[c.delivery])]
          \/ delivery' = [delivery EXCEPT ![c.delivery] =
                             MarkedFailed(delivery[c.delivery], publisher[w].answer)]
      BY <2>1 DEF MarkDelivered, MarkFailed
    <3>. HIDE DEF c
    <3>. QED
      BY <1>1, <3>1, <3>2, DeliveredRow, FailedRow, OneRow
  <2>2. CASE ~FenceMatches(c)
    <3>1. delivery' = delivery
      BY <2>2 DEF MarkDelivered, MarkFailed
    <3>. QED
      BY <3>1, SameNumberAdvances DEF EventInv, TypeOK
  <2>. QED
    BY <2>1, <2>2
<1>. QED
  BY <1>2, <1>3, <1>4, EndedPass, PassesShrink DEF EventInv, TypeOK

\* A claim is its delivery, its attempt and its cycle.
LEMMA ClaimIdentity ==
  ASSUME NEW c \in Claim, NEW e \in Claim,
         c.delivery = e.delivery, c.attempt = e.attempt, c.cycle = e.cycle
  PROVE  c = e
  BY DEF Claim

\* A gap is waited out: the number goes back, and nobody else holds it.
LEMMA EventInvDefer ==
  ASSUME EventInv, NEW w \in Publishers, DeferForSequenceGap(w)
  PROVE  EventInv'
<1>. DEFINE c == publisher[w].posting
            r == delivery[c.delivery]
<1>1. c \in Outstanding(w) /\ publisher[w].posting # NoClaim
  BY PostingIsOutstanding DEF DeferForSequenceGap, EventInv, PassKnows
<1>2. c \in Claim /\ c.delivery \in Deliveries /\ OkRow(r)
  BY <1>1, OutstandingClaims
<1>3. r.state = "delivering" /\ r.attempts = c.attempt /\ r.cycle = c.cycle
  BY DEF DeferForSequenceGap, GapMayWait, FenceMatches
<1>4. /\ delivery' = [delivery EXCEPT ![c.delivery] = Deferred(r, c)]
      /\ Resolved(w, 0) /\ UNCHANGED <<applied, faults>>
  BY DEF DeferForSequenceGap
<1>5. /\ OkRow(Deferred(r, c)) /\ Deferred(r, c).state = "pending"
      /\ Deferred(r, c).attempts = c.attempt - 1 /\ Deferred(r, c).cycle = r.cycle
  BY <1>2, <1>3, DeferredRow
<1>6. /\ publisher' \in [Publishers -> Pass]
      /\ \A v \in Publishers : Outstanding(v)' \subseteq Outstanding(v) /\ PassKnows(v)'
  BY <1>4, EndedPass
<1>7. Outstanding(w)' \subseteq publisher[w].claims
  BY <1>4 DEF Outstanding, Resolved, EventInv, TypeOK, Pass
<1>8. /\ delivery \in [Deliveries -> Row] /\ delivery' \in [Deliveries -> Row]
      /\ delivery'[c.delivery] = Deferred(r, c)
      /\ \A d \in Deliveries \ {c.delivery} : delivery'[d] = delivery[d]
  <2>. HIDE DEF c, r
  <2>. QED
    BY <1>2, <1>4, <1>5 DEF EventInv, TypeOK, OkRow
<1>9. ASSUME NEW v \in Publishers, NEW e \in Outstanding(v)'
      PROVE  Behind(e, delivery'[e.delivery]) /\ delivery'[e.delivery].state # "none"
  <2>1. e \in Outstanding(v) /\ e # c
    <3>1. CASE v = w
      BY <1>6, <1>7, <3>1 DEF EventInv, PassKnows
    <3>2. CASE v # w
      BY <1>1, <1>6, <3>2 DEF EventInv, ClaimsDisjoint
    <3>. QED
      BY <3>1, <3>2
  <2>2. /\ e \in Claim /\ e.delivery \in Deliveries
        /\ Behind(e, delivery[e.delivery]) /\ delivery[e.delivery].state # "none"
    BY <2>1, OutstandingClaims
  <2>3. CASE e.delivery # c.delivery
    BY <1>8, <2>2, <2>3
  <2>4. CASE e.delivery = c.delivery
    <3>1. e.attempt # c.attempt \/ e.cycle # c.cycle
      BY <1>2, <2>1, <2>2, <2>4, ClaimIdentity
    <3>2. e.attempt \in Int /\ c.attempt \in Int /\ e.cycle \in Int /\ c.cycle \in Int
      BY <1>2, <2>2, DeliveryBounds DEF Claim
    <3>3. e.cycle < c.cycle \/ (e.cycle = c.cycle /\ e.attempt <= c.attempt)
      BY <1>3, <2>2, <2>4 DEF Behind
    <3>4. e.cycle < c.cycle \/ (e.cycle = c.cycle /\ e.attempt <= c.attempt - 1)
      <4>. HIDE DEF c
      <4>. QED
        BY <3>1, <3>2, <3>3
    <3>5. /\ delivery'[e.delivery].cycle = c.cycle /\ delivery'[e.delivery].state = "pending"
          /\ delivery'[e.delivery].attempts = c.attempt - 1
      BY <1>3, <1>5, <1>8, <2>4
    <3>. QED
      BY <3>4, <3>5 DEF Behind
  <2>. QED
    BY <2>3, <2>4
<1>10. TypeOK'
  BY <1>4, <1>5, <1>6, <1>8 DEF EventInv, TypeOK, OkRow
<1>11. ClaimsBehind' /\ ClaimsHaveRows' /\ ClaimsDisjoint'
  BY <1>6, <1>9 DEF ClaimsBehind, ClaimsHaveRows, ClaimsDisjoint, EventInv
<1>. QED
  BY <1>6, <1>10, <1>11 DEF EventInv

\* The rest of a pass: a gap that is not waited for, the events that are woken,
\* and a pass that ends early.
LEMMA EventInvRest ==
  ASSUME EventInv, NEW w \in Publishers,
         StopWaitingForGap(w) \/ WakeAttemptSuccessors(w) \/ AbandonPass(w) \/ Crash(w)
  PROVE  EventInv'
<1>1. \A d \in Deliveries : OkRow(delivery[d])
  BY DEF EventInv, TypeOK, OkRow
<1>2. \A d \in Deliveries : Advances(delivery[d], delivery[d])
  BY SameNumberAdvances DEF EventInv, TypeOK
<1>3. CASE StopWaitingForGap(w)
  <2>. DEFINE q == [publisher[w] EXCEPT !.answer = "gap_overdue"]
  <2>1. publisher[w] \in Pass /\ publisher \in [Publishers -> Pass] /\ PassKnows(w)
    BY DEF EventInv, TypeOK
  <2>2. /\ q \in Pass /\ q.claims = publisher[w].claims
        /\ q.posting = publisher[w].posting /\ q.answer = "gap_overdue"
    BY <2>1 DEF Pass
  <2>3. publisher' = [publisher EXCEPT ![w] = q] /\ publisher[w].answer = "gap"
    BY <1>3, <2>1 DEF StopWaitingForGap
  <2>. HIDE DEF q
  <2>4. UNCHANGED <<delivery, applied, faults>>
    BY <1>3 DEF StopWaitingForGap
  <2>5. /\ publisher' \in [Publishers -> Pass] /\ publisher'[w] = q
        /\ \A v \in Publishers \ {w} : Outstanding(v)' = Outstanding(v) /\ PassKnows(v)'
    BY <2>2, <2>3, <2>4, OtherPasses
  <2>6. Outstanding(w)' = Outstanding(w) /\ PassKnows(w)'
    BY <2>1, <2>2, <2>3, <2>5 DEF Outstanding, PassKnows
  <2>. QED
    BY <1>2, <2>4, <2>5, <2>6, PassesShrink DEF EventInv, TypeOK
<1>4. CASE WakeAttemptSuccessors(w)
  <2>1. \A d \in Deliveries : \/ delivery'[d] = delivery[d]
                              \/ delivery'[d] = [delivery[d] EXCEPT !.due = TRUE]
    BY <1>4 DEF WakeAttemptSuccessors
  <2>2. \A d \in Deliveries : OkRow(delivery'[d]) /\ Advances(delivery[d], delivery'[d])
    <3>1. SUFFICES ASSUME NEW d \in Deliveries
                   PROVE  OkRow(delivery'[d]) /\ Advances(delivery[d], delivery'[d])
      OBVIOUS
    <3>2. OkRow(delivery[d]) /\ Advances(delivery[d], delivery[d])
      BY <1>1, <1>2
    <3>3. /\ OkRow([delivery[d] EXCEPT !.due = TRUE])
          /\ Advances(delivery[d], [delivery[d] EXCEPT !.due = TRUE])
      BY <3>2, TimedRow
    <3>. QED
      BY <2>1, <3>2, <3>3
  <2>3. delivery' \in [Deliveries -> Row]
    BY <1>4, <2>2 DEF WakeAttemptSuccessors, OkRow
  <2>4. /\ publisher' = [publisher EXCEPT ![w].wake = 0] /\ UNCHANGED <<applied, faults>>
    BY <1>4 DEF WakeAttemptSuccessors
  <2>. QED
    BY <2>2, <2>3, <2>4, EndedPass, PassesShrink DEF EventInv, TypeOK, OkRow
<1>5. CASE AbandonPass(w) \/ Crash(w)
  <2>1. /\ publisher' = [publisher EXCEPT ![w] = IdlePublisher]
        /\ UNCHANGED <<delivery, applied>>
    BY <1>5 DEF AbandonPass, Crash
  <2>2. faults' \in 0..MaxFaults
    BY <1>5, DeliveryBounds DEF AbandonPass, Crash, EventInv, TypeOK
  <2>3. /\ publisher' \in [Publishers -> Pass]
        /\ \A v \in Publishers : Outstanding(v)' \subseteq Outstanding(v) /\ PassKnows(v)'
    BY <2>1, EndedPass
  <2>4. /\ delivery' \in [Deliveries -> Row] /\ applied' \subseteq Deliveries
        /\ \A d \in Deliveries : /\ RebuildsDeliveryEnvelope(delivery'[d])
                                /\ Advances(delivery[d], delivery'[d])
    BY <1>2, <2>1 DEF EventInv, TypeOK
  <2>. QED
    BY <2>2, <2>3, <2>4, PassesShrink
<1>. QED
  BY <1>3, <1>4, <1>5

\* The invariant holds in every reachable state.
THEOREM EventInvariant == Spec => []EventInv
<1>1. EventInv /\ [Next]_vars => EventInv'
  <2>1. ASSUME EventInv, Next PROVE EventInv'
    <3>1. ASSUME NEW d \in Deliveries,
                 \/ EnqueueEventDelivery(d) \/ RedriveEventDelivery(d) \/ BecomeDue(d)
                 \/ LeaseExpires(d) \/ HolderStalls(d) \/ PatienceRunsOut(d)
          PROVE  EventInv'
      BY <2>1, <3>1, EventInvRow
    <3>2. ASSUME NEW w \in Publishers,
                 ClaimEventDeliveries(w) \/ PostToCloud(w) \/ RecordAnswer(w) \/ Crash(w)
          PROVE  EventInv'
      BY <2>1, <3>2, EventInvClaim, EventInvPost, EventInvMark, EventInvDefer, EventInvRest
         DEF RecordAnswer
    <3>. QED
      BY <2>1, <3>1, <3>2, EventInvPurge DEF Next
  <2>2. ASSUME EventInv, UNCHANGED vars PROVE EventInv'
    BY <2>2 DEF vars, EventInv, TypeOK, ClaimsBehind, ClaimsDisjoint, ClaimsHaveRows,
                PassKnows, Outstanding, Behind
  <2>. QED
    BY <2>1, <2>2
<1>. QED
  BY <1>1, EventInit, PTL DEF Spec

\* The rows keep the constraints of their table, an open row can always be
\* rebuilt, and although waiting out a gap gives an attempt number back, no two
\* publishers hold a claim with the same delivery, attempt and cycle
\* (claim_event_deliveries, mark_event_delivery, _defer_for_sequence_gap).
THEOREM FenceNamesOneClaim == Spec => []FenceIsUnambiguous
<1>1. EventInv => FenceIsUnambiguous
  BY DEF EventInv, FenceIsUnambiguous, ClaimsDisjoint
<1>. QED
  BY <1>1, EventInvariant, PTL

-----------------------------------------------------------------------------
(* The refinement.                                                         *)

\* A step that gives some rows a new status and leaves the others alone is that
\* change of the abstract outbox.
LEMMA ChangesStatus ==
  ASSUME NEW S \in SUBSET Deliveries, NEW to,
         \A d \in S : Status(delivery'[d]) = to,
         \A d \in Deliveries \ S : Status(delivery'[d]) = Status(delivery[d])
  PROVE  EventOutbox!Change(S, to)
  BY DEF EventOutbox!Change

\* A step that changes no status and no event that Cloud has is a stutter.
LEMMA KeepsStatus ==
  ASSUME \A d \in Deliveries : Status(delivery'[d]) = Status(delivery[d]),
         applied' = applied
  PROVE  UNCHANGED EventOutbox!vars
  BY DEF EventOutbox!vars

\* Parking rows that were open.
LEMMA ParksRows ==
  ASSUME NEW S \in SUBSET Deliveries, applied' = applied,
         \A d \in S : Status(delivery[d]) = "open" /\ Status(delivery'[d]) = "parked",
         \A d \in Deliveries \ S : Status(delivery'[d]) = Status(delivery[d])
  PROVE  EventOutbox!Next
<1>1. EventOutbox!Change(S, "parked")
  BY ChangesStatus
<1>2. EventOutbox!Park(S)
  BY <1>1 DEF EventOutbox!Park, EventOutbox!In
<1>. QED
  BY <1>2 DEF EventOutbox!Next

\* A row's step outside the passes creates, reopens or keeps it.
LEMMA EventRowRefines ==
  ASSUME EventInv, NEW d \in Deliveries,
         \/ EnqueueEventDelivery(d) \/ RedriveEventDelivery(d) \/ BecomeDue(d)
         \/ LeaseExpires(d) \/ HolderStalls(d) \/ PatienceRunsOut(d)
  PROVE  [EventOutbox!Next]_EventOutbox!vars
<1>1. delivery \in [Deliveries -> Row] /\ OkRow(delivery[d])
  BY DEF EventInv, TypeOK, OkRow
<1>2. applied' = applied
  BY DEF EnqueueEventDelivery, RedriveEventDelivery, BecomeDue, LeaseExpires,
         HolderStalls, PatienceRunsOut
<1>3. CASE EnqueueEventDelivery(d)
  <2>1. /\ delivery'[d] = NewRow /\ \A f \in Deliveries \ {d} : delivery'[f] = delivery[f]
        /\ delivery[d].state = "none"
    BY <1>1, <1>3 DEF EnqueueEventDelivery
  <2>2. Status(delivery'[d]) = "open" /\ Status(delivery[d]) = "none"
    BY <2>1, FreshRows DEF Status, Unsettled
  <2>3. EventOutbox!Change({d}, "open")
    BY <2>1, <2>2, ChangesStatus
  <2>. QED
    BY <1>2, <2>2, <2>3 DEF EventOutbox!Next, EventOutbox!Create, EventOutbox!In
<1>4. CASE RedriveEventDelivery(d)
  <2>1. /\ delivery'[d] = Redriven(delivery[d])
        /\ \A f \in Deliveries \ {d} : delivery'[f] = delivery[f]
        /\ delivery[d].state = "exhausted" /\ delivery[d].cycle < MaxCycle
    BY <1>1, <1>4 DEF RedriveEventDelivery
  <2>2. Status(delivery'[d]) = "open" /\ Status(delivery[d]) = "parked"
    BY <1>1, <2>1, RedrivenRow DEF Status, Unsettled
  <2>3. EventOutbox!Change({d}, "open")
    BY <2>1, <2>2, ChangesStatus
  <2>. QED
    BY <1>2, <2>2, <2>3 DEF EventOutbox!Next, EventOutbox!Reopen, EventOutbox!In
<1>5. CASE BecomeDue(d) \/ LeaseExpires(d) \/ HolderStalls(d) \/ PatienceRunsOut(d)
  <2>1. /\ delivery'[d].state = delivery[d].state
        /\ \A f \in Deliveries \ {d} : delivery'[f] = delivery[f]
    BY <1>1, <1>5, TimedRow DEF BecomeDue, LeaseExpires, HolderStalls, PatienceRunsOut
  <2>2. Status(delivery'[d]) = Status(delivery[d])
    BY <2>1 DEF Status
  <2>. QED
    BY <1>2, <2>1, <2>2, KeepsStatus
<1>. QED
  BY <1>3, <1>4, <1>5

\* The purge removes every row there is.
LEMMA PurgeRefines ==
  ASSUME EventInv, PurgeDeliveries
  PROVE  [EventOutbox!Next]_EventOutbox!vars
<1>. DEFINE S == {d \in Deliveries : delivery[d].state # "none"}
<1>1. /\ delivery' = [d \in Deliveries |-> IF delivery[d].state = "none" THEN NoRow
                                           ELSE [NoRow EXCEPT !.state = "purged"]]
      /\ applied' = applied
  BY DEF PurgeDeliveries
<1>2. \A d \in S : Status(delivery'[d]) = "removed" /\ Status(delivery[d]) # "none"
  <2>1. \A d \in S : delivery'[d].state = "purged" /\ delivery[d] \in Row /\ delivery[d].state # "none"
    BY <1>1, FreshRows DEF EventInv, TypeOK
  <2>. QED
    BY <2>1 DEF Status, Unsettled, Row
<1>3. \A d \in Deliveries \ S : Status(delivery'[d]) = Status(delivery[d])
  <2>1. \A d \in Deliveries \ S : delivery'[d].state = "none" /\ delivery[d].state = "none"
    BY <1>1 DEF NoRow
  <2>. QED
    BY <2>1 DEF Status
<1>4. EventOutbox!Change(S, "removed")
  BY <1>2, <1>3, ChangesStatus
<1>5. EventOutbox!Remove(S)
  BY <1>1, <1>2, <1>4 DEF EventOutbox!Remove, EventOutbox!In
<1>. QED
  BY <1>5 DEF EventOutbox!Next

\* A claim parks the rows it gives up and keeps the others open.
LEMMA ClaimRefines ==
  ASSUME EventInv, NEW w \in Publishers, ClaimEventDeliveries(w)
  PROVE  [EventOutbox!Next]_EventOutbox!vars
<1>. DEFINE S == {d \in Deliveries : ExpiredFinal(delivery[d])
                                      /\ delivery'[d].state = "exhausted"}
<1>1. /\ delivery' = [d \in Deliveries |->
              IF ExpiredFinal(delivery[d]) THEN TransitionToRepair(delivery[d], FALSE)
              ELSE IF Claimable(delivery[d]) THEN Issued(delivery[d]) ELSE delivery[d]]
      /\ applied' = applied
  BY DEF ClaimEventDeliveries, Issued
<1>2. \A d \in Deliveries : OkRow(delivery[d])
  BY DEF EventInv, TypeOK, OkRow
<1>3. \A d \in S : Status(delivery[d]) = "open" /\ Status(delivery'[d]) = "parked"
  BY DEF ExpiredFinal, Status, Unsettled
<1>4. ASSUME NEW d \in Deliveries \ S PROVE Status(delivery'[d]) = Status(delivery[d])
  <2>1. CASE ExpiredFinal(delivery[d])
    <3>1. delivery[d].state = "delivering" /\ delivery[d].state \in Unsettled
      BY <2>1 DEF ExpiredFinal, Unsettled
    <3>2. delivery'[d].state \in {"pending", "exhausted"}
      BY <1>1, <1>2, <2>1, <3>1, RepairedRow
    <3>. QED
      BY <2>1, <3>1, <3>2 DEF Status, Unsettled
  <2>2. CASE ~ExpiredFinal(delivery[d]) /\ Claimable(delivery[d])
    <3>1. /\ delivery[d].state \in {"pending", "delivering"}
          /\ delivery'[d].state = "delivering"
      BY <1>1, <1>2, <2>2, IssuedRow DEF Claimable
    <3>. QED
      BY <3>1 DEF Status, Unsettled
  <2>3. CASE ~ExpiredFinal(delivery[d]) /\ ~Claimable(delivery[d])
    BY <1>1, <2>3
  <2>. QED
    BY <2>1, <2>2, <2>3
<1>5. EventOutbox!Next
  BY <1>1, <1>3, <1>4, ParksRows
<1>. QED
  BY <1>5

\* Cloud receives an event after the earlier ones of the attempt.
LEMMA PostRefines ==
  ASSUME EventInv, NEW w \in Publishers, PostToCloud(w)
  PROVE  [EventOutbox!Next]_EventOutbox!vars
<1>1. PICK c \in publisher[w].claims :
        \/ applied' = applied
        \/ CloudInOrder(c.delivery) /\ applied' = applied \cup {c.delivery}
  BY Zenon DEF PostToCloud
<1>2. delivery' = delivery
  BY DEF PostToCloud
<1>3. /\ c.delivery \in Deliveries /\ delivery[c.delivery] \in Row
      /\ delivery[c.delivery].state # "none"
  <2>1. c \in Outstanding(w)
    BY DEF Outstanding
  <2>. QED
    BY <2>1, OutstandingClaims DEF OkRow
<1>4. Status(delivery[c.delivery]) # "none"
  BY <1>3 DEF Status, Unsettled, Row
<1>5. CASE applied' = applied
  BY <1>2, <1>5, KeepsStatus
<1>6. CASE CloudInOrder(c.delivery) /\ applied' = applied \cup {c.delivery}
  <2>1. EventOutbox!Receive(c.delivery)
    BY <1>2, <1>3, <1>4, <1>6 DEF EventOutbox!Receive, CloudInOrder
  <2>. QED
    BY <1>3, <2>1 DEF EventOutbox!Next
<1>. QED
  BY <1>1, <1>5, <1>6

\* An answer delivers, parks or keeps the row whose fence it matches, and it
\* delivers only what Cloud has.
LEMMA RecordRefines ==
  ASSUME EventInv, NEW w \in Publishers, RecordAnswer(w) \/ Crash(w)
  PROVE  [EventOutbox!Next]_EventOutbox!vars
<1>. DEFINE c == publisher[w].posting
            r == delivery[c.delivery]
<1>1. applied' = applied
  BY DEF RecordAnswer, MarkDelivered, MarkFailed, DeferForSequenceGap, StopWaitingForGap,
         WakeAttemptSuccessors, AbandonPass, Crash
<1>2. CASE delivery' = delivery
  BY <1>1, <1>2, KeepsStatus
<1>3. CASE WakeAttemptSuccessors(w)
  <2>1. SUFFICES ASSUME NEW d \in Deliveries
                 PROVE  Status(delivery'[d]) = Status(delivery[d])
    BY <1>1, KeepsStatus
  <2>2. \/ delivery'[d] = delivery[d]
        \/ delivery'[d] = [delivery[d] EXCEPT !.due = TRUE]
    BY <1>3 DEF WakeAttemptSuccessors
  <2>3. [delivery[d] EXCEPT !.due = TRUE].state = delivery[d].state
    BY TimedRow DEF EventInv, TypeOK, OkRow
  <2>. QED
    BY <2>2, <2>3 DEF Status
<1>4. CASE FenceMatches(c) /\ (MarkDelivered(w) \/ MarkFailed(w) \/ DeferForSequenceGap(w))
  <2>1. /\ c \in Claim /\ c.delivery \in Deliveries /\ OkRow(r)
    BY <1>4, PostingIsOutstanding, OutstandingClaims
       DEF MarkDelivered, MarkFailed, DeferForSequenceGap, SuccessAnswers, FailureAnswers
  <2>2. r.state = "delivering" /\ r.state \in Unsettled /\ Status(r) = "open"
    BY <1>4 DEF FenceMatches, Unsettled, Status
  <2>3. delivery \in [Deliveries -> Row]
    BY DEF EventInv, TypeOK
  <2>4. CASE MarkDelivered(w)
    <3>1. c.delivery \in applied
      BY <2>4 DEF MarkDelivered, SuccessAnswers, EventInv, PassKnows
    <3>2. delivery' = [delivery EXCEPT ![c.delivery] = MarkedDelivered(r)]
      BY <1>4, <2>4 DEF MarkDelivered
    <3>3. Status(MarkedDelivered(r)) = "delivered"
      BY <2>1, <2>2, DeliveredRow DEF Status, Unsettled
    <3>. HIDE DEF c, r
    <3>4. EventOutbox!Change({c.delivery}, "delivered")
      BY <2>1, <2>3, <3>2, <3>3, ChangesStatus
    <3>5. c.delivery \in EventOutbox!In("open")
      BY <2>1, <2>2 DEF EventOutbox!In, r
    <3>6. EventOutbox!Deliver(c.delivery)
      BY <1>1, <3>1, <3>4, <3>5 DEF EventOutbox!Deliver
    <3>. QED
      BY <2>1, <3>6 DEF EventOutbox!Next
  <2>5. CASE MarkFailed(w) \/ DeferForSequenceGap(w)
    <3>1. PICK s : /\ delivery' = [delivery EXCEPT ![c.delivery] = s]
                   /\ s.state \in {"pending", "exhausted"}
      <4>1. CASE MarkFailed(w)
        BY <1>4, <2>1, <2>2, <4>1, FailedRow DEF MarkFailed
      <4>2. CASE DeferForSequenceGap(w)
        BY <2>1, <2>2, <4>2, DeferredRow DEF DeferForSequenceGap
      <4>. QED
        BY <2>5, <4>1, <4>2
    <3>. HIDE DEF c, r
    <3>2. /\ delivery'[c.delivery] = s
          /\ \A d \in Deliveries \ {c.delivery} : delivery'[d] = delivery[d]
      BY <2>1, <2>3, <3>1
    <3>3. CASE s.state = "pending"
      <4>1. Status(s) = "open" /\ Status(delivery[c.delivery]) = "open"
        BY <2>2, <3>3 DEF Status, Unsettled, r
      <4>. QED
        BY <1>1, <3>2, <4>1, KeepsStatus
    <3>4. CASE s.state = "exhausted"
      <4>1. Status(s) = "parked" /\ Status(delivery[c.delivery]) = "open"
        BY <2>2, <3>4 DEF Status, Unsettled, r
      <4>2. EventOutbox!Next
        BY <1>1, <2>1, <3>2, <4>1, ParksRows
      <4>. QED
        BY <4>2
    <3>. QED
      BY <3>1, <3>3, <3>4
  <2>. QED
    BY <1>4, <2>4, <2>5
<1>. QED
  BY <1>2, <1>3, <1>4 DEF RecordAnswer, MarkDelivered, MarkFailed, DeferForSequenceGap,
     GapMayWait, StopWaitingForGap, AbandonPass, Crash

\* The event outbox keeps the promise of Outbox, whatever the number of events,
\* publishers, attempts and cycles: a row is delivered only if Cloud has the
\* event and every earlier one of the attempt, and no late answer, repair or
\* redrive takes up a delivered or a purged row (mark_event_delivery,
\* _transition_to_repair, redrive_event_deliveries).
THEOREM EventsRefineOutbox == Spec => EventsImplementOutbox
<1>1. Init => EventOutbox!Init
  BY DEF Init, EventOutbox!Init, NoRow, Status, Unsettled
<1>2. EventInv /\ [Next]_vars => [EventOutbox!Next]_EventOutbox!vars
  <2>1. ASSUME EventInv, Next PROVE [EventOutbox!Next]_EventOutbox!vars
    BY <2>1, EventRowRefines, PurgeRefines, ClaimRefines, PostRefines, RecordRefines DEF Next
  <2>2. ASSUME UNCHANGED vars PROVE UNCHANGED EventOutbox!vars
    BY <2>2 DEF vars, EventOutbox!vars
  <2>. QED
    BY <2>1, <2>2
<1>. QED
  BY <1>1, <1>2, EventInvariant, PTL DEF Spec, EventsImplementOutbox, EventOutbox!Spec
=============================================================================
