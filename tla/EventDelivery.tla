---------------------------- MODULE EventDelivery ----------------------------
(***************************************************************************)
(* The outbox that carries the events of one attempt to Cloud: one         *)
(* delivery row per event, publishers that claim the due rows in one       *)
(* transaction, post them to Cloud one by one, and record each answer in   *)
(* a later transaction.                                                    *)
(*                                                                         *)
(* Between the claim and the record nothing is locked: a publisher may     *)
(* stall past its delivery lease, crash, or lose an answer, another one    *)
(* may claim the row again, and an operator may redrive it.  A publisher   *)
(* records an answer only if the row is still DELIVERING with the attempt  *)
(* number and the repair cycle of its claim.                               *)
(*                                                                         *)
(* The clock is abstracted: a pending row is due or waits, a delivery      *)
(* lease is held or expired, a sequence gap is within its patience or      *)
(* past it, and time passes as steps of the environment.  A claim takes    *)
(* every due row (the code: at most 20, oldest first).                     *)
(*                                                                         *)
(* A definition named ...Fault is a faulty variant of the one after it; no *)
(* specification uses it, the mutation runs put it in the other's place.   *)
(***************************************************************************)
EXTENDS Integers

CONSTANTS
    Publishers,           \* passes that may run at once: old and new worker
    MaxEvents,            \* bound: events of the attempt
    MaxDeliveryAttempts,  \* MAX_DELIVERY_ATTEMPTS (8)
    MaxRepairCycles,      \* MAX_AUTOMATIC_REPAIR_CYCLES (3)
    MaxCycle,             \* bound: repair cycles with manual redrives
    MaxFaults             \* bound: crashes, stalls and lost posts

ASSUME DeliveryBounds ==
    /\ MaxEvents \in Nat /\ MaxDeliveryAttempts \in Nat \ {0}
    /\ MaxRepairCycles \in Nat /\ MaxCycle \in Nat /\ MaxRepairCycles <= MaxCycle
    /\ MaxFaults \in Nat

VARIABLES
    delivery,   \* ExecutionEventDelivery rows, by position in the attempt
    publisher,  \* the claims of a pass, the post in progress and its answer
    applied,    \* the events Cloud has accepted
    faults      \* crashes, stalls and lost posts so far

vars == <<delivery, publisher, applied, faults>>

Deliveries == 1..MaxEvents

Unsettled == {"pending", "delivering"}
NoRow == [state |-> "none", attempts |-> 0, cycle |-> 0, due |-> FALSE,
          lease |-> "none", gap |-> "none", gapError |-> FALSE, envelope |-> FALSE]
NewRow == [NoRow EXCEPT !.state = "pending", !.due = TRUE, !.envelope = TRUE]

NoClaim == [delivery |-> 0, attempt |-> 0, cycle |-> 0]
IdlePublisher == [claims |-> {}, posting |-> NoClaim, answer |-> "none", wake |-> 0]

Idle(w) == publisher[w] = IdlePublisher
Outstanding(w) ==
    publisher[w].claims \cup (IF publisher[w].posting = NoClaim THEN {}
                              ELSE {publisher[w].posting})

-----------------------------------------------------------------------------
(* What the service functions do to one row.                               *)

ParkExhausted(r) ==
    [r EXCEPT !.state = "exhausted", !.lease = "none",
              !.gapError = FALSE, !.envelope = FALSE]

\* Fails for an open row whose envelope is gone.
RebuildsDeliveryEnvelope(r) == r.envelope \/ r.state \notin Unsettled

TransitionToRepair(r, gapError) ==
    IF ~RebuildsDeliveryEnvelope(r) \/ r.cycle >= MaxRepairCycles
      THEN ParkExhausted(r)
      ELSE [r EXCEPT !.state = "pending", !.cycle = @ + 1, !.attempts = 0,
                     !.due = FALSE, !.lease = "none", !.gapError = gapError]

MarkedDelivered(r) ==
    [r EXCEPT !.state = "delivered", !.lease = "none", !.gap = "none",
              !.gapError = FALSE, !.envelope = FALSE]

MarkedFailed(r, answer) ==
    IF answer = "rejected" THEN ParkExhausted(r)
    ELSE IF r.attempts >= MaxDeliveryAttempts
         THEN TransitionToRepair(r, answer = "gap_overdue")
         ELSE [r EXCEPT !.state = "pending", !.due = FALSE, !.lease = "none",
                        !.gapError = (answer = "gap_overdue")]

\* The gap is waited out without spending the attempt.
Deferred(r, c) ==
    [r EXCEPT !.state = "pending", !.attempts = c.attempt - 1, !.due = FALSE,
              !.lease = "none", !.gapError = TRUE, !.gap = "waiting"]

Redriven(r) ==
    [r EXCEPT !.state = "pending", !.cycle = @ + 1, !.attempts = 0, !.due = TRUE,
              !.lease = "none", !.gap = "none", !.gapError = FALSE, !.envelope = TRUE]

-----------------------------------------------------------------------------
Init ==
    /\ delivery = [d \in Deliveries |-> NoRow]
    /\ publisher = [w \in Publishers |-> IdlePublisher]
    /\ applied = {}
    /\ faults = 0

\* Events of an attempt are appended, and enqueued, in sequence order.
EnqueueEventDelivery(d) ==
    /\ delivery[d].state = "none"
    /\ \A f \in 1..(d - 1) : delivery[f].state \notin {"none", "purged"}
    /\ delivery' = [delivery EXCEPT ![d] = NewRow]
    /\ UNCHANGED <<publisher, applied, faults>>

\* The purge of a deleted profile takes its events and their rows along.
PurgeDeliveries ==
    /\ \E d \in Deliveries : delivery[d].state \notin {"none", "purged"}
    /\ delivery' = [d \in Deliveries |->
            IF delivery[d].state = "none" THEN NoRow ELSE [NoRow EXCEPT !.state = "purged"]]
    /\ UNCHANGED <<publisher, applied, faults>>

\* An operator redrives an exhausted row.
RedriveEventDelivery(d) ==
    /\ delivery[d].state = "exhausted"
    /\ delivery[d].cycle < MaxCycle
    /\ delivery' = [delivery EXCEPT ![d] = Redriven(@)]
    /\ UNCHANGED <<publisher, applied, faults>>

-----------------------------------------------------------------------------
(* A pass of one publisher.                                                *)

ExpiredFinalFault(r) == FALSE
\* The last attempt of a cycle, and nobody reported back.
ExpiredFinal(r) ==
    /\ r.state = "delivering" /\ r.attempts = MaxDeliveryAttempts
    /\ r.lease = "expired"

Claimable(r) ==
    /\ r.due /\ r.attempts < MaxDeliveryAttempts
    /\ \/ r.state = "pending"
       \/ r.state = "delivering" /\ r.lease = "expired"

ClaimEventDeliveries(w) ==
    /\ Idle(w)
    /\ \E d \in Deliveries : ExpiredFinal(delivery[d]) \/ Claimable(delivery[d])
    /\ delivery' = [d \in Deliveries |->
            IF ExpiredFinal(delivery[d]) THEN TransitionToRepair(delivery[d], FALSE)
            ELSE IF Claimable(delivery[d])
            THEN [delivery[d] EXCEPT !.state = "delivering", !.attempts = @ + 1,
                                     !.lease = "held"]
            ELSE delivery[d]]
    /\ publisher' = [publisher EXCEPT ![w].claims =
            {[delivery |-> d, attempt |-> delivery[d].attempts + 1,
              cycle |-> delivery[d].cycle] :
                d \in {f \in Deliveries : ~ExpiredFinal(delivery[f])
                                          /\ Claimable(delivery[f])}}]
    /\ UNCHANGED <<applied, faults>>

\* Cloud holds back an event while an earlier one of the attempt is missing,
\* and answers a repeated event like the first one.
CloudInOrder(d) == 1..(d - 1) \subseteq applied

\* The next post of the pass.  It may be lost on its way to Cloud or on its
\* way back, and Cloud may refuse the event (credentials, contract).
PostToCloud(w) ==
    /\ publisher[w].posting = NoClaim /\ publisher[w].wake = 0
    /\ \E c \in publisher[w].claims :
         LET Answered(answer) ==
                publisher' = [publisher EXCEPT ![w].claims = @ \ {c},
                                               ![w].posting = c, ![w].answer = answer]
         IN  \/ /\ CloudInOrder(c.delivery)
                /\ applied' = applied \cup {c.delivery}
                /\ Answered("accepted")
                /\ UNCHANGED faults
             \/ /\ ~CloudInOrder(c.delivery)
                /\ Answered("gap")
                /\ UNCHANGED <<applied, faults>>
             \/ /\ Answered("rejected")
                /\ UNCHANGED <<applied, faults>>
             \/ /\ faults < MaxFaults
                /\ faults' = faults + 1
                /\ Answered("unavailable")
                /\ \/ UNCHANGED applied
                   \/ CloudInOrder(c.delivery) /\ applied' = applied \cup {c.delivery}
    /\ UNCHANGED delivery

FenceMatchesFault(c) == delivery[c.delivery].state \notin {"none", "purged", "exhausted"}
FenceMatchesAttemptFault(c) ==
    delivery[c.delivery].state = "delivering" /\ delivery[c.delivery].cycle = c.cycle
\* The claim still owns its row.
FenceMatches(c) ==
    /\ delivery[c.delivery].state = "delivering"
    /\ delivery[c.delivery].attempts = c.attempt
    /\ delivery[c.delivery].cycle = c.cycle

SuccessAnswers == {"accepted"}
FailureAnswers == {"rejected", "unavailable", "gap_overdue"}

\* The pass is done with the claim it posted.
Resolved(w, wake) ==
    publisher' = [publisher EXCEPT ![w].posting = NoClaim, ![w].answer = "none",
                                   ![w].wake = wake]

RowExists(d) == delivery[d].state # "purged"

MarkDelivered(w) ==
    LET c == publisher[w].posting IN
    /\ publisher[w].answer \in SuccessAnswers
    /\ RowExists(c.delivery)
    /\ IF FenceMatches(c)
         THEN /\ delivery' = [delivery EXCEPT ![c.delivery] = MarkedDelivered(@)]
              /\ Resolved(w, c.delivery)
         ELSE Resolved(w, 0) /\ UNCHANGED delivery
    /\ UNCHANGED <<applied, faults>>

MarkFailed(w) ==
    LET c == publisher[w].posting IN
    /\ publisher[w].answer \in FailureAnswers
    /\ RowExists(c.delivery)
    /\ IF FenceMatches(c)
         THEN delivery' = [delivery EXCEPT ![c.delivery] =
                              MarkedFailed(@, publisher[w].answer)]
         ELSE UNCHANGED delivery
    /\ Resolved(w, 0)
    /\ UNCHANGED <<applied, faults>>

GapMayWaitFault(c) == FALSE
GapMayWait(c) == FenceMatches(c) /\ delivery[c.delivery].gap # "overdue"

DeferForSequenceGap(w) ==
    LET c == publisher[w].posting IN
    /\ publisher[w].answer = "gap"
    /\ GapMayWait(c)
    /\ delivery' = [delivery EXCEPT ![c.delivery] = Deferred(@, c)]
    /\ Resolved(w, 0)
    /\ UNCHANGED <<applied, faults>>

\* _defer_for_sequence_gap returned False: an ordinary failure, recorded in
\* a transaction of its own.
StopWaitingForGap(w) ==
    /\ publisher[w].answer = "gap"
    /\ ~GapMayWait(publisher[w].posting)
    /\ publisher' = [publisher EXCEPT ![w].answer = "gap_overdue"]
    /\ UNCHANGED <<delivery, applied, faults>>

\* Later events of the attempt that backed off behind this one are due.
WakeAttemptSuccessors(w) ==
    LET d == publisher[w].wake IN
    /\ d # 0
    /\ RowExists(d)
    /\ delivery' = [f \in Deliveries |->
            IF f > d /\ delivery[f].state = "pending" /\ delivery[f].gapError
              THEN [delivery[f] EXCEPT !.due = TRUE] ELSE delivery[f]]
    /\ publisher' = [publisher EXCEPT ![w].wake = 0]
    /\ UNCHANGED <<applied, faults>>

\* The row is gone: the lookup raises and the rest of the pass is dropped.
AbandonPass(w) ==
    /\ \/ /\ publisher[w].answer \in SuccessAnswers \cup FailureAnswers
          /\ ~RowExists(publisher[w].posting.delivery)
       \/ publisher[w].wake # 0 /\ ~RowExists(publisher[w].wake)
    /\ publisher' = [publisher EXCEPT ![w] = IdlePublisher]
    /\ UNCHANGED <<delivery, applied, faults>>

Crash(w) ==
    /\ ~Idle(w)
    /\ faults < MaxFaults
    /\ faults' = faults + 1
    /\ publisher' = [publisher EXCEPT ![w] = IdlePublisher]
    /\ UNCHANGED <<delivery, applied>>

-----------------------------------------------------------------------------
(* Time.                                                                   *)

BecomeDue(d) ==
    /\ delivery[d].state = "pending" /\ ~delivery[d].due
    /\ delivery' = [delivery EXCEPT ![d].due = TRUE]
    /\ UNCHANGED <<publisher, applied, faults>>

HasHolder(d) ==
    \E w \in Publishers : \E c \in Outstanding(w) : c.delivery = d /\ FenceMatches(c)

\* The 60 seconds of a delivery lease: certain to pass when nobody is left to
\* report back, a stall of the holder otherwise.
LeaseExpires(d) ==
    /\ delivery[d].lease = "held"
    /\ ~HasHolder(d)
    /\ delivery' = [delivery EXCEPT ![d].lease = "expired"]
    /\ UNCHANGED <<publisher, applied, faults>>

HolderStalls(d) ==
    /\ delivery[d].lease = "held"
    /\ HasHolder(d)
    /\ faults < MaxFaults
    /\ faults' = faults + 1
    /\ delivery' = [delivery EXCEPT ![d].lease = "expired"]
    /\ UNCHANGED <<publisher, applied>>

PatienceRunsOut(d) ==
    /\ delivery[d].gap = "waiting"
    /\ delivery' = [delivery EXCEPT ![d].gap = "overdue"]
    /\ UNCHANGED <<publisher, applied, faults>>

-----------------------------------------------------------------------------
RecordAnswer(w) ==
    \/ MarkDelivered(w)
    \/ MarkFailed(w)
    \/ DeferForSequenceGap(w)
    \/ StopWaitingForGap(w)
    \/ WakeAttemptSuccessors(w)
    \/ AbandonPass(w)

Next ==
    \/ \E d \in Deliveries :
         \/ EnqueueEventDelivery(d)
         \/ RedriveEventDelivery(d)
         \/ BecomeDue(d)
         \/ LeaseExpires(d)
         \/ HolderStalls(d)
         \/ PatienceRunsOut(d)
    \/ PurgeDeliveries
    \/ \E w \in Publishers :
         \/ ClaimEventDeliveries(w)
         \/ PostToCloud(w)
         \/ RecordAnswer(w)
         \/ Crash(w)

\* The worker loop never stops polling, and time passes.
Spec ==
    /\ Init /\ [][Next]_vars
    /\ \A w \in Publishers :
          WF_vars(ClaimEventDeliveries(w)) /\ WF_vars(PostToCloud(w))
          /\ WF_vars(RecordAnswer(w))
    /\ \A d \in Deliveries :
          WF_vars(BecomeDue(d)) /\ WF_vars(LeaseExpires(d)) /\ WF_vars(PatienceRunsOut(d))

-----------------------------------------------------------------------------
(* Properties.                                                             *)

Row == [state : {"none", "pending", "delivering", "delivered", "exhausted", "purged"},
        attempts : 0..MaxDeliveryAttempts, cycle : 0..MaxCycle, due : BOOLEAN,
        lease : {"none", "held", "expired"}, gap : {"none", "waiting", "overdue"},
        gapError : BOOLEAN, envelope : BOOLEAN]
Claim == [delivery : Deliveries, attempt : 1..MaxDeliveryAttempts, cycle : 0..MaxCycle]
Pass == [claims : SUBSET Claim, posting : Claim \cup {NoClaim},
         answer : {"none", "accepted", "gap", "rejected", "unavailable", "gap_overdue"},
         wake : Deliveries \cup {0}]

\* Every row keeps the constraints of its table: the attempts stay within the
\* eight of a cycle, the cycles within the automatic ones and the redrives.
\* However a row got back to pending (retry, repair, redrive), its envelope
\* can still be rebuilt: it is never parked as delivery_source_invalid.
TypeOK ==
    /\ delivery \in [Deliveries -> Row]
    /\ \A d \in Deliveries : RebuildsDeliveryEnvelope(delivery[d])
    /\ publisher \in [Publishers -> Pass]
    /\ applied \subseteq Deliveries
    /\ faults \in 0..MaxFaults

\* The fence of mark_event_delivery and _defer_for_sequence_gap identifies one
\* claim: although waiting out a gap gives an attempt number back, no two
\* outstanding claims ever carry the same delivery, attempt and cycle.
FenceIsUnambiguous ==
    /\ TypeOK
    /\ \A v, w \in Publishers : v # w => Outstanding(v) \cap Outstanding(w) = {}

Status(r) == CASE r.state \in Unsettled -> "open"
               [] r.state = "exhausted" -> "parked"
               [] r.state = "purged" -> "removed"
               [] OTHER -> r.state

EventOutbox == INSTANCE Outbox WITH
    Items <- Deliveries, Earlier <- [d \in Deliveries |-> 1..(d - 1)],
    status <- [d \in Deliveries |-> Status(delivery[d])], received <- applied

\* The outbox implements the abstract one in the order of the attempt: a row is
\* marked delivered only if Cloud has the event and every earlier one, and no late
\* answer of a stalled publisher, repair or redrive reopens or parks it again
\* (mark_event_delivery, _transition_to_repair, redrive_event_deliveries).
EventsImplementOutbox == EventOutbox!Spec

\* Every enqueued event is eventually delivered or parked for an operator, in
\* spite of crashes, stalls, lost answers and gaps that never close.
EventsSettle ==
    \A d \in Deliveries : delivery[d].state \in Unsettled ~>
        delivery[d].state \in {"delivered", "exhausted", "purged"}

AttemptBudget == MaxDeliveryAttempts * (MaxRepairCycles + 1)

\* Waiting for a predecessor costs nothing: if Cloud refuses no event, no gap
\* outlives its patience and there are fewer faults than attempts in all
\* cycles, then every event is delivered.
TransientFaultsLoseNothing ==
    [](/\ faults < AttemptBudget
       /\ \A w \in Publishers : publisher[w].answer # "rejected"
       /\ \A d \in Deliveries : delivery[d].gap # "overdue")
    => \A d \in Deliveries : delivery[d].state \in Unsettled ~>
            delivery[d].state \in {"delivered", "purged"}
=============================================================================
