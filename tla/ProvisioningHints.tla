------------------------- MODULE ProvisioningHints -------------------------
(***************************************************************************)
(* The outbox of readiness hints (services/provisioning_hints.py): a row   *)
(* per materialization receipt, written with it, that tells Cloud that a   *)
(* profile may be used.  A pass claims one row, posts it and records the   *)
(* answer in a later transaction; the loop of the Foundry worker and the   *)
(* command publish_profile_readiness_hints may run passes at once.         *)
(*                                                                         *)
(* Unlike the event outbox there is one budget of attempts and no repair   *)
(* cycle, so the attempt number alone fences a claim.  A pending row is    *)
(* due or waits, a lease is held or expired.                               *)
(*                                                                         *)
(* A definition named ...Fault is a faulty variant of the one after it; no *)
(* specification uses it, the mutation runs put it in the other's place.   *)
(***************************************************************************)
EXTENDS Naturals

CONSTANTS
    Hints,         \* materialization receipts
    Publishers,    \* passes that may run at once
    MaxAttempts,   \* MAX_HINT_DELIVERY_ATTEMPTS
    MaxFaults      \* bound: crashes, stalls and lost answers

ASSUME HintAssumption == MaxAttempts \in Nat \ {0} /\ MaxFaults \in Nat

VARIABLES
    row,        \* ProvisioningHintDelivery rows
    pass,       \* the claim of each pass and Cloud's answer
    received,   \* the hints Cloud has
    faults

vars == <<row, pass, received, faults>>

NoRow == [state |-> "none", attempts |-> 0, due |-> FALSE, lease |-> "none"]
NewRow == [NoRow EXCEPT !.state = "pending", !.due = TRUE]
Idle == [hints |-> {}, attempt |-> 0, answer |-> "none"]

Init ==
    /\ row = [h \in Hints |-> NoRow] /\ pass = [p \in Publishers |-> Idle]
    /\ received = {} /\ faults = 0

Fault == faults < MaxFaults /\ faults' = faults + 1

\* With the receipt; a repeated receipt finds its row.
EnsureHint(h) ==
    /\ row[h].state = "none" /\ row' = [row EXCEPT ![h] = NewRow]
    /\ UNCHANGED <<pass, received, faults>>

\* The profile is purged and its rows with it.
PurgeProfile(h) ==
    /\ row[h].state \notin {"none", "purged"}
    /\ row' = [row EXCEPT ![h] = [NoRow EXCEPT !.state = "purged"]]
    /\ UNCHANGED <<pass, received, faults>>

-----------------------------------------------------------------------------
ExpiredFinalFault(h) == FALSE
ExpiredFinal(h) ==
    /\ row[h].state = "delivering" /\ row[h].attempts = MaxAttempts
    /\ row[h].lease = "expired"
Claimable(h) ==
    /\ row[h].attempts < MaxAttempts
    /\ \/ row[h].state = "pending" /\ row[h].due
       \/ row[h].state = "delivering" /\ row[h].lease = "expired"

Exhausted(r) == [r EXCEPT !.state = "exhausted", !.lease = "none"]
Claimed(r) == [r EXCEPT !.state = "delivering", !.attempts = @ + 1, !.lease = "held"]

\* At most one of a set: the limit of a claim, in an order that is left open.
AtMostOne(S) == IF S = {} THEN {{}} ELSE {{h} : h \in S}

\* claim_provisioning_hint_deliveries: one row whose last attempt nobody reported
\* is given up, and one due row is claimed.
ClaimHints(p) ==
    /\ pass[p] = Idle
    /\ \E lost \in AtMostOne({h \in Hints : ExpiredFinal(h)}),
          due \in AtMostOne({h \in Hints : Claimable(h)}) :
          /\ lost \union due # {}
          /\ row' = [h \in Hints |-> CASE h \in lost -> Exhausted(row[h])
                                       [] h \in due -> Claimed(row[h])
                                       [] OTHER -> row[h]]
          /\ pass' = [pass EXCEPT ![p].hints = due,
                                  ![p].attempt = IF due = {} THEN 0
                                                 ELSE row[CHOOSE h \in due : TRUE].attempts + 1]
    /\ UNCHANGED <<received, faults>>

\* _post_hint_to_cloud: accepted, refused for good, or no usable answer, in which
\* case Cloud may have received it.
PostHint(p) ==
    /\ pass[p].hints # {} /\ pass[p].answer = "none"
    /\ \E answer \in {"accepted", "refused", "unavailable"} :
          /\ pass' = [pass EXCEPT ![p].answer = answer]
          /\ \/ answer # "refused" /\ received' = received \union pass[p].hints
             \/ answer # "accepted" /\ UNCHANGED received
          /\ IF answer = "unavailable" THEN Fault ELSE UNCHANGED faults
    /\ UNCHANGED row

Marked(r, answer) ==
    CASE answer = "accepted" -> [r EXCEPT !.state = "delivered", !.lease = "none"]
      [] answer # "accepted" /\ (answer = "refused" \/ r.attempts >= MaxAttempts) -> Exhausted(r)
      [] OTHER -> [r EXCEPT !.state = "pending", !.due = FALSE, !.lease = "none"]

FenceFault(h, attempt) == row[h].attempts = attempt
Fence(h, attempt) == row[h].state = "delivering" /\ row[h].attempts = attempt

\* mark_provisioning_hint_delivery; a row that is gone raises and ends the pass.
MarkHint(p) ==
    /\ pass[p].answer # "none"
    /\ row' = [h \in Hints |-> IF h \in pass[p].hints /\ Fence(h, pass[p].attempt)
                               THEN Marked(row[h], pass[p].answer) ELSE row[h]]
    /\ pass' = [pass EXCEPT ![p] = Idle]
    /\ UNCHANGED <<received, faults>>

Crash(p) ==
    /\ pass[p] # Idle /\ Fault /\ pass' = [pass EXCEPT ![p] = Idle]
    /\ UNCHANGED <<row, received>>

-----------------------------------------------------------------------------
BecomeDue(h) ==
    /\ row[h].state = "pending" /\ ~row[h].due /\ row' = [row EXCEPT ![h].due = TRUE]
    /\ UNCHANGED <<pass, received, faults>>

Held(h) == \E p \in Publishers : h \in pass[p].hints /\ Fence(h, pass[p].attempt)

\* The lease of a claim runs out: its pass died, or it stalls.
LeaseExpires(h) ==
    /\ row[h].lease = "held" /\ row' = [row EXCEPT ![h].lease = "expired"]
    /\ IF Held(h) THEN Fault ELSE UNCHANGED faults
    /\ UNCHANGED <<pass, received>>

Pass(p) == ClaimHints(p) \/ PostHint(p) \/ MarkHint(p)

Next ==
    \/ \E h \in Hints : EnsureHint(h) \/ PurgeProfile(h) \/ BecomeDue(h) \/ LeaseExpires(h)
    \/ \E p \in Publishers : Pass(p) \/ Crash(p)

\* The worker polls every second, a request ends within its timeout, and time
\* passes.
Spec ==
    /\ Init /\ [][Next]_vars
    /\ \A p \in Publishers : WF_vars(Pass(p))
    /\ \A h \in Hints : WF_vars(BecomeDue(h)) /\ WF_vars(LeaseExpires(h))

-----------------------------------------------------------------------------
Status(r) == CASE r.state \in {"pending", "delivering"} -> "open"
               [] r.state = "exhausted" -> "parked"
               [] r.state = "purged" -> "removed"
               [] OTHER -> r.state

HintOutbox == INSTANCE Outbox WITH
    Items <- Hints, Earlier <- [h \in Hints |-> {}],
    status <- [h \in Hints |-> Status(row[h])], received <- received

\* Claims, fences and late answers of two passes add up to an outbox: a hint is
\* delivered only when Cloud has it, and a delivered or given-up hint is never
\* taken up again (mark_provisioning_hint_delivery, the attempt number as fence).
HintsImplementOutbox == HintOutbox!Spec

\* Every hint is delivered or given up, also when the pass that holds its last
\* attempt dies (claim_provisioning_hint_deliveries, "hint_lease_expired").
HintsSettle ==
    \A h \in Hints : row[h].state \in {"pending", "delivering"} ~>
        row[h].state \in {"delivered", "exhausted", "purged"}
=============================================================================
