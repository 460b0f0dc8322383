---------------------- MODULE ProvisioningHintsProofs ----------------------
(***************************************************************************)
(* The readiness-hint outbox implements Outbox, for every set of hints, of *)
(* passes and every budget of attempts.                                    *)
(*                                                                         *)
(* The mapping alone is not inductive: whether a late mark is a delivery   *)
(* depends on what its pass did before.  HintInv adds what a pass that is  *)
(* under way knows: it holds at most one hint, a hint that has a row, and  *)
(* when it was told "accepted" Cloud has the hint.                         *)
(***************************************************************************)
EXTENDS ProvisioningHints, TLAPS

RowType == [state : {"none", "pending", "delivering", "delivered", "exhausted", "purged"},
            attempts : Nat, due : BOOLEAN, lease : {"none", "held", "expired"}]
PassType == [hints : SUBSET Hints, attempt : Nat,
             answer : {"none", "accepted", "refused", "unavailable"}]

HintTypes ==
    /\ row \in [Hints -> RowType] /\ pass \in [Publishers -> PassType]
    /\ received \in SUBSET Hints

PassesKnow ==
    \A p \in Publishers :
        /\ \A h, k \in pass[p].hints : h = k
        /\ \A h \in pass[p].hints : row[h].state # "none"
        /\ pass[p].answer = "accepted" => pass[p].hints \subseteq received

HintInv == HintTypes /\ PassesKnow

-----------------------------------------------------------------------------
\* A row keeps its type through a claim, an answer and a lost last attempt, and
\* an existing row stays one.
LEMMA RowOperations ==
  ASSUME NEW r \in RowType, NEW answer
  PROVE  /\ Exhausted(r) \in RowType /\ Exhausted(r).state = "exhausted"
         /\ Claimed(r) \in RowType /\ Claimed(r).state = "delivering"
         /\ Marked(r, answer) \in RowType
         /\ Marked(r, answer).state \in {"pending", "delivered", "exhausted"}
         /\ Marked(r, answer).state = "delivered" => answer = "accepted"
<1>1. Exhausted(r) \in RowType /\ Exhausted(r).state = "exhausted"
  BY DEF Exhausted, RowType
<1>2. Claimed(r) \in RowType /\ Claimed(r).state = "delivering"
  <2>1. r.attempts + 1 \in Nat
    BY DEF RowType
  <2>. QED
    BY <2>1 DEF Claimed, RowType
<1>3. /\ [r EXCEPT !.state = "delivered", !.lease = "none"] \in RowType
      /\ [r EXCEPT !.state = "pending", !.due = FALSE, !.lease = "none"] \in RowType
  BY DEF RowType
<1>4. CASE answer = "accepted"
  BY <1>1, <1>2, <1>3, <1>4 DEF Marked, RowType
<1>5. CASE answer # "accepted" /\ (answer = "refused" \/ r.attempts >= MaxAttempts)
  BY <1>1, <1>2, <1>5 DEF Marked
<1>6. CASE answer # "accepted" /\ ~(answer = "refused" \/ r.attempts >= MaxAttempts)
  BY <1>1, <1>2, <1>3, <1>6 DEF Marked, RowType
<1>. QED
  BY <1>4, <1>5, <1>6

\* The limit of a claim is one row.
LEMMA AtMostOneIsOne ==
  ASSUME NEW S, NEW T \in AtMostOne(S)
  PROVE  T \subseteq S /\ \A h, k \in T : h = k
  BY DEF AtMostOne

\* The outbox starts empty, with nobody at work.
LEMMA HintInit == Init => HintInv
  BY DEF Init, HintInv, HintTypes, PassesKnow, RowType, PassType, NoRow, Idle

\* What a step of one row, outside every pass, leaves of the invariant.
LEMMA HintInvRow ==
  ASSUME HintInv, NEW h \in Hints,
         EnsureHint(h) \/ PurgeProfile(h) \/ BecomeDue(h) \/ LeaseExpires(h)
  PROVE  HintInv'
<1>1. PICK r \in RowType : /\ row' = [row EXCEPT ![h] = r]
                           /\ row[h].state # "none" => r.state # "none"
  <2>1. row[h] \in RowType
    BY DEF HintInv, HintTypes
  <2>2. CASE EnsureHint(h)
    <3>1. NewRow \in RowType /\ NewRow.state # "none"
      BY DEF NewRow, NoRow, RowType
    <3>. QED
      BY <2>2, <3>1 DEF EnsureHint
  <2>3. CASE PurgeProfile(h)
    <3>1. [NoRow EXCEPT !.state = "purged"] \in RowType
      BY DEF NoRow, RowType
    <3>. QED
      BY <2>3, <3>1 DEF PurgeProfile, NoRow
  <2>4. CASE BecomeDue(h)
    <3>1. /\ [row[h] EXCEPT !.due = TRUE] \in RowType
          /\ [row[h] EXCEPT !.due = TRUE].state = row[h].state
      BY <2>1 DEF RowType
    <3>. QED
      BY <2>4, <3>1 DEF BecomeDue
  <2>5. CASE LeaseExpires(h)
    <3>1. /\ [row[h] EXCEPT !.lease = "expired"] \in RowType
          /\ [row[h] EXCEPT !.lease = "expired"].state = row[h].state
      BY <2>1 DEF RowType
    <3>. QED
      BY <2>5, <3>1 DEF LeaseExpires
  <2>. QED
    BY <2>2, <2>3, <2>4, <2>5
<1>2. UNCHANGED <<pass, received>>
  BY DEF EnsureHint, PurgeProfile, BecomeDue, LeaseExpires
<1>3. /\ row' \in [Hints -> RowType]
      /\ \A k \in Hints : row[k].state # "none" => row'[k].state # "none"
  BY <1>1 DEF HintInv, HintTypes
<1>4. \A p \in Publishers : pass[p].hints \subseteq Hints
  BY DEF HintInv, HintTypes, PassType
<1>. QED
  BY <1>2, <1>3, <1>4 DEF HintInv, HintTypes, PassesKnow

\* What a pass does to the invariant.
LEMMA HintInvPass ==
  ASSUME HintInv, NEW p \in Publishers, Pass(p) \/ Crash(p)
  PROVE  HintInv'
<1>1. CASE ClaimHints(p)
  <2>1. PICK lost \in AtMostOne({h \in Hints : ExpiredFinal(h)}),
             due \in AtMostOne({h \in Hints : Claimable(h)}) :
             /\ row' = [h \in Hints |-> CASE h \in lost -> Exhausted(row[h])
                                          [] h \in due -> Claimed(row[h])
                                          [] OTHER -> row[h]]
             /\ pass' = [pass EXCEPT ![p].hints = due,
                                     ![p].attempt = IF due = {} THEN 0
                                          ELSE row[CHOOSE h \in due : TRUE].attempts + 1]
    BY <1>1 DEF ClaimHints
  <2>2. /\ due \subseteq Hints /\ \A h, k \in due : h = k
        /\ \A h \in due : row[h].attempts < MaxAttempts
        /\ \A h \in lost : row[h].attempts = MaxAttempts
    BY AtMostOneIsOne DEF ExpiredFinal, Claimable
  <2>3. row' \in [Hints -> RowType]
    BY <2>1, RowOperations DEF HintInv, HintTypes
  <2>4. \A h \in Hints : /\ row[h].state # "none" => row'[h].state # "none"
                         /\ h \in due => row'[h].state # "none"
    BY <2>1, RowOperations DEF HintInv, HintTypes
  <2>5. (IF due = {} THEN 0 ELSE row[CHOOSE h \in due : TRUE].attempts + 1) \in Nat
    <3>1. due # {} => (CHOOSE h \in due : TRUE) \in Hints
      BY <2>2
    <3>2. \A h \in Hints : row[h].attempts + 1 \in Nat
      BY DEF HintInv, HintTypes, RowType
    <3>. QED
      BY <3>1, <3>2
  <2>6. /\ pass' \in [Publishers -> PassType]
        /\ pass'[p].hints = due /\ pass'[p].answer = "none"
        /\ \A q \in Publishers \ {p} : pass'[q] = pass[q]
    <3>1. pass[p] \in PassType /\ pass[p].answer = "none"
      BY <1>1 DEF HintInv, HintTypes, ClaimHints, Idle, PassType
    <3>2. [pass[p] EXCEPT !.hints = due,
                          !.attempt = IF due = {} THEN 0
                                      ELSE row[CHOOSE h \in due : TRUE].attempts + 1]
             \in PassType
      BY <2>2, <2>5, <3>1 DEF PassType
    <3>3. pass \in [Publishers -> PassType]
      BY DEF HintInv, HintTypes
    <3>. QED
      BY <2>1, <3>1, <3>2, <3>3 DEF PassType
  <2>7. received' = received
    BY <1>1 DEF ClaimHints
  <2>8. PassesKnow'
    <3>1. ASSUME NEW q \in Publishers
          PROVE  /\ \A h, k \in pass'[q].hints : h = k
                 /\ \A h \in pass'[q].hints : row'[h].state # "none"
                 /\ pass'[q].answer = "accepted" => pass'[q].hints \subseteq received'
      <4>1. CASE q = p
        BY <2>2, <2>4, <2>6, <4>1
      <4>2. CASE q # p
        <5>1. pass'[q] = pass[q] /\ pass[q].hints \subseteq Hints
          BY <2>6, <4>2 DEF HintInv, HintTypes, PassType
        <5>. QED
          BY <2>4, <2>7, <5>1 DEF HintInv, PassesKnow
      <4>. QED
        BY <4>1, <4>2
    <3>. QED
      BY <3>1 DEF PassesKnow
  <2>. QED
    BY <2>3, <2>6, <2>7, <2>8 DEF HintInv, HintTypes
<1>2. CASE PostHint(p)
  <2>1. PICK answer \in {"accepted", "refused", "unavailable"} :
             /\ pass' = [pass EXCEPT ![p].answer = answer]
             /\ \/ answer # "refused" /\ received' = received \union pass[p].hints
                \/ answer # "accepted" /\ UNCHANGED received
    BY <1>2 DEF PostHint
  <2>2. row' = row
    BY <1>2 DEF PostHint
  <2>3. pass \in [Publishers -> PassType]
    BY DEF HintInv, HintTypes
  <2>4. /\ pass' \in [Publishers -> PassType] /\ received' \in SUBSET Hints
        /\ pass'[p].hints = pass[p].hints /\ pass'[p].answer = answer
        /\ \A q \in Publishers \ {p} : pass'[q] = pass[q]
        /\ received \subseteq received'
    BY <2>1, <2>3 DEF PassType, HintInv, HintTypes
  <2>. QED
    BY <2>1, <2>2, <2>4 DEF HintInv, HintTypes, PassesKnow
<1>3. CASE MarkHint(p)
  <2>1. /\ row' = [h \in Hints |-> IF h \in pass[p].hints /\ Fence(h, pass[p].attempt)
                                   THEN Marked(row[h], pass[p].answer) ELSE row[h]]
        /\ pass' = [pass EXCEPT ![p] = Idle] /\ received' = received
    BY <1>3 DEF MarkHint
  <2>2. row' \in [Hints -> RowType]
    BY <2>1, RowOperations DEF HintInv, HintTypes
  <2>3. \A h \in Hints : row[h].state # "none" => row'[h].state # "none"
    BY <2>1, RowOperations DEF HintInv, HintTypes
  <2>4. Idle \in PassType /\ Idle.hints = {}
    BY DEF Idle, PassType
  <2>. QED
    BY <2>1, <2>2, <2>3, <2>4 DEF HintInv, HintTypes, PassesKnow, PassType
<1>4. CASE Crash(p)
  <2>1. Idle \in PassType /\ Idle.hints = {}
    BY DEF Idle, PassType
  <2>. QED
    BY <1>4, <2>1 DEF Crash, HintInv, HintTypes, PassesKnow, PassType
<1>. QED
  BY <1>1, <1>2, <1>3, <1>4 DEF Pass

\* The invariant of the outbox holds in every reachable state
\* (claim_provisioning_hint_deliveries, mark_provisioning_hint_delivery).
THEOREM HintInvariant == Spec => []HintInv
<1>1. HintInv /\ [Next]_vars => HintInv'
  <2>1. ASSUME HintInv, Next PROVE HintInv'
    BY <2>1, HintInvRow, HintInvPass DEF Next
  <2>2. ASSUME HintInv, UNCHANGED vars PROVE HintInv'
    BY <2>2 DEF vars, HintInv, HintTypes, PassesKnow
  <2>. QED
    BY <2>1, <2>2
<1>. QED
  BY <1>1, HintInit, PTL DEF Spec

-----------------------------------------------------------------------------
(* The refinement.                                                         *)

\* A step that gives some hints a new status and leaves the other rows alone is
\* that change of the abstract outbox.
LEMMA ChangesStatus ==
  ASSUME NEW S \in SUBSET Hints, NEW to,
         \A h \in S : Status(row'[h]) = to,
         \A h \in Hints \ S : Status(row'[h]) = Status(row[h])
  PROVE  HintOutbox!Change(S, to)
  BY DEF HintOutbox!Change

\* A step that changes no status and no hint that Cloud has is a stutter.
LEMMA KeepsStatus ==
  ASSUME \A h \in Hints : Status(row'[h]) = Status(row[h]), received' = received
  PROVE  UNCHANGED HintOutbox!vars
  BY DEF HintOutbox!vars

\* A row's step outside the passes creates, removes or keeps it.
LEMMA HintRowRefines ==
  ASSUME HintInv, NEW h \in Hints,
         EnsureHint(h) \/ PurgeProfile(h) \/ BecomeDue(h) \/ LeaseExpires(h)
  PROVE  [HintOutbox!Next]_HintOutbox!vars
<1>1. row \in [Hints -> RowType] /\ row[h] \in RowType
  BY DEF HintInv, HintTypes
<1>2. CASE EnsureHint(h)
  <2>1. /\ row'[h] = NewRow /\ \A k \in Hints \ {h} : row'[k] = row[k]
        /\ row[h].state = "none" /\ received' = received
    BY <1>1, <1>2 DEF EnsureHint
  <2>2. Status(NewRow) = "open" /\ Status(row[h]) = "none"
    BY <2>1 DEF Status, NewRow, NoRow
  <2>3. HintOutbox!Change({h}, "open")
    BY <2>1, <2>2, ChangesStatus
  <2>. QED
    BY <2>1, <2>2, <2>3 DEF HintOutbox!Next, HintOutbox!Create, HintOutbox!In
<1>3. CASE PurgeProfile(h)
  <2>1. /\ row'[h] = [NoRow EXCEPT !.state = "purged"]
        /\ \A k \in Hints \ {h} : row'[k] = row[k]
        /\ row[h].state \notin {"none", "purged"} /\ received' = received
    BY <1>1, <1>3 DEF PurgeProfile
  <2>2. Status(row'[h]) = "removed" /\ Status(row[h]) # "none"
    BY <1>1, <2>1 DEF Status, NoRow, RowType
  <2>3. HintOutbox!Change({h}, "removed")
    BY <2>1, <2>2, ChangesStatus
  <2>4. HintOutbox!Remove({h})
    BY <2>1, <2>2, <2>3 DEF HintOutbox!Remove, HintOutbox!In
  <2>. QED
    BY <2>4 DEF HintOutbox!Next
<1>4. CASE BecomeDue(h) \/ LeaseExpires(h)
  <2>1. /\ row'[h].state = row[h].state /\ \A k \in Hints \ {h} : row'[k] = row[k]
        /\ received' = received
    BY <1>1, <1>4 DEF BecomeDue, LeaseExpires, RowType
  <2>2. Status(row'[h]) = Status(row[h])
    BY <2>1 DEF Status
  <2>. QED
    BY <2>1, <2>2, KeepsStatus
<1>. QED
  BY <1>2, <1>3, <1>4

\* A claim parks the row whose last attempt was lost, a post is received, a mark
\* delivers, parks or, behind its fence, changes nothing.
LEMMA HintPassRefines ==
  ASSUME HintInv, NEW p \in Publishers, Pass(p) \/ Crash(p)
  PROVE  [HintOutbox!Next]_HintOutbox!vars
<1>1. row \in [Hints -> RowType] /\ pass[p] \in PassType
  BY DEF HintInv, HintTypes
<1>2. CASE ClaimHints(p)
  <2>1. PICK lost \in AtMostOne({h \in Hints : ExpiredFinal(h)}),
             due \in AtMostOne({h \in Hints : Claimable(h)}) :
             row' = [h \in Hints |-> CASE h \in lost -> Exhausted(row[h])
                                       [] h \in due -> Claimed(row[h])
                                       [] OTHER -> row[h]]
    BY <1>2 DEF ClaimHints
  <2>2. /\ lost \subseteq Hints /\ \A h \in lost : ExpiredFinal(h)
        /\ due \subseteq Hints /\ \A h \in due : Claimable(h)
    BY AtMostOneIsOne
  <2>3. \A h \in lost : Status(row[h]) = "open" /\ Status(row'[h]) = "parked"
    <3>1. \A h \in lost : row'[h] = Exhausted(row[h])
      <4>1. \A h \in lost : h \in Hints /\ h \notin due
        BY <2>2, HintAssumption DEF ExpiredFinal, Claimable
      <4>. QED
        BY <2>1, <4>1
    <3>2. \A h \in lost : row[h].state = "delivering" /\ row'[h].state = "exhausted"
      BY <1>1, <2>2, <3>1, RowOperations DEF ExpiredFinal
    <3>. QED
      BY <3>2 DEF Status
  <2>4. \A h \in Hints \ lost : Status(row'[h]) = Status(row[h])
    <3>1. SUFFICES ASSUME NEW h \in Hints \ lost PROVE Status(row'[h]) = Status(row[h])
      OBVIOUS
    <3>2. CASE h \in due
      <4>1. row[h].state \in {"pending", "delivering"} /\ row'[h].state = "delivering"
        BY <1>1, <2>1, <2>2, <3>2, RowOperations DEF Claimable
      <4>. QED
        BY <4>1 DEF Status
    <3>3. CASE h \notin due
      BY <2>1, <3>3
    <3>. QED
      BY <3>2, <3>3
  <2>5. HintOutbox!Change(lost, "parked")
    BY <2>2, <2>3, <2>4, ChangesStatus
  <2>6. HintOutbox!Park(lost)
    BY <1>2, <2>2, <2>3, <2>5 DEF ClaimHints, HintOutbox!Park, HintOutbox!In
  <2>. QED
    BY <2>2, <2>6 DEF HintOutbox!Next
<1>3. CASE PostHint(p)
  <2>1. PICK h \in Hints : pass[p].hints = {h} /\ row[h].state # "none"
    BY <1>1, <1>3 DEF PostHint, HintInv, PassesKnow, PassType
  <2>2. row' = row /\ (received' = received \union {h} \/ received' = received)
    BY <1>3, <2>1 DEF PostHint
  <2>3. Status(row[h]) # "none"
    BY <1>1, <2>1 DEF Status, RowType
  <2>4. CASE received' = received
    BY <2>2, <2>4, KeepsStatus
  <2>5. CASE received' = received \union {h}
    <3>1. HintOutbox!Receive(h)
      BY <2>2, <2>3, <2>5 DEF HintOutbox!Receive
    <3>. QED
      BY <3>1 DEF HintOutbox!Next
  <2>. QED
    BY <2>2, <2>4, <2>5
<1>4. CASE MarkHint(p)
  <2>1. /\ row' = [h \in Hints |-> IF h \in pass[p].hints /\ Fence(h, pass[p].attempt)
                                   THEN Marked(row[h], pass[p].answer) ELSE row[h]]
        /\ received' = received
    BY <1>4 DEF MarkHint
  <2>2. CASE \A h \in pass[p].hints : ~Fence(h, pass[p].attempt)
    BY <2>1, <2>2, KeepsStatus
  <2>3. CASE \E h \in pass[p].hints : Fence(h, pass[p].attempt)
    <3>1. PICK h \in pass[p].hints : Fence(h, pass[p].attempt)
      BY <2>3
    <3>2. pass[p].hints = {h} /\ h \in Hints
      BY <1>1, <3>1 DEF HintInv, PassesKnow, PassType
    <3>3. /\ row'[h] = Marked(row[h], pass[p].answer)
          /\ \A k \in Hints \ {h} : row'[k] = row[k]
      BY <2>1, <3>1, <3>2
    <3>4. Status(row[h]) = "open"
      BY <3>1 DEF Fence, Status
    <3>5. CASE row'[h].state = "delivered"
      <4>1. h \in received
        BY <1>1, <3>2, <3>3, <3>5, RowOperations DEF HintInv, PassesKnow
      <4>2. Status(row'[h]) = "delivered"
        BY <3>5 DEF Status
      <4>3. HintOutbox!Change({h}, "delivered")
        BY <3>2, <3>3, <4>2, ChangesStatus
      <4>. QED
        BY <2>1, <3>2, <3>4, <4>1, <4>3
           DEF HintOutbox!Next, HintOutbox!Deliver, HintOutbox!In
    <3>6. CASE row'[h].state = "exhausted"
      <4>1. Status(row'[h]) = "parked"
        BY <3>6 DEF Status
      <4>2. HintOutbox!Change({h}, "parked")
        BY <3>2, <3>3, <4>1, ChangesStatus
      <4>3. HintOutbox!Park({h})
        BY <2>1, <3>2, <3>4, <4>2 DEF HintOutbox!Park, HintOutbox!In
      <4>. QED
        BY <3>2, <4>3 DEF HintOutbox!Next
    <3>7. CASE row'[h].state = "pending"
      <4>1. Status(row'[h]) = "open"
        BY <3>7 DEF Status
      <4>. QED
        BY <2>1, <3>2, <3>3, <3>4, <4>1, KeepsStatus
    <3>. QED
      BY <1>1, <3>2, <3>3, <3>5, <3>6, <3>7, RowOperations
  <2>. QED
    BY <2>2, <2>3
<1>5. CASE Crash(p)
  BY <1>5, KeepsStatus DEF Crash
<1>. QED
  BY <1>2, <1>3, <1>4, <1>5 DEF Pass

\* The outbox of readiness hints keeps the promise of Outbox, whatever the number
\* of hints, passes and attempts: claims, fences and late answers never deliver a
\* hint that Cloud has not received, nor touch one that is delivered or given up
\* (claim_provisioning_hint_deliveries, mark_provisioning_hint_delivery).
THEOREM HintsRefineOutbox == Spec => HintsImplementOutbox
<1>1. Init => HintOutbox!Init
  BY DEF Init, HintOutbox!Init, NoRow, Status
<1>2. HintInv /\ [Next]_vars => [HintOutbox!Next]_HintOutbox!vars
  <2>1. ASSUME HintInv, Next PROVE [HintOutbox!Next]_HintOutbox!vars
    BY <2>1, HintRowRefines, HintPassRefines DEF Next
  <2>2. ASSUME UNCHANGED vars PROVE UNCHANGED HintOutbox!vars
    BY <2>2 DEF vars, HintOutbox!vars
  <2>. QED
    BY <2>1, <2>2
<1>. QED
  BY <1>1, <1>2, HintInvariant, PTL DEF Spec, HintsImplementOutbox, HintOutbox!Spec
=============================================================================
