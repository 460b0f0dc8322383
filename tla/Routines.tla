------------------------------ MODULE Routines ------------------------------
(***************************************************************************)
(* Scheduled runs of a profile's routines (services/routines.py and the    *)
(* routine branches of claims.py, leases.py, attempts.py and sessions.py). *)
(*                                                                         *)
(* A run is dispatched by Cloud with one execution and one attempt.  The   *)
(* runtime claims it under a lease of its routine's scope; every claim is  *)
(* an acquisition of the same lease row with a new token.  A run may give  *)
(* the lease back to wait for the owner's approval, which is decided,      *)
(* cancelled or left to expire, and go on when it is approved.  It ends    *)
(* with one routine.result event.                                          *)
(*                                                                         *)
(* Commands of Cloud carry idempotency keys and a repeated one returns the *)
(* stored receipt: it is a stuttering step.  A runtime call with an older  *)
(* token is refused: so is one.  Turns of the main conversation use        *)
(* another scope and are in TurnLease.                                     *)
(*                                                                         *)
(* A definition named ...Fault is a faulty variant of the one after it; no *)
(* specification uses it, the mutation runs put it in the other's place.   *)
(***************************************************************************)
EXTENDS Integers, FiniteSets, FiniteSetsExt

CONSTANTS
    Runs,           \* runs, numbered in the order Cloud dispatches them
    RoutineOf,      \* the routine of each run: its lease scope
    MaxApprovals,   \* bound: approval requests of all runs
    MaxClaims,      \* bound: acquisitions of all leases
    MaxSequence,    \* MAX_ROUTINE_SEQUENCE; the terminal event may use one more
    MaxGeneration,  \* bound: Machine generations
    MaxSwitches     \* bound: changes of the admission gate and of the release

ASSUME RunsAssumption ==
    /\ Runs \subseteq Nat /\ IsFiniteSet(Runs) /\ DOMAIN RoutineOf = Runs
    /\ {MaxApprovals, MaxClaims, MaxSequence, MaxGeneration, MaxSwitches} \subseteq Nat
    /\ MaxGeneration > 0

VARIABLES
    run,          \* the rows of each run: routine, execution, attempt, lease, events
    gen,          \* machine_generation
    phase,        \* provisioning: "idle", "stopping" the old Machine, "starting"
    materialized, \* the profile is claim-ready in this generation
    gate,         \* release_target["routine_admission"] is absent or enabled
    release,      \* the Machine's images against the desired ones
    switches

vars == <<run, gen, phase, materialized, gate, release, switches>>
machine == <<gen, phase, materialized>>
admission == <<gate, release, switches>>

Approvals == 1..MaxApprovals
RunStatuses == {"none", "queued", "working", "waiting", "succeeded", "failed", "cancelled", "expired"}
Terminal == {"succeeded", "failed", "cancelled", "expired"}
ApprovalStatuses == {"none", "pending", "authorizing", "rejected", "expired", "cancelled"}

NoRun == [status |-> "none", exec |-> "none", attempt |-> "none", gen |-> 0,
          lease |-> "none", late |-> FALSE, claims |-> 0, current |-> FALSE,
          session |-> FALSE, dispatched |-> FALSE, sequence |-> 0,
          results |-> 0,
          approval |-> [a \in Approvals |-> "none"], due |-> FALSE]

Init ==
    /\ run = [r \in Runs |-> NoRun]
    /\ gen = 1 /\ phase = "idle" /\ materialized = TRUE
    /\ gate = TRUE /\ release = "desired" /\ switches = 0

ClaimsMade == MapThenSumSet(LAMBDA r : run[r].claims, Runs)
ApprovalsRequested ==
    MapThenSumSet(LAMBDA r : Cardinality({a \in Approvals : run[r].approval[a] # "none"}), Runs)

Set(r, rows) == run' = [run EXCEPT ![r] = rows]

-----------------------------------------------------------------------------
(* Dispatch *)

AcceptRoutineDispatch(r) ==
    /\ run[r].status = "none" /\ \A q \in Runs : q < r => run[q].status # "none"
    /\ gate /\ release = "desired"
    /\ Set(r, [NoRun EXCEPT !.status = "queued", !.exec = "queued", !.attempt = "queued",
                            !.gen = gen])
    /\ UNCHANGED <<machine, admission>>

-----------------------------------------------------------------------------
(* The lease row leaves its live state.  late is about live leases and due *)
(* about pending requests.                                                 *)
Left(t, state) == [t EXCEPT !.lease = state, !.late = FALSE]

(* Its current acquisition is retired too. *)
Retired(t, state) == [Left(t, state) EXCEPT !.current = FALSE]

-----------------------------------------------------------------------------
(* The result that ends a run *)

NextEventSequence(t) == t.sequence + 1

MayRecord(t, sequence) ==
    /\ t.status \notin Terminal
    /\ sequence \in 1..(MaxSequence + 1)

Recorded(t, outcome, sequence) ==
    LET final == IF outcome = "failed" THEN "failed" ELSE "succeeded"
    IN  [(IF t.lease = "active" THEN Retired(t, "released") ELSE t) EXCEPT
           !.status = final, !.attempt = final, !.exec = final,
           !.results = @ + 1, !.sequence = sequence,
           !.approval = [a \in Approvals |->
               IF outcome = "failed" /\ @[a] = "authorizing" THEN "cancelled" ELSE @[a]]]

(* The caller of a failed result then writes its own final states. *)
FailedAs(t, status, final) ==
    [Recorded(t, "failed", NextEventSequence(t)) EXCEPT
        !.status = status, !.exec = final, !.attempt = final]

-----------------------------------------------------------------------------
(* Claims and the reconciliation of expired leases *)

HasReplayCheckpointFault(t) == t.dispatched
HasReplayCheckpoint(t) == t.session \/ t.dispatched

(* A run that never reached Hermes may be replayed, but not under a stale  *)
(* release.                                                                *)
Untouched(t) ==
    /\ t.attempt \in {"queued", "running"} /\ t.exec \in {"queued", "running"}
    /\ t.gen = gen /\ materialized /\ ~HasReplayCheckpoint(t)
StaleRelease == gate /\ release # "desired"
Replayable(t) == Untouched(t) /\ ~StaleRelease

(* An expired lease that cannot be replayed takes two events: the turn's   *)
(* execution.failed and the routine's result.                              *)
ReconcileRaises(t) ==
    /\ t.lease = "active" /\ t.late
    /\ ~Replayable(t) /\ t.attempt \in {"queued", "running"}
    /\ t.sequence + 2 > MaxSequence + 1

Reconciled(t) ==
    CASE ~(t.lease = "active" /\ t.late) -> t
      [] t.lease = "active" /\ t.late /\ Replayable(t) ->
           [Retired(t, "released") EXCEPT
               !.attempt = "queued", !.exec = "queued", !.status = "queued"]
      [] OTHER ->
           LET retired == t.gen # gen \/ (Untouched(t) /\ StaleRelease)
               failed  == IF t.attempt \in {"queued", "running"}
                          THEN [FailedAs([t EXCEPT !.sequence = @ + 1], "failed", "failed")
                                  EXCEPT !.attempt = "unknown"]
                          ELSE t
           IN  Retired(failed, IF retired THEN "fenced" ELSE "released")

Authorized(t) == \E a \in Approvals : t.approval[a] = "authorizing"

CandidateFault(t) == t.status = "queued" /\ t.exec = "queued"
Candidate(t) ==
    \/ t.status = "queued" /\ t.exec = "queued"
    \/ t.status = "working" /\ t.exec = "running" /\ Authorized(t)

ScopeFree(rows, r) ==
    \A q \in Runs : RoutineOf[q] = RoutineOf[r] => rows[q].lease # "active"

Eligible(rows, r) ==
    /\ Candidate(rows[r]) /\ materialized /\ gate /\ release = "desired"
    /\ ScopeFree(rows, r)
    /\ rows[r].attempt = "queued"

Acquired(t) ==
    [t EXCEPT !.status = "working", !.exec = "running", !.attempt = "running", !.gen = gen,
              !.lease = "active", !.late = FALSE, !.current = TRUE, !.claims = @ + 1]

ClaimNextExecution ==
    LET rows == [r \in Runs |-> Reconciled(run[r])]
        eligible == {r \in Runs : Eligible(rows, r)}
        refused == \E r \in Runs : Candidate(rows[r]) /\ ~(materialized /\ gate /\ release = "desired")
    IN  /\ phase = "idle"
        /\ \A r \in Runs : ~ReconcileRaises(run[r])
        /\ \/ /\ eligible # {} /\ ClaimsMade < MaxClaims
              /\ run' = [rows EXCEPT ![Min(eligible)] = Acquired(@)]
           \/ /\ eligible = {} /\ ~refused
              /\ run' = rows
        /\ UNCHANGED <<machine, admission>>

LeaseExpires(r) ==
    /\ run[r].lease = "active" /\ ~run[r].late
    /\ Set(r, [run[r] EXCEPT !.late = TRUE])
    /\ UNCHANGED <<machine, admission>>

-----------------------------------------------------------------------------
(* The runtime's writes with its current token *)

Holds(r) == run[r].lease = "active" /\ ~run[r].late /\ run[r].gen = gen

BindRoutineSession(r) ==
    /\ Holds(r) /\ run[r].current /\ ~run[r].session
    /\ Set(r, [run[r] EXCEPT !.session = TRUE])
    /\ UNCHANGED <<machine, admission>>

(* The runtime numbers its events one after the other. *)
AppendRuntimeEvent(r, dispatched) ==
    /\ Holds(r) /\ run[r].attempt = "running"
    /\ NextEventSequence(run[r]) <= MaxSequence
    /\ Set(r, [run[r] EXCEPT !.sequence = @ + 1, !.dispatched = @ \/ dispatched])
    /\ UNCHANGED <<machine, admission>>

(* A result of the runtime, or its failure report. *)
AppendRuntimeRoutineResult(r, outcome) ==
    /\ Holds(r)
    /\ MayRecord(run[r], NextEventSequence(run[r]))
    /\ Set(r, Recorded(run[r], outcome, NextEventSequence(run[r])))
    /\ UNCHANGED <<machine, admission>>

(* The acknowledgement of a stop is accepted after expiry too. *)
AcknowledgeStopped(r) ==
    /\ run[r].lease = "active" /\ run[r].gen = gen
    /\ MayRecord(run[r], NextEventSequence(run[r]))
    /\ Set(r, FailedAs(run[r], "failed", "failed"))
    /\ UNCHANGED <<machine, admission>>

-----------------------------------------------------------------------------
(* Approval of an action *)

RequestRoutineApproval(r, a) ==
    /\ run[r].approval[a] = "none" /\ \A b \in 1..(a - 1) : run[r].approval[b] # "none"
    /\ ApprovalsRequested < MaxApprovals
    /\ run[r].status = "working" /\ run[r].attempt = "running" /\ run[r].lease = "active"
    /\ NextEventSequence(run[r]) <= MaxSequence
    /\ Set(r, [Retired(run[r], "released") EXCEPT
                  !.approval[a] = "pending", !.status = "waiting", !.attempt = "waiting",
                  !.sequence = NextEventSequence(run[r])])
    /\ UNCHANGED <<machine, admission>>

ExpireAction(r, a) ==
    /\ MayRecord(run[r], NextEventSequence(run[r]))
    /\ Set(r, FailedAs([run[r] EXCEPT !.approval[a] = "expired", !.due = FALSE],
                       "expired", "failed"))

DecideRoutineApproval(r, a, decision) ==
    /\ run[r].approval[a] = "pending"
    /\ \/ run[r].due /\ ExpireAction(r, a)
       \/ /\ ~run[r].due /\ decision = "reject"
          /\ MayRecord(run[r], NextEventSequence(run[r]))
          /\ Set(r, FailedAs([run[r] EXCEPT !.approval[a] = "rejected"], "cancelled", "cancelled"))
       \/ /\ ~run[r].due /\ decision = "approve"
          /\ Set(r, [run[r] EXCEPT !.approval[a] = "authorizing", !.status = "working",
                                   !.exec = "running", !.attempt = "queued"])
    /\ UNCHANGED <<machine, admission>>

MayCancelFault(r, a) == run[r].approval[a] \in {"pending", "authorizing"}
MayCancel(r, a) == run[r].approval[a] = "pending"

CancelRoutineWait(r, a) ==
    /\ MayCancel(r, a)
    /\ MayRecord(run[r], NextEventSequence(run[r]))
    /\ LET rows == FailedAs([run[r] EXCEPT !.approval[a] = "cancelled", !.due = FALSE],
                            "cancelled", "cancelled")
       IN  Set(r, IF rows.lease = "active" THEN Left(rows, "fenced") ELSE rows)
    /\ UNCHANGED <<machine, admission>>

ExpireRoutineApprovals(r, a) ==
    /\ run[r].approval[a] = "pending" /\ run[r].due
    /\ ExpireAction(r, a)
    /\ UNCHANGED <<machine, admission>>

(* The 24 hours of a pending request are over. *)
ApprovalDue(r) ==
    /\ \E a \in Approvals : run[r].approval[a] = "pending"
    /\ ~run[r].due /\ Set(r, [run[r] EXCEPT !.due = TRUE])
    /\ UNCHANGED <<machine, admission>>

-----------------------------------------------------------------------------
(* Machine replacement and the admission gate *)

BeginReplacement ==
    /\ phase = "idle" /\ gen < MaxGeneration
    /\ phase' = "stopping" /\ gen' = gen + 1 /\ materialized' = FALSE
    /\ UNCHANGED <<run, admission>>

(* The fence knows the checkpoint of a turn, not that of an acquisition,   *)
(* and leaves the routine's own row as it is.                              *)
Fenced(t) ==
    IF t.lease = "active" /\ t.gen = gen - 1
    THEN [Left(t, "fenced") EXCEPT
                   !.attempt = IF @ \in {"queued", "running"} THEN "unknown" ELSE @,
                   !.exec = IF t.attempt \in {"queued", "running"} /\ @ = "running"
                            THEN IF t.dispatched THEN "failed" ELSE "queued"
                            ELSE @]
    ELSE t

ConfirmMachineStoppedAndFence ==
    /\ phase = "stopping" /\ phase' = "starting"
    /\ run' = [r \in Runs |-> Fenced(run[r])]
    /\ UNCHANGED <<gen, materialized, admission>>

BindIdle ==
    /\ phase = "starting" /\ phase' = "idle" /\ release' = "desired"
    /\ UNCHANGED <<run, gen, materialized, gate, switches>>

Materialize ==
    /\ phase = "idle" /\ ~materialized /\ materialized' = TRUE
    /\ UNCHANGED <<run, gen, phase, admission>>

EnableRoutineAdmission ==
    /\ ~gate /\ release = "desired" /\ phase = "idle" /\ gate' = TRUE
    /\ UNCHANGED <<run, machine, release, switches>>

DisableRoutineAdmission ==
    /\ gate /\ switches < MaxSwitches /\ switches' = switches + 1 /\ gate' = FALSE
    /\ UNCHANGED <<run, machine, release>>

(* Foundry is deployed with other images. *)
ReleaseChanges ==
    /\ release = "desired" /\ switches < MaxSwitches /\ switches' = switches + 1
    /\ release' = "stale"
    /\ UNCHANGED <<run, machine, gate>>

-----------------------------------------------------------------------------
RuntimeWrite(r) ==
    \/ BindRoutineSession(r) \/ AcknowledgeStopped(r)
    \/ \E dispatched \in BOOLEAN : AppendRuntimeEvent(r, dispatched)
    \/ \E outcome \in {"changed", "failed"} : AppendRuntimeRoutineResult(r, outcome)

Approval(r) ==
    \/ ApprovalDue(r)
    \/ \E a \in Approvals :
          \/ RequestRoutineApproval(r, a) \/ CancelRoutineWait(r, a) \/ ExpireRoutineApprovals(r, a)
          \/ \E d \in {"approve", "reject"} : DecideRoutineApproval(r, a, d)

Next ==
    \/ ClaimNextExecution
    \/ \E r \in Runs :
          AcceptRoutineDispatch(r) \/ LeaseExpires(r) \/ RuntimeWrite(r) \/ Approval(r)
    \/ BeginReplacement \/ ConfirmMachineStoppedAndFence \/ BindIdle \/ Materialize
    \/ EnableRoutineAdmission \/ DisableRoutineAdmission \/ ReleaseChanges

Spec == Init /\ [][Next]_vars

(* The runtime polls for claims and reconciles its profiles, time passes,  *)
(* a replacement goes on, and the expiry command is run.  Nothing forces   *)
(* Cloud, an owner, an operator or a turn.                                 *)
Fairness ==
    /\ WF_vars(ClaimNextExecution) /\ WF_vars(Materialize)
    /\ WF_vars(ConfirmMachineStoppedAndFence) /\ WF_vars(BindIdle)
    /\ \A r \in Runs :
         /\ WF_vars(LeaseExpires(r)) /\ WF_vars(ApprovalDue(r))
         /\ \A a \in Approvals : WF_vars(ExpireRoutineApprovals(r, a))

LiveSpec == Spec /\ Fairness

-----------------------------------------------------------------------------
(* The rows of a run agree: it waits exactly while one of its approvals is *)
(* pending, and a live lease means a working run with a running attempt    *)
(* and a current acquisition.                                              *)
TypeOK ==
    /\ gen \in 1..MaxGeneration /\ phase \in {"idle", "stopping", "starting"}
    /\ \A r \in Runs :
         LET t == run[r] IN
         /\ t.status \in RunStatuses /\ t.gen \in 0..MaxGeneration
         /\ t.approval \in [Approvals -> ApprovalStatuses]
         /\ t.sequence \in 0..(MaxSequence + 1) /\ t.claims \in Nat
         /\ (t.status = "waiting") <=>
              Cardinality({a \in Approvals : t.approval[a] = "pending"}) = 1
         /\ t.status # "waiting" => \A a \in Approvals : t.approval[a] # "pending"
         /\ t.lease = "active" =>
              t.status = "working" /\ t.exec = "running" /\ t.attempt = "running" /\ t.current

(* Every end of a run writes one routine.result event, whoever ends it:    *)
(* the runtime, a stop, an expired lease, a rejection, a cancellation or   *)
(* an expired wait; and a decision is not undone by another one that was   *)
(* on its way: an approved action is not cancelled by Cloud and a refused  *)
(* one does not run.                                                       *)
OneOutcomePerRun ==
    /\ TypeOK
    /\ \A r \in Runs :
        /\ run[r].results = IF run[r].status \in Terminal THEN 1 ELSE 0
        /\ \A a \in Approvals :
             /\ run[r].approval[a] = "rejected" => run[r].status = "cancelled"
             /\ run[r].approval[a] = "expired" => run[r].status = "expired"
             /\ run[r].approval[a] = "authorizing" => run[r].status \notin {"cancelled", "expired"}

(* A run that may have reached Hermes is only ever handed out again to go  *)
(* on from an approved action: its prompt never runs twice.                *)
ResumesOnlyApprovedWork ==
    [][\A r \in Runs :
         run[r].claims' > run[r].claims /\ (run[r].session \/ run[r].dispatched)
           => Authorized(run[r])]_vars

Underway(r) == run[r].status \in {"working", "waiting"}
Settled(r) == run[r].status \in Terminal \cup {"queued"}

(* Some run's event numbers are used up, so that claims may raise, or the  *)
(* claims of this instance are.                                            *)
Exhausted == (\E q \in Runs : run[q].sequence >= MaxSequence) \/ ClaimsMade = MaxClaims

(* A run that started does not stay under way for ever: it ends or is      *)
(* queued again, unless the fence of a replaced Machine took its lease,    *)
(* the budgets are exhausted, or the gate keeps it waiting.                *)
RunsEnd ==
    \A r \in Runs :
        Underway(r) ~> \/ Settled(r) \/ run[r].lease = "fenced" \/ Exhausted
                       \/ ~gate \/ release # "desired"
=============================================================================
