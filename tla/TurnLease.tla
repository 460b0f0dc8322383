------------------------------ MODULE TurnLease ------------------------------
(***************************************************************************)
(* Turn execution of one workspace, as Foundry's backend keeps it: message *)
(* executions, their attempts, the profile-scoped lease of each attempt,   *)
(* the Hermes session binding of each profile, profile deletion, and the   *)
(* Machine generation that fences all of them.                             *)
(*                                                                         *)
(* Every service handler is one database transaction that locks the        *)
(* Workspace row first, so every handler is one action.  Requests may be   *)
(* lost, duplicated or late: an action has no memory of who sent it, and   *)
(* is enabled whenever the handler's checks pass.  A handler that refuses, *)
(* or replays a stored receipt, changes nothing and is a stuttering step.  *)
(*                                                                         *)
(* The lease token is an HMAC over the attempt and the generation          *)
(* (claims.py _claim_token), so a request that carries the token of        *)
(* attempt a comes from a runtime of generation attempt[a].generation;     *)
(* the checks of the request's generation and of the lease's generation    *)
(* are the same comparison.                                                *)
(*                                                                         *)
(* Only message executions are modelled: a routine execution keeps its     *)
(* attempt and its lease over several acquisitions.                        *)
(*                                                                         *)
(* A definition named ...Fault is a faulty variant of the one after it; no *)
(* specification uses it, the mutation runs put it in the other's place.   *)
(***************************************************************************)
EXTENDS Integers, FiniteSets

CONSTANTS
    Profiles,            \* Ally profiles the workspace may register
    Attempts,            \* attempt identities (UUIDs)
    Sessions,            \* Hermes session identifiers
    NoProfile,           \* the profile of an execution not yet created
    NoSession,           \* "no session": a null hermes_session_id
    MaxExecutions,       \* bound: executions ever created
    MaxGeneration,       \* bound: Machine generations
    MaxRuntimeSequence,  \* events.py MAX_RUNTIME_EVENT_SEQUENCE (100000)
    MaxSlots,            \* claims.py MAX_AVAILABLE_SLOTS (8)
    LeaseTerm            \* clock steps of a fresh lease (60 seconds)

ASSUME ProfilesAssumption == NoProfile \notin Profiles
ASSUME SessionsAssumption == NoSession \notin Sessions
ASSUME BoundsAssumption ==
    /\ MaxExecutions \in Nat /\ MaxGeneration \in Nat
    /\ MaxRuntimeSequence \in Nat
    /\ MaxSlots \in Nat \ {0} /\ LeaseTerm \in Nat \ {0}

VARIABLES
    machineGeneration,  \* Workspace.machine_generation
    phase,              \* Workspace.provisioning_phase
    ready,              \* a readiness receipt of this generation is recorded
    profile,            \* RuntimeProfile and its ConversationBinding
    execution,          \* Execution, numbered in the order of created_at
    attempt,            \* Attempt and its ExecutionEvents
    lease               \* Lease, one per attempt

vars == <<machineGeneration, phase, ready, profile, execution, attempt, lease>>

Executions == 1..MaxExecutions

\* events.py: one sequence number past the runtime's is kept for the
\* terminal event.
MaxTerminalSequence == MaxRuntimeSequence + 1

LiveStates == {"active", "stopping"}
TerminalExecution == {"succeeded", "failed"}

NoAttempt == [status |-> "none", execution |-> 0, generation |-> 0,
              expected |-> NoSession, session |-> NoSession,
              dispatched |-> FALSE, stopEvent |-> FALSE, sequence |-> 0,
              outcomeEvent |-> "none"]
NoLease == [state |-> "none", remaining |-> 0]
NoExecution == [status |-> "none", profile |-> NoProfile]
AbsentProfile == [lifecycle |-> "absent", materialized |-> 0,
                  cleanupExpired |-> FALSE, session |-> NoSession]

-----------------------------------------------------------------------------
(* Predicates the handlers share.                                          *)

OwnerOf(a) == execution[attempt[a].execution].profile

IsLive(l) == l.state \in LiveStates
LiveLease(a) == IsLive(lease[a])
Expired(a) == lease[a].remaining = 0

Unresolved(a) == attempt[a].status = "running"
Retired(a) == attempt[a].generation # machineGeneration

\* The turn may have reached Hermes: it must never be sent a second time.
Checkpointed(a) == attempt[a].dispatched \/ attempt[a].session # NoSession

CleanupPending(p) == profile[p].lifecycle = "cleanup_pending"
ProfileIsClaimReady(p) ==
    /\ profile[p].lifecycle = "active"
    /\ profile[p].materialized = machineGeneration
ProfileAllowsRuntimeWrite(p) == profile[p].lifecycle = "active"
ProfileAllowsStop(p) == profile[p].lifecycle \in {"active", "cleanup_pending"}

\* No operation is in flight and a Machine is recorded: also after a replacement
\* that failed once its new Machine was created.
WorkspaceBound == phase \in {"idle", "failed_bound"}

HasLiveLease(p) == \E a \in Attempts : LiveLease(a) /\ OwnerOf(a) = p

AuthorizesMutationFault(a) ==
    /\ attempt[a].status # "none"
    /\ ~Retired(a)
    /\ ProfileAllowsRuntimeWrite(OwnerOf(a))
    /\ ~Expired(a)
AuthorizesMutationUnfencedFault(a) ==
    /\ lease[a].state = "active"
    /\ ProfileAllowsRuntimeWrite(OwnerOf(a))
    /\ ~Expired(a)
\* What every runtime write on attempt a must pass.
AuthorizesMutation(a) ==
    /\ attempt[a].status # "none"
    /\ ~Retired(a)
    /\ lease[a].state = "active"
    /\ ProfileAllowsRuntimeWrite(OwnerOf(a))
    /\ ~Expired(a)

-----------------------------------------------------------------------------
Init ==
    /\ machineGeneration = 1
    /\ phase = "idle"
    /\ ready = FALSE
    /\ profile = [p \in Profiles |-> AbsentProfile]
    /\ execution = [e \in Executions |-> NoExecution]
    /\ attempt = [a \in Attempts |-> NoAttempt]
    /\ lease = [a \in Attempts |-> NoLease]

-----------------------------------------------------------------------------
(* Cloud: profiles and messages.                                           *)

EnsureProfile(p) ==
    /\ profile[p].lifecycle = "absent"
    /\ profile' = [profile EXCEPT ![p].lifecycle = "pending"]
    /\ UNCHANGED <<machineGeneration, phase, ready, execution, attempt, lease>>

\* Refused once deletion is requested (cleanup_requires_quiescence, never
\* cleared); before that, the turn waits for its profile to become ready.
CreateExecution(p, e) ==
    /\ profile[p].lifecycle \in {"pending", "active"}
    /\ execution[e].status = "none"
    /\ \A f \in 1..(e - 1) : execution[f].status # "none"
    /\ execution' = [execution EXCEPT ![e] = [status |-> "queued", profile |-> p]]
    /\ UNCHANGED <<machineGeneration, phase, ready, profile, attempt, lease>>

-----------------------------------------------------------------------------
(* Runtime: readiness and profile materialization of this generation.      *)

AcceptReadiness ==
    /\ WorkspaceBound
    /\ ready' = TRUE
    /\ UNCHANGED <<machineGeneration, phase, profile, execution, attempt, lease>>

AcceptMaterialization(p) ==
    /\ WorkspaceBound
    /\ profile[p].lifecycle \in {"pending", "active"}
    /\ profile[p].materialized # machineGeneration
    /\ profile' = [profile EXCEPT ![p].lifecycle = "active",
                                  ![p].materialized = machineGeneration]
    /\ UNCHANGED <<machineGeneration, phase, ready, execution, attempt, lease>>

-----------------------------------------------------------------------------
(* The claim transaction.  It first reconciles a batch of stale leases,    *)
(* then replays or hands out a claim; a refusal rolls both back.           *)

StaleLeases == {a \in Attempts : LiveLease(a) /\ Expired(a)}

\* The stale leases of one transaction: at most MaxSlots.  The code takes
\* the ones that expired first; here any choice of that many.
StaleBatches ==
    {S \in SUBSET StaleLeases :
        IF Cardinality(StaleLeases) <= MaxSlots
          THEN S = StaleLeases ELSE Cardinality(S) = MaxSlots}

ReplayableFault(a) ==
    /\ Unresolved(a)
    /\ execution[attempt[a].execution].status \in {"queued", "running"}
    /\ ~Retired(a)
    /\ ProfileIsClaimReady(OwnerOf(a))
Replayable(a) ==
    /\ Unresolved(a)
    /\ execution[attempt[a].execution].status \in {"queued", "running"}
    /\ ~Retired(a)
    /\ ~CleanupPending(OwnerOf(a))
    /\ ProfileIsClaimReady(OwnerOf(a))
    /\ ~Checkpointed(a)

NeedsFailureEventFault(a) == Unresolved(a) /\ ~CleanupPending(OwnerOf(a))
\* The turn is given up and Cloud is told: execution.failed (lease_expired).
NeedsFailureEvent(a) ==
    Unresolved(a) /\ ~Replayable(a) /\ ~CleanupPending(OwnerOf(a))

\* _append_lease_expired_failure raises, and so rolls back the claim, when
\* the attempt has no sequence number left.
RecoveryEventsFit(S) ==
    \A a \in S : NeedsFailureEvent(a) => attempt[a].sequence < MaxTerminalSequence

ReconciledAttemptFault(a) ==
    IF ~NeedsFailureEvent(a) THEN attempt[a]
    ELSE [attempt[a] EXCEPT !.status = "unknown", !.sequence = @ + 1,
                            !.outcomeEvent = "failed"]
ReconciledAttempt(a) ==
    IF ~Unresolved(a) THEN attempt[a]
    ELSE IF NeedsFailureEvent(a)
         THEN [attempt[a] EXCEPT !.status = "unknown",
                                 !.sequence = @ + 1,
                                 !.outcomeEvent = "failed"]
         ELSE [attempt[a] EXCEPT !.status = "unknown"]

\* The status execution e is left in by the batch S.
ReconciledStatus(S, e) ==
    IF \E a \in S : attempt[a].execution = e /\ Replayable(a) THEN "queued"
    ELSE IF /\ execution[e].status \notin TerminalExecution
            /\ \E a \in S : attempt[a].execution = e /\ Unresolved(a)
         THEN "failed" ELSE execution[e].status

ReconciledLease(a) ==
    [lease[a] EXCEPT !.state =
        IF CleanupPending(OwnerOf(a)) \/ Retired(a) THEN "fenced" ELSE "released"]

AttemptsAfter(S) ==
    [a \in Attempts |-> IF a \in S THEN ReconciledAttempt(a) ELSE attempt[a]]
ExecutionsAfter(S) ==
    [e \in Executions |-> [execution[e] EXCEPT !.status = ReconciledStatus(S, e)]]
LeasesAfter(S) ==
    [a \in Attempts |-> IF a \in S THEN ReconciledLease(a) ELSE lease[a]]

\* Candidates of the claim loop, once the batch S is reconciled.
QueuedAfter(S) == {e \in Executions : ExecutionsAfter(S)[e].status = "queued"}
BusyAfterFault(S, p) == FALSE
BusyAfter(S, p) == \E a \in Attempts : IsLive(LeasesAfter(S)[a]) /\ OwnerOf(a) = p
ClaimableAfter(S) ==
    {e \in QueuedAfter(S) : /\ ProfileIsClaimReady(execution[e].profile)
                            /\ ~BusyAfter(S, execution[e].profile)}
OldestClaimableFault(S) == ClaimableAfter(S)
OldestClaimable(S) == {e \in ClaimableAfter(S) : \A f \in ClaimableAfter(S) : e <= f}
SawUnreadyProfile(S) ==
    \E e \in QueuedAfter(S) : ~ProfileIsClaimReady(execution[e].profile)

ClaimsAdmitted == WorkspaceBound /\ ready

\* A new attempt for the oldest claimable execution.
ClaimExecution(a, S) ==
    /\ ClaimsAdmitted
    /\ RecoveryEventsFit(S)
    /\ attempt[a].status = "none"
    /\ \E e \in OldestClaimable(S) :
         /\ attempt' = [AttemptsAfter(S) EXCEPT ![a] =
                [NoAttempt EXCEPT !.status = "running", !.execution = e,
                                  !.generation = machineGeneration,
                                  !.expected = profile[execution[e].profile].session]]
         /\ execution' = [ExecutionsAfter(S) EXCEPT ![e].status = "running"]
         /\ lease' = [LeasesAfter(S) EXCEPT ![a] =
                [state |-> "active", remaining |-> LeaseTerm]]
    /\ UNCHANGED <<machineGeneration, phase, ready, profile>>

CommitReconciliation(S) ==
    /\ RecoveryEventsFit(S)
    /\ attempt' = AttemptsAfter(S)
    /\ execution' = ExecutionsAfter(S)
    /\ lease' = LeasesAfter(S)
    /\ UNCHANGED <<machineGeneration, phase, ready, profile>>

\* Nothing to hand out (204).  With a queued execution of an unready profile
\* the handler raises instead, and the reconciliation is rolled back.
ClaimNothing(S) ==
    /\ ClaimsAdmitted
    /\ S # {}
    /\ ClaimableAfter(S) = {}
    /\ ~SawUnreadyProfile(S)
    /\ CommitReconciliation(S)

\* The claim_id already made attempt b: its claim is returned again, or 204
\* once its lease has expired.  Both commit the reconciliation.
ReplayClaim(b, S) ==
    /\ ClaimsAdmitted
    /\ S # {}
    /\ attempt[b].status # "none"
    /\ ~Retired(b)
    /\ ProfileIsClaimReady(OwnerOf(b))
    /\ CommitReconciliation(S)

Claim == \E S \in StaleBatches :
            \/ \E a \in Attempts : ClaimExecution(a, S)
            \/ ClaimNothing(S)

-----------------------------------------------------------------------------
(* The holder of a lease.                                                  *)

\* A clock step of one lease; the 60 seconds run for each lease by itself.
ElapseLease(a) ==
    /\ LiveLease(a)
    /\ lease[a].remaining > 0
    /\ lease' = [lease EXCEPT ![a].remaining = @ - 1]
    /\ UNCHANGED <<machineGeneration, phase, ready, profile, execution, attempt>>

RenewLease(a) ==
    /\ AuthorizesMutation(a)
    /\ lease' = [lease EXCEPT ![a].remaining = LeaseTerm]
    /\ UNCHANGED <<machineGeneration, phase, ready, profile, execution, attempt>>

RuntimeSequenceAllowedFault(a, n) ==
    attempt[a].sequence < n /\ n <= MaxTerminalSequence
TerminalSequenceAllowedFault(a, n) ==
    attempt[a].sequence < n /\ n <= MaxTerminalSequence + 1
\* A request names the next free sequence number or any later one, and may
\* name one beyond the budget.
SequenceNumbers == 1..(MaxTerminalSequence + 1)
RuntimeSequenceAllowed(a, n) ==
    attempt[a].sequence < n /\ n <= MaxRuntimeSequence
TerminalSequenceAllowed(a, n) ==
    attempt[a].sequence < n /\ n <= MaxTerminalSequence

\* What the ordinary endpoint accepts: execution.dispatched, execution.stopped,
\* and the texts, activities and approvals, which change nothing here.  The
\* worker sends no execution.stopped; the endpoint takes one from any holder of
\* the lease, and the turn goes on after it.
RuntimeEvents == {"dispatched", "stopped", "other"}

AppendEvent(a, n, event) ==
    /\ AuthorizesMutation(a)
    /\ Unresolved(a)
    /\ RuntimeSequenceAllowed(a, n)
    /\ attempt' = [attempt EXCEPT ![a].sequence = n,
                                  ![a].dispatched = @ \/ event = "dispatched",
                                  ![a].stopEvent = @ \/ event = "stopped"]
    /\ UNCHANGED <<machineGeneration, phase, ready, profile, execution, lease>>

\* The compare-and-set on ConversationBinding.hermes_session_id; the runtime
\* expects the session its claim carried.
SessionAccepted(a, s) ==
    profile[OwnerOf(a)].session \in {s, attempt[a].expected}

UpdateSessionBinding(a, s) ==
    /\ AuthorizesMutation(a)
    /\ attempt[a].session = NoSession
    /\ SessionAccepted(a, s)
    /\ attempt' = [attempt EXCEPT ![a].session = s]
    /\ profile' = [profile EXCEPT ![OwnerOf(a)].session = s]
    /\ UNCHANGED <<machineGeneration, phase, ready, execution, lease>>

Finish(a, n, outcome, event, s) ==
    /\ AuthorizesMutation(a)
    /\ Unresolved(a)
    /\ TerminalSequenceAllowed(a, n)
    /\ attempt' = [attempt EXCEPT ![a].status = outcome, ![a].sequence = n,
                                  ![a].outcomeEvent = event, ![a].session = s]
    /\ execution' = [execution EXCEPT ![attempt[a].execution].status = outcome]
    /\ lease' = [lease EXCEPT ![a].state = "released"]
    /\ UNCHANGED <<machineGeneration, phase, ready>>

\* The complete endpoint: an optional session binding and the completion in
\* one transaction; a completion needs the session receipt of this attempt.
CompleteAttempt(a, n, s) ==
    /\ Finish(a, n, "succeeded", "completed", s)
    /\ \/ attempt[a].session = s /\ UNCHANGED profile
       \/ /\ attempt[a].session = NoSession
          /\ SessionAccepted(a, s)
          /\ profile' = [profile EXCEPT ![OwnerOf(a)].session = s]

\* The fail endpoint: always with its terminal event, so never retryable.
FailAttempt(a, n) ==
    /\ Finish(a, n, "failed", "failed", attempt[a].session)
    /\ UNCHANGED profile

\* Accepted after expiry too, and for a lease that deletion is stopping.
AcknowledgeStopped(a) ==
    /\ attempt[a].status # "none"
    /\ ~Retired(a)
    /\ ProfileAllowsStop(OwnerOf(a))
    /\ LiveLease(a)
    /\ attempt' = [attempt EXCEPT ![a].status = "unknown"]
    /\ execution' = [execution EXCEPT ![attempt[a].execution].status =
            IF ~CleanupPending(OwnerOf(a)) /\ ~Checkpointed(a)
              THEN "queued" ELSE "failed"]
    /\ lease' = [lease EXCEPT ![a].state = "released"]
    /\ UNCHANGED <<machineGeneration, phase, ready, profile>>

-----------------------------------------------------------------------------
(* Machine replacement.                                                    *)

\* The generation is retired before the first provider call.
BeginReplacement ==
    /\ phase = "idle"
    /\ machineGeneration < MaxGeneration
    /\ machineGeneration' = machineGeneration + 1
    /\ phase' = "old_machine_stopped"
    /\ ready' = FALSE
    /\ profile' = [p \in Profiles |->
            IF profile[p].lifecycle = "active"
              THEN [profile[p] EXCEPT !.materialized = 0] ELSE profile[p]]
    /\ UNCHANGED <<execution, attempt, lease>>

FencedByReplacementFault(a) ==
    lease[a].state = "active" /\ attempt[a].generation = machineGeneration - 1
FencedByReplacement(a) == LiveLease(a) /\ attempt[a].generation = machineGeneration - 1

\* The provider reports the old Machine stopped: its leases are fenced, then
\* the phase moves on.  A replay of the fence finds no live lease.
ConfirmMachineStoppedAndFence ==
    /\ phase = "old_machine_stopped"
    /\ phase' = "old_machine_destroyed"
    /\ attempt' = [a \in Attempts |->
            IF FencedByReplacement(a) /\ Unresolved(a)
              THEN [attempt[a] EXCEPT !.status = "unknown"] ELSE attempt[a]]
    /\ execution' = [e \in Executions |->
            IF /\ execution[e].status = "running"
               /\ \E a \in Attempts : /\ FencedByReplacement(a) /\ Unresolved(a)
                                      /\ attempt[a].execution = e
              THEN [execution[e] EXCEPT !.status =
                      IF \E a \in Attempts : /\ FencedByReplacement(a)
                                             /\ attempt[a].execution = e
                                             /\ Checkpointed(a)
                        THEN "failed" ELSE "queued"]
              ELSE execution[e]]
    /\ lease' = [a \in Attempts |->
            IF FencedByReplacement(a)
              THEN [lease[a] EXCEPT !.state = "fenced"] ELSE lease[a]]
    /\ UNCHANGED <<machineGeneration, ready, profile>>

\* The new Machine is created, started and healthy.
BindIdle ==
    /\ phase = "old_machine_destroyed"
    /\ phase' = "idle"
    /\ UNCHANGED <<machineGeneration, ready, profile, execution, attempt, lease>>

\* A terminal provider error, before or after the new Machine is recorded; no
\* operation leaves this phase again.
FailProvisioning ==
    /\ \/ phase \in {"old_machine_stopped", "old_machine_destroyed"} /\ phase' = "failed"
       \/ phase = "old_machine_destroyed" /\ phase' = "failed_bound"
    /\ UNCHANGED <<machineGeneration, ready, profile, execution, attempt, lease>>

-----------------------------------------------------------------------------
(* Profile deletion.                                                       *)

StopActiveLeases(p) ==
    lease' = [a \in Attempts |->
        IF lease[a].state = "active" /\ OwnerOf(a) = p
          THEN [lease[a] EXCEPT !.state = "stopping"] ELSE lease[a]]

\* A first request, also for a profile that was never registered.
RequestDeletion(p) ==
    /\ profile[p].lifecycle \in {"absent", "pending", "active"}
    /\ profile' = [profile EXCEPT ![p].lifecycle = "cleanup_pending",
                                  ![p].cleanupExpired = FALSE]
    /\ StopActiveLeases(p)
    /\ UNCHANGED <<machineGeneration, phase, ready, execution, attempt>>

\* A poll after the 24 hours: repair_required, the leases are left alone.
PollExpiredDeletion(p) ==
    /\ profile[p].lifecycle \in {"cleanup_pending", "repair_required"}
    /\ profile[p].cleanupExpired
    /\ profile' = [profile EXCEPT ![p].lifecycle = "repair_required"]
    /\ UNCHANGED <<machineGeneration, phase, ready, execution, attempt, lease>>

\* The owner resumes the attempt that needs repair with a new one.
ResumeDeletion(p) ==
    /\ \/ profile[p].lifecycle = "repair_required"
       \/ profile[p].lifecycle = "cleanup_pending" /\ profile[p].cleanupExpired
    /\ profile' = [profile EXCEPT ![p].lifecycle = "cleanup_pending",
                                  ![p].cleanupExpired = FALSE]
    /\ StopActiveLeases(p)
    /\ UNCHANGED <<machineGeneration, phase, ready, execution, attempt>>

CleanupDeadline(p) ==
    /\ profile[p].lifecycle \in {"cleanup_pending", "repair_required"}
    /\ ~profile[p].cleanupExpired
    /\ profile' = [profile EXCEPT ![p].cleanupExpired = TRUE]
    /\ UNCHANGED <<machineGeneration, phase, ready, execution, attempt, lease>>

\* The runtime proves the profile's files deleted: no lease may be live.
AcceptDeletedReceipt(p) ==
    /\ CleanupPending(p) /\ ~profile[p].cleanupExpired
    /\ ready
    /\ ~HasLiveLease(p)
    /\ profile' = [profile EXCEPT ![p].lifecycle = "deprovisioned",
                                  ![p].materialized = 0]
    /\ UNCHANGED <<machineGeneration, phase, ready, execution, attempt, lease>>

\* _fence_profile_leases and the move to repair_required.
FenceProfileLeases(p) ==
    LET fenced == {a \in Attempts : LiveLease(a) /\ OwnerOf(a) = p} IN
    /\ attempt' = [a \in Attempts |->
            IF a \in fenced /\ Unresolved(a)
              THEN [attempt[a] EXCEPT !.status = "unknown"] ELSE attempt[a]]
    /\ execution' = [e \in Executions |->
            IF /\ execution[e].status = "running"
               /\ \E a \in fenced : attempt[a].execution = e
              THEN [execution[e] EXCEPT !.status = "failed"] ELSE execution[e]]
    /\ lease' = [a \in Attempts |->
            IF a \in fenced THEN [lease[a] EXCEPT !.state = "fenced"] ELSE lease[a]]
    /\ profile' = [profile EXCEPT ![p].lifecycle = "repair_required"]
    /\ UNCHANGED <<machineGeneration, phase, ready>>

AcceptRepairReceipt(p) ==
    /\ CleanupPending(p) /\ ~profile[p].cleanupExpired
    /\ FenceProfileLeases(p)

ExpireProfileCleanup(p) ==
    /\ CleanupPending(p) /\ profile[p].cleanupExpired
    /\ FenceProfileLeases(p)

\* The next deletion request after the proof: the profile and everything it
\* owns is deleted, and a marker keeps it from coming back.
PurgeProfile(p) ==
    /\ profile[p].lifecycle = "deprovisioned"
    /\ ~HasLiveLease(p)
    /\ profile' = [profile EXCEPT ![p] = [AbsentProfile EXCEPT !.lifecycle = "purged"]]
    /\ execution' = [e \in Executions |->
            IF execution[e].profile = p
              THEN [execution[e] EXCEPT !.status = "purged"] ELSE execution[e]]
    /\ attempt' = [a \in Attempts |->
            IF attempt[a].status # "none" /\ OwnerOf(a) = p THEN NoAttempt ELSE attempt[a]]
    /\ lease' = [a \in Attempts |->
            IF attempt[a].status # "none" /\ OwnerOf(a) = p THEN NoLease ELSE lease[a]]
    /\ UNCHANGED <<machineGeneration, phase, ready>>

-----------------------------------------------------------------------------
ProfileStep(p) ==
    \/ EnsureProfile(p)
    \/ AcceptMaterialization(p)
    \/ RequestDeletion(p)
    \/ PollExpiredDeletion(p)
    \/ ResumeDeletion(p)
    \/ CleanupDeadline(p)
    \/ AcceptDeletedReceipt(p)
    \/ AcceptRepairReceipt(p)
    \/ ExpireProfileCleanup(p)
    \/ PurgeProfile(p)
    \/ \E e \in Executions : CreateExecution(p, e)

HolderStep(a) ==
    \/ ElapseLease(a)
    \/ RenewLease(a)
    \/ \E n \in SequenceNumbers, d \in RuntimeEvents : AppendEvent(a, n, d)
    \/ \E s \in Sessions : UpdateSessionBinding(a, s)
    \/ \E n \in SequenceNumbers, s \in Sessions : CompleteAttempt(a, n, s)
    \/ \E n \in SequenceNumbers : FailAttempt(a, n)
    \/ AcknowledgeStopped(a)

MachineStep ==
    \/ AcceptReadiness
    \/ BeginReplacement
    \/ ConfirmMachineStoppedAndFence
    \/ BindIdle
    \/ FailProvisioning

Next ==
    \/ \E p \in Profiles : ProfileStep(p)
    \/ \E a \in Attempts : HolderStep(a)
    \/ MachineStep
    \/ Claim
    \/ \E b \in Attempts, S \in StaleBatches : ReplayClaim(b, S)

Spec == Init /\ [][Next]_vars

-----------------------------------------------------------------------------
(* Properties.                                                             *)

AttemptStatuses == {"none", "running", "succeeded", "failed", "unknown"}
ExecutionStatuses == {"none", "queued", "running", "succeeded", "failed", "purged"}
LeaseStates == {"none", "active", "stopping", "released", "fenced"}
Lifecycles == {"absent", "pending", "active", "cleanup_pending",
               "repair_required", "deprovisioned", "purged"}
Phases == {"idle", "old_machine_stopped", "old_machine_destroyed", "failed",
           "failed_bound"}
SessionRefs == Sessions \cup {NoSession}

ProfileRow == [lifecycle : Lifecycles, materialized : Nat,
               cleanupExpired : BOOLEAN, session : SessionRefs]
ExecutionRow == [status : ExecutionStatuses, profile : Profiles \cup {NoProfile}]
AttemptRow == [status : AttemptStatuses, execution : Executions \cup {0},
               generation : Nat, expected : SessionRefs, session : SessionRefs,
               dispatched : BOOLEAN, stopEvent : BOOLEAN,
               sequence : 0..MaxTerminalSequence,
               outcomeEvent : {"none", "completed", "failed"}]
LeaseRow == [state : LeaseStates, remaining : 0..LeaseTerm]

\* The columns of every row keep their choices; a sequence number stays
\* within the one reserved for the terminal event.
TypeOK ==
    /\ machineGeneration \in Nat \ {0}
    /\ phase \in Phases
    /\ ready \in BOOLEAN
    /\ profile \in [Profiles -> ProfileRow]
    /\ execution \in [Executions -> ExecutionRow]
    /\ attempt \in [Attempts -> AttemptRow]
    /\ lease \in [Attempts -> LeaseRow]

\* One Ally profile holds at most one active or stopping turn lease, however
\* claims, expiry, requeueing, deletion and replacement interleave.
OneLiveLeasePerProfile ==
    \A a, b \in Attempts :
        LiveLease(a) /\ LiveLease(b) /\ OwnerOf(a) = OwnerOf(b) => a = b

\* The three records of a turn agree: a lease is live exactly while its
\* attempt runs, and an execution runs exactly while one of its attempts
\* does.  No turn is left running with nobody responsible for it.
RunningTurnHasLease ==
    /\ \A a \in Attempts : LiveLease(a) <=> Unresolved(a)
    /\ \A e \in Executions :
          execution[e].status = "running" <=>
              \E a \in Attempts : Unresolved(a) /\ attempt[a].execution = e

\* Once the dispatch event or a session receipt is durable the message is
\* never handed out again: stop, expiry, fencing and deletion all leave its
\* execution terminal, and no other attempt of it is ever checkpointed.
NoReplayAfterCheckpoint ==
    \A a \in Attempts : Checkpointed(a) =>
        /\ ~Unresolved(a) => execution[attempt[a].execution].status \in TerminalExecution
        /\ \A b \in Attempts :
              Checkpointed(b) /\ attempt[b].execution = attempt[a].execution => b = a

\* The messages of one profile run in the order they were accepted: by the
\* time an execution has any attempt, every earlier one of its profile has
\* ended, requeued ones included.
TurnsRunInOrder ==
    \A a \in Attempts : attempt[a].status # "none" =>
        \A e \in 1..(attempt[a].execution - 1) :
            execution[e].profile = OwnerOf(a) => execution[e].status \in TerminalExecution

\* Of the events that tell an outcome, execution.completed and execution.failed,
\* which the complete and fail endpoints and the recovery of an expired lease
\* append (attempts.py, events.py), at most one is ever appended for an
\* execution, over all its attempts, and it tells Cloud the outcome the
\* execution really has.  An execution.stopped that the holder appended through
\* the ordinary endpoint promises nothing about the outcome, which the code
\* leaves open.
OneTruthfulOutcomeEvent ==
    \A a \in Attempts : attempt[a].outcomeEvent # "none" =>
        /\ execution[attempt[a].execution].status =
              IF attempt[a].outcomeEvent = "completed" THEN "succeeded" ELSE "failed"
        /\ \A b \in Attempts :
              /\ attempt[b].outcomeEvent # "none"
              /\ attempt[b].execution = attempt[a].execution
              => b = a

\* While a turn is live nobody else moves its profile's session: the binding
\* is what its claim carried until it binds, and what it bound from then on,
\* so its compare-and-set cannot be refused and its update cannot be lost.
TurnOwnsSession ==
    \A a \in Attempts : LiveLease(a) =>
        profile[OwnerOf(a)].session =
            IF attempt[a].session = NoSession
              THEN attempt[a].expected ELSE attempt[a].session

\* Whoever holds a lease may: an active lease belongs to an active profile, a
\* stopping one to a profile whose deletion is unresolved, so a profile whose
\* files are deleted owns no live turn; and a turn of a retired generation is
\* live only until its Machine is confirmed stopped, beside no newer one.
LiveLeasesAreEntitled ==
    \A a \in Attempts :
        /\ lease[a].state = "active" => profile[OwnerOf(a)].lifecycle = "active"
        /\ lease[a].state = "stopping" =>
              profile[OwnerOf(a)].lifecycle \in {"cleanup_pending", "repair_required"}
        /\ LiveLease(a) =>
              \/ ~Retired(a)
              \/ /\ attempt[a].generation = machineGeneration - 1
                 /\ phase \in {"old_machine_stopped", "failed"}

\* Nobody writes to a turn that is over.  A stale writer, a late stop or a fence
\* never changes a finished attempt or execution, and from the moment a
\* replacement begins no event, session or outcome is written to a turn of an
\* older generation; only deletion removes them.
EndedTurnsAreQuiet ==
    [][/\ \A a \in Attempts : attempt'[a] # NoAttempt =>
            /\ attempt[a].status \in {"succeeded", "failed", "unknown"} =>
                  attempt'[a] = attempt[a]
            /\ attempt[a].status # "none" /\ Retired(a) =>
                  attempt'[a] \in {attempt[a], [attempt[a] EXCEPT !.status = "unknown"]}
       /\ \A e \in Executions :
            execution[e].status \in TerminalExecution =>
                execution'[e].status \in {execution[e].status, "purged"}]_vars

-----------------------------------------------------------------------------
(* Liveness.  A living runtime polls for claims, reports readiness,        *)
(* materializes its profiles and proves deletions; the workspace           *)
(* reconciler retries a replacement until it binds or fails; the cleanup   *)
(* sweep and Cloud's deletion polls run periodically.  Nobody promises     *)
(* that a turn ends, or that an owner resumes a deletion needing repair.   *)

FairSpec ==
    /\ Spec
    /\ WF_vars(Claim)
    /\ WF_vars(AcceptReadiness)
    /\ WF_vars(ConfirmMachineStoppedAndFence)
    /\ WF_vars(BindIdle)
    /\ \A p \in Profiles :
          /\ WF_vars(AcceptMaterialization(p))
          /\ WF_vars(AcceptDeletedReceipt(p))
          /\ WF_vars(ExpireProfileCleanup(p))
          /\ WF_vars(PurgeProfile(p))

\* Where the model, not the code, has nothing left to hand out.
OutOfAttempts == \A a \in Attempts : attempt[a].status # "none"

\* An expired lease never blocks later work of the same profile for good: with a
\* message waiting behind it, the claim transaction ends it, and however many
\* events the runtime wrote there is a number left for its failure event.
ExpiredLeaseUnblocksProfile ==
    \A a \in Attempts :
        (/\ LiveLease(a) /\ Expired(a)
         /\ ProfileIsClaimReady(OwnerOf(a))
         /\ \E e \in Executions : /\ execution[e].status = "queued"
                                  /\ execution[e].profile = OwnerOf(a))
        ~> (~LiveLease(a) \/ ~ProfileIsClaimReady(OwnerOf(a)) \/ OutOfAttempts)
=============================================================================
