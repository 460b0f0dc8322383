------------------------- MODULE WorkspaceLifecycle -------------------------
(***************************************************************************)
(* Provisioning and replacement of one workspace's Machine                 *)
(* (services/workspaces.py WorkspaceLifecycle).  An operation is a row of  *)
(* phases kept in the Workspace row.  A process claims the current phase   *)
(* in one transaction, talks to the provider outside of any transaction,   *)
(* and records the result with a compare-and-set on its claim token.       *)
(* Several processes may run the same operation, a process may die at any  *)
(* step, and a claim that ran out is taken over, so the provider calls of  *)
(* two processes interleave.                                               *)
(*                                                                         *)
(* A Machine is named after its generation (deterministic_resource_names), *)
(* and the generation stands for its name and its provider id; 0 is a null *)
(* reference.  provisioning_target_generation always equals                *)
(* machine_generation, and as every operation has a fresh target, the      *)
(* target also stands for provisioning_id.  A claim token is named after   *)
(* its process: a process never holds two claims.                          *)
(*                                                                         *)
(* runtime_start_epoch, the readiness receipt, runtime_operation_* and the *)
(* materialization of profiles are written by the same transactions; the   *)
(* fields belong to the power service and to TurnLease, not to this module.*)
(*                                                                         *)
(* A definition named ...Fault is a faulty variant of the one after it; no *)
(* specification uses it, the mutation runs put it in the other's place.   *)
(***************************************************************************)
EXTENDS Integers, FiniteSets

CONSTANTS
    Workers,                \* Foundry processes
    NoWorker,               \* a null provisioning_claim_token
    MaxGeneration,          \* bound: Machine generations
    MaxAttempts,            \* MAX_ATTEMPTS (5): tries of a phase in one call
    MaxFaults,              \* bound: failed requests, slow processes, deaths, losses
    ClaimSeconds,           \* CLAIM_SECONDS (60)
    RequestTimeoutSeconds,  \* REQUEST_TIMEOUT_SECONDS (10)
    PhaseDeadlineSeconds    \* PHASE_DEADLINE_SECONDS (120)

ASSUME WorkersAssumption == NoWorker \notin Workers
ASSUME LimitsAssumption ==
    /\ MaxGeneration \in Nat \ {0} /\ MaxAttempts \in Nat \ {0}
    /\ MaxFaults \in Nat /\ ClaimSeconds \in Nat
    /\ RequestTimeoutSeconds \in Nat /\ PhaseDeadlineSeconds \in Nat

VARIABLES
    row,       \* the Workspace row
    fenced,    \* generations whose leases were retired
    machine,   \* provider: state of the Machine of each generation
    attached,  \* provider: the Machine the Volume is attached to
    worker,    \* each process's call
    faults

vars == <<row, fenced, machine, attached, worker, faults>>

Generations == 1..MaxGeneration
Refs == 0..MaxGeneration

Running == {"starting", "started", "stopping"}
Gone == {"none", "destroyed"}
MachineStates == Running \cup Gone \cup {"created", "stopped"}

EnsurePhases == {"app_ready", "volume_ready"}
RetirePhases == {"old_machine_stopped", "old_machine_destroyed"}
InFlight ==
    EnsurePhases \cup RetirePhases \cup {"machine_created", "machine_started", "healthy"}

\* The step a claim of a phase begins with.
FirstStep ==
    [app_ready |-> "ensure app", volume_ready |-> "ensure volume",
     old_machine_stopped |-> "inspect old", old_machine_destroyed |-> "inspect retired",
     machine_created |-> "check volume", machine_started |-> "inspect new",
     healthy |-> "wait healthy"]
NextPhase ==
    [app_ready |-> "volume_ready", volume_ready |-> "machine_created",
     old_machine_stopped |-> "old_machine_destroyed",
     old_machine_destroyed |-> "machine_created",
     machine_created |-> "machine_started", machine_started |-> "healthy",
     healthy |-> "idle"]

\* Steps at which a request to the provider may fail.
ProviderSteps ==
    {FirstStep[p] : p \in InFlight}
        \cup {"stop", "wait stopped", "destroy", "check detached",
              "create", "start", "wait started"}
Steps == ProviderSteps \cup {"idle", "claim", "fence", "advance", "retryable", "terminal"}

-----------------------------------------------------------------------------
(* How long a process may stay in a phase it claimed: it makes at most     *)
(* that many requests one after the other, and the polling steps go on     *)
(* until the deadline of the call.                                         *)

Requests ==
    [app_ready |-> 3, volume_ready |-> 3, old_machine_stopped |-> 3,
     old_machine_destroyed |-> 4, machine_created |-> 6, machine_started |-> 2,
     healthy |-> 2]
\* The constants of workspaces.py satisfy this, with no second to spare: only a
\* polling step outlasts its claim.
ASSUME ClaimAssumption ==
    \A p \in InFlight : Requests[p] * RequestTimeoutSeconds <= ClaimSeconds
PollingSteps == {"wait stopped", "inspect new", "wait started", "wait healthy"}
MayOutlastClaim(w) ==
    \/ worker[w].step \in PollingSteps /\ PhaseDeadlineSeconds > ClaimSeconds
    \/ Requests[row.phase] * RequestTimeoutSeconds > ClaimSeconds

-----------------------------------------------------------------------------
NoCall == [step |-> "idle", kind |-> "ensure", source |-> 0, op |-> 0,
           phase |-> "idle", previous |-> 0, ref |-> 0, attempts |-> 0]

\* register_workspace: the row exists, nothing is provisioned.
Init ==
    /\ row = [gen |-> 0, ref |-> 0, volume |-> FALSE, phase |-> "idle",
              kind |-> "none", source |-> 0, previous |-> 0,
              token |-> NoWorker, expired |-> FALSE]
    /\ fenced = {}
    /\ machine = [g \in Generations |-> "none"]
    /\ attached = 0
    /\ worker = [w \in Workers |-> NoCall]
    /\ faults = 0

At(w, step) == worker[w].step = step
Goto(w, step) == worker' = [worker EXCEPT ![w].step = step]
Return(w) == worker' = [worker EXCEPT ![w] = NoCall]

Owns(w) == row.token = w /\ row.gen = worker[w].op
Unclaimed == row.token = NoWorker \/ row.expired
Released(r) == [r EXCEPT !.token = NoWorker, !.expired = FALSE]

StateOf(ref) == IF ref = 0 THEN "none" ELSE machine[ref]

-----------------------------------------------------------------------------
(* Calls and claims.                                                       *)

EnsureWorkspace(w) ==
    /\ At(w, "idle")
    /\ worker' = [worker EXCEPT ![w] = [NoCall EXCEPT !.step = "claim"]]
    /\ UNCHANGED <<row, fenced, machine, attached, faults>>

\* The source is one the caller pinned: it may be a past generation.
ReplaceMachine(w, source) ==
    /\ At(w, "idle")
    /\ source <= row.gen /\ source < MaxGeneration
    /\ worker' = [worker EXCEPT ![w] =
            [NoCall EXCEPT !.step = "claim", !.kind = "replace", !.source = source]]
    /\ UNCHANGED <<row, fenced, machine, attached, faults>>

\* A replacement retires the old generation before any provider call.
Opened(r, kind) ==
    IF kind = "ensure"
    THEN [r EXCEPT !.gen = 1, !.kind = kind, !.phase = "app_ready",
                   !.source = 0, !.previous = 0]
    ELSE [r EXCEPT !.gen = r.gen + 1, !.ref = 0, !.kind = kind,
                   !.phase = "old_machine_stopped",
                   !.source = r.gen, !.previous = r.ref]

Opens(w) ==
    /\ row.phase = "idle"
    /\ row.gen = worker[w].source
JoinsFault(w) ==
    /\ row.phase \in InFlight
    /\ row.kind = worker[w].kind
    /\ row.source = worker[w].source
    /\ row.token = NoWorker
Joins(w) ==
    /\ row.phase \in InFlight
    /\ row.kind = worker[w].kind
    /\ row.source = worker[w].source
    /\ Unclaimed

\* The row is read again right after the claim; the model reads it with it.
ClaimOrWait(w) ==
    /\ At(w, "claim")
    /\ Opens(w) \/ Joins(w)
    /\ LET r == IF Opens(w) THEN Opened(row, worker[w].kind) ELSE row
           tries == IF r.phase = worker[w].phase THEN worker[w].attempts ELSE 0
       IN /\ row' = [r EXCEPT !.token = w, !.expired = FALSE]
          /\ worker' = [worker EXCEPT ![w] =
                [@ EXCEPT !.step = FirstStep[r.phase], !.op = r.gen, !.phase = r.phase,
                          !.previous = r.previous, !.ref = r.ref, !.attempts = tries + 1]]
    /\ UNCHANGED <<fenced, machine, attached, faults>>

\* The binding already exists, the source is stale, the workspace is failed,
\* or another operation or claim outlasted the deadline of the call.
ReturnOrRaise(w) ==
    /\ At(w, "claim")
    /\ ~Opens(w) /\ ~Joins(w)
    /\ Return(w)
    /\ UNCHANGED <<row, fenced, machine, attached, faults>>

-----------------------------------------------------------------------------
(* The provider steps of each phase.                                       *)

EnsureApp(w) ==
    /\ At(w, "ensure app")
    /\ Goto(w, "advance")
    /\ UNCHANGED <<row, fenced, machine, attached, faults>>

EnsureVolume(w) ==
    /\ At(w, "ensure volume")
    /\ Goto(w, "advance")
    /\ UNCHANGED <<row, fenced, machine, attached, faults>>

\* _verify_previous_machine: the recorded Machine is the one of the
\* generation before the target.
IsPrevious(w) == worker[w].previous = worker[w].op - 1

InspectOld(w) ==
    /\ At(w, "inspect old")
    /\ LET state == StateOf(worker[w].previous)
       IN Goto(w, IF state = "none" THEN "fence"
                  ELSE IF ~IsPrevious(w) THEN "terminal"
                  ELSE IF state \in {"stopped", "destroyed"} THEN "fence" ELSE "stop")
    /\ UNCHANGED <<row, fenced, machine, attached, faults>>

\* A stop is acknowledged before the Machine has stopped; a Machine that is
\* gone (404) counts as stopped.
StopRequest(g) ==
    machine' = IF machine[g] \in {"starting", "started"}
               THEN [machine EXCEPT ![g] = "stopping"] ELSE machine
StopOld(w) ==
    /\ At(w, "stop")
    /\ StopRequest(worker[w].previous)
    /\ Goto(w, "wait stopped")
    /\ UNCHANGED <<row, fenced, attached, faults>>

WaitMachineStopped(w) ==
    /\ At(w, "wait stopped")
    /\ StateOf(worker[w].previous) \in Gone \cup {"stopped"}
    /\ Goto(w, "fence")
    /\ UNCHANGED <<row, fenced, machine, attached, faults>>

\* confirm_machine_stopped_and_fence, a transaction of its own.  It checks
\* the operation, not the claim; a conflict ends the call and leaves the
\* claim to run out.
FenceMatches(w) ==
    /\ row.gen = worker[w].op
    /\ row.kind = "replace" /\ row.source = worker[w].op - 1
    /\ row.phase \in RetirePhases
    /\ row.previous = worker[w].previous
ConfirmStoppedAndFenceFault(w) ==
    /\ At(w, "fence")
    /\ Goto(w, "advance")
    /\ UNCHANGED <<row, fenced, machine, attached, faults>>
ConfirmStoppedAndFence(w) ==
    /\ At(w, "fence")
    /\ IF FenceMatches(w)
       THEN fenced' = fenced \cup {worker[w].op - 1} /\ Goto(w, "advance")
       ELSE fenced' = fenced /\ Return(w)
    /\ UNCHANGED <<row, machine, attached, faults>>

InspectRetired(w) ==
    /\ At(w, "inspect retired")
    /\ Goto(w, IF StateOf(worker[w].previous) = "none" THEN "check detached"
               ELSE IF IsPrevious(w) THEN "destroy" ELSE "terminal")
    /\ UNCHANGED <<row, fenced, machine, attached, faults>>

\* The provider refuses to destroy a running Machine (a 412, terminal here).
DestroyOld(w) ==
    /\ At(w, "destroy")
    /\ IF machine[worker[w].previous] \in Running
       THEN machine' = machine /\ Goto(w, "terminal")
       ELSE /\ machine' = [machine EXCEPT ![worker[w].previous] = "destroyed"]
            /\ Goto(w, "check detached")
    /\ UNCHANGED <<row, fenced, attached, faults>>

CheckDetached(w) ==
    /\ At(w, "check detached")
    /\ Goto(w, IF attached = 0 THEN "advance"
               ELSE IF attached = worker[w].previous THEN "retryable" ELSE "terminal")
    /\ UNCHANGED <<row, fenced, machine, attached, faults>>

\* _ensure_machine: a Volume attached to another Machine is a conflict.
CheckVolume(w) ==
    /\ At(w, "check volume")
    /\ Goto(w, IF attached \in {0, worker[w].op} THEN "create" ELSE "terminal")
    /\ UNCHANGED <<row, fenced, machine, attached, faults>>

\* ensure_machine finds the Machine by its name or creates it; a create whose
\* answer is lost is found by the inspection that follows it.  The provider
\* refuses to attach an attached Volume.
EnsureMachine(w) ==
    /\ At(w, "create")
    /\ LET g == worker[w].op
       IN \/ /\ machine[g] \notin Gone
             /\ Goto(w, "advance")
             /\ UNCHANGED <<machine, attached>>
          \/ /\ machine[g] \in Gone /\ attached = 0
             /\ machine' = [machine EXCEPT ![g] = "created"]
             /\ attached' = g
             /\ Goto(w, "advance")
          \/ /\ machine[g] \in Gone /\ attached # 0
             /\ Goto(w, "terminal")
             /\ UNCHANGED <<machine, attached>>
    /\ UNCHANGED <<row, fenced, faults>>

\* _start_machine_if_needed waits for a Machine that is changing state.
InspectNew(w) ==
    /\ At(w, "inspect new")
    /\ StateOf(worker[w].ref) \notin {"starting", "stopping"}
    /\ LET state == StateOf(worker[w].ref)
       IN Goto(w, IF state \in Gone THEN "terminal"
                  ELSE IF state = "started" THEN "advance" ELSE "start")
    /\ UNCHANGED <<row, fenced, machine, attached, faults>>

StartRequest(g) ==
    machine' = IF machine[g] \in {"created", "stopped"}
               THEN [machine EXCEPT ![g] = "starting"] ELSE machine
\* A Machine that is still stopping refuses the start (a 412, retried here).
StartNew(w) ==
    /\ At(w, "start")
    /\ StartRequest(worker[w].ref)
    /\ LET state == machine[worker[w].ref]
       IN Goto(w, IF state \in Gone THEN "terminal"
                  ELSE IF state = "stopping" THEN "inspect new" ELSE "wait started")
    /\ UNCHANGED <<row, fenced, attached, faults>>

\* Asked to wait for a destroyed Machine, the provider answers that it is not
\* there (terminal) or reports its state, which is polled until the deadline.
WaitOutcomes(ref) == IF StateOf(ref) = "started" THEN {"advance"} ELSE {"terminal", "retryable"}
WaitMachineStarted(w) ==
    /\ At(w, "wait started")
    /\ StateOf(worker[w].ref) \in Gone \cup {"started"}
    /\ \E step \in WaitOutcomes(worker[w].ref) : Goto(w, step)
    /\ UNCHANGED <<row, fenced, machine, attached, faults>>

\* Then, in the same step, the activation gate (before_bind) or the check of
\* the release's images; a failure of either is a failed request.
WaitHealthy(w) ==
    /\ At(w, "wait healthy")
    /\ StateOf(worker[w].ref) \in Gone \cup {"started"}
    /\ \E step \in WaitOutcomes(worker[w].ref) : Goto(w, step)
    /\ UNCHANGED <<row, fenced, machine, attached, faults>>

-----------------------------------------------------------------------------
(* Recording a phase, and failing one.                                     *)

Recorded(w) ==
    [Released(row) EXCEPT
        !.phase = NextPhase[worker[w].phase],
        !.volume = @ \/ worker[w].phase = "volume_ready",
        !.ref = CASE worker[w].phase = "machine_created" -> worker[w].op
                  [] worker[w].phase = "healthy" -> worker[w].ref
                  [] OTHER -> @]

\* _cas_phase and _bind_idle: a stale claim raises RuntimeConflictError.
CasPhaseFault(w) ==
    /\ At(w, "advance")
    /\ row' = Recorded(w)
    /\ IF worker[w].phase = "healthy" THEN Return(w) ELSE Goto(w, "claim")
    /\ UNCHANGED <<fenced, machine, attached, faults>>
CasPhase(w) ==
    /\ At(w, "advance")
    /\ IF Owns(w)
       THEN /\ row' = Recorded(w)
            /\ IF worker[w].phase = "healthy" THEN Return(w) ELSE Goto(w, "claim")
       ELSE row' = row /\ Return(w)
    /\ UNCHANGED <<fenced, machine, attached, faults>>

\* _handle_failure: a retryable error clears the claim and keeps the phase.
RetryPhase(w) ==
    /\ At(w, "retryable")
    /\ row' = IF Owns(w) THEN Released(row) ELSE row
    /\ IF worker[w].attempts < MaxAttempts THEN Goto(w, "claim") ELSE Return(w)
    /\ UNCHANGED <<fenced, machine, attached, faults>>

FailOperationFault(w) ==
    /\ At(w, "terminal")
    /\ row' = [Released(row) EXCEPT !.phase = "failed"]
    /\ Return(w)
    /\ UNCHANGED <<fenced, machine, attached, faults>>
FailOperation(w) ==
    /\ At(w, "terminal")
    /\ row' = IF Owns(w) THEN [Released(row) EXCEPT !.phase = "failed"] ELSE row
    /\ Return(w)
    /\ UNCHANGED <<fenced, machine, attached, faults>>

\* _start_machine_if_needed retries a retryable start in place; every other
\* step hands its error to _handle_failure.
RetriesInPlace(w) == At(w, "start")

\* A request fails without an effect.
RequestFails(w) ==
    /\ faults < MaxFaults
    /\ worker[w].step \in ProviderSteps
    /\ \E step \in {IF RetriesInPlace(w) THEN "inspect new" ELSE "retryable", "terminal"} :
            Goto(w, step)
    /\ faults' = faults + 1
    /\ UNCHANGED <<row, fenced, machine, attached>>

\* A polling loop meets the deadline of the call before what it polls for.  A
\* call so late that it does not poll at all is a failed request above.
DeadlinePasses(w) ==
    /\ \/ At(w, "wait stopped") /\ StateOf(worker[w].previous) \notin Gone \cup {"stopped"}
       \/ At(w, "inspect new") /\ StateOf(worker[w].ref) \in {"starting", "stopping"}
       \/ At(w, "wait started") /\ StateOf(worker[w].ref) \notin Gone \cup {"started"}
       \/ At(w, "wait healthy") /\ StateOf(worker[w].ref) \notin Gone \cup {"started"}
    /\ Goto(w, "retryable")
    /\ UNCHANGED <<row, fenced, machine, attached, faults>>

\* A stop, destroy or start takes effect and its answer is lost.
LostAnswer(w) ==
    /\ faults < MaxFaults
    /\ \/ At(w, "stop") /\ StopRequest(worker[w].previous) /\ Goto(w, "retryable")
       \/ /\ At(w, "destroy")
          /\ machine[worker[w].previous] \notin Running
          /\ machine' = [machine EXCEPT ![worker[w].previous] = "destroyed"]
          /\ Goto(w, "retryable")
       \/ At(w, "start") /\ StartRequest(worker[w].ref) /\ Goto(w, "inspect new")
    /\ faults' = faults + 1
    /\ UNCHANGED <<row, fenced, attached>>

\* The process dies; the caller may call again.
Crash(w) ==
    /\ faults < MaxFaults
    /\ ~At(w, "idle")
    /\ Return(w)
    /\ faults' = faults + 1
    /\ UNCHANGED <<row, fenced, machine, attached>>

\* The claim of a process that died, or gave up without clearing it, runs out.
AbandonedClaimExpires ==
    /\ row.token # NoWorker
    /\ ~row.expired
    /\ worker[row.token].step \in {"idle", "claim"}
    /\ row' = [row EXCEPT !.expired = TRUE]
    /\ UNCHANGED <<fenced, machine, attached, worker, faults>>

\* A process may stay in its phase for longer than its claim.
ClaimOutlasted ==
    /\ faults < MaxFaults
    /\ row.token # NoWorker
    /\ ~row.expired
    /\ MayOutlastClaim(row.token)
    /\ row' = [row EXCEPT !.expired = TRUE]
    /\ faults' = faults + 1
    /\ UNCHANGED <<fenced, machine, attached, worker>>

-----------------------------------------------------------------------------
(* The provider, and the power service that owns a bound Machine.          *)

MachineSettles(g) ==
    /\ \/ machine[g] = "starting" /\ machine' = [machine EXCEPT ![g] = "started"]
       \/ machine[g] = "stopping" /\ machine' = [machine EXCEPT ![g] = "stopped"]
    /\ UNCHANGED <<row, fenced, attached, worker, faults>>

VolumeDetaches ==
    /\ attached # 0
    /\ machine[attached] = "destroyed"
    /\ attached' = 0
    /\ UNCHANGED <<row, fenced, machine, worker, faults>>

\* The platform loses a Machine, or its containers exit.
MachineLost(g) ==
    /\ faults < MaxFaults
    /\ \/ machine[g] \notin Gone /\ machine' = [machine EXCEPT ![g] = "destroyed"]
       \/ machine[g] \in {"starting", "started"} /\ machine' = [machine EXCEPT ![g] = "stopped"]
    /\ faults' = faults + 1
    /\ UNCHANGED <<row, fenced, attached, worker>>

\* runtime_power.py starts and stops the bound Machine, and claims such an
\* operation only while no provisioning is in flight.
PowerOperation ==
    /\ row.phase \notin InFlight
    /\ row.ref # 0
    /\ \/ machine[row.ref] = "stopped" /\ StartRequest(row.ref)
       \/ machine[row.ref] = "started" /\ StopRequest(row.ref)
    /\ UNCHANGED <<row, fenced, attached, worker, faults>>

-----------------------------------------------------------------------------
PhaseStep(w) ==
    \/ EnsureApp(w) \/ EnsureVolume(w)
    \/ InspectOld(w) \/ StopOld(w) \/ WaitMachineStopped(w) \/ ConfirmStoppedAndFence(w)
    \/ InspectRetired(w) \/ DestroyOld(w) \/ CheckDetached(w)
    \/ CheckVolume(w) \/ EnsureMachine(w)
    \/ InspectNew(w) \/ StartNew(w) \/ WaitMachineStarted(w) \/ WaitHealthy(w)
    \/ CasPhase(w) \/ RetryPhase(w) \/ FailOperation(w)

Next ==
    \/ \E w \in Workers :
        \/ EnsureWorkspace(w)
        \/ \E source \in Generations : ReplaceMachine(w, source)
        \/ ClaimOrWait(w) \/ ReturnOrRaise(w)
        \/ PhaseStep(w)
        \/ DeadlinePasses(w) \/ RequestFails(w) \/ LostAnswer(w) \/ Crash(w)
    \/ AbandonedClaimExpires \/ ClaimOutlasted
    \/ \E g \in Generations : MachineSettles(g) \/ MachineLost(g)
    \/ VolumeDetaches
    \/ PowerOperation

Spec == Init /\ [][Next]_vars

\* The call that continues the operation in flight.
ResumeCall(w) ==
    /\ row.phase \in InFlight
    /\ IF row.kind = "ensure" THEN EnsureWorkspace(w) ELSE ReplaceMachine(w, row.source)

\* Callers keep calling (the release pass and the activation command repeat
\* an unfinished call), processes make progress, the provider finishes what it
\* acknowledged, and an abandoned claim runs out.
Fairness ==
    /\ \A w \in Workers :
        /\ SF_vars(ResumeCall(w))
        /\ WF_vars(ClaimOrWait(w) \/ ReturnOrRaise(w))
        /\ WF_vars(PhaseStep(w) \/ DeadlinePasses(w))
    /\ WF_vars(AbandonedClaimExpires)
    /\ \A g \in Generations : WF_vars(MachineSettles(g))
    /\ WF_vars(VolumeDetaches)

LiveSpec == Spec /\ Fairness

-----------------------------------------------------------------------------
(* Properties.                                                             *)

TypeOK ==
    /\ row \in [gen : Refs, ref : Refs, volume : BOOLEAN,
                phase : InFlight \cup {"idle", "failed"},
                kind : {"none", "ensure", "replace"}, source : Refs, previous : Refs,
                token : Workers \cup {NoWorker}, expired : BOOLEAN]
    /\ fenced \subseteq Generations
    /\ machine \in [Generations -> MachineStates]
    /\ attached \in Refs
    /\ worker \in [Workers -> [step : Steps, kind : {"ensure", "replace"}, source : Refs,
                               op : Refs, phase : InFlight \cup {"idle"}, previous : Refs,
                               ref : Refs, attempts : 0..MaxAttempts]]
    /\ faults \in 0..MaxFaults

\* The Machine of a generation exists only after the one before it was
\* destroyed and its leases were retired: no turn of an old lease, and no
\* second writer of the Volume, beside it, whatever takes over or comes late
\* (_run_replace_phase, confirm_machine_stopped_and_fence).
SuccessorNeedsRetirement ==
    /\ TypeOK
    /\ \A g \in Generations : g > 1 /\ machine[g] # "none" =>
          g - 1 \in fenced /\ machine[g - 1] = "destroyed"

\* When no operation is in flight, the row names the Machine of its own
\* generation, and no Machine of an earlier one is left behind.
IdleBindsOnlyCurrent ==
    row.phase = "idle" /\ row.gen > 0 =>
        /\ row.ref = row.gen /\ row.volume
        /\ machine[row.gen] # "none"
        /\ \A g \in Generations : g # row.gen => machine[g] \in Gone

Rank ==
    [app_ready |-> 1, volume_ready |-> 2, old_machine_stopped |-> 1,
     old_machine_destroyed |-> 2, machine_created |-> 3, machine_started |-> 4,
     healthy |-> 5, idle |-> 6, failed |-> 6]

\* The recorded phase of an operation never goes back, a finished or failed
\* operation is not reopened, and the next one starts from idle with the next
\* generation: a late process cannot undo what another one recorded.
OperationsOnlyAdvance ==
    [][\/ row'.gen = row.gen /\ Rank[row'.phase] >= Rank[row.phase]
          /\ (Rank[row.phase] = 6 => row'.phase = row.phase)
       \/ row.phase = "idle" /\ row'.gen = row.gen + 1]_vars

\* An operation in flight ends, bound or failed, whatever died on the way.
\* The one exception is in the code: a Machine that exits or is lost after its
\* start was recorded is polled for health, by call after call, but neither
\* started again nor given up.
OperationsEnd ==
    row.phase \in InFlight ~>
        \/ row.phase \notin InFlight
        \/ row.phase = "healthy" /\ machine[row.ref] \in {"stopped", "destroyed"}
=============================================================================
