---------------------------- MODULE RuntimePower ----------------------------
(***************************************************************************)
(* Power of one workspace's Machine: who may wake it, who may stop it, and *)
(* how its runtime proves that it is ready (services/runtime_power.py,     *)
(* runtime_intents.py, runtime_readiness.py, runtime_releases.py and the   *)
(* recovery wake of commands/activate_fly_workspace.py).                   *)
(*                                                                         *)
(* The Workspace row holds at most one power operation.  A maintenance     *)
(* process claims it in one transaction, calls the provider outside of any *)
(* transaction, and writes the result in another one that compares the     *)
(* operation id and the claim token.  Prompts, intents, assignments and    *)
(* readiness reports come in between, and a process may die at any step.   *)
(*                                                                         *)
(* Operation ids and tokens are fresh UUIDs: a number nobody refers to.    *)
(* runtime_start_epoch only matters by comparison with the epoch that the  *)
(* runtime read, so the row keeps no counter and `current` says whether    *)
(* what it read is still the row's; every advance also clears the receipt, *)
(* so a receipt is always of the current epoch and generation.  Times are  *)
(* the comparisons the code makes with them.                               *)
(*                                                                         *)
(* A definition named ...Fault is a faulty variant of the one after it; no *)
(* specification uses it, the mutation runs put it in the other's place.   *)
(***************************************************************************)
EXTENDS Integers, FiniteSets

CONSTANTS
    Workers,            \* Foundry processes: maintenance and activation
    MaxRetries,         \* EXECUTION_WAKE_MAX_RETRIES (4)
    MaxReleaseAttempts, \* the limit of resume_runtime_releases (5)
    MaxPrompts,         \* bound: executions accepted
    MaxCalls,           \* bound: composing intents and operators' commands
    MaxFaults,          \* bound: deaths, refused or lost requests
    Images,             \* images the Machine may have at first: "old", "new"
    Bundles             \* how the row starts: "none", or "parked" in the ready pool

ASSUME LimitsAssumption ==
    /\ IsFiniteSet(Workers)
    /\ {MaxRetries, MaxPrompts, MaxCalls, MaxFaults} \subseteq Nat
    /\ MaxReleaseAttempts \in Nat \ {0}
    /\ Images \subseteq {"old", "new"} /\ Bundles \subseteq {"none", "parked"}

VARIABLES
    row,      \* the Workspace row
    bundle,   \* the assigned ReadyWorkspaceBundle: safe_error_code, or "none"
    queue,    \* queued executions
    turn,     \* the running one: "none", "live", or "orphan" when its runtime died
    waking,   \* operations named by an unexpired intent with outcome WAKING
    machine,  \* provider: state of the recorded Machine
    image,    \* provider: its image against the desired one
    current,  \* whether the epoch that its runtime read is the row's
    worker,   \* each process's call
    prompts, calls, faults

powerVars == <<row, bundle, queue, turn, waking, machine, image, current, worker,
               prompts, calls, faults>>
work == <<queue, turn, prompts>>
provider == <<machine, image>>
bounds == <<prompts, calls, faults>>

Ids == 1..(Cardinality(Workers) + 3)
OperationStates == {"idle", "requested", "starting", "awaiting", "stopping"}
Triggers == {"none", "execution", "speculative", "onboarding"}
MachineStates == {"started", "stopped", "starting", "stopping"}
Live == {"started", "stopping"}     \* the runtime process still runs

NoCall == [step |-> "none", op |-> 0, token |-> 0, trigger |-> "none",
           state |-> "idle", seen |-> "none"]

PowerInit ==
    /\ row = [state |-> "idle", op |-> 0, trigger |-> "none", at |-> "none",
              retries |-> 0, token |-> 0, expired |-> FALSE, warm |-> "past",
              receipt |-> "none", fresh |-> FALSE,
              release |-> 0, phase |-> "idle"]
    /\ bundle \in Bundles
    /\ queue = 0 /\ turn = "none" /\ waking = {}
    /\ machine \in (IF bundle = "parked" THEN {"stopped"} ELSE {"started", "stopped"})
    /\ image \in Images
    /\ current = FALSE
    /\ worker = [w \in Workers |-> NoCall]
    /\ prompts = 0 /\ calls = 0 /\ faults = 0

FreshOp == CHOOSE n \in Ids : n \notin {row.op} \cup {worker[w].op : w \in Workers} \cup waking
FreshToken == CHOOSE n \in Ids : n \notin {row.token} \cup {worker[w].token : w \in Workers}

At(w, step) == worker[w].step = step
Goto(w, step) == worker' = [worker EXCEPT ![w].step = step]
Return(w) == worker' = [worker EXCEPT ![w] = NoCall]

-----------------------------------------------------------------------------
(* Readiness, demand and the row's transitions *)

IsRuntimeReady(r) == r.phase # "inflight" /\ r.receipt # "none" /\ r.fresh

EpochAdvanced(r) == [r EXCEPT !.receipt = "none", !.fresh = FALSE]

HasWakeDemand(r) ==
    CASE r.trigger = "onboarding"  -> bundle \in {"assigned", "failed"} /\ ~IsRuntimeReady(r)
      [] r.trigger = "execution"   -> queue > 0
      [] r.trigger = "speculative" -> r.op \in waking
      [] OTHER -> FALSE

Unclaimed(r) == [r EXCEPT !.token = 0, !.expired = FALSE]

Requested(r, trigger) ==
    [(IF r.state = "stopping" THEN Unclaimed(r) ELSE r) EXCEPT
        !.state = "requested", !.op = FreshOp, !.trigger = trigger, !.at = "due", !.retries = 0]

Ended(r) == [Unclaimed(r) EXCEPT !.state = "idle", !.op = 0, !.trigger = "none", !.at = "none"]

Retries(r, retry) ==
    /\ retry
    /\ r.trigger \in {"execution", "onboarding"} /\ HasWakeDemand(r)
    /\ r.retries < MaxRetries

MarkOperationFailedLocked(retry, clear) ==
    /\ row' = IF Retries(row, retry)
              THEN [Unclaimed(row) EXCEPT !.state = "requested", !.op = FreshOp,
                                          !.at = "later", !.retries = @ + 1]
              ELSE [Ended(row) EXCEPT
                      !.retries = IF row.trigger = "onboarding" THEN @ ELSE 0,
                      !.warm = IF clear THEN "null" ELSE @]
    /\ waking' = waking \ {row.op}
    /\ bundle' = IF row.trigger = "onboarding" /\ HasWakeDemand(row)
                 THEN IF Retries(row, retry) THEN "failed" ELSE "exhausted"
                 ELSE bundle

sameRow == <<row, waking, bundle>>

SameClaim(w) == row.op = worker[w].op /\ row.token = worker[w].token
OwnsOperation(w, state) == SameClaim(w) /\ row.state = state

(* The handler of a failed call compares the claim again under the lock,   *)
(* so it is taken together with the failure.                               *)
MarkOperationFailed(w, retry, clear) ==
    /\ Return(w)
    /\ \/ SameClaim(w) /\ MarkOperationFailedLocked(retry, clear)
       \/ ~SameClaim(w) /\ UNCHANGED sameRow

-----------------------------------------------------------------------------
(* Requests: prompts, composing intents, assignment *)

ExecutionWake(r) ==
    LET kept == [r EXCEPT !.warm = "future"]
    IN  CASE IsRuntimeReady(r) -> kept
          [] ~IsRuntimeReady(r) /\ r.state \in {"idle", "stopping"} -> Requested(kept, "execution")
          [] OTHER -> IF r.trigger = "execution" THEN kept
                      ELSE [kept EXCEPT !.trigger = "execution", !.at = "due", !.retries = 0]

Prompt ==
    /\ bundle # "parked" /\ prompts < MaxPrompts
    /\ prompts' = prompts + 1 /\ queue' = queue + 1
    /\ row' = ExecutionWake(row)
    /\ UNCHANGED <<bundle, turn, waking, provider, current, worker, calls, faults>>

(* Cloud repeats the command of an execution that is still queued. *)
RepeatedPrompt ==
    /\ queue > 0
    /\ row' = ExecutionWake(row)
    /\ UNCHANGED <<bundle, work, waking, provider, current, worker, calls, faults>>

(* limited: the cooldown of speculative starts, or the intent rate limit. *)

IntentWake(r, limited) ==
    LET kept == [r EXCEPT !.warm = "future"]
    IN  CASE IsRuntimeReady(r) -> kept
          [] ~IsRuntimeReady(r) /\ r.state = "stopping" -> Requested(kept, "speculative")
          [] ~IsRuntimeReady(r) /\ r.state = "idle"
               -> IF limited THEN r ELSE Requested(kept, "speculative")
          [] OTHER -> kept

Intent(limited) ==
    /\ bundle # "parked" /\ calls < MaxCalls
    /\ calls' = calls + 1
    /\ row' = IF row.phase = "inflight" THEN row ELSE IntentWake(row, limited)
    /\ waking' = IF ~IsRuntimeReady(row) /\ row.phase # "inflight" /\ row'.op # 0
                 THEN waking \cup {row'.op} ELSE waking
    /\ UNCHANGED <<bundle, work, provider, current, worker, faults>>

(* An intent's two minutes are over (or its row is deleted). *)
IntentExpires ==
    /\ waking # {} /\ waking' = {}
    /\ UNCHANGED <<row, bundle, work, provider, current, worker, calls, faults>>

OnboardingWake(r) ==
    LET wiped == [r EXCEPT !.receipt = "none", !.fresh = FALSE, !.warm = "future"]
    IN  CASE r.state \in {"idle", "stopping"} -> Requested(wiped, "onboarding")
          [] r.state \notin {"idle", "stopping"} /\ r.trigger = "onboarding" -> wiped
          [] OTHER -> r

Assign ==
    /\ bundle = "parked" /\ bundle' = "assigned"
    /\ row' = OnboardingWake(row)
    /\ UNCHANGED <<work, waking, provider, current, worker, calls, faults>>

-----------------------------------------------------------------------------
(* Wake of the Machine *)

ClaimRequestedOperation(w) ==
    /\ At(w, "none")
    /\ row.state = "requested" /\ row.at = "due" /\ row.phase # "inflight"
    /\ \/ /\ row.trigger \in {"speculative", "onboarding"} /\ ~HasWakeDemand(row)
          /\ MarkOperationFailedLocked(FALSE, FALSE)
          /\ UNCHANGED worker
       \/ /\ row.trigger = "execution" \/ HasWakeDemand(row)
          /\ row' = [row EXCEPT !.state = "starting", !.token = FreshToken, !.expired = FALSE]
          /\ worker' = [worker EXCEPT ![w] = [NoCall EXCEPT
                          !.step = "inspect wake", !.op = row.op, !.token = FreshToken,
                          !.trigger = row.trigger]]
          /\ UNCHANGED <<waking, bundle>>
    /\ UNCHANGED <<work, provider, current, calls, faults>>

(* What inspect_machine reports: the states between stopped and started    *)
(* have no name of their own in MachineState.                              *)
Seen == IF machine \in {"starting", "stopping"} THEN "unknown" ELSE machine

ReleasesOnWake == image = "old" /\ machine = "stopped"

InspectWake(w) ==
    /\ At(w, "inspect wake")
    /\ \/ ReleasesOnWake /\ Goto(w, "claim release")
       \/ /\ ~ReleasesOnWake
          /\ worker' = [worker EXCEPT ![w].step = "prepare start", ![w].seen = Seen]
    /\ UNCHANGED <<row, bundle, work, waking, provider, current, calls, faults>>

PrepareStart(w) ==
    /\ At(w, "prepare start")
    /\ \/ /\ ~OwnsOperation(w, "starting")
          /\ MarkOperationFailed(w, FALSE, FALSE)
          /\ UNCHANGED current
       \/ /\ OwnsOperation(w, "starting")
          /\ row' = EpochAdvanced(row) /\ current' = FALSE
          /\ Goto(w, CASE worker[w].seen = "started" -> "mark awaiting"
                       [] worker[w].seen = "stopped" -> "start"
                       [] OTHER -> "not startable")
          /\ UNCHANGED <<bundle, waking>>
    /\ UNCHANGED <<work, provider, calls, faults>>

StartRequest == IF machine = "stopped" THEN machine' = "starting" ELSE UNCHANGED machine

StartMachine(w) ==
    /\ At(w, "start")
    /\ StartRequest /\ Goto(w, "mark awaiting")
    /\ UNCHANGED <<row, bundle, work, waking, image, current, calls, faults>>

(* A Machine between two states is tried again later, and after an         *)
(* uncertain start only a started Machine counts.                          *)
ReinspectStart(w) ==
    /\ \/ At(w, "reinspect start") /\ machine = "started" /\ Goto(w, "mark awaiting")
          /\ UNCHANGED sameRow
       \/ /\ At(w, "not startable") \/ (At(w, "reinspect start") /\ machine # "started")
          /\ MarkOperationFailed(w, TRUE, FALSE)
    /\ UNCHANGED <<work, provider, current, calls, faults>>

MarkAwaitingReadiness(w) ==
    /\ At(w, "mark awaiting")
    /\ \/ /\ OwnsOperation(w, "starting")
          /\ row' = [Unclaimed(row) EXCEPT !.state = "awaiting"]
          /\ Return(w) /\ UNCHANGED <<bundle, waking>>
       \/ ~OwnsOperation(w, "starting") /\ MarkOperationFailed(w, FALSE, FALSE)
    /\ UNCHANGED <<work, provider, current, calls, faults>>

ExpireUnacknowledgedReadiness ==
    /\ row.state = "awaiting" /\ row.at = "overdue"
    /\ MarkOperationFailedLocked(TRUE, FALSE)
    /\ UNCHANGED <<work, provider, current, worker, calls, faults>>

-----------------------------------------------------------------------------
(* Idle stop *)

Busy == queue > 0 \/ turn # "none"
IdleCandidate(r, state) ==
    /\ r.state = state /\ r.phase # "inflight" /\ r.warm = "past"
    /\ bundle # "parked" /\ ~Busy

ClaimIdleOperation(w) ==
    /\ At(w, "none") /\ IdleCandidate(row, "idle")
    /\ row' = [row EXCEPT !.state = "stopping", !.op = FreshOp, !.trigger = "none", !.at = "due",
                          !.token = FreshToken, !.expired = FALSE]
    /\ worker' = [worker EXCEPT ![w] = [NoCall EXCEPT
                    !.step = "inspect stop", !.op = FreshOp, !.token = FreshToken]]
    /\ UNCHANGED <<bundle, work, waking, provider, current, calls, faults>>

InspectStop(w) ==
    /\ At(w, "inspect stop")
    /\ \/ machine \notin {"started", "stopped"} /\ MarkOperationFailed(w, FALSE, TRUE)
       \/ /\ machine \in {"started", "stopped"}
          /\ worker' = [worker EXCEPT ![w].step = "prepare stop", ![w].seen = machine]
          /\ UNCHANGED sameRow
    /\ UNCHANGED <<work, provider, current, calls, faults>>

MayPrepareStopFault(w) == OwnsOperation(w, "stopping")
MayPrepareStop(w) == OwnsOperation(w, "stopping") /\ IdleCandidate(row, "stopping")

PrepareStop(w) ==
    /\ At(w, "prepare stop")
    /\ \/ ~MayPrepareStop(w) /\ MarkOperationFailed(w, FALSE, FALSE) /\ UNCHANGED current
       \/ /\ MayPrepareStop(w)
          /\ row' = EpochAdvanced(row) /\ current' = FALSE
          /\ Goto(w, IF worker[w].seen = "stopped" THEN "finalize stop" ELSE "stop")
          /\ UNCHANGED <<bundle, waking>>
    /\ UNCHANGED <<work, provider, calls, faults>>

StopRequest == IF machine \in {"started", "starting"} THEN machine' = "stopping"
               ELSE UNCHANGED machine

StopMachine(w) ==
    /\ At(w, "stop")
    /\ StopRequest /\ Goto(w, "finalize stop")
    /\ UNCHANGED <<row, bundle, work, waking, image, current, calls, faults>>

ReinspectStop(w) ==
    /\ At(w, "reinspect stop")
    /\ \/ machine = "stopped" /\ Goto(w, "finalize stop") /\ UNCHANGED sameRow
       \/ machine # "stopped" /\ MarkOperationFailed(w, FALSE, TRUE)
    /\ UNCHANGED <<work, provider, current, calls, faults>>

FinalizeStop(w) ==
    /\ At(w, "finalize stop")
    /\ \/ /\ OwnsOperation(w, "stopping")
          /\ row' = [Ended(row) EXCEPT !.warm = "null"]
          /\ Return(w) /\ UNCHANGED <<bundle, waking>>
       \/ ~OwnsOperation(w, "stopping") /\ MarkOperationFailed(w, FALSE, FALSE)
    /\ UNCHANGED <<work, provider, current, calls, faults>>

-----------------------------------------------------------------------------
(* Recovery of a claim whose process died *)

ExpiredOperationFault == row.state = "starting" /\ row.expired /\ row.release = 0
ExpiredOperation ==
    row.state \in {"starting", "stopping"} /\ row.expired /\ row.release = 0

RecoverExpiredOperation(w) ==
    /\ At(w, "none") /\ ExpiredOperation
    /\ worker' = [worker EXCEPT ![w] = [NoCall EXCEPT
                    !.step = "recover", !.op = row.op, !.token = row.token,
                    !.state = row.state, !.seen = Seen]]
    /\ UNCHANGED <<sameRow, work, provider, current, calls, faults>>

SameExpiredClaim(w, state, seen) ==
    OwnsOperation(w, state) /\ worker[w].state = state /\ worker[w].seen = seen

RecoverStartAsAwaiting(w) ==
    /\ SameExpiredClaim(w, "starting", "started")
    /\ row' = [Unclaimed(row) EXCEPT !.state = "awaiting"]
    /\ Return(w) /\ UNCHANGED current

RecoverStartAsRequested(w) ==
    /\ SameExpiredClaim(w, "starting", "stopped")
    /\ row' = [Unclaimed(row) EXCEPT !.state = "requested"]
    /\ Return(w) /\ UNCHANGED current

RecoverStopAsFinished(w) ==
    /\ SameExpiredClaim(w, "stopping", "stopped")
    /\ row' = [Ended(EpochAdvanced(row)) EXCEPT !.warm = "null"]
    /\ current' = FALSE
    /\ Return(w)

RecoverStopAsClaimed(w) ==
    /\ SameExpiredClaim(w, "stopping", "started")
    /\ row' = [row EXCEPT !.op = FreshOp, !.at = "due", !.token = FreshToken, !.expired = FALSE]
    /\ worker' = [worker EXCEPT ![w] = [NoCall EXCEPT
                    !.step = "inspect stop", !.op = FreshOp, !.token = FreshToken]]
    /\ UNCHANGED current

Recover(w) ==
    /\ At(w, "recover")
    /\ \/ RecoverStartAsAwaiting(w) \/ RecoverStartAsRequested(w)
       \/ RecoverStopAsFinished(w) \/ RecoverStopAsClaimed(w)
       \/ /\ worker[w].seen # "unknown" /\ ~SameExpiredClaim(w, worker[w].state, worker[w].seen)
          /\ Return(w) /\ UNCHANGED <<row, current>>
    /\ UNCHANGED <<bundle, work, waking, provider, calls, faults>>

RecoverUnsettled(w) ==
    /\ At(w, "recover") /\ worker[w].seen = "unknown"
    /\ MarkOperationFailed(w, worker[w].state = "starting", FALSE)
    /\ UNCHANGED <<work, provider, current, calls, faults>>

-----------------------------------------------------------------------------
(* Image releases: a wake of a stopped Machine with an old image becomes a *)
(* replacement.  WorkspaceLifecycle models the replacement's phases; here  *)
(* it is one call that is done, fails for good, or may be tried again.     *)

Claimed(w, r) ==
    /\ row' = [r EXCEPT !.release = @ + 1, !.token = FreshToken, !.expired = FALSE,
                        !.op = IF @ = 0 THEN FreshOp ELSE @, !.state = "starting", !.at = "due"]
    /\ current' = FALSE
    /\ worker' = [worker EXCEPT ![w] = [NoCall EXCEPT !.step = "replace", !.token = FreshToken]]

(* attempts is bounded by the limit of the automatic resumption; an        *)
(* operator's call beyond it repeats the same step.                        *)
ClaimReleaseOnWake(w) ==
    /\ At(w, "claim release")
    /\ \/ /\ OwnsOperation(w, "starting") /\ row.phase = "idle" /\ turn = "none"
          /\ row.release < MaxReleaseAttempts
          /\ Claimed(w, EpochAdvanced(row)) /\ UNCHANGED <<bundle, waking>>
       \/ /\ ~OwnsOperation(w, "starting") \/ row.phase # "idle" \/ turn # "none"
          /\ MarkOperationFailed(w, FALSE, FALSE)
          /\ UNCHANGED current
    /\ UNCHANGED <<work, provider, calls, faults>>

ClaimFree == row.token = 0 \/ row.expired

ReconcileRuntimeImage(w) ==
    /\ At(w, "none") /\ image = "old" /\ ClaimFree
    /\ calls < MaxCalls /\ calls' = calls + 1
    /\ row.release = 0 /\ row.state = "idle" /\ row.phase = "idle" /\ turn = "none"
    /\ \/ machine = "stopped"
       \/ machine = "started" /\ row.warm = "past" /\ queue = 0
    /\ Claimed(w, EpochAdvanced(row))
    /\ UNCHANGED <<bundle, work, waking, provider, faults>>

ResumeRuntimeRelease(w) ==
    /\ At(w, "none") /\ ClaimFree
    /\ row.release \in 1..(MaxReleaseAttempts - 1) /\ row.phase # "failed"
    /\ Claimed(w, row)
    /\ UNCHANGED <<bundle, work, waking, provider, calls, faults>>

ReplacementBegins(w) ==
    /\ At(w, "replace")
    /\ \/ /\ row.release > 0 /\ row.phase = "idle"
          /\ row' = [EpochAdvanced(row) EXCEPT !.phase = "inflight"]
          /\ current' = FALSE
       \/ (row.release = 0 \/ row.phase # "idle") /\ UNCHANGED <<row, current>>
    /\ Goto(w, "replacing")
    /\ UNCHANGED <<bundle, work, waking, provider, calls, faults>>

ReplacementEnds(w) ==
    /\ At(w, "replacing")
    /\ \/ /\ row.phase = "inflight"
          /\ row' = [Unclaimed(row) EXCEPT
                       !.phase = "idle", !.release = 0, !.op = IF @ = 0 THEN FreshOp ELSE @,
                       !.state = "awaiting", !.trigger = "none", !.at = "due"]
          /\ machine' = "started" /\ image' = "new" /\ current' = FALSE
       \/ row.phase # "inflight" /\ UNCHANGED <<row, provider, current>>
    /\ Return(w)
    /\ UNCHANGED <<bundle, work, waking, calls, faults>>

ReplacementFails(w, terminally) ==
    /\ At(w, "replacing") /\ faults < MaxFaults /\ faults' = faults + 1
    /\ row' = [(IF row.token = worker[w].token THEN Unclaimed(row) ELSE row) EXCEPT
                 !.phase = IF terminally /\ @ = "inflight" THEN "failed" ELSE @]
    /\ Return(w)
    /\ UNCHANGED <<bundle, work, waking, provider, current, calls>>

-----------------------------------------------------------------------------
(* The activation command's recovery wake *)

ClaimActivation(w) ==
    /\ At(w, "none") /\ bundle # "parked" /\ calls < MaxCalls /\ calls' = calls + 1
    /\ row.phase # "failed" /\ row.state \notin {"starting", "stopping"} /\ ClaimFree
    /\ row' = [row EXCEPT !.token = FreshToken, !.expired = FALSE]
    /\ worker' = [worker EXCEPT ![w] = [NoCall EXCEPT
                    !.step = "inspect activation", !.token = FreshToken]]
    /\ UNCHANGED <<bundle, work, waking, provider, current, faults>>

InspectActivation(w) ==
    /\ At(w, "inspect activation")
    /\ Goto(w, IF row.phase = "idle" /\ machine = "stopped"
               THEN "recovery wake" ELSE "release activation")
    /\ UNCHANGED <<row, bundle, work, waking, provider, current, calls, faults>>

ActivationMayWake(w) ==
    /\ row.token = worker[w].token /\ ~row.expired
    /\ row.phase = "idle" /\ row.state \notin {"starting", "awaiting"}

RecoversOnboarding ==
    /\ bundle \in {"assigned", "failed", "exhausted"} /\ queue = 0
    /\ row.state \in {"idle", "stopping"} \/ row.trigger = "onboarding"

RequestActivationRecoveryWake(w) ==
    /\ At(w, "recovery wake")
    /\ \/ /\ ActivationMayWake(w)
          /\ row' = IF RecoversOnboarding THEN OnboardingWake(EpochAdvanced(row))
                    ELSE ExecutionWake(EpochAdvanced(row))
          /\ bundle' = IF RecoversOnboarding THEN "assigned" ELSE bundle
       \/ ~ActivationMayWake(w) /\ UNCHANGED <<row, bundle>>
    /\ Goto(w, "release activation")
    /\ UNCHANGED <<work, waking, provider, current, calls, faults>>

ReleaseActivationClaim(w) ==
    /\ At(w, "release activation")
    /\ row' = IF row.token = worker[w].token THEN Unclaimed(row) ELSE row
    /\ Return(w)
    /\ UNCHANGED <<bundle, work, waking, provider, current, calls, faults>>

-----------------------------------------------------------------------------
(* The runtime on the Machine *)

ReadEpoch ==
    /\ machine \in Live /\ ~current /\ current' = TRUE
    /\ UNCHANGED <<row, bundle, work, waking, provider, worker, calls, faults>>

AcceptsReadiness ==
    /\ row.phase # "inflight"
    /\ row.state = "idle" \/ (row.state = "awaiting" /\ row.receipt # "dead")

AcceptRuntimeReadiness ==
    /\ machine \in Live /\ current /\ AcceptsReadiness
    /\ ~(row.receipt = "live" /\ row.fresh /\ row.state = "idle")
    /\ row' = [(IF row.state = "awaiting"
                THEN [row EXCEPT !.state = "idle", !.op = 0, !.trigger = "none", !.at = "none",
                                 !.retries = 0]
                ELSE row) EXCEPT !.receipt = "live", !.fresh = TRUE]
    /\ bundle' = IF bundle \in {"failed", "exhausted"} THEN "assigned" ELSE bundle
    /\ waking' = IF row.state = "awaiting" THEN waking \ {row.op} ELSE waking
    /\ UNCHANGED <<work, provider, current, worker, calls, faults>>

(* A claim for a turn also settles a turn whose runtime is gone. *)
ClaimTurn ==
    /\ machine \in Live /\ IsRuntimeReady(row)
    /\ \/ turn = "none" /\ queue > 0 /\ turn' = "live" /\ queue' = queue - 1
       \/ turn = "orphan" /\ turn' = "none" /\ UNCHANGED queue
    /\ UNCHANGED <<row, bundle, waking, provider, current, worker, bounds>>

FinishTurn ==
    /\ machine \in Live /\ turn = "live" /\ turn' = "none"
    /\ UNCHANGED <<row, bundle, queue, waking, provider, current, worker, bounds>>

-----------------------------------------------------------------------------
(* The provider, time and faults *)

Down ==
    /\ machine' = "stopped" /\ current' = FALSE
    /\ row' = [row EXCEPT !.receipt = IF @ = "live" THEN "dead" ELSE @]
    /\ turn' = IF turn = "live" THEN "orphan" ELSE turn

MachineSettles ==
    /\ \/ machine = "starting" /\ machine' = "started" /\ UNCHANGED <<row, turn, current>>
       \/ machine = "stopping" /\ Down
    /\ UNCHANGED <<bundle, queue, waking, image, worker, bounds>>

(* A retry's backoff outlasts a Machine's transition, and the readiness    *)
(* timeout the start of a runtime that can be accepted, unless one of them *)
(* is slow.                                                                *)
Settling ==
    IF row.state = "awaiting"
    THEN machine = "starting" \/ (machine = "started" /\ row.receipt # "dead")
    ELSE machine \in {"starting", "stopping"}

RequestAges ==
    /\ \/ row.at = "later" /\ row' = [row EXCEPT !.at = "due"]
       \/ row.at = "due" /\ row.state = "awaiting" /\ row' = [row EXCEPT !.at = "overdue"]
    /\ IF Settling THEN faults < MaxFaults /\ faults' = faults + 1 ELSE UNCHANGED faults
    /\ UNCHANGED <<bundle, work, waking, provider, current, worker, calls>>

(* A started runtime reports more often than a receipt grows stale. *)
ReceiptGoesStale ==
    /\ row.fresh /\ machine # "started"
    /\ row' = [row EXCEPT !.fresh = FALSE]
    /\ UNCHANGED <<bundle, work, waking, provider, current, worker, calls, faults>>

KeepWarmEnds ==
    /\ row.warm = "future" /\ row' = [row EXCEPT !.warm = "past"]
    /\ UNCHANGED <<bundle, work, waking, provider, current, worker, calls, faults>>

Abandoned == row.token \notin {worker[w].token : w \in Workers}

ClaimExpires ==
    /\ row.token # 0 /\ ~row.expired
    /\ \/ Abandoned /\ UNCHANGED faults
       \/ ~Abandoned /\ faults < MaxFaults /\ faults' = faults + 1
    /\ row' = [row EXCEPT !.expired = TRUE]
    /\ UNCHANGED <<bundle, work, waking, provider, current, worker, calls>>

Crash(w) ==
    /\ worker[w] # NoCall /\ faults < MaxFaults /\ faults' = faults + 1
    /\ Return(w)
    /\ UNCHANGED <<row, bundle, work, waking, provider, current, calls>>

(* The provider refuses a request (a Machine that is gone or is not ours   *)
(* counts as a refusal), or carries it out or not and its answer is lost.  *)
RequestFails(w) ==
    /\ faults < MaxFaults /\ faults' = faults + 1
    /\ \/ /\ worker[w].step \in {"inspect wake", "recover", "reinspect start", "start"}
          /\ \E retryable \in BOOLEAN : MarkOperationFailed(w, retryable, FALSE)
          /\ UNCHANGED machine
       \/ /\ worker[w].step \in {"inspect stop", "reinspect stop", "stop"}
          /\ MarkOperationFailed(w, FALSE, TRUE)
          /\ UNCHANGED machine
       \/ /\ At(w, "start") /\ Goto(w, "reinspect start") /\ UNCHANGED sameRow
          /\ StartRequest \/ UNCHANGED machine
       \/ /\ At(w, "stop") /\ Goto(w, "reinspect stop") /\ UNCHANGED sameRow
          /\ StopRequest \/ UNCHANGED machine
    /\ UNCHANGED <<work, image, current, calls>>

MachineDies ==
    /\ machine = "started" /\ faults < MaxFaults /\ faults' = faults + 1
    /\ Down
    /\ UNCHANGED <<bundle, queue, waking, image, worker, prompts, calls>>

-----------------------------------------------------------------------------
WakeStep(w) ==
    \/ ClaimRequestedOperation(w) \/ InspectWake(w) \/ PrepareStart(w) \/ StartMachine(w)
    \/ ReinspectStart(w) \/ MarkAwaitingReadiness(w)
StopStep(w) ==
    \/ InspectStop(w) \/ PrepareStop(w) \/ StopMachine(w) \/ ReinspectStop(w) \/ FinalizeStop(w)
RecoveryStep(w) == RecoverExpiredOperation(w) \/ Recover(w) \/ RecoverUnsettled(w)
ReleaseStep(w) ==
    \/ ClaimReleaseOnWake(w) \/ ResumeRuntimeRelease(w)
    \/ ReplacementBegins(w) \/ ReplacementEnds(w)
ActivationStep(w) ==
    InspectActivation(w) \/ RequestActivationRecoveryWake(w) \/ ReleaseActivationClaim(w)

RuntimeStep == ReadEpoch \/ AcceptRuntimeReadiness \/ ClaimTurn \/ FinishTurn
TimePasses ==
    RequestAges \/ ReceiptGoesStale \/ KeepWarmEnds \/ IntentExpires

PowerNext ==
    \/ Prompt \/ RepeatedPrompt \/ Assign \/ \E limited \in BOOLEAN : Intent(limited)
    \/ \E w \in Workers :
          \/ WakeStep(w) \/ StopStep(w) \/ RecoveryStep(w) \/ ReleaseStep(w) \/ ActivationStep(w)
          \/ ClaimIdleOperation(w) \/ ReconcileRuntimeImage(w) \/ ClaimActivation(w)
          \/ Crash(w) \/ RequestFails(w)
          \/ \E terminally \in BOOLEAN : ReplacementFails(w, terminally)
    \/ ExpireUnacknowledgedReadiness
    \/ RuntimeStep \/ MachineSettles \/ TimePasses \/ ClaimExpires \/ MachineDies

PowerSpec == PowerInit /\ [][PowerNext]_powerVars

(* The power loop runs every second, claims run out, requests grow old,    *)
(* and the runtime on a Machine polls.  Nothing forces prompts, intents,   *)
(* operators, or an idle stop.                                             *)
PowerFairness ==
    /\ \A w \in Workers :
         /\ WF_powerVars(WakeStep(w)) /\ WF_powerVars(StopStep(w))
         /\ WF_powerVars(RecoveryStep(w)) /\ WF_powerVars(ReleaseStep(w))
         /\ WF_powerVars(ActivationStep(w))
    /\ WF_powerVars(ExpireUnacknowledgedReadiness) /\ WF_powerVars(MachineSettles)
    /\ WF_powerVars(RequestAges) /\ WF_powerVars(Abandoned /\ ClaimExpires)
    /\ WF_powerVars(ReadEpoch) /\ WF_powerVars(AcceptRuntimeReadiness)
    /\ WF_powerVars(ClaimTurn) /\ WF_powerVars(FinishTurn) /\ WF_powerVars(ReceiptGoesStale)

PowerLiveSpec == PowerSpec /\ PowerFairness

-----------------------------------------------------------------------------
(* The row's shape, as the check constraints of the Workspace table and    *)
(* the code that reads it take it for granted: a state without an          *)
(* operation has no request, a claimed state has a claim or waits for a    *)
(* release to be resumed, and the retry budget is kept.  The operation that *)
(* an intent was answered with is the row's, until the intent is told that *)
(* the runtime is ready or that the wake failed.                           *)
PowerTypeOK ==
    /\ row \in [state : OperationStates, op : Ids \cup {0}, trigger : Triggers,
                at : {"none", "later", "due", "overdue"}, retries : 0..MaxRetries,
                token : Ids \cup {0}, expired : BOOLEAN, warm : {"null", "future", "past"},
                receipt : {"none", "live", "dead"}, fresh : BOOLEAN,
                release : 0..MaxReleaseAttempts, phase : {"idle", "inflight", "failed"}]
    /\ (row.op = 0) <=> (row.state = "idle")
    /\ (row.at = "none") <=> (row.state = "idle")
    /\ row.state \in {"starting", "stopping"} /\ row.release = 0 => row.token # 0
    /\ bundle \in {"none", "parked", "assigned", "failed", "exhausted"}
    /\ machine \in MachineStates /\ current \in BOOLEAN
    /\ waking \subseteq Ids \intersect {row.op} /\ queue \in 0..MaxPrompts

StopIsPrepared(w) ==
    OwnsOperation(w, "stopping") /\ worker[w].step \in {"stop", "reinspect stop", "finalize stop"}

(* From the locked recheck of an idle stop (_prepare_stop) until the stop  *)
(* is recorded, its claim holds only while the workspace has nothing to do *)
(* and no runtime counts as ready: a prompt that arrives in between takes  *)
(* the operation away instead of being overwritten.                        *)
StopsOnlyIdleWorkspaces ==
    /\ PowerTypeOK
    /\ \A w \in Workers : StopIsPrepared(w) => ~Busy /\ row.receipt = "none"

(* Every power operation ends: a dead process, a lost answer, a Machine    *)
(* that stops under a wake and a runtime that never reports are all taken  *)
(* up, unless a release used up its automatic attempts or failed.          *)
OperationsEnd ==
    row.state # "idle" ~>
        row.state = "idle" \/ row.release = MaxReleaseAttempts \/ row.phase = "failed"
=============================================================================
