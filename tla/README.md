# Allies Foundry in TLA+

Allies Foundry runs the AI employees ("Allies") of a customer workspace. A Django
backend (`src/backend`) keeps the durable state in PostgreSQL and drives one Fly
Machine per workspace; inside the Machine a runtime process
(`src/runtime/allies_runtime`) polls the backend for work and runs it with Hermes.
A separate product, Cloud, sends messages in and receives events.

This directory models the parts of both whose correctness depends on the order of
things: leases that expire while their holder still works, deletions and Machine
replacements in the middle of a turn, publishers that crash between a post and its
record, stops that race with messages, files that a crash leaves half written.

| Module | Content |
| --- | --- |
| `TurnLease` | turns of one workspace: executions, attempts, leases, sessions, profile deletion, Machine generations |
| `TurnLeaseProofs` | theorems about `TurnLease` with TLAPS proofs; its last part about `RuntimePower` |
| `EventDelivery` | the outbox that carries an attempt's events to Cloud |
| `ProvisioningHints` | the outbox of readiness hints |
| `Outbox` | what both outboxes promise; each is checked to implement it |
| `WorkspaceLifecycle` | provisioning and replacement of a workspace's Machine by processes that crash and take over |
| `RuntimePower` | wake, idle stop, recovery, readiness and image release of that Machine |
| `Routines` | runs of a routine with their approvals and their one result |
| `ReadyPool` | the pool of blank workspaces and the passes that maintain it |
| `Publications` | a published file from the tool call to Cloud, with recovery and retries |
| `RuntimeTurn` | one turn inside the runtime: task, renewal, Hermes, approval, two clocks |
| `WorkerLoop` | the runtime's poll loop against claims and activity waits |
| `ProfileStore` | a profile's files on the volume: creation, keys, fence, quiescence, deletion |
| `EventDeliveryProofs`, `ProvisioningHintsProofs` | theorems about the outboxes: the fence, and that they implement `Outbox` |
| `WorkspaceLifecycleProofs`, `ReadyPoolProofs`, `RuntimeTurnProofs` | theorems about these modules |
| `ProfileStoreProofs` | theorems about `ProfileStore`; its last part about `Publications` |
| `RoutinesProofs` | theorems about `Routines`; its last part about `WorkerLoop` |
| `MC<Module>` with `MC<Module>.cfg` | the instance of each module for TLC |
| `PROJECT.json` | components, runs, mutants, source map, findings, hazards, theorems |

How the modules fit together. `TurnLease` is the hub: every turn passes through its
leases. `RuntimeTurn` is the holder of such a lease seen from the Machine, and keeps
of `TurnLease` what one attempt can see; `WorkerLoop` is what leads to a claim;
`Routines` is the branch of the same claim and lease code for routine runs.
`WorkspaceLifecycle` replaces the Machine and `TurnLease` has the same replacement as
far as it fences turns; `RuntimePower` decides when that Machine runs and treats a
replacement as one call. `ReadyPool` produces workspaces that a registration assigns,
where `RuntimePower` takes over. `ProfileStore` carries out what a deletion of
`TurnLease` waits for. The outboxes publish what these write.

Three proof modules hold the theorems of a second component beside the first: power
beside the turns it makes room for, the poll loop beside the runs it claims, published
files beside the profile's files on the same volume. Each extends both specifications
and relates nothing of the one to the other. So that both can be extended,
`RuntimePower`, `WorkerLoop` and `Publications` have names of their own for what every
other module calls `Init`, `Next`, `vars`, `Spec` and `TypeOK`: `PowerInit`, `LoopNext`,
`pubVars`, `PublicationSpec` and so on.

## 1. Inventory

Services live in `src/backend/runtime/services`, the runtime in
`src/runtime/allies_runtime`. Every service function that
changes state is one database transaction, and the ones that concern turns lock
the Workspace row first.

| Component | State | Operations | Interacts with | What makes it correct |
| --- | --- | --- | --- | --- |
| Claims (`claims.py`) | Execution, Attempt, Lease | claim, replay of a claim, reconciliation of expired leases | leases, profiles, readiness, events | one live turn per profile; oldest first; never replay a dispatched turn; expired leases end |
| Leases (`leases.py`) | Lease state and expiry | renew, acknowledge stop, fence by replacement | every runtime write | only the live holder of the current generation writes |
| Attempts (`attempts.py`) | Attempt status and receipt | complete, fail | events, sessions | terminal is terminal; one truthful terminal event |
| Events (`events.py`) | ExecutionEvent | append, server-owned failure event | outbox, approvals | increasing sequence; a number is left for the terminal event |
| Sessions (`sessions.py`) | ConversationBinding, attempt receipt | compare-and-set | attempts, routines | a turn's session is not moved by anybody else |
| Executions (`executions.py`) | Execution | create, exact retry | profiles, power (wake) | one execution per message; refused once deletion is requested |
| Profiles (`profiles.py`) | RuntimeProfile lifecycle | ensure, materialize, cleanup receipts, cleanup expiry | leases, hints | materialized per generation; no live turn of a deleted profile |
| Profile deletion (`profile_deletion.py`) | cleanup attempt, DeletedProfile | request, poll, resume, purge | leases, runtime reconciliation | leases drain before the purge; a purged profile never returns |
| Readiness (`runtime_readiness.py`) | ready generation, epoch, boot | accept readiness, require readiness | power, claims | no claim before this boot reported |
| Event outbox (`event_delivery.py`) | ExecutionEventDelivery | enqueue, claim, post, mark, defer, wake, repair, redrive | Cloud, worker, purge | at least once, in order; delivered means applied; bounded attempts |
| Worker (`foundry_worker.py`) | four threads | event, hints, power and publication, pool loops | all background services | a failing pass never ends a loop |
| Workspace lifecycle (`workspaces.py`) | provisioning phase, claim token, references | ensure, replace, bind, fail | provider, leases, releases | one operation at a time; the generation is fenced before provider calls; restartable |
| Runtime power (`runtime_power.py`, `runtime_intents.py`) | operation state and claim, intents | wake, idle stop, recovery, intents | provider, readiness, executions | never stop a busy workspace; every wake ends |
| Releases (`runtime_releases.py`) | release claim | upgrade on wake | workspace lifecycle | only idle compute is replaced |
| Ready pool (`ready_pool*.py`) | ReadyWorkspaceBundle | reserve, prepare, park, sleep, check, assign, evict | provider, activation | capacity bound; a bundle goes to one tenant |
| Routines and approvals (`routines.py`, `approvals.py`) | RoutineExecution, acquisitions, approval actions | dispatch, request, decide, cancel, expire, result | claims, leases, outbox | one result per routine; a decision is applied once |
| Publications (`publications.py`) | PublicationIntent | create, freeze, register, upload, retry | Cloud, runtime bridge | a frozen file set never changes; bounded retries |
| Provisioning hints (`provisioning_hints.py`) | ProvisioningHintDelivery | ensure, claim, post, mark | Cloud, worker | at least once, bounded |
| Activity (`activity.py`) | revision, waiters | advance, long poll | runtime worker | no lost wake-up |
| Runtime worker (`foundry.py`) | slots, renew tasks, active claims | claim, run, renew, stop, report | backend API, Hermes | stops before its lease can be handed out again |
| Profile store, reconciliation, quiescence | files, manifest, lock, registry | provision, clean up, fence, quiesce | backend API, Hermes | a deletion proof is true; crash-safe |
| Publication bridge | sessions, socket | activate, publish, recover | publications | only the active turn publishes |

`PROJECT.json` lists every component with its status; section 14 says what is not
modelled and why.

What is hard to test here, and what the properties are for:

* lease time against everything else: a holder that stalls, writes late, or stops
  after its lease was given up;
* claims that reconcile and then refuse, rolling the reconciliation back;
* two owners of the same end: expiry, stop, completion, deletion, decision and
  replacement may all want to finish one turn, one run or one approval;
* claim, call to another service and record in three separate steps (both outboxes,
  power, pool, publications, workspace lifecycle), with a crash, a stall or a second
  worker in between;
* a handler that goes on after its caller has given up;
* a loop that sleeps while work arrives;
* counters at their limit: event sequence numbers, delivery attempts, repair cycles,
  publication attempts, pool capacity;
* a crash between two writes to the volume.

## 2. TurnLease

State. One workspace. `machineGeneration`, `phase` and `ready` are columns of
Workspace; `profile[p]` is RuntimeProfile with the session of its
ConversationBinding; `execution[e]` is numbered in the order of `created_at`;
`attempt[a]` is Attempt with what its ExecutionEvents amount to (dispatched, last
sequence, stopped event, outcome event) and its session receipt; `lease[a]` is the attempt's
Lease with the clock steps that remain.

Actions. Each handler is one action, since each is one transaction that locks the
Workspace row. A request has no sender in the model: an action is enabled whenever
the handler would accept it, which covers duplicates, late and reordered requests.
A refusal or a replayed receipt changes nothing.

| Actions | Code |
| --- | --- |
| `EnsureProfile`, `CreateExecution` | `ensure_runtime_profile`, `_create_contract_execution_once` |
| `AcceptReadiness`, `AcceptMaterialization` | `_accept_runtime_readiness_once`, `accept_materialization_receipt` |
| `Claim` (`ClaimExecution`, `ClaimNothing`), `ReplayClaim` | `_claim_next_execution_once`, with `_reconcile_expired_leases` as its first part |
| `RenewLease`, `AppendEvent`, `UpdateSessionBinding`, `CompleteAttempt`, `FailAttempt`, `AcknowledgeStopped` | the attempt endpoints of `api/register.py` |
| `BeginReplacement`, `ConfirmMachineStoppedAndFence`, `BindIdle`, `FailProvisioning` | the steps of `replace_machine` that touch turns |
| `RequestDeletion`, `PollExpiredDeletion`, `ResumeDeletion`, `PurgeProfile` | `coordinate_profile_deletion` |
| `AcceptDeletedReceipt`, `AcceptRepairReceipt`, `ExpireProfileCleanup` | `accept_cleanup_receipt`, `expire_profile_cleanups` |
| `ElapseLease`, `CleanupDeadline` | the clock |

Abstractions. The lease token is an HMAC over attempt and generation, so holding
it is holding the attempt. When more leases are stale than one transaction takes,
the model takes any choice of that many instead of the oldest. Cleanup operation
and attempt identifiers only make stale receipts refused. A readiness receipt that
has become stale only makes polls refused until the next one. The runtime's events are
reduced to three kinds (`RuntimeEvents`): the dispatch event, which is a checkpoint,
`execution.stopped`, which is recorded beside the outcome (`stopEvent`), and all
others. A replacement that failed with its Machine recorded is the phase
`failed_bound`, which readiness and claims accept like `idle`. Only message turns are modelled; a routine
keeps one attempt over several acquisitions and is in `Routines`.

Run `turn_lease`: one profile, two messages, two attempts, two sessions, two
generations, one runtime event number below the terminal one, one stale lease per
claim, with fairness and no symmetry. Two attempts let a requeued message meet a
second attempt or the second message; two generations are enough because the fence
only relates neighbours; one runtime event number puts the boundary between runtime
and terminal numbers within reach. With one profile at most one lease is stale at a
time, so a batch that leaves stale leases behind does not occur; the proved
invariants cover it, being proved for any number of profiles, and several profiles
are in `WorkerLoop`. Deadlock is not checked: once the bounded messages are done, or a
replacement failed for good, the system may rightly stop.

The properties, in the words of the code:

* `OneLiveLeasePerProfile`, `TurnsRunInOrder`: one turn at a time per Ally, oldest
  message first, requeued messages included.
* `RunningTurnHasLease`: execution, attempt and lease agree; no orphaned turn.
* `NoReplayAfterCheckpoint`: a turn whose dispatch event or session receipt is
  durable is never handed out again.
* `OneTruthfulOutcomeEvent`: Cloud sees at most one completed or failed event per
  message, and it says what became of the message. It says nothing about
  `execution.stopped`; see the observations.
* `TurnOwnsSession`: while a turn is live only it moves its profile's session.
* `LiveLeasesAreEntitled`: no lease is live that a deletion or a replacement should
  have ended, and live leases are of one generation.
* `EndedTurnsAreQuiet`: a late writer, or one on a retired Machine, changes nothing
  of a turn that has ended.
* `ExpiredLeaseUnblocksProfile`: an expired lease with a message waiting behind it
  is ended. It needs that a number is always left for the recovery event: a runtime
  that could use the last one would make every claim roll back.

Fairness. A living runtime polls for claims, reports readiness, materializes
profiles and proves deletions (its loops never end: `foundry.py`); a replacement is
retried until it binds or fails; the cleanup sweep and Cloud's deletion polls are
periodic. Each gets weak fairness. Nothing is assumed of a turn itself: it may run,
renew or stall for ever. Nobody is assumed to resume a deletion that needs repair.

### Observations

`docs/architecture/foundry-continuity.md:90` says that Foundry reconciles expired
leases "at the start of each claim transaction". `_claim_next_execution_once` does
reconcile first (claims.py:125), but when it then finds nothing to hand out and has
seen a queued execution of a profile that is not claim-ready, it raises
(claims.py:374-375) and the transaction rolls back. A queued message of a profile in
deletion or repair therefore keeps an expired lease of another profile active,
although the runtime polls. It does not block later work of that other profile
(`ExpiredLeaseUnblocksProfile`); what is delayed is the failure event Cloud would see.

`confirm_machine_stopped_and_fence` requeues an undispatched turn of a profile whose
deletion is pending, while the reconciliation and the stop acknowledgement fail it.
The requeued execution is never handed out, as its profile is not claim-ready, and
the purge removes it; but it is the kind of queued message that makes the claims
above raise.

The code counts three event types as terminal, `execution.completed`,
`execution.failed` and `execution.stopped` (events.py:36-38, contracts.py:498). The
first two are written by the server with the change of state they report. The third is
accepted from the runtime at the ordinary event endpoint (events.py:176-184) and
changes nothing else: the turn may still complete, fail, or be requeued and run again.
So a message may have two terminal events, or a stopped one although it was completed.
The runtime of this repository never sends it (it acknowledges stops at the stopped
endpoint), the model lets it, and the property above is about the first two types only.

### What is proved

`TurnLeaseProofs` proves, for every value of the constants that satisfies the
module's assumptions (the null profile and session are not among the real ones, the
bounds are natural numbers, the lease term and the batch are positive):

* `TypeCorrect`: `Spec => []TypeOK`;
* `OneLeasePerProfile`: `Spec => []OneLiveLeasePerProfile`;
* `LeaseFollowsTurn`: `Spec => []RunningTurnHasLease`;
* `AtMostOneDispatch`: `Spec => []NoReplayAfterCheckpoint`.

The argument has two layers. `TypeLinked` adds to `TypeOK` that rows refer to rows
that exist: an attempt that exists belongs to a created execution of a real
profile, a lease that exists belongs to an attempt, and an attempt that does not
exist carries nothing. `TypeOK` alone is not inductive, because the owner of an
attempt is looked up through its execution. Given `TypeLinked`, `TurnInv`, the
conjunction of the three turn invariants, is inductive; none of them is by itself.
One live lease per profile needs that live leases and running attempts coincide,
or a requeued execution could still have a running attempt; the agreement of
execution and attempt needs that at most one attempt of an execution runs, which
is one lease per profile; and no replay needs both, since a second attempt can be
checkpointed only after the first one left its execution queued.

The claim transaction is the hard step: `ReconciledTurns` says what one batch of
stale leases does to the three records, and `TurnInvClaim` adds the new attempt to
that result. Fences (`FencedTurns`) cover replacement and deletion, and
`TurnsOnlyEnd` the steps that end a single turn.

On top of these the module proves the other invariants and the action property of the
run:

* `LeasesAreEntitled`: `Spec => []LiveLeasesAreEntitled`;
* `SessionHasOneOwner`: `Spec => []TurnOwnsSession`;
* `MessagesRunInOrder`: `Spec => []TurnsRunInOrder`;
* `OutcomeEventIsTrue`: `Spec => []OneTruthfulOutcomeEvent`;
* `EndedTurnsStayQuiet`: `Spec => EndedTurnsAreQuiet`.

Entitlement and the owner of the session are inductive on top of `TurnInv`. The other
three share `TurnsMove`, which says what one step other than an acceptance, a purge or
a claim may do to attempts and executions: it ends attempts or leaves them, changes no
ended attempt and no execution that does not run. Each action is shown once to keep to
it. The order of messages needs two more facts (`OrderInv`): executions are numbered
in the order they are accepted, and a row is purged only with its profile, so that a
claim, which needs the profile active, has no purged message before it.

Only model-checked: the liveness property `ExpiredLeaseUnblocksProfile`, which is outside the
prover's reach like all liveness under fairness.

## 3. Outboxes: EventDelivery, ProvisioningHints, Outbox

### EventDelivery

State. The delivery rows of one attempt's events, in sequence order; for each
publisher its claims, the post in progress with Cloud's answer, and the successor
wake it still owes; the set of events Cloud applied; a count of faults.

A pass of a publisher (`publish_pending_event_deliveries`) is a claim transaction,
then for each claim a post without any lock and a transaction that records the
answer, and after a success one more update that wakes the waiting successors. Each
is an action of its own, so that other publishers, an operator's redrive, the purge
of the profile and the clock come in between. Two publishers stand for a worker and
the one that replaces it, or the worker and the management command.

| Actions | Code |
| --- | --- |
| `EnqueueEventDelivery`, `PurgeDeliveries`, `RedriveEventDelivery` | `enqueue_event_delivery`, the cascade of `_purge_profile`, `redrive_event_deliveries` |
| `ClaimEventDeliveries` | `claim_event_deliveries`, with the repair of expired final attempts |
| `PostToCloud` | `_post_to_cloud`: accepted, gap, refused, or unavailable with the event applied or not |
| `MarkDelivered`, `MarkFailed` | `mark_event_delivery` |
| `DeferForSequenceGap`, `StopWaitingForGap`, `WakeAttemptSuccessors` | `_defer_for_sequence_gap` and its refusal, `_wake_attempt_successors` |
| `AbandonPass`, `Crash` | an exception out of the pass; a lost process |
| `BecomeDue`, `LeaseExpires`, `HolderStalls`, `PatienceRunsOut` | the clock |

Cloud is external: it applies an event when every earlier one of the attempt is
applied and answers `sequence_gap` otherwise, as the comment on
`SEQUENCE_GAP_RETRY_SECONDS` and the handling of the answers say. A claim takes
every due row, where the code takes the 20 oldest.

Run `event_delivery`: two publishers, two events, two attempts per cycle, one
automatic repair cycle, two faults, fairness. Two attempts stand for eight and one
repair cycle for three: first and last attempt are distinct, as are the first cycle
and the last one. A row parked in its first cycle may be redriven into the second.
Two faults allow a stall and a crash, or a crash and a lost answer, in one history.
Deadlock is not checked: all events delivered is an end.

* `FenceIsUnambiguous`: waiting out a gap gives the attempt number back, so the
  fence (state, attempt, cycle) could have matched two claims; it never does,
  because only the holder of the current claim can give the number back. Its type
  part says that no path leads to an open row whose envelope is gone, so
  `delivery_source_invalid` is unreachable for a retained event.
* `EventsImplementOutbox`: the refinement below.
* `EventsSettle`: every row ends delivered, exhausted or purged.
* `TransientFaultsLoseNothing`: with no refusal and fewer faults than attempts over
  all cycles, every event is delivered.

Fairness: the worker's loop survives every exception of a pass (`_run_loop`), and
time passes. A stall of a living holder is a fault and never assumed.

### ProvisioningHints

The rows of readiness hints (`provisioning_hints.py`), written with a materialization
receipt (`EnsureHint`) and removed with the profile (`PurgeProfile`). A pass claims
(`claim_provisioning_hint_deliveries`, which also gives up an expired last attempt),
posts, and marks. There is one budget of attempts and no repair cycle, so the attempt
number alone is the fence. The setting that turns hints on is taken as on. Run
`provisioning_hints`: two passes, two hints, two attempts for eight, three faults.
Fairness: the worker polls every second, a request has a timeout, time passes.
`HintsSettle` says that every hint is delivered or given up, also when the holder of
its last attempt dies.

### Outbox and the refinements

`Outbox` says what an outbox promises without publishers, leases, tries or clocks: an
item is open from its creation until it is delivered, parked or removed; it is
delivered only after Cloud received it, and Cloud receives it only after the items
before it; a delivery is never taken back; only a parked item is reopened.
`EventDelivery` and `ProvisioningHints` instantiate it with a mapping of their row
states (pending and delivering are open, exhausted is parked, purged is removed) and
of what Cloud has; the order is that of the sequence numbers for events and none for
hints. `EventsImplementOutbox` and `HintsImplementOutbox` are checked as properties.
Here a late answer of a stalled publisher would show: it would park or reopen a
delivered item, or deliver one that Cloud does not have.

### What is proved

`EventDeliveryProofs` and `ProvisioningHintsProofs`, for every number of items,
publishers, attempts and cycles:

* `FenceNamesOneClaim`: `Spec => []FenceIsUnambiguous`;
* `EventsRefineOutbox`: `Spec => EventsImplementOutbox`;
* `HintsRefineOutbox`: `Spec => HintsImplementOutbox`.

Uniqueness of the event fence is not inductive, because a claim that meets a gap
gives its attempt number back and the number is handed out again. `EventInv` adds the
reason why that is harmless (`ClaimsBehind`): no outstanding claim is ahead of its row,
so the next number of a row is free, and only the holder of the current number can
give it back. The refinements need what a pass under way knows: its claims have rows
and Cloud has what it accepted. `HintInv` is the same for hints. Each refinement shows
that the initial state maps to Outbox's and that every action is a step of `Outbox`
or leaves the mapped state alone.

Only model-checked: `EventsSettle`, `TransientFaultsLoseNothing` and `HintsSettle`,
which are liveness.

## 4. WorkspaceLifecycle

State. `row` is the Workspace row's provisioning columns with the claim token and
whether the claim ran out; `fenced` the generations whose leases were retired;
`machine` and `attached` what Fly holds, one Machine per generation as its name is
derived from it; `worker[w]` the call of a Foundry process, its step, the claim it
made (operation, phase, references) and the tries of the phase.

`WorkspaceLifecycle` of `workspaces.py` claims a phase in one transaction, calls
Fly outside of any, and records the result with a compare-and-set on the claim
token. Each provider call that reads or changes a Machine is an action of its own,
so two processes interleave between any two calls.

| Actions | Code |
| --- | --- |
| `EnsureWorkspace`, `ReplaceMachine`, `ClaimOrWait`, `ReturnOrRaise` | the two loops and `_claim_or_wait` |
| `EnsureApp`, `EnsureVolume`, `CheckVolume`, `EnsureMachine` | `_run_ensure_phase`, `_ensure_machine`, `providers/fly.py` |
| `InspectOld`, `StopOld`, `WaitMachineStopped`, `ConfirmStoppedAndFence` | phase `old_machine_stopped`, `confirm_machine_stopped_and_fence` |
| `InspectRetired`, `DestroyOld`, `CheckDetached` | phase `old_machine_destroyed` |
| `InspectNew`, `StartNew`, `WaitMachineStarted`, `WaitHealthy` | `_start_machine_if_needed`, `_wait_healthy` and the gates after it |
| `CasPhase`, `RetryPhase`, `FailOperation` | `_cas_phase` and `_bind_idle`, `_handle_failure` |
| `RequestFails`, `LostAnswer`, `DeadlinePasses`, `Crash` | failed requests, effects whose answer is lost, deadlines, a dead process |
| `AbandonedClaimExpires`, `ClaimOutlasted` | the clock against the claim |
| `MachineSettles`, `MachineLost`, `VolumeDetaches`, `PowerOperation` | Fly, and the power service's start and stop of the bound Machine |

What is taken of Fly, from how the code uses it: a stop or start is acknowledged
before it has happened; a running Machine is not destroyed without force; a Volume
attached to one Machine is not attached to another; a destroyed Machine's name is
free for the search by name. When a claim may run out under a living process is
computed from the code's constants: in a polling loop, because its deadline (120 s)
is longer than the claim (60 s), and otherwise only if the requests of the phase
together could take longer, which they cannot.

Abstractions. The row is read again right after the claim, here with it. A call
that waits for another operation returns and may call again. The power service
acts only while no operation is in flight; its own claim against that of a
replacement is in `RuntimePower`. Identity checks of App and Volume are
failed requests.

Run `workspace_lifecycle`: two processes, three generations, two tries per phase,
two faults, fairness. Three generations give two replacements in a row, so that a
process of the first can come late in the second. Two tries of a phase stand for
five: a first, a last, and the end of the budget. Two faults allow a takeover and a
crash, or a takeover and a lost answer, in one history. Faults are failed or lost
requests, deaths, lost Machines and claims that run out under a living process; a
deadline that passes while Fly is still busy is not counted. Deadlock is checked: a
new call is always possible.

* `SuccessorNeedsRetirement`: a generation's Machine exists only after the one
  before it is destroyed and its leases are retired. With one Volume and one
  runtime per workspace this is what keeps two runtimes from working at once, also
  when a process that lost its claim goes on.
* `IdleBindsOnlyCurrent`: a finished operation leaves exactly the Machine it names.
* `OperationsOnlyAdvance`: phases never go back and an end is an end.
* `OperationsEnd`: an operation in flight is bound or failed in the end.

Fairness. A process that is alive goes on, Fly finishes what it acknowledged, an
abandoned claim runs out. Strong fairness of `ResumeCall`: whoever asked for the
operation asks again until it has ended, as the release pass does in every round
and the activation command when it is retried; another call may occupy a process
in between, hence strong. `OperationsEnd` has one exception, which is in the code:
`_wait_healthy` polls a Machine that exited or was lost after its start was
recorded until the deadline, with a retryable error, and no later call starts it
again (the finding at workspaces.py:1282). What the property shows is that this is the
only way for an operation to hang.

Observation. The comment above `CLAIM_SECONDS` (workspaces.py:76-79) says the claim
outlasts the bounded sequence of provider calls "so a live side effect cannot be
taken over by another Foundry process". That is true of the create sequence it
counts. The start phase waits and retries in place for up to 120 seconds, does not
renew the claim and does not look at it before `start_machine` (workspaces.py:1188),
so a second process may own the phase when the first sends its start. The
compare-and-set refuses what the first records, and the properties above hold with
such takeovers included (`ClaimOutlasted`).

Proved in `WorkspaceLifecycleProofs`, for every number of processes, generations,
tries and faults:

* `RetiredBeforeSuccessor`: `Spec => []SuccessorNeedsRetirement`;
* `IdleIsBound`: `Spec => []IdleBindsOnlyCurrent`;
* `PhasesOnlyAdvance`: `Spec => OperationsOnlyAdvance`.

They rest on `ClaimAssumption`: the requests of a phase take together no longer than
the claim (six of 10 s, 60 s). It is what the comment above `CLAIM_SECONDS` argues, and
without it a process that lost its claim could still create or destroy. The
inductive invariant `LifecycleInv` has two halves. `StoreOK` says how far the Machines
are in each phase of the row. `CallOK` says what a process knows: the step fits the
phase it claimed, the phase is the row's while the row has its token, in a step without
polling before it it still has the claim, and before it records a phase it has done
what the phase is about. Only model-checked: `OperationsEnd`.

## 5. RuntimePower

State. `row` is the Workspace row's power operation (state, id, trigger, due time,
retries, claim) with the readiness receipt, the release claim and the provisioning
phase; `bundle` the pool assignment's onboarding outcome; `queue` and `turn` the
demand; `waking` the operations that unexpired intents were answered with; `machine`
and `image` what the provider holds; `current` whether the start epoch that the
runtime read is still the row's; `worker[w]` the call of a Foundry process.

| Actions | Code |
| --- | --- |
| `Prompt`, `RepeatedPrompt`, `Intent`, `IntentExpires`, `Assign` | `request_execution_wake_locked`, `accept_runtime_intent`, the onboarding wake of an assignment |
| `ClaimRequestedOperation`, `InspectWake`, `PrepareStart`, `StartMachine`, `ReinspectStart`, `MarkAwaitingReadiness` | the wake pass of `runtime_power.py` |
| `ClaimIdleOperation`, `InspectStop`, `PrepareStop`, `StopMachine`, `ReinspectStop`, `FinalizeStop` | the idle stop |
| `RecoverExpiredOperation`, `Recover...`, `ExpireUnacknowledgedReadiness` | expired claims, a runtime that never reports |
| `ClaimReleaseOnWake`, `ReconcileRuntimeImage`, `ResumeRuntimeRelease`, `ReplacementBegins`, `ReplacementEnds`, `ReplacementFails` | `runtime_releases.py` and what a replacement writes to the operation |
| `ClaimActivation`, `InspectActivation`, `RequestActivationRecoveryWake`, `ReleaseActivationClaim` | `activate_fly_workspace` |
| `ReadEpoch`, `AcceptRuntimeReadiness`, `ClaimTurn`, `FinishTurn` | the runtime on the Machine |
| `MachineSettles`, `RequestAges`, `ReceiptGoesStale`, `KeepWarmEnds`, `ClaimExpires`, `Crash`, `RequestFails`, `MachineDies` | provider, clock, faults |

Each transaction is one action and each provider call is one of its own. Operation
ids and tokens are numbers nobody else holds. Every advance of the start epoch also
clears the receipt, so only the comparison of epochs is kept.

Run `runtime_power`: two processes, one prompt, one intent or operator's call, one
retry, two release attempts, one fault, from an old image and a parked bundle. One
prompt that arrives at any step is what a stop can race with; one retry separates
"retried" from "budget used"; two release attempts do the same for a release.
Deadlock is not checked: an idle stopped workspace with no demand is at rest.

* `StopsOnlyIdleWorkspaces`: from the locked recheck of an idle stop until the stop
  is recorded, its claim holds only while the workspace has nothing to do and no
  runtime counts as ready; and the operation that an intent was answered with is the
  row's (type part), so it is never orphaned.
* `OperationsEnd`: every operation ends, unless a release used up its automatic
  attempts (the next one is an operator's) or failed for good.

Fairness. The power loop runs every second, abandoned claims run out, requests grow
old, the runtime on a Machine polls and its turns end. Nothing forces prompts,
intents, operators or an idle stop.

Observations. (1) An idle stop advances the epoch and records IDLE while Fly still
carries the stop out. In that window the runtime may read the new epoch and report
readiness; a prompt then takes the ready short-cut of `request_execution_wake_locked`,
requests no wake, and waits until another prompt, intent or operator comes, although
`docs/plans/fnd-009-wake-on-intent.md:157` says that no execution is lost at this
boundary. The property speaks of the stop and its claim, and not of a prompt after
them. (2) `_bind_idle` resets the trigger, so a readiness timeout after a release
replacement is not retried even with a message queued.

Proved in `TurnLeaseProofs`, for any finite set of processes and all limits with at
least one release attempt (the code allows five):

* `PreparedStopsAreIdle`: `PowerSpec => []StopsOnlyIdleWorkspaces`.

The property is about a call that is under way while the row is not locked, so what
matters is who can hold the row's claim. `PowerInv` says of the row (`RowFits`) that it
has an operation and a due time exactly when it is not idle, that a start or stop
outside a release is under a claim, and that only the row's operation is waited for
and never a stop; of each process (`CallerFits`) that a replacement holds the claim
only of a row under release, and an activation never that of a row that starts or
stops; and that a prepared stop which holds the claim is one without demand and without
a receipt. A claim token is chosen outside those in use; that one exists (`SpareId`)
is an argument about the cardinality of finite sets. A row can therefore return to
"stopping" only under a token no old call holds, and a prompt that finds a prepared
stop takes the operation away together with its claim. `PowerKept` carries every step:
a row that moves (`Moves`: its claim is given up, taken anew or kept, and then nothing
starts or stops under it that did not before) and a process that goes on (`Follows`)
keep the invariant. Only model-checked: `OperationsEnd`.

## 6. Routines

State. `run[r]` holds the rows of a run: RoutineExecution status, execution, attempt,
lease with its current acquisition, approvals, event sequence, number of results;
the workspace's generation, phase and materialization; the admission gate and the
release it depends on.

| Actions | Code |
| --- | --- |
| `AcceptRoutineDispatch` | `accept_routine_dispatch` |
| `ClaimNextExecution` (`ReconcileRaises`, `Reconciled`, `Eligible`, `Acquired`) | the routine branches of `claims.py` |
| `BindRoutineSession`, `AppendRuntimeEvent`, `AppendRuntimeRoutineResult`, `AcknowledgeStopped` | the runtime's writes under its current token |
| `RequestRoutineApproval`, `DecideRoutineApproval`, `CancelRoutineWait`, `ExpireRoutineApprovals` | `routines.py` |
| `BeginReplacement`, `ConfirmMachineStoppedAndFence`, `BindIdle`, `Materialize` | replacement, as far as it touches a run |
| `EnableRoutineAdmission`, `DisableRoutineAdmission`, `ReleaseChanges` | the admission gate |
| `LeaseExpires`, `ApprovalDue` | the clock |

A repeated command returns its stored receipt and a call with an older token is
refused: both are stuttering steps. A runtime event is the dispatch event or another
one, `execution.stopped` included, which section 2 is about. Deletion of the profile is in `TurnLease`, chat
approvals are in `RuntimeTurn`.

Run `routines`: two runs of one routine, two approvals, three claims, two ordinary
event numbers, two generations, one switch of gate or release. Two runs of one scope
compete for its lease; two approvals let a run wait twice; two event numbers bring
the reserved one within reach.

* `OneOutcomePerRun`: whoever ends a run writes exactly one result, and a decision is
  not undone by a cancellation or an expiry that was on its way.
* `ResumesOnlyApprovedWork`: a run that may have reached Hermes is handed out again
  only to go on from an approved action.
* `RunsEnd`: no run stays under way for ever. Excepted are a run whose lease the
  fence took, exhausted event numbers, a closed gate or another release, and the
  model's bound on claims.

Fairness: the runtime polls, profiles are materialized, replacements go on, leases
and waits run out, and the expiry of waits is run. The last is an assumption on the
deployment: `expire_routine_approvals` is only called by a management command, and
nothing in the repository schedules it.

Observations. (1) `confirm_machine_stopped_and_fence` does not touch the
RoutineExecution row. A run fenced by a replacement stays WORKING, its execution is
queued or failed, no claim takes it and no result is written (leases.py:611,
claims.py:242). (2) When both events of an unreplayable expiry no longer fit, every
claim that reconciles that lease raises (routines.py:913). (3)
`request_routine_approval` has no caller in the backend outside its tests.

Proved in `RoutinesProofs`, for any runs and routines and all bounds:

* `RunsEndOnce`: `Spec => []OneOutcomePerRun`;
* `ResumesFromApproval`: `Spec => ResumesOnlyApprovedWork`.

`RoutineInv` is about the rows of one run at a time. Beside the property it needs that
a run waits for one request only, so that the end of that request leaves none pending;
that a refused or expired action ended its run, so that no later failure gives the run
another status; and that a queued run has not reached Hermes, which is why a claim of
one cannot repeat a prompt. A claim reconciles every run and then acquires one:
`ReconciledOK` and `AcquiredOK` are the two parts. Only model-checked: `RunsEnd`.

## 7. ReadyPool

State. `bundle[b]` is a row of the pool with its workspace: state, claim owner and
whether the claim is live, attempts, which resources it owns, evidence (blank volume,
readiness, health, release), tenant. `job[p]` is the claim a pass works on.

`ClaimOrReserve` is the transaction under the capacity lock: it serves due rows,
drains, stale rows, parking, sleep checks and health checks, in this order, or
reserves a new row. `RunClaim` is what the pass does with it (`RunPrepare`,
`RunPark`, `RunSleepCheck`, `RunHealthCheck`, `RunCleanup`), each with its provider
call and its recording under the claim (`Record`, `RecordRetry`,
`TransitionToEvicting`, `Promote`...). `AssignReadyWorkspace` and `NoneAssigned` are
the registration (`ready_pool.py`); `HealthAges`, `ReadinessExpires`, `ClaimExpires`
the clock; `Die`, `RuntimeFallsSilent`, `MachineStartsAgain`, `ReleaseChanges`,
`DisablePool` what goes wrong or what an operator does.

Every choice and every check of a pass also skips a row whose workspace has a live
provisioning claim (`_workspace_claim_live`). Such a claim is held by a pass that
activates the workspace, at some time between its own claim of the row and its record:
`Activating(p)` are the rows where another pass is there, and a step sees any subset of
them as busy. A claim left by a pass that died in an activation is not modelled; it
lasts 60 s where the row's lasts 1200 s, and delays one choice at most.

Retry times and the order among due rows are not modelled: a row that may be tried
later may be tried now. `mark_ready_bundle_evicting` has no caller.

Run `ready_pool`: two passes, three rows, one tenant, target 1, one row in
preparation (the only value the code accepts), one attempt, one fault of a pass (a
death, a stall past the claim, a failed or lost call) and one event beside it (a
silent runtime, a stray start, an expired inspection, a new release, the pool turned
off). Target plus allowance is two, so the third row is the one too many. With one
attempt the first retryable failure exhausts a row; the second try within a budget is
that of a pass whose runtime is not ready yet.

* `PoolCapacity`: concurrent passes never reserve more than the target and the one
  in preparation; a row a tenant may be given has a Machine and a blank volume that
  no cleanup touched (type part).
* `AssignmentIsPermanent`: no pass that began before an assignment parks, evicts,
  promotes, destroys or claims the tenant's bundle.
* `PoolRefills`: the pool fills up again and again, unless it is off, the rows of the
  instance are used up, or a row blocks it that no pass can clear.

Fairness: the worker runs a pass every interval, a pass goes on until it ends or
dies, claims run out.

Observations. (1) An exhausted FAILED row that owns resources is claimed for cleanup
without becoming EVICTING, and the cleanup then refuses because it is not
(ready_pool_maintenance.py:346-364 and 1622): the row stays and the pool is one
short. (2) A sleeping row of an old release is evicted only by a registration that
looks at it, or by a drain. (3) A FAILED row with attempts left counts as prepared
and may be activated again beside the reserved ones; `PoolCapacity` counts the rows in
the states from preparing to sleeping. (4) A bundle whose pass died before it recorded
the blank proof is evicted as not blank. (5) Check and provider call of a parking
pass are separate steps, so a process that stalled past its claim (1200 s) may send
its stop after the bundle was parked by another pass and assigned. The row stays the
tenant's; the Machine would be down until the next wake, which is `RuntimePower`'s.

Proved in `ReadyPoolProofs`, for any number of passes, rows, tenants and faults and
every positive target:

* `PoolStaysWithinCapacity`: `Spec => []PoolCapacity`;
* `AssignedStaysAssigned`: `Spec => AssignmentIsPermanent`.

The argument is a relation on rows, `Follows`, that every step but the creation of a
row keeps to: a row joins the counted ones only by creation, an assigned row keeps
state, tenant and owner, a row on its way out stays on it, and the columns of the row
agree afterwards (`RowOK`). Two strengthenings make it work: only a started Machine
has answered, so that a promotion on a receipt finds all resources; and a pass that was
allowed to destroy works on a row that no tenant will ever get, even after it lost its
claim. Creation is where the capacity is counted; the other steps only shrink the
counted set. Only model-checked: `PoolRefills`.

## 8. RuntimeTurn

State. `turn` is the attempt with its lease at Foundry, `row` the ApprovalRequest,
`past` the deadlines that passed on Foundry's and on the Machine's clock, `hermes` the
run with its guarded action and unread events, `worker` the locals of `_run_claim`,
`renewal` the task of `_renew_loop`. One tick is ten seconds: the lease is 6, the
renewal interval 2, a request 1.

| Actions | Code |
| --- | --- |
| `TaskStep`: `Claim` ... `Prepare`, `StageFiles`, `PostEvent`, `OpenStream`, `ReadEvent`, `PollApproval`, `ResolveApproval`, `ReconcileApproval`, `CloseStream`, `PostFinish`, `PostStopped`, `Finally` | `_run_claim` and its handlers, in their order |
| `RenewalStep` | `_renew_loop` |
| `HermesStep`, `RunBreaks` | the run, external but for the client in `hermes.py` |
| `RecordDecision`, `BeginDeletion`, `ReconcileExpiredLease` | Foundry's side: `approvals.py`, deletion, a later claim |
| `CancelTask`, `CrashWorker`, `Tick`, `DeadlinesPass` | quiescence or shutdown, a crash, time |

A call to Foundry is answered, refused, refused for load, or lost before or after it
took effect; an event, a completion and a failure are repeated once after a lost
answer, `stopped` never. Bounds: one approval a turn, none in a turn with files, text
comes before the action it asks about. Time passes in every step before the stream is
open, so a stream may be opened with any part of the lease left, or none. Once it is
open, time waits for the renewal in two places: its request ends within its timeout,
and closing a stream takes less than a tick, which supposes an event loop that is not
starved. `renewal.late` remembers that the lease was `Short` when the renewal began,
that is, that no more of it was left than one interval and one request; an answered
renewal clears it. Bootstrap, file staging, routine branch and publication context are single
steps or left out; the publications themselves are in `Publications`.

Run `runtime_turn`: 6, 2, 1 ticks as in the code, two faults. Deadlock is checked.

* `HermesStopsBeforeExpiry`: while Hermes works on a turn without files and the worker
  has not itself reported the turn stopped, a renewal is under way; and unless that
  renewal began late, the turn runs and its lease has at least a tick left.
* `ApprovalOutcomeIsTrue`: an applied decision took effect, an expired or cancelled
  request never let the action run, and nothing runs that nobody approved.
* `TurnSettles`: a claimed turn and its approval end at Foundry.

Fairness: the tasks of the worker go on, Hermes handles what it was sent, clocks run,
a later claim reconciles an expired lease. That a run ends (`RunEnds`) is justified by
the idle timeout (300 s) and the event budget, each of which closes the stream.

Observations. (1) After a lost lease `stopped` is posted before the stream is closed
(foundry.py:3131-3138, 3213-3214); hence the exception of the first property. (2) The
first renewal comes 20 seconds after the stream is open, however much of the lease is
used, and nothing looks at the lease before the stream is opened. `foundry-continuity.md`
(86-88) says without condition that "the runtime cancels Hermes at least five seconds
before expiry"; that is false, and the first property fails as soon as its condition on
`renewal.late` is dropped. TLC's trace: a claim, 50 seconds until the dispatch event is
answered, ten more, a stream that is opened on an expired lease. Foundry may then hand
the session to another turn while Hermes works for this one, until the first renewal is
refused. (3) With files, a renewal that fails before the stream is open closes nothing. (4) A 429
or 5xx answer to an event ends the turn, where `foundry-continuity.md:69` speaks of a
retry.

### Proofs

`RuntimeTurnProofs` proves for every number of ticks and faults:

* `HermesStopsInTime`: `Spec => []HermesStopsBeforeExpiry`;
* `ApprovalsAreTrue`: `Spec => []ApprovalOutcomeIsTrue`;
* `TurnInvariant`: `Spec => []TurnInv`, on which both rest.

Assumptions: `TurnAssumption` (ticks are numbers) and `RenewalAssumption`: one renewal
interval and one request together are shorter than the lease, as the code's 20 s and
10 s of 60 s are. Nothing is assumed about the time before the stream is open.

`TurnInv` has two halves. The first is about time. That a tick is left is not
inductive; `InTimeToStop` says how much: while Hermes runs and the renewal did not begin
late, more is left than the sleep of the renewal and its request still take
(`Outlasts`), so a renewal that fails closes the stream before the lease is over. A
renewed lease is a whole one, so an answered renewal is never late. It needs that a lease with time left belongs to a
running attempt (`LeaseAgrees`) and that Hermes does not run before the claim is
answered or once the outcome is sent (`Quiet`).

The second half is about the approval. The row is written by an event the worker may
send twice and read while its decision is on its way by two routes, the worker's
request and a late copy of it. `DecisionIsTheRows` says that both carry the row's
decision; `AskedOnce` that at most one request is unread or in hand, and only while no
row exists, so that a repeated event never reopens an approval; `RowAgrees` what each
status of the row says about Hermes. Steps are grouped by what they do to one record
(`Calm`, `RowFollows`, `HermesMoves`), and most actions are instances of three lemmas
about these relations.

Only model-checked: `TurnSettles`.

## 9. WorkerLoop

State. The profiles and executions of two messages, the activity revision, the
worker's place in `_run_loop` with what it knows, its active tasks, the ambiguous
claim, a claim request that is still under way, and Foundry's handler of a wait.

Foundry: `EnsureProfile`, `CreateExecution`, `DeleteProfile`, `MessageLeaseExpires`,
`CleanupDeadline`. Worker: `ReadSnapshot` or `SkipPass`, `ApplySnapshot`, `Claim`,
`SlotsFull`, `Sleep`, `StartWait`, `DrainEnds`, `Boot`. Wait: `Listen`,
`ReadRevision`, `WakeUp`, `Reread` in the order of `_wait_postgres`. Faults:
`PassFails`, `ClaimFails`, `LateClaim`, `DropAmbiguous`, `WaitFails`, `Crash`.

An ambiguous claim is retried under its id before any other, so there is at most
one. It is dropped some time after its first loss (`DropAmbiguous`), at any time in the
model: a replay that was applied and lost may have leased the turn anew by then. What a task does is `RuntimeTurn`, what a claim writes `TurnLease`. Turns of a
crashed worker are taken as requeued. A second waiter is refused with 429 and the
worker backs off. A cleanup deadline ends leases as well, because a claim that raises
for an unready profile rolls back. A change of generation is not in this module.

Run `worker_loop`: two messages, each of its own profile, two slots, one fast poll for
eight, one fault. With two slots and two messages both "a slot is left" and "slots are
full" happen. Deadlock is checked.

* `NoSleepThroughWork`: a worker that is blocked in a wait and was not notified leaves
  no new message behind that it could claim; tasks and the ambiguous claim never
  exceed the slots, and every task has a running execution. A message that an expired
  lease puts back is not announced; the end of the bounded wait finds it.
* `QueuedWorkIsRun`: every queued message is run, unless its profile is deleted.

Fairness: worker, wait handler and clock go on; tasks end (`TurnSettles`); strong
fairness of `ReadSnapshot`, since a pass that was refused is tried again. That a
process that ended is started again is the Machine's restart policy, an assumption.

Observation. The replay of an ambiguous claim whose profile entered deletion raises
RuntimeFencedError, which `_run_loop` takes for a fence of the whole runtime: the
process drains all profiles and ends (foundry.py:3337-3339, claims.py:148-151).

Proved in `RoutinesProofs`, for any set of messages, two slots or more (the worker
refuses fewer, foundry.py:1999-2004), any number of fast polls and of faults:

* `WorkerNeverSleepsThroughWork`: `LoopSpec => []NoSleepThroughWork`.

`LoopInv` adds what the worker knows before it blocks. `LoopTyped`: nobody holds a
revision from the future. `SlotsHeld`: a task has a slot and a lease, an ambiguous
claim keeps its slot, and the worker goes on retrying it. `QueuedIsNews`: a message that
is queued while the worker goes to sleep, or waits, is newer than the revision that it,
or its wait, compares with; and a wait blocks only on the current revision. The last
two facts together are why `_wait_postgres` has to read the revision again after it
listens. Only model-checked: `QueuedWorkIsRun`.

## 10. ProfileStore

State. The profile at Foundry and its workspace, the deletion attempts past their
expiry, the profile's files (directory, temporary siblings, key file, sidecar), the
tombstone, the lock file, the reconciler's coroutine, the worker's fence, a turn, and
whether Hermes works for the profile. The volume survives crashes of the runtime and
of Hermes; the lock file stays behind and its process number may be in use again.

| Actions | Code |
| --- | --- |
| `FetchDesired`, `ReportReadiness`, `NextPass` | `reconciliation.py` |
| `MaterializeLocked` ... `BuildProfile`, `PublishProfile`, `AcceptMaterialization` | `materialize`, `accept_materialization_receipt` |
| `FenceDeletion`, `PersistFence`, `FenceWorker`, `QuiesceHermes`, `JoinWorker`, `RecheckLeases` | `_cleanup`, `quiescence.py`, `allies_profile_deletion.py` |
| `StartCleanup`, `BeginRemoval`, `FinishRemoval`, `MarkDeleted`, `AcceptCleanup` | `cleanup`, `accept_cleanup_receipt` |
| `ClaimTurn`, `BindingLocked`, `WriteKeys`, `RecordBinding`, `StartRun`, `WorkEnds`, `EndTurn` | a turn that applies a model binding |
| `RequestDeletion`, `ResumeDeletion`, `AttemptExpires`, `RepairExpired`, `PurgeProfile`, `SetModelBinding` | Foundry and Cloud |
| `Boot`, `Crash`, `HermesRestarts`, `ReplaceMachine`, `LockAges` | the processes and the Machine |

A deletion attempt is its lifecycle epoch. `ws.ready` says that the boot Foundry knows
as ready is the running one. An error that ends the runtime is modelled like a crash.
Only quiescent deletions occur: `request_profile_cleanup` has no caller but tests. Two
processes on one volume do not occur (`SuccessorNeedsRetirement`). The upgrade of old
layouts, manifests and SOUL files rewrites contents, which are left out; that it, or the
refresh of the keys, fails is the failure of `InspectExisting`, which blocks the profile
for this boot with the keys refreshed or not.

Run `profile_store`: two deletion attempts, two generations, one change of the
binding, two faults. Deadlock is checked.

* `DeletedStaysDeleted`: what Foundry records as deprovisioned has no file, nothing
  running, and a tombstone.
* `RemovedOnlyWhenIdle`: files go away only when neither a turn nor a Hermes run that
  outlived its runtime uses them.
* `TurnHasItsKeys`: a turn runs with the keys it was admitted with, whatever a crash
  left between key file and sidecar.
* `MaterializationSettles`: a new profile becomes active or is deleted. Two leftovers
  are excepted: a temporary directory of an earlier generation, which every later
  `materialize` refuses for good (profile_store.py:2513), and a lock whose process
  number is in use again (profile_store.py:1403).

Fairness: the process is restarted, locks grow old, reconciler and turn go on, Hermes
work and leases end.

Finding, run `profile_store_serving` (one deletion, one generation, no fault). The
comment at reconciliation.py:88-91 says a fenced deletion must not "make an unrelated
sibling miss readiness or claims". The first pass of a boot runs before readiness is
reported, and `accept_cleanup_receipt` takes a proof only from the boot it knows as
ready (profiles.py:584-594). The receipt of a deletion that is pending at boot is
answered with `runtime_fenced`, which nothing on the way handles: the worker ends, is
restarted, and ends again, and no profile is served (`RuntimeKeepsServing`) until an
operator or the cleanup deadline changes the profile.

Proved in `ProfileStoreProofs`, for any number of deletion attempts, generations,
bindings and faults:

* `DeletionIsComplete`: `Spec => []DeletedStaysDeleted`;
* `RemovalIsIdle`: `Spec => []RemovedOnlyWhenIdle`;
* `KeysMatchTurn`: `Spec => []TurnHasItsKeys`.

What Foundry records and what is on the volume are connected only through what the
pass under way has established, so `StoreInv` spells that out: the pass holds the lock
in the steps of `LockedSteps` and in no other (`LockHeld`); a profile with a tombstone,
or a pass that deletes, means a profile that Foundry deletes for ever
(`OnlyDeletedFenced`); an active profile and one with a turn have all their files
(`UsedIsComplete`); after the fence, the quiescence and the join the pass knows that
there is no work and no turn (`Closing`), which later admissions cannot change because
of the tombstone; what a tombstone and a half removed directory mean whoever wrote
them (`Removed`); and the key file is never older than the sidecar (`KeysWritten`).
Only model-checked: `MaterializationSettles`.

## 11. Publications

State. `row` is the PublicationIntent, `cloud` Cloud's publication, `vol` what the
volume holds (ledger record, copy, snapshot, journal), `pc` and `mem` the tool call
and the recovery pass, `call` and `late` the handlers of Foundry that somebody or
nobody waits for, `up` whether the runtime runs.

| Actions | Code |
| --- | --- |
| `CreateIntent`, `Reserve`, `FreezeStep`, `CommitCopy`, `WriteJournal`, `MarkFrozen`, `ToolAsks`, `ToolStops` | the tool call: `publication_bridge.py`, `freeze_publication` of `files.py` |
| `StartRecovery`, `RecoveryAsks`, `SnapshotGone` | `recover` |
| `CloudAnswers`, `RecordAnswer` (`RegisterRecorded`, `UploadRecorded`, `RetryRecorded`, `ClaimRecorded`) | the handlers of `publications.py`: transaction, request to Cloud, transaction |
| `GiveUp`, `CloudAnswersLate`, `CloudFailsLate`, `RecordLate` | a caller that times out and the handler that goes on |
| `MarkReleasing`, `RemoveSnapshot`, `RemoveJournal`, `Unreserve`, `ReservationAges` | `release_publication_spool` and its cleanup |
| `Wake`, `DueAgain`, `Start`, `IdleStop`, `RuntimeCrash` | the wake pass, the Machine |
| `CloudValidates`, `UserRetries`, `CloudFails` | Cloud and its user, external |

One file per publication; digests, sizes, lease tokens, limits and the failure
placeholder are left out, as are profile deletion and generation fences. Tool call ids
are not repeated. A turn may end at any await of the tool call: `ToolStops` also
stands for the lease check of `_active_attempt`, which refuses the tool from then on. A
copy that fails gives its reservation back, or leaves it when the ledger cannot be
written; `Authorized` has what the handlers ask of the intent. The Machine is stopped
for idleness only after a recovery pass; a copy takes less than 24 hours; the 60
seconds between wakes are "due again". Cloud offers only revisions that a user asked
for after a failure, and fails only what it validated or was told has failed.

Run `publications`: two attempts for five, two revisions, one loss (a refused or lost
request, a caller that gives up, a crash). Deadlock is checked.

* `SnapshotOutlivesUpload`: what Foundry was told is frozen stays on the volume until
  Cloud has it, and every copy is charged to the disk budget. Excepted: the ledger
  cannot be written after the journal was (files.py:215-225), whether the copy is then
  given up or the reservation stays.
* `WakesEnd`: a publication stops waking its workspace, unless a registration answered
  before a retry is recorded after it (`_set_registered` compares no revision,
  publications.py:612).
* `RetriesAreAnswered`: a retry of the user is uploaded or reported failed, unless a
  registration brought its revision in and the attempts ran out (`_admit_cloud_retry`,
  publications.py:551-555).

Fairness: tool call, recovery pass, release and handlers go on, the wake pass runs,
Cloud validates. Spools of failed publications are kept and count toward the limit of
20 manifests; that limit is not modelled.

Proved in `ProfileStoreProofs`, for any number of attempts, revisions and losses:

* `SnapshotKeptUntilUploaded`: `PublicationSpec => []SnapshotOutlivesUpload`.

`PublicationInv` follows the snapshot from the copy to the release: what is on the
volume at each step of the tool call (`SpoolFits`); that a "freeze" is reported, and a
manifest recorded, only for what is kept (`KeptOn`); that a caller releases, and the
ledger says "releasing", only once Cloud is ready (`CallerFits`); and what an answer
says of Cloud when it is recorded (`HandlerFits`). The last holds of handlers that
nobody waits for any more as well, since `RecordLate` applies their answers at any
time: it needs that Cloud's revisions only grow and that ready stays ready
(`CloudMoves`). Only model-checked: `WakesEnd` and `RetriesAreAnswered`.

## 12. What the model leaves to assumptions

External parts, modelled from how the code uses them: Fly (sections 4, 5, 7), Cloud
(sections 3, 11), Hermes (sections 8, 10), the Machine's restart policy and the
scheduler of management commands. Faults are counted and bounded in every run; a
property that fails only after more faults than the bound is not seen. Every bound is a
constant whose comment begins with "bound".

## 13. Plan

Modelled and checked: all modules above. Proved: every invariant and every action
property that a run checks, and both refinements. The order was: leases first, then
what a crash can break (outboxes, lifecycle, routines, pool, volume), then the two
clocks of a turn, then power, poll loop and publications.

All liveness properties stay with TLC: they depend on fairness and ENABLED. They are
`ExpiredLeaseUnblocksProfile`, `EventsSettle`, `TransientFaultsLoseNothing`,
`HintsSettle`, both `OperationsEnd`, `RunsEnd`, `PoolRefills`, `TurnSettles`,
`QueuedWorkIsRun`, `MaterializationSettles`, `WakesEnd` and `RetriesAreAnswered`. No
property of a sum over all rows is proved (the bounds on claims and approvals of
`Routines`): that would be an induction over data.

## 14. Not modelled

* Runtime credentials: issuing and revoking are single updates; the generation check
  they serve is in `TurnLease`.
* Credential broker, file and tool relays: they authorise and forward one request and
  keep no state.
* Continuity proof, smoke checks and other operator tooling: they drive and observe
  the system.
* The Hermes image's sandbox, plugins and patches: third-party agent code. Its
  deletion helper is the quiescence step of `ProfileStore`.
* HTTP schemas, wire formats of Fly, Cloud and Hermes, configuration, observability.
* The contents that an upgrade of an old profile layout rewrites (profile_store.py:700-1170,
  1915-2000, 2119-2214): a one-time rewrite. Its failure is in `InspectExisting`.
* Batch limits and the order among due rows of the background passes.

## 15. Running

    tlc -workers 2 -config MCTurnLease.cfg MCTurnLease
    tlapm TurnLeaseProofs.tla

Every other run is `tlc -workers 2 -config MC<Module>.cfg MC<Module>`, and
`MCProfileStoreServing.cfg` with `MCProfileStore` for the finding. Each takes between
ten seconds and about three minutes. The other proofs are checked with
`tlapm <Module>Proofs.tla`; the longest take several minutes. A proof says in its leaves which facts and definitions it
uses. The CASE expressions of the models have guards that exclude each other: TLA+
leaves open which branch of two true guards is taken, so a proof could not rely on the
first.

Definitions named `...Fault` are faulty variants of the definition that follows
them. `PROJECT.json` pairs each with the property that must then fail, which shows
that the property can see that mistake.
