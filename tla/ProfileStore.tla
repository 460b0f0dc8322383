----------------------------- MODULE ProfileStore -----------------------------
(***************************************************************************)
(* One profile on its volume: the store that writes and removes its files  *)
(* (runtime/allies_runtime/profile_store.py), the reconciler that drives   *)
(* the store from Foundry's desired state (reconciliation.py), the         *)
(* closure of what still uses the files (quiescence.py and the image's     *)
(* allies_profile_deletion.py), and the parts of profiles.py and           *)
(* profile_deletion.py that answer them.                                   *)
(*                                                                         *)
(* Actors: the reconciler's coroutine, a turn of the same process that     *)
(* applies a model binding, Hermes (a process of its own, which outlives   *)
(* the runtime's crashes), Foundry and Cloud.  The volume survives all of  *)
(* them.  A crash may fall between any two writes; it leaves the lock file *)
(* behind, whose recorded process number may belong to a live process of   *)
(* the next boot.                                                          *)
(*                                                                         *)
(* Lifecycle epochs name deletion attempts: every attempt has its own      *)
(* identifier, digest and expiry, and advances the epoch by one.  A        *)
(* materialization operation is named by the Machine generation, the only  *)
(* part of its identifier that changes.                                    *)
(*                                                                         *)
(* A definition named ...Fault is a faulty variant of the one after it; no *)
(* specification uses it, the mutation runs put it in the other's place.   *)
(***************************************************************************)
EXTENDS Naturals

CONSTANTS
    MaxEpoch,     \* bound: deletion attempts
    MaxGen,       \* bound: Machine generations
    MaxBinding,   \* bound: changes of the model binding
    MaxFaults     \* bound: crashes, failed writes and lost answers

ASSUME StoreAssumption ==
    /\ MaxEpoch \in Nat /\ MaxGen \in Nat \ {0}
    /\ MaxBinding \in Nat /\ MaxFaults \in Nat

VARIABLES
    fnd,      \* the RuntimeProfile row
    ws,       \* the Workspace: its generation, the boot it knows as ready, the lease
    past,     \* deletion attempts whose expiry passed
    files,    \* the profile directory, its temporary siblings, .env and the sidecar
    tomb,     \* the tombstone file
    lock,     \* the lock file: who holds it, and whether it is older than the limit
    rt,       \* the reconciler's coroutine
    fenced,   \* the worker's registry refuses the profile
    turn,     \* a claim of this profile in the worker
    work,     \* Hermes runs or serves a request of the profile
    faults

vars == <<fnd, ws, past, files, tomb, lock, rt, fenced, turn, work, faults>>
foundryVars == <<fnd, ws, past>>
volume == <<files, tomb, lock>>

NoTomb == [status |-> "none", epoch |-> 0]
NoFiles == [dir |-> "absent", temp |-> {}, env |-> 0, sidecar |-> 0]
NoTurn == [at |-> "none", binding |-> 0]
Down == [at |-> "down", state |-> "pending", epoch |-> 0, gen |-> 0, sameHermes |-> FALSE,
         result |-> "none", blocked |-> FALSE]

Init ==
    /\ fnd = [state |-> "pending", epoch |-> 0, materialized |-> 0, receipt |-> "none",
              binding |-> 0]
    /\ ws = [gen |-> 1, ready |-> FALSE, leased |-> FALSE]
    /\ past = {}
    /\ files = NoFiles /\ tomb = NoTomb /\ lock = [by |-> "nobody", old |-> FALSE]
    /\ rt = Down /\ fenced = FALSE /\ turn = NoTurn /\ work = FALSE /\ faults = 0

Fault == faults < MaxFaults /\ faults' = faults + 1

-----------------------------------------------------------------------------
(* The lock *)

\* The recorded process is gone and the file is older than the limit.
StealableFault == lock.by = "nobody" /\ lock.old
Stealable == lock.by = "dead" /\ lock.old
Obtainable == lock.by = "nobody" \/ Stealable

Acquire(who) == Obtainable /\ lock' = [by |-> who, old |-> FALSE]
Unlocked == [by |-> "nobody", old |-> FALSE]

\* Five seconds without the lock.
TimedOut(who) == lock.by \notin {"nobody", who} /\ ~Stealable

LockAges ==
    /\ lock.by \in {"dead", "taken"} /\ ~lock.old
    /\ lock' = [lock EXCEPT !.old = TRUE]
    /\ UNCHANGED <<foundryVars, files, tomb, rt, fenced, turn, work, faults>>

-----------------------------------------------------------------------------
(* The runtime process *)

\* A lock file left behind names a process number.  At the next boot that
\* number is free or belongs to another live process.
Boot ==
    /\ rt.at = "down"
    /\ rt' = [Down EXCEPT !.at = "idle"]
    /\ \/ lock.by = "nobody" /\ UNCHANGED lock
       \/ /\ lock.by # "nobody"
          /\ \E by \in {"dead", "taken"} : lock' = [lock EXCEPT !.by = by]
    /\ UNCHANGED <<foundryVars, files, tomb, fenced, turn, work, faults>>

\* The memory of the process is gone; the volume, Hermes and the lease are not,
\* and the boot that reported readiness is no longer the one that runs.
Leave ==
    /\ rt' = Down /\ fenced' = FALSE /\ turn' = NoTurn
    /\ lock' = IF lock.by \in {"reconciler", "turn"} THEN [lock EXCEPT !.by = "dead"] ELSE lock
Exit == Leave /\ ws' = [ws EXCEPT !.ready = FALSE]

Crash ==
    /\ rt.at # "down" /\ Fault /\ Exit
    /\ work' \in {work, FALSE}   \* alone, or with the Machine
    /\ UNCHANGED <<fnd, past, files, tomb>>

\* Hermes restarts by itself; a captured instance is then stale.
HermesRestarts ==
    /\ rt.at # "down" /\ Fault
    /\ work' = FALSE /\ rt' = [rt EXCEPT !.sameHermes = FALSE]
    /\ UNCHANGED <<foundryVars, volume, fenced, turn>>

\* The volume moves to a new Machine.
ReplaceMachine ==
    /\ ws.gen < MaxGen /\ Fault
    /\ ws' = [ws EXCEPT !.gen = @ + 1, !.ready = FALSE]
    /\ fnd' = [fnd EXCEPT !.materialized = 0]
    /\ work' = FALSE /\ Leave
    /\ UNCHANGED <<past, files, tomb>>

\* An error of one pass: a block or a refused receipt ends the process, an
\* unavailable service is tried again.
Go(at) == rt' = [rt EXCEPT !.at = at]
Again == Go("idle")

-----------------------------------------------------------------------------
(* reconcile *)

Deleting(p) == p.state \in {"cleanup_pending", "repair_required", "deprovisioned"}

Snapshot(at) ==
    rt' = [rt EXCEPT !.at = at, !.state = fnd.state, !.epoch = fnd.epoch, !.gen = ws.gen]

FetchDesired ==
    /\ rt.at = "idle"
    /\ Snapshot(IF Deleting(fnd) THEN "fence"
                ELSE IF fnd.state = "purged" \/ fnd.materialized = ws.gen THEN "report"
                ELSE "materialize")
    /\ UNCHANGED <<foundryVars, volume, fenced, turn, work, faults>>

\* The end of the loop over the profiles, and the readiness report after it.
ReportReadiness ==
    /\ rt.at = "report"
    /\ IF rt.blocked THEN Exit
       ELSE /\ ws' = [ws EXCEPT !.ready = TRUE]
            /\ Go("serving") /\ UNCHANGED <<fenced, turn, lock>>
    /\ UNCHANGED <<fnd, past, files, tomb, work, faults>>

NextPass ==
    /\ rt.at = "serving" /\ Again
    /\ UNCHANGED <<foundryVars, volume, fenced, turn, work, faults>>

Block == rt' = [rt EXCEPT !.at = "report", !.blocked = TRUE]

-----------------------------------------------------------------------------
(* materialize *)

\* Without the lock, or against a tombstone, the pass is blocked.
MaterializeRefused ==
    /\ rt.at = "materialize"
    /\ \/ TimedOut("reconciler") /\ UNCHANGED lock
       \/ tomb # NoTomb /\ Obtainable /\ lock' = Unlocked
    /\ Block
    /\ UNCHANGED <<foundryVars, files, tomb, fenced, turn, work, faults>>

MaterializeLocked ==
    /\ rt.at = "materialize" /\ tomb = NoTomb
    /\ Acquire("reconciler") /\ Go("inspect")
    /\ UNCHANGED <<foundryVars, files, tomb, fenced, turn, work, faults>>

\* The seed's credentials are refreshed unless a binding owns the file.
Refreshed == IF files.sidecar = 0 THEN [files EXCEPT !.env = 0] ELSE files

\* A complete profile is kept: its manifest takes the operation and the
\* generation of this pass.  A write that fails asks for repair, before or
\* after the credentials were refreshed.
InspectExisting ==
    /\ rt.at = "inspect" /\ files.dir = "complete"
    /\ \/ files' = Refreshed /\ Go("materialized") /\ UNCHANGED faults
       \/ files' \in {files, Refreshed} /\ Block /\ Fault
    /\ lock' = Unlocked
    /\ UNCHANGED <<foundryVars, tomb, fenced, turn, work>>

\* A sibling left by another operation is not touched.
ForeignTemporary == files.temp \ {rt.gen} # {}

RefuseForeignTemporary ==
    /\ rt.at = "inspect" /\ files.dir = "absent" /\ ForeignTemporary
    /\ lock' = Unlocked /\ Block
    /\ UNCHANGED <<foundryVars, files, tomb, fenced, turn, work, faults>>

BuildProfile ==
    /\ rt.at = "inspect" /\ files.dir = "absent" /\ ~ForeignTemporary
    /\ files' = [files EXCEPT !.temp = {rt.gen}]
    /\ \/ Go("publish") /\ UNCHANGED <<lock, faults>>
       \/ Block /\ lock' = Unlocked /\ Fault   \* a credential that does not resolve
    /\ UNCHANGED <<foundryVars, tomb, fenced, turn, work>>

PublishProfile ==
    /\ rt.at = "publish"
    /\ files' = [NoFiles EXCEPT !.dir = "complete"]
    /\ lock' = Unlocked /\ Go("materialized")
    /\ UNCHANGED <<foundryVars, tomb, fenced, turn, work, faults>>

ReceiptAcceptable == fnd.state \in {"pending", "active"} /\ rt.gen = ws.gen

AcceptMaterialization ==
    /\ rt.at = "materialized" /\ ReceiptAcceptable
    /\ fnd' = [fnd EXCEPT !.state = "active", !.materialized = ws.gen]
    /\ \/ Go("report") /\ UNCHANGED faults
       \/ Again /\ Fault   \* the answer is lost
    /\ UNCHANGED <<ws, past, volume, fenced, turn, work>>

\* A fenced receipt reads the authority again and cleans up at once; the pass
\* is blocked either way.
RefuseMaterialization ==
    /\ rt.at = "materialized" /\ ~ReceiptAcceptable
    /\ rt' = [rt EXCEPT !.blocked = TRUE, !.state = fnd.state, !.epoch = fnd.epoch,
                        !.gen = ws.gen, !.at = IF Deleting(fnd) THEN "fence" ELSE "report"]
    /\ UNCHANGED <<foundryVars, volume, fenced, turn, work, faults>>

-----------------------------------------------------------------------------
(* fence_deletion, and the closure of the profile's users *)

\* A deletion that cannot go on stays pending: it blocks no other profile.
Postpone == Go("report")

FenceUnavailable ==
    /\ rt.at = "fence" /\ TimedOut("reconciler") /\ Postpone
    /\ UNCHANGED <<foundryVars, volume, fenced, turn, work, faults>>

FenceDeletion ==
    /\ rt.at = "fence" /\ Acquire("reconciler") /\ Go("fencing")
    /\ UNCHANGED <<foundryVars, files, tomb, fenced, turn, work, faults>>

PersistFence ==
    /\ rt.at = "fencing" /\ lock' = Unlocked
    /\ CASE tomb.status = "deleted" -> Go("close") /\ UNCHANGED tomb
         [] tomb.status = "pending" /\ tomb.epoch = rt.epoch ->
                /\ IF rt.epoch \in past THEN Postpone ELSE Go("close")
                /\ UNCHANGED tomb
         [] tomb.status = "pending" /\ tomb.epoch > rt.epoch -> Postpone /\ UNCHANGED tomb
         [] OTHER ->
                IF rt.epoch \in past
                THEN Postpone /\ tomb' = [status |-> "repair", epoch |-> rt.epoch]
                ELSE Go("close") /\ tomb' = [status |-> "pending", epoch |-> rt.epoch]
    /\ UNCHANGED <<foundryVars, files, fenced, turn, work, faults>>

\* fence_profile of the worker, then the instance Hermes runs as.
FenceWorker ==
    /\ rt.at = "close" /\ fenced' = TRUE
    /\ rt' = [rt EXCEPT !.at = "quiesce", !.sameHermes = TRUE]
    /\ UNCHANGED <<foundryVars, volume, turn, work, faults>>

\* _validate_request: this instance, and a fence of this attempt.
MarkerAdmits ==
    \/ tomb.status = "deleted" /\ files.dir = "absent"
    \/ tomb.status = "pending" /\ tomb.epoch = rt.epoch /\ rt.epoch \notin past

\* The end of the image's closure: no run, no request, no store, no child.
Closed == ~work

QuiesceHermesFault ==
    /\ rt.at = "quiesce" /\ rt.sameHermes /\ MarkerAdmits
    /\ Go("join")
    /\ UNCHANGED <<foundryVars, volume, fenced, turn, work, faults>>
QuiesceHermes ==
    /\ rt.at = "quiesce" /\ rt.sameHermes /\ MarkerAdmits /\ Closed
    /\ Go("join")
    /\ UNCHANGED <<foundryVars, volume, fenced, turn, work, faults>>

\* Still draining, a stale identity or a fault: no proof.
QuiescePending ==
    /\ rt.at = "quiesce"
    /\ \/ (~Closed \/ ~rt.sameHermes \/ ~MarkerAdmits) /\ UNCHANGED faults
       \/ Fault
    /\ Postpone
    /\ UNCHANGED <<foundryVars, volume, fenced, turn, work>>

\* quiesce of the worker's registry: the claim's task is awaited.
JoinWorker ==
    /\ rt.at = "join"
    /\ IF turn.at = "none" THEN Go("recheck") ELSE Postpone
    /\ UNCHANGED <<foundryVars, volume, fenced, turn, work, faults>>

\* The second read of the desired state, and the lock of cleanup.
RecheckLeases ==
    /\ rt.at = "recheck"
    /\ \/ /\ ~Deleting(fnd) \/ fnd.epoch # rt.epoch \/ ws.leased
          /\ Postpone /\ UNCHANGED lock
       \/ /\ Deleting(fnd) /\ fnd.epoch = rt.epoch /\ ~ws.leased
          /\ \/ Acquire("reconciler") /\ Go("cleanup")
             \/ /\ TimedOut("reconciler") /\ UNCHANGED lock
                /\ rt' = [rt EXCEPT !.at = "receipt", !.result = "repair_required"]
    /\ UNCHANGED <<foundryVars, files, tomb, fenced, turn, work, faults>>

-----------------------------------------------------------------------------
(* cleanup *)

Finish(result) == rt' = [rt EXCEPT !.at = "receipt", !.result = result] /\ lock' = Unlocked

StartCleanup ==
    /\ rt.at = "cleanup"
    /\ CASE tomb.status = "deleted" -> Finish("deprovisioned") /\ UNCHANGED tomb
         [] tomb.status \in {"pending", "repair"} /\ tomb.epoch > rt.epoch ->
                Postpone /\ lock' = Unlocked /\ UNCHANGED tomb
         [] tomb.status # "deleted" /\ tomb.epoch <= rt.epoch /\ rt.epoch \in past ->
                Finish("repair_required") /\ tomb' = [status |-> "repair", epoch |-> rt.epoch]
         [] OTHER ->
                /\ tomb' = [status |-> "pending", epoch |-> rt.epoch]
                /\ Go("remove") /\ UNCHANGED lock
    /\ UNCHANGED <<foundryVars, files, fenced, turn, work, faults>>

\* The publication spools and then the directory, file by file.
BeginRemoval ==
    /\ rt.at = "remove" /\ files.dir = "complete"
    /\ files' = [files EXCEPT !.dir = "partial"]
    /\ UNCHANGED <<foundryVars, tomb, lock, rt, fenced, turn, work, faults>>

\* A tree beyond the bound, a link or a failed call.
RemovalFails ==
    /\ rt.at = "remove" /\ Fault
    /\ tomb' = [status |-> "repair", epoch |-> rt.epoch] /\ Finish("repair_required")
    /\ UNCHANGED <<foundryVars, files, fenced, turn, work>>

FinishRemovalFault ==
    /\ rt.at = "remove" /\ files.dir # "complete"
    /\ files' = [NoFiles EXCEPT !.temp = files.temp] /\ Go("mark")
    /\ UNCHANGED <<foundryVars, tomb, lock, fenced, turn, work, faults>>
FinishRemoval ==
    /\ rt.at = "remove" /\ files.dir # "complete"
    /\ files' = NoFiles /\ Go("mark")
    /\ UNCHANGED <<foundryVars, tomb, lock, fenced, turn, work, faults>>

MarkDeleted ==
    /\ rt.at = "mark"
    /\ tomb' = [status |-> "deleted", epoch |-> 0] /\ Finish("deprovisioned")
    /\ UNCHANGED <<foundryVars, files, fenced, turn, work, faults>>

-----------------------------------------------------------------------------
(* accept_cleanup_receipt *)

\* A deletion's receipt must come from the boot that reported readiness.
CleanupAcceptable ==
    /\ Deleting(fnd) /\ fnd.epoch = rt.epoch /\ rt.epoch \notin past
    /\ rt.result = "deprovisioned" => ws.gen = rt.gen /\ ws.ready
    /\ fnd.receipt \in {"none", rt.result}
    /\ fnd.receipt = "none" => ~ws.leased

AcceptCleanup ==
    /\ rt.at = "receipt" /\ CleanupAcceptable
    /\ fnd' = IF fnd.receipt # "none" THEN fnd
              ELSE [fnd EXCEPT !.receipt = rt.result, !.materialized =
                                    IF rt.result = "deprovisioned" THEN 0 ELSE @,
                               !.state = rt.result]
    /\ \/ Go("report") /\ UNCHANGED faults
       \/ Again /\ Fault   \* the answer is lost
    /\ UNCHANGED <<ws, past, volume, fenced, turn, work>>

\* Nothing between the receipt and the process catches a refusal.
RefuseCleanup ==
    /\ rt.at = "receipt" /\ ~CleanupAcceptable
    /\ Exit
    /\ UNCHANGED <<fnd, past, files, tomb, work, faults>>

-----------------------------------------------------------------------------
(* A turn of the profile, and apply_binding at its start *)

ClaimTurn ==
    /\ rt.at = "serving" /\ turn.at = "none" /\ ~fenced /\ ~ws.leased
    /\ fnd.state = "active" /\ fnd.materialized = ws.gen /\ ws.ready
    /\ turn' = [at |-> IF fnd.binding = 0 THEN "ready" ELSE "start", binding |-> fnd.binding]
    /\ ws' = [ws EXCEPT !.leased = TRUE]
    /\ UNCHANGED <<fnd, past, volume, rt, fenced, work, faults>>

TurnOver == turn' = NoTurn /\ ws' = [ws EXCEPT !.leased = FALSE]

BindingLocked ==
    /\ turn.at = "start" /\ Acquire("turn")
    /\ turn' = [turn EXCEPT !.at = "bind"]
    /\ UNCHANGED <<foundryVars, files, tomb, rt, fenced, work, faults>>

\* No lock in time, or a reference that does not resolve: nothing is written.
BindingFails ==
    /\ \/ turn.at = "start" /\ TimedOut("turn") /\ UNCHANGED <<lock, faults>>
       \/ turn.at = "bind" /\ files.sidecar < turn.binding /\ Fault /\ lock' = Unlocked
    /\ TurnOver
    /\ UNCHANGED <<fnd, past, files, tomb, rt, fenced, work>>

BindingCurrent ==
    /\ turn.at = "bind" /\ files.sidecar >= turn.binding
    /\ turn' = [turn EXCEPT !.at = "ready"] /\ lock' = Unlocked
    /\ UNCHANGED <<foundryVars, files, tomb, rt, fenced, work, faults>>

\* The first of the two files, and then the second.
FirstWriteFault == [files EXCEPT !.sidecar = turn.binding]
FirstWrite == [files EXCEPT !.env = turn.binding]
SecondWrite == [files EXCEPT !.env = turn.binding, !.sidecar = turn.binding]

WriteKeys ==
    /\ turn.at = "bind" /\ files.sidecar < turn.binding
    /\ files' = FirstWrite /\ turn' = [turn EXCEPT !.at = "bound"]
    /\ UNCHANGED <<foundryVars, tomb, lock, rt, fenced, work, faults>>

RecordBinding ==
    /\ turn.at = "bound"
    /\ files' = SecondWrite /\ lock' = Unlocked
    /\ turn' = [turn EXCEPT !.at = "ready"]
    /\ UNCHANGED <<foundryVars, tomb, rt, fenced, work, faults>>

\* The image admits no request while a marker exists.
Admitted == tomb = NoTomb

StartRun ==
    /\ turn.at = "ready"
    /\ IF Admitted
       THEN work' = TRUE /\ turn' = [turn EXCEPT !.at = "running"] /\ UNCHANGED ws
       ELSE TurnOver /\ UNCHANGED work
    /\ UNCHANGED <<fnd, past, volume, rt, fenced, faults>>

\* By itself or interrupted; Hermes does not know whether the runtime lives.
WorkEnds ==
    /\ work /\ work' = FALSE
    /\ UNCHANGED <<foundryVars, volume, rt, fenced, turn, faults>>

EndTurn ==
    /\ turn.at = "running" /\ ~work /\ TurnOver
    /\ UNCHANGED <<fnd, past, volume, rt, fenced, work, faults>>

LeaseExpires ==
    /\ ws.leased /\ turn.at = "none"
    /\ ws' = [ws EXCEPT !.leased = FALSE]
    /\ UNCHANGED <<fnd, past, volume, rt, fenced, turn, work, faults>>

-----------------------------------------------------------------------------
(* Foundry and Cloud *)

Attempt == [fnd EXCEPT !.state = "cleanup_pending", !.epoch = @ + 1, !.receipt = "none"]

RequestDeletion ==
    /\ fnd.state \in {"pending", "active"} /\ fnd.epoch < MaxEpoch
    /\ fnd' = Attempt
    /\ UNCHANGED <<ws, past, volume, rt, fenced, turn, work, faults>>

ResumeDeletion ==
    /\ fnd.state = "repair_required" /\ fnd.epoch < MaxEpoch
    /\ fnd' = Attempt
    /\ UNCHANGED <<ws, past, volume, rt, fenced, turn, work, faults>>

AttemptExpires ==
    /\ Deleting(fnd) /\ fnd.epoch \notin past
    /\ past' = past \union {fnd.epoch}
    /\ UNCHANGED <<fnd, ws, volume, rt, fenced, turn, work, faults>>

\* The scheduled sweep stores a receipt and ends the leases; a poll by Cloud
\* only changes the state.
RepairExpired ==
    /\ fnd.state = "cleanup_pending" /\ fnd.epoch \in past
    /\ \/ /\ fnd' = [fnd EXCEPT !.state = "repair_required", !.receipt = "repair_required"]
          /\ ws' = [ws EXCEPT !.leased = FALSE]
       \/ fnd' = [fnd EXCEPT !.state = "repair_required"] /\ UNCHANGED ws
    /\ UNCHANGED <<past, volume, rt, fenced, turn, work, faults>>

PurgeProfile ==
    /\ fnd.state = "deprovisioned"
    /\ fnd' = [fnd EXCEPT !.state = "purged"]
    /\ UNCHANGED <<ws, past, volume, rt, fenced, turn, work, faults>>

SetModelBinding ==
    /\ fnd.state \in {"pending", "active"} /\ fnd.binding < MaxBinding
    /\ fnd' = [fnd EXCEPT !.binding = @ + 1]
    /\ UNCHANGED <<ws, past, volume, rt, fenced, turn, work, faults>>

-----------------------------------------------------------------------------
Reconcile ==
    \/ FetchDesired \/ ReportReadiness \/ NextPass
    \/ MaterializeRefused \/ MaterializeLocked \/ InspectExisting \/ RefuseForeignTemporary
    \/ BuildProfile \/ PublishProfile \/ AcceptMaterialization \/ RefuseMaterialization
    \/ FenceUnavailable \/ FenceDeletion \/ PersistFence \/ FenceWorker
    \/ QuiesceHermes \/ QuiescePending \/ JoinWorker \/ RecheckLeases
    \/ StartCleanup \/ BeginRemoval \/ RemovalFails \/ FinishRemoval \/ MarkDeleted
    \/ AcceptCleanup \/ RefuseCleanup

RunTurn ==
    \/ BindingLocked \/ BindingFails \/ BindingCurrent \/ WriteKeys \/ RecordBinding
    \/ StartRun \/ EndTurn

Next ==
    \/ Boot \/ Crash \/ HermesRestarts \/ ReplaceMachine \/ LockAges
    \/ Reconcile
    \/ ClaimTurn \/ RunTurn \/ WorkEnds \/ LeaseExpires
    \/ RequestDeletion \/ ResumeDeletion \/ AttemptExpires \/ RepairExpired
    \/ PurgeProfile \/ SetModelBinding

(***************************************************************************)
(* The process manager starts the runtime again, the reconciler and the    *)
(* turn are tasks the event loop runs, clocks advance, and Hermes ends     *)
(* what it was told to interrupt.                                          *)
(***************************************************************************)
Spec ==
    /\ Init /\ [][Next]_vars
    /\ WF_vars(Boot) /\ WF_vars(LockAges) /\ WF_vars(Reconcile)
    /\ WF_vars(RunTurn) /\ WF_vars(WorkEnds) /\ WF_vars(LeaseExpires)

-----------------------------------------------------------------------------
\* The rows, files and processes keep their shape; a runtime that is down holds no
\* turn, no fence and no readiness.
TypeOK ==
    /\ fnd \in [state : {"pending", "active", "cleanup_pending", "repair_required",
                         "deprovisioned", "purged"},
                epoch : 0..MaxEpoch, materialized : 0..MaxGen,
                receipt : {"none", "repair_required", "deprovisioned"},
                binding : 0..MaxBinding]
    /\ ws \in [gen : 1..MaxGen, ready : BOOLEAN, leased : BOOLEAN]
    /\ past \subseteq 1..MaxEpoch
    /\ files \in [dir : {"absent", "complete", "partial"}, temp : SUBSET (1..MaxGen),
                  env : 0..MaxBinding, sidecar : 0..MaxBinding]
    /\ tomb \in [status : {"none", "pending", "repair", "deleted"}, epoch : 0..MaxEpoch]
    /\ lock \in [by : {"nobody", "reconciler", "turn", "dead", "taken"}, old : BOOLEAN]
    /\ rt.at = "down" => turn = NoTurn /\ ~fenced /\ ~ws.ready
    /\ turn.at \in {"none", "start", "bind", "bound", "ready", "running"}
    /\ lock.by = "turn" <=> turn.at \in {"bind", "bound"}
    /\ work \in BOOLEAN /\ faults \in 0..MaxFaults

\* A profile Foundry records as deprovisioned has left no file on the volume,
\* nothing of it runs, and its tombstone refuses to create it again
\* (accept_cleanup_receipt, cleanup, materialize).
DeletedStaysDeleted ==
    /\ TypeOK
    /\ fnd.state \in {"deprovisioned", "purged"} =>
        /\ files = NoFiles /\ tomb.status = "deleted"
        /\ ~work /\ turn = NoTurn

\* Files are taken away only from a profile nobody uses: neither a Hermes run
\* that outlived the runtime which started it nor a turn of the new process
\* (_cleanup, quiesce, _close).  An incomplete directory is always fenced.
RemovedOnlyWhenIdle ==
    files.dir = "partial" => tomb.status \in {"pending", "repair"} /\ ~work /\ turn = NoTurn

\* A turn runs with the keys of the binding it was claimed with, whatever a
\* crash left between the key file and the sidecar that records it
\* (apply_binding, _refresh_seed_credentials).
TurnHasItsKeys ==
    turn.at \in {"ready", "running"} =>
        files.env >= turn.binding /\ files.sidecar >= turn.binding

\* A new profile gets its files and becomes active, or Cloud deletes it,
\* whatever crash interrupts it.  Two leftovers are excepted, see README: the
\* temporary directory of an earlier Machine generation and a lock file whose
\* process number is in use again (materialize, _acquire_file).
MaterializationSettles ==
    fnd.state = "pending" ~>
        \/ fnd.state # "pending"
        \/ files.temp \ {ws.gen} # {}
        \/ lock.by = "taken"

\* Deleting one profile does not keep the runtime from serving the others
\* (reconcile: "do not make an unrelated sibling miss readiness or claims").
RuntimeKeepsServing == []<>(rt.at = "serving")
=============================================================================
