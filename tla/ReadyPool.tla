------------------------------ MODULE ReadyPool ------------------------------
(***************************************************************************)
(* The pool of blank workspaces that new tenants are given                 *)
(* (services/ready_pool.py, services/ready_pool_maintenance.py and         *)
(* providers/fly_pool.py).                                                 *)
(*                                                                         *)
(* A maintenance pass claims one bundle in a short transaction, calls the  *)
(* provider, and records the result in another one that checks the claim   *)
(* again.  The worker's pool loop and the operator's command are such      *)
(* passes; they die, stall past their claim, and run beside each other and *)
(* beside the registrations that take bundles.                             *)
(*                                                                         *)
(* A process works on one claim at a time, so its name stands for the      *)
(* claim's random owner.  Retry times are not modelled: a row that may be  *)
(* tried later may be tried now.                                           *)
(*                                                                         *)
(* A definition named ...Fault is a faulty variant of the one after it; no *)
(* specification uses it, the mutation runs put it in the other's place.   *)
(***************************************************************************)
EXTENDS Integers, FiniteSets, FiniteSetsExt

CONSTANTS
    Procs,         \* maintenance passes that run at the same time
    Bundles,       \* rows, numbered in the order they are created
    Tenants,       \* Cloud workspaces that register
    Target,        \* READY_WORKSPACE_POOL_TARGET while the pool is on
    MaxPreparing,  \* READY_WORKSPACE_POOL_MAX_PREPARING, which must be one
    MaxAttempts,   \* READY_WORKSPACE_POOL_MAX_ATTEMPTS
    SleepEnabled,  \* READY_WORKSPACE_POOL_SLEEP_ENABLED
    MaxFaults,     \* bound: deaths, stalls and failed calls of passes
    MaxEvents      \* bound: silent runtimes, stray starts, releases, the pool turned off

ASSUME PoolAssumption ==
    /\ Bundles \subseteq Nat /\ IsFiniteSet(Bundles) /\ IsFiniteSet(Tenants)
    /\ Target \in Nat \ {0} /\ MaxPreparing = 1 /\ MaxAttempts \in Nat \ {0}
    /\ SleepEnabled \in BOOLEAN /\ MaxFaults \in Nat /\ MaxEvents \in Nat

VARIABLES
    bundle,  \* the row and the workspace of each bundle
    job,     \* what each process is doing
    on,      \* the target is positive
    faults, events

vars == <<bundle, job, on, faults, events>>

States == {"none", "preparing", "ready", "parking", "sleeping",
           "assigned", "evicting", "evicted", "failed"}
None == "none"
Pool == "pool"
Nobody == "nobody"  \* the owner of a claim that ran out

ASSUME NamesAssumption == Procs \cap {None, Nobody} = {} /\ Pool \notin Tenants

NoBundle == [state |-> "none", tenant |-> Pool, release |-> TRUE, fresh |-> "fresh",
             blank |-> FALSE, owned |-> "no", machine |-> "none", receipt |-> FALSE,
             owner |-> None, live |-> FALSE, attempts |-> 0]

Idle == [at |-> "idle", bundle |-> 0, result |-> None]

Init ==
    /\ bundle = [b \in Bundles |-> NoBundle]
    /\ job = [p \in Procs |-> Idle]
    /\ on = TRUE /\ faults = 0 /\ events = 0

MayFail == faults < MaxFaults
Fails(bad) == /\ bad => MayFail
              /\ faults' = IF bad THEN faults + 1 ELSE faults
              /\ UNCHANGED events
Disturbs == events < MaxEvents /\ events' = events + 1 /\ UNCHANGED faults

In(states) == {b \in Bundles : bundle[b].state \in states}
Set(b, row) == bundle' = [bundle EXCEPT ![b] = row]
Go(p, at) == job' = [job EXCEPT ![p].at = at, ![p].result = None]
Done(p) == job' = [job EXCEPT ![p] = Idle]

-----------------------------------------------------------------------------
(* What a row and its workspace show *)

HasOwnedResources(w) == w.owned # "no"

DbBlankReady(w, needsReceipt) == w.tenant = Pool /\ (needsReceipt => w.receipt)

DbReadyEvidence(w, fresh) ==
    /\ w.state = "ready" /\ w.release /\ w.blank /\ w.fresh \in fresh
    /\ DbBlankReady(w, TRUE)

WorksOn(p, b) == job[p].at # "idle" /\ job[p].bundle = b

(* Rows whose workspace another pass may be activating: the workspace's    *)
(* own claim is live then, if that pass has got as far as to take it.      *)
Activating(p) == {b \in Bundles : \E q \in Procs \ {p} : WorksOn(q, b) /\ job[q].at = "prepare"}

AvailableFault(b, busy) == b \notin busy /\ bundle[b].tenant = Pool /\ bundle[b].owner = None
Available(b, busy) ==
    b \notin busy /\ bundle[b].tenant = Pool /\ (bundle[b].owner = None \/ ~bundle[b].live)

Exhausted(w) == w.attempts >= MaxAttempts

FreshReadyCount ==
    Cardinality({b \in In({"ready", "sleeping"}) :
        bundle[b].tenant = Pool /\ bundle[b].release /\ bundle[b].fresh = "fresh"})

Occupied ==
    In({"preparing", "ready", "parking", "sleeping", "evicting"})
      \cup {b \in In({"failed"}) : HasOwnedResources(bundle[b])}

-----------------------------------------------------------------------------
(* The claim of a pass, under the capacity lock *)

Claimed(p, row) == [row EXCEPT !.owner = p, !.live = TRUE]

Take(p, b, row, action) ==
    /\ Set(b, Claimed(p, row))
    /\ job' = [job EXCEPT ![p] = [at |-> action, bundle |-> b, result |-> None]]
    /\ UNCHANGED <<on, faults, events>>

Due(busy) ==
    {b \in In({"evicting", "parking", "preparing", "failed"}) :
        /\ Available(b, busy)
        /\ ~(bundle[b].state = "failed" /\ Exhausted(bundle[b]) /\ ~HasOwnedResources(bundle[b]))}

ActionOf(w) ==
    CASE w.state = "evicting" \/ (w.state = "failed" /\ Exhausted(w)) -> "cleanup"
      [] w.state = "parking" -> "park"
      [] OTHER -> "prepare"

StaleReady(busy) ==
    {b \in In({"ready"}) :
        Available(b, busy) /\ ~DbReadyEvidence(bundle[b], {"fresh", "old"})}

Drainable(busy) == {b \in In({"ready", "parking", "sleeping"}) : ~on /\ Available(b, busy)}

Parkable(busy) ==
    {b \in In({"ready"}) :
        SleepEnabled /\ Available(b, busy) /\ DbReadyEvidence(bundle[b], {"fresh"})}

ToCheck(state, busy) ==
    {b \in In({state}) :
        Available(b, busy) /\ bundle[b].release /\ bundle[b].fresh # "fresh"}

SleepChecks(busy) == {b \in ToCheck("sleeping", busy) : SleepEnabled}

(* Columns that nothing reads in a state are reset. *)
Retired(row, state) == [row EXCEPT !.state = state, !.fresh = "fresh", !.release = TRUE]
Evicting(row) == Retired(row, "evicting")

(* The rows are looked through in this order and the first kind that has   *)
(* any is served.                                                          *)
ClaimDue(p, busy) ==
    \E b \in Due(busy) : Take(p, b, bundle[b], ActionOf(bundle[b]))

ClaimDrain(p, busy) ==
    /\ Due(busy) = {} /\ \E b \in Drainable(busy) : Take(p, b, Evicting(bundle[b]), "cleanup")

ClaimStale(p, busy) ==
    /\ Due(busy) \cup Drainable(busy) = {}
    /\ \E b \in StaleReady(busy) : Take(p, b, Evicting(bundle[b]), "cleanup")

ClaimPark(p, busy) ==
    /\ Due(busy) \cup Drainable(busy) \cup StaleReady(busy) = {}
    /\ \E b \in Parkable(busy) : Take(p, b, [bundle[b] EXCEPT !.state = "parking"], "park")

ClaimSleepCheck(p, busy) ==
    /\ Due(busy) \cup Drainable(busy) \cup StaleReady(busy) \cup Parkable(busy) = {}
    /\ \E b \in SleepChecks(busy) : Take(p, b, bundle[b], "sleep")

ClaimHealthCheck(p, busy) ==
    /\ Due(busy) \cup Drainable(busy) \cup StaleReady(busy) \cup Parkable(busy)
         \cup SleepChecks(busy) = {} /\ on
    /\ \E b \in ToCheck("ready", busy) : Take(p, b, bundle[b], "health")

HasRoomFault == FreshReadyCount < Target
HasRoom ==
    /\ FreshReadyCount < Target
    /\ Cardinality(Occupied) < Target + MaxPreparing
    /\ Cardinality(In({"preparing"})) < MaxPreparing

Create(p, busy) ==
    /\ Due(busy) \cup Drainable(busy) \cup StaleReady(busy) \cup Parkable(busy)
         \cup SleepChecks(busy) \cup ToCheck("ready", busy) = {}
    /\ on /\ HasRoom /\ In({"none"}) # {}
    /\ Take(p, Min(In({"none"})), [NoBundle EXCEPT !.state = "preparing"], "prepare")

(* With the target at zero a pass does nothing unless it is told to drain. *)
ClaimOrReserve(p) ==
    /\ job[p].at = "idle"
    /\ \E busy \in SUBSET Activating(p) :
       \/ ClaimDue(p, busy) \/ ClaimDrain(p, busy) \/ ClaimStale(p, busy) \/ ClaimPark(p, busy)
       \/ ClaimSleepCheck(p, busy) \/ ClaimHealthCheck(p, busy) \/ Create(p, busy)

-----------------------------------------------------------------------------
(* Recording a result under the claim *)

Mine(p) == bundle[job[p].bundle]
OwnsClaim(p) == Mine(p).owner = p /\ Mine(p).live

Freed(row) == [row EXCEPT !.owner = None, !.live = FALSE]

Record(p, row) ==
    /\ Set(job[p].bundle, IF OwnsClaim(p) THEN Freed(row) ELSE Mine(p))
    /\ Done(p) /\ UNCHANGED <<on, faults, events>>

RecordPending(p) == Record(p, Mine(p))

OneMore(row) == [row EXCEPT !.attempts = IF @ < MaxAttempts THEN @ + 1 ELSE @]

RecordRetry(p) ==
    LET row == OneMore(Mine(p))
    IN  Record(p, IF Exhausted(row) THEN Retired(row, "failed") ELSE row)

RecordPhaseRetry(p) == Record(p, OneMore(Mine(p)))

RecordTerminalFailure(p) ==
    IF Mine(p).state = "assigned"
    THEN Done(p) /\ UNCHANGED <<bundle, on, faults, events>>
    ELSE Record(p, Retired(OneMore(Mine(p)), "failed"))

MayEvictFault(p) == TRUE
MayEvict(p) == OwnsClaim(p) /\ Mine(p).state # "assigned"

TransitionToEvicting(p) ==
    /\ IF MayEvict(p)
       THEN Set(job[p].bundle, Evicting(Mine(p))) /\ Go(p, "cleanup")
       ELSE Done(p) /\ UNCHANGED bundle
    /\ UNCHANGED <<on, faults, events>>

TransitionToParking(p) ==
    /\ IF OwnsClaim(p) /\ Mine(p).state = "sleeping"
       THEN Set(job[p].bundle, [Mine(p) EXCEPT !.state = "parking"]) /\ Go(p, "park")
       ELSE Done(p) /\ UNCHANGED bundle
    /\ UNCHANGED <<on, faults, events>>

(* A promotion that its checks refuse leaves the claim to run out. *)
Promote(p, allowed, row) ==
    /\ Set(job[p].bundle, IF OwnsClaim(p) /\ allowed THEN Freed(row) ELSE Mine(p))
    /\ Done(p) /\ UNCHANGED <<on, faults, events>>

Refreshed(row) == [row EXCEPT !.fresh = "fresh", !.attempts = 0]

(* The proof of the blank volume and the promotion are two transactions    *)
(* with the same checks and nothing in between.                            *)
MarkReady(p) ==
    Promote(p, Mine(p).state = "preparing" /\ DbBlankReady(Mine(p), TRUE),
            [Refreshed(Mine(p)) EXCEPT !.state = "ready", !.blank = TRUE])

MarkSleeping(p) ==
    Promote(p, Mine(p).state = "parking" /\ Mine(p).blank /\ DbBlankReady(Mine(p), FALSE),
            [Refreshed(Mine(p)) EXCEPT !.state = "sleeping"])

RefreshHealth(p) ==
    Promote(p, Mine(p).state = "ready" /\ Mine(p).blank /\ DbBlankReady(Mine(p), TRUE),
            Refreshed(Mine(p)))

RefreshSleep(p) ==
    Promote(p, Mine(p).state = "sleeping" /\ Mine(p).blank /\ Mine(p).tenant = Pool,
            Refreshed(Mine(p)))

CleanupAllowed(w, busy) == w.tenant = Pool /\ ~busy
MayBeBusy(p) == {FALSE, job[p].bundle \in Activating(p)}

MarkEvicted(p) ==
    \E busy \in MayBeBusy(p) :
       Promote(p, Mine(p).state # "assigned" /\ CleanupAllowed(Mine(p), busy),
               [NoBundle EXCEPT !.state = "evicted"])

-----------------------------------------------------------------------------
(* Preparing a bundle *)

Validated(result, proven) ==
    CASE result = "ok" /\ ~proven -> "invalid"
      [] result = "pending" /\ proven -> "pending blank"
      [] OTHER -> result

(* Activation makes what is missing and starts the Machine.  The volume is *)
(* known to be blank when this call made it or an earlier pass proved it.  *)
Activate(p, result) ==
    LET b == job[p].bundle
        proven == bundle[b].owned # "all" \/ bundle[b].blank
        built == [bundle[b] EXCEPT !.owned = "all", !.machine = "started"]
    IN  /\ job[p].at = "prepare" /\ bundle[b].machine # "destroyed"
        /\ Fails(result # "ok")
        /\ CASE result \in {"ok", "invalid"} -> Set(b, [built EXCEPT !.receipt = (result = "ok")])
             [] result = "pending" -> Set(b, built)
             [] result = "retry" -> \E o \in {bundle[b].owned, "all"} : Set(b, [bundle[b] EXCEPT !.owned = o])
             [] result = "refused" -> \E o \in {bundle[b].owned, "keys"} :
                   Set(b, [bundle[b] EXCEPT !.owned = IF bundle[b].owned = "all" THEN "all" ELSE o])
        /\ job' = [job EXCEPT ![p].at = "activated", ![p].result = Validated(result, proven)]
        /\ UNCHANGED on

(* Its App was deleted by a cleanup: what activation makes of the recorded *)
(* references cannot be a running bundle.                                  *)
ActivateDestroyed(p) ==
    /\ job[p].at = "prepare" /\ Mine(p).machine = "destroyed"
    /\ job' = [job EXCEPT ![p].at = "activated", ![p].result = "invalid"]
    /\ UNCHANGED <<bundle, on, faults, events>>

RecordPendingVolume(p) ==
    LET kept == Mine(p).state = "preparing" /\ Mine(p).tenant = Pool
    IN  Record(p, [Mine(p) EXCEPT !.blank = @ \/ kept])

RunPrepare(p) ==
    \/ \E result \in {"ok", "pending", "retry", "invalid", "refused"} : Activate(p, result)
    \/ ActivateDestroyed(p)
    \/ /\ job[p].at = "activated"
       /\ \/ job[p].result = "ok" /\ MarkReady(p)
          \/ job[p].result = "pending blank" /\ RecordPendingVolume(p)
          \/ job[p].result = "pending" /\ RecordPending(p)
          \/ job[p].result = "retry" /\ RecordRetry(p)
          \/ /\ job[p].result \in {"invalid", "refused"}
             /\ IF HasOwnedResources(Mine(p)) THEN TransitionToEvicting(p) ELSE RecordTerminalFailure(p)

-----------------------------------------------------------------------------
(* Parking, checks and cleanup *)

ParkSideEffectAllowed(p, busy) ==
    OwnsClaim(p) /\ Mine(p).state = "parking" /\ Mine(p).tenant = Pool /\ ~busy

CheckPark(p) ==
    /\ job[p].at = "park"
    /\ \E busy \in MayBeBusy(p) :
          IF ParkSideEffectAllowed(p, busy) THEN Go(p, "stop") ELSE Done(p)
    /\ UNCHANGED <<bundle, on, faults, events>>

(* The provider call of a claim, and what the pass makes of it. *)
Call(p, at, then, results, row) ==
    /\ job[p].at = at
    /\ \E result \in results :
         /\ Fails(result # "ok")
         /\ Set(job[p].bundle, IF result \in {"ok", "lost"} THEN row ELSE Mine(p))
         /\ job' = [job EXCEPT ![p].at = then, ![p].result = result]
    /\ UNCHANGED on

Stopped(w) == IF w.machine = "started" THEN [w EXCEPT !.machine = "stopped", !.receipt = FALSE] ELSE w

RunPark(p) ==
    \/ CheckPark(p)
    \/ Call(p, "stop", "parked", {"ok", "retry", "lost", "refused"}, Stopped(Mine(p)))
    \/ /\ job[p].at = "parked"
       /\ \/ job[p].result = "ok" /\ MarkSleeping(p)
          \/ job[p].result \in {"retry", "lost"} /\ RecordPhaseRetry(p)
          \/ job[p].result = "refused" /\ TransitionToEvicting(p)

RunSleepCheck(p) ==
    \/ Call(p, "sleep", "slept", {"ok", "retry", "refused"}, Mine(p))
    \/ /\ job[p].at = "slept"
       /\ \/ job[p].result = "ok" /\ Mine(p).machine = "stopped" /\ RefreshSleep(p)
          \/ job[p].result = "ok" /\ Mine(p).machine = "started" /\ TransitionToParking(p)
          \/ job[p].result = "retry" /\ RecordPhaseRetry(p)
          \/ /\ \/ job[p].result = "refused"
                \/ job[p].result = "ok" /\ Mine(p).machine = "destroyed"
             /\ TransitionToEvicting(p)

RunHealthCheck(p) ==
    \/ Call(p, "health", "checked", {"ok", "retry", "refused"}, Mine(p))
    \/ /\ job[p].at = "checked"
       /\ \/ job[p].result = "ok" /\ Mine(p).receipt /\ RefreshHealth(p)
          \/ job[p].result = "retry" /\ RecordRetry(p)
          \/ /\ job[p].result = "refused" \/ ~Mine(p).receipt
             /\ job[p].result # "retry"
             /\ TransitionToEvicting(p)

Destroyed(w) == [w EXCEPT !.machine = "destroyed", !.receipt = FALSE]

CleanupSideEffectAllowed(p, busy) ==
    OwnsClaim(p) /\ Mine(p).state = "evicting" /\ CleanupAllowed(Mine(p), busy)

CheckCleanup(p) ==
    /\ job[p].at = "cleanup"
    /\ \E before, busy \in MayBeBusy(p) :
          IF ~CleanupAllowed(Mine(p), before)
          THEN RecordTerminalFailure(p)
          ELSE /\ IF CleanupSideEffectAllowed(p, busy) THEN Go(p, "destroy") ELSE Done(p)
               /\ UNCHANGED <<bundle, on, faults, events>>

RunCleanup(p) ==
    \/ CheckCleanup(p)
    \/ Call(p, "destroy", "destroyed", {"ok", "retry", "lost"}, Destroyed(Mine(p)))
    \/ /\ job[p].at = "destroyed"
       /\ \/ job[p].result = "ok" /\ MarkEvicted(p)
          \/ job[p].result \in {"retry", "lost"} /\ RecordRetry(p)

RunClaim(p) == RunPrepare(p) \/ RunPark(p) \/ RunSleepCheck(p) \/ RunHealthCheck(p) \/ RunCleanup(p)

-----------------------------------------------------------------------------
(* Registration of a tenant *)

Candidate(w) == w.state \in {"ready", "sleeping"} /\ w.owner = None

Eligible(w, needsFresh) ==
    /\ w.release /\ w.blank /\ w.tenant = Pool
    /\ w.state # "sleeping" \/ needsFresh => w.fresh = "fresh"
    /\ w.state = "ready" => w.receipt

(* The rows are tried one after the other: one that is not eligible is     *)
(* marked, except a spare whose inspection is old; the first that is, is   *)
(* the tenant's.  A tenant for whom there is none gets a cold workspace.   *)
AssignReadyWorkspace(t) ==
    /\ on /\ \A b \in Bundles : bundle[b].tenant # t
    /\ \E tried \in SUBSET {b \in Bundles : Candidate(bundle[b])} :
         LET eligible == {b \in tried : Eligible(bundle[b], TRUE)}
             stale == {b \in tried : ~Eligible(bundle[b], TRUE)
                                     /\ ~(bundle[b].state = "sleeping" /\ Eligible(bundle[b], FALSE))}
         IN  /\ Cardinality(eligible) = 1
             /\ bundle' = [b \in Bundles |->
                   IF b \in eligible
                   THEN [bundle[b] EXCEPT !.state = "assigned", !.tenant = t, !.attempts = 0,
                                          !.fresh = "fresh", !.release = TRUE, !.receipt = FALSE]
                   ELSE IF b \in stale THEN Evicting(bundle[b]) ELSE bundle[b]]
    /\ UNCHANGED <<job, on, faults, events>>

NoneAssigned(t) ==
    /\ on /\ \A b \in Bundles : bundle[b].tenant # t
    /\ \A b \in Bundles : Candidate(bundle[b]) => ~Eligible(bundle[b], TRUE)
    /\ bundle' = [b \in Bundles |->
          IF Candidate(bundle[b])
             /\ ~(bundle[b].state = "sleeping" /\ Eligible(bundle[b], FALSE))
          THEN Evicting(bundle[b]) ELSE bundle[b]]
    /\ UNCHANGED <<job, on, faults, events>>

-----------------------------------------------------------------------------
(* Time, faults and the operator *)

HealthAges(b) ==
    /\ bundle[b].state \in {"ready", "sleeping"} /\ bundle[b].fresh = "fresh"
    /\ Set(b, [bundle[b] EXCEPT !.fresh = "old"]) /\ UNCHANGED <<job, on, faults, events>>

ReadinessExpires(b) ==
    /\ bundle[b].state \in {"ready", "sleeping"} /\ bundle[b].fresh = "old" /\ Disturbs
    /\ Set(b, [bundle[b] EXCEPT !.fresh = "expired"]) /\ UNCHANGED <<job, on>>

(* 1200 seconds are over: the owner stalled, or no longer works on it. *)
ClaimExpires(b) ==
    /\ bundle[b].live /\ Fails(WorksOn(bundle[b].owner, b))
    /\ Set(b, [bundle[b] EXCEPT !.live = FALSE, !.owner = Nobody]) /\ UNCHANGED <<job, on>>

(* A pass may die anywhere; dying before or after a step that changes      *)
(* nothing is the same.                                                    *)
Die(p) ==
    /\ job[p].at \notin {"idle", "park", "cleanup", "slept", "checked"}
    /\ Fails(TRUE) /\ Done(p) /\ UNCHANGED <<bundle, on>>

RuntimeFallsSilent(b) ==
    /\ bundle[b].receipt /\ bundle[b].state \in {"preparing", "ready"} /\ Disturbs
    /\ Set(b, [bundle[b] EXCEPT !.receipt = FALSE]) /\ UNCHANGED <<job, on>>

(* A parked Machine is started again behind the pool's back. *)
MachineStartsAgain(b) ==
    /\ bundle[b].machine = "stopped" /\ bundle[b].state = "sleeping" /\ Disturbs
    /\ Set(b, [bundle[b] EXCEPT !.machine = "started"]) /\ UNCHANGED <<job, on>>

ReleaseChanges ==
    /\ Disturbs
    /\ bundle' = [b \in Bundles |-> IF bundle[b].state \in {"ready", "parking", "sleeping", "preparing"}
                                    THEN [bundle[b] EXCEPT !.release = FALSE] ELSE bundle[b]]
    /\ UNCHANGED <<job, on>>

(* The target is set to zero; only draining passes go on. *)
DisablePool == on /\ Disturbs /\ on' = FALSE /\ UNCHANGED <<bundle, job>>

-----------------------------------------------------------------------------
Next ==
    \/ \E p \in Procs : ClaimOrReserve(p) \/ RunClaim(p) \/ Die(p)
    \/ \E t \in Tenants : AssignReadyWorkspace(t) \/ NoneAssigned(t)
    \/ \E b \in Bundles :
          \/ HealthAges(b) \/ ReadinessExpires(b) \/ ClaimExpires(b)
          \/ RuntimeFallsSilent(b) \/ MachineStartsAgain(b)
    \/ ReleaseChanges \/ DisablePool

Spec == Init /\ [][Next]_vars

(* The worker runs a pass every interval and a pass goes on until it ends  *)
(* or dies; claims run out.  Nothing forces a tenant or a fault.           *)
Fairness ==
    /\ \A p \in Procs : WF_vars(ClaimOrReserve(p) \/ RunClaim(p))
    /\ \A b \in Bundles : WF_vars(ClaimExpires(b))

LiveSpec == Spec /\ Fairness

-----------------------------------------------------------------------------
(* The columns agree: the database's constraints on a row, and a row that  *)
(* maintenance may still hand to a tenant has a Machine and a blank volume *)
(* that no cleanup has touched, whatever process came late.                *)
TypeOK ==
    /\ on \in BOOLEAN /\ faults \in 0..MaxFaults /\ events \in 0..MaxEvents
    /\ \A b \in Bundles :
         LET w == bundle[b] IN
         /\ w.state \in States /\ w.attempts \in 0..MaxAttempts
         /\ w.tenant \in Tenants \cup {Pool} /\ w.owner \in Procs \cup {None, Nobody}
         /\ w.live <=> w.owner \in Procs
         /\ w.state = "assigned" <=> w.tenant # Pool
         /\ w.state \in {"ready", "parking", "sleeping", "assigned"} =>
              w.blank /\ w.owned = "all" /\ w.machine \in {"started", "stopped"}

(* Concurrent passes never reserve more rows than the target and the one   *)
(* that may be in preparation, however claims expire and rows fail.        *)
PoolCapacity ==
    /\ TypeOK
    /\ Cardinality(In({"preparing", "ready", "parking", "sleeping"})) <= Target + MaxPreparing
    /\ Cardinality(In({"preparing"})) <= MaxPreparing

(* A bundle that a tenant was given stays the tenant's: no pass that began *)
(* before parks, evicts, promotes or destroys it, or claims it.            *)
AssignmentIsPermanent ==
    [][\A b \in Bundles : bundle[b].state = "assigned" =>
         /\ bundle'[b].state = "assigned" /\ bundle'[b].tenant = bundle[b].tenant
         /\ bundle'[b].machine # "destroyed" /\ bundle'[b].owner = bundle[b].owner]_vars

Blocked(b) ==
    \/ bundle[b].state = "failed" /\ HasOwnedResources(bundle[b])
    \/ bundle[b].state = "sleeping" /\ ~bundle[b].release

(* The pool fills up again after every assignment, eviction and fault,     *)
(* unless the operator turned it off, its rows are used up (a bound of the *)
(* model), or it is blocked by rows no pass can clear: a failed one that   *)
(* owns resources or a sleeping one of an old release.                     *)
PoolRefills ==
    TRUE ~> \/ FreshReadyCount >= Target \/ ~on \/ In({"none"}) = {}
            \/ \E b \in Bundles : Blocked(b)
=============================================================================
