----------------------------- MODULE WorkerLoop -----------------------------
(***************************************************************************)
(* The poll loop of the runtime worker (FoundryWorker._run_loop in         *)
(* runtime/allies_runtime/foundry.py) against Foundry's claims and its     *)
(* activity waits (backend/runtime/services/activity.py): how a queued     *)
(* message reaches a slot of a worker that sleeps most of the time.        *)
(*                                                                         *)
(* Foundry counts what a runtime should notice in activity_revision and    *)
(* notifies listeners in the transaction that counts.  The worker passes   *)
(* over its profiles, claims until its slots are full or nothing is        *)
(* queued, and then sleeps or, once it would sleep longer than a second,   *)
(* asks Foundry to be told of a revision it does not know.                 *)
(*                                                                         *)
(* A claim whose answer is lost is repeated under its identifier before    *)
(* any other, so the worker holds at most one.  Each profile has one       *)
(* message; what a task does with it is the module RuntimeTurn, what a     *)
(* claim writes the module TurnLease.  Delays are "at the minimum" or      *)
(* longer.                                                                 *)
(*                                                                         *)
(* A definition named ...Fault is a faulty variant of the one after it; no *)
(* specification uses it, the mutation runs put it in the other's place.   *)
(***************************************************************************)
EXTENDS Naturals, FiniteSets

CONSTANTS
    Msgs,         \* messages, each of a profile of its own
    Slots,        \* slots of the worker
    FastPolls,    \* POST_MATERIALIZATION_FAST_POLLS
    NoClaim,      \* no claim is ambiguous
    Unanswered,   \* one is, and Foundry gave it no message
    MaxFaults     \* bound: lost and refused requests, crashes

ASSUME WorkerAssumption ==
    /\ Slots \in Nat \ {0, 1} /\ FastPolls \in Nat /\ MaxFaults \in Nat
    /\ NoClaim \notin Msgs /\ Unanswered \notin Msgs /\ NoClaim # Unanswered

VARIABLES
    profile,   \* lifecycle of each message's profile
    exec,      \* each message's execution; expired: running, its lease is over
    rev,       \* activity_revision
    w,         \* the worker
    active,    \* messages its tasks run
    amb,       \* the ambiguous claim: the message Foundry gave it
    late,      \* a claim request still under way: of amb, or of no one ("orphan")
    wt,        \* Foundry's handler of an activity wait
    faults

loopVars == <<profile, exec, rev, w, active, amb, late, wt, faults>>

NoWait == [pc |-> "none", after |-> 0, notified |-> FALSE, alone |-> FALSE]
\* slow: poll_delay is over a second; back: idle_backoff is over its minimum
Started == [pc |-> "top", rev |-> 0, snap |-> 0, saw |-> {}, reconciled |-> FALSE,
            retry |-> FALSE, slow |-> FALSE, back |-> FALSE, fast |-> 0, waits |-> TRUE]

LoopInit ==
    /\ profile = [m \in Msgs |-> "none"] /\ exec = [m \in Msgs |-> "none"]
    /\ rev = 0 /\ w = Started /\ active = {} /\ amb = NoClaim /\ late = "none"
    /\ wt = NoWait /\ faults = 0

Fault == faults < MaxFaults /\ faults' = faults + 1
Later(a, b) == IF a > b THEN a ELSE b

-----------------------------------------------------------------------------
(* What others do to Foundry *)

\* advance_workspace_activity, in the transaction that writes the work
Notify(x) == IF x.pc \in {"read", "blocked"} THEN [x EXCEPT !.notified = TRUE] ELSE x
AdvanceActivity == rev' = rev + 1 /\ wt' = Notify(wt)

EnsureProfile(m) ==
    /\ profile[m] = "none" /\ profile' = [profile EXCEPT ![m] = "pending"]
    /\ AdvanceActivity /\ UNCHANGED <<exec, w, active, amb, late, faults>>

CreateExecution(m) ==
    /\ profile[m] \in {"pending", "active"} /\ exec[m] = "none"
    /\ exec' = [exec EXCEPT ![m] = "queued"]
    /\ AdvanceActivity /\ UNCHANGED <<profile, w, active, amb, late, faults>>

DeleteProfile(m) ==
    /\ profile[m] \in {"pending", "active"} /\ profile' = [profile EXCEPT ![m] = "deleting"]
    /\ AdvanceActivity /\ UNCHANGED <<exec, w, active, amb, late, faults>>

\* Nobody renews the lease of a message without a task.
MessageLeaseExpires(m) ==
    /\ exec[m] = "running" /\ m \notin active /\ exec' = [exec EXCEPT ![m] = "expired"]
    /\ UNCHANGED <<profile, rev, w, active, amb, late, wt, faults>>

\* The deadline of a deletion fences the leases that are left, and the deletion is
\* resumed (expire_profile_cleanups): a claim that finds nothing but the messages
\* of profiles in deletion raises and rolls its own reconciliation back.
CleanupDeadline(m) ==
    /\ profile[m] = "deleting" /\ exec[m] \in {"running", "expired"} /\ m \notin active
    /\ exec' = [exec EXCEPT ![m] = "done"]
    /\ AdvanceActivity /\ UNCHANGED <<profile, w, active, amb, late, faults>>

-----------------------------------------------------------------------------
(* The claim transaction *)

\* _reconcile_expired_leases
Requeued == [m \in Msgs |-> IF exec[m] = "expired" THEN "requeued" ELSE exec[m]]
Waiting == {m \in Msgs : Requeued[m] \in {"queued", "requeued"}}
Claimable == {m \in Waiting : profile[m] = "active"}
Unready == {m \in Waiting : profile[m] # "active"}

\* What a claim transaction answers under the identifier id (a message it was
\* given before, or none), and the executions it leaves.
ClaimResult(kind, m, after) == [kind |-> kind, msg |-> m, exec |-> after]
ClaimResults(id) ==
    CASE id \in Msgs /\ profile[id] # "active" -> {ClaimResult("fenced", NoClaim, exec)}
      [] id \in Msgs /\ profile[id] = "active" /\ exec[id] = "running" ->
            {ClaimResult("claim", id, Requeued)}
      [] id \in Msgs /\ profile[id] = "active" /\ exec[id] # "running" ->
            {ClaimResult("empty", NoClaim, Requeued)}
      [] id \notin Msgs /\ Claimable # {} ->
            {ClaimResult("claim", m, [Requeued EXCEPT ![m] = "running"]) : m \in Claimable}
      [] id \notin Msgs /\ Claimable = {} /\ Unready # {} ->
            {ClaimResult("not_ready", NoClaim, exec)}
      [] OTHER -> {ClaimResult("empty", NoClaim, Requeued)}

-----------------------------------------------------------------------------
(* The pass over the profiles *)

\* The interval since the last pass is not over.
SkipPass ==
    /\ w.pc = "top" /\ w.reconciled /\ w' = [w EXCEPT !.pc = "claim"]
    /\ UNCHANGED <<profile, exec, rev, active, amb, late, wt, faults>>

ReadSnapshot ==
    /\ w.pc = "top"
    /\ w' = [w EXCEPT !.pc = "pass", !.snap = rev,
                      !.saw = {m \in Msgs : profile[m] \in {"pending", "deleting"}}]
    /\ UNCHANGED <<profile, exec, rev, active, amb, late, wt, faults>>

\* A deletion joins the profile's task and waits for any other lease.
Removed == {m \in w.saw : profile[m] = "deleting" /\ (exec[m] \in {"running", "expired"} => m \in active)}
Materialized == {m \in w.saw : profile[m] = "pending"}

ApplySnapshot ==
    /\ w.pc = "pass"
    /\ profile' = [m \in Msgs |-> CASE m \in Removed -> "gone"
                                    [] m \in Materialized -> "active"
                                    [] OTHER -> profile[m]]
    /\ exec' = [m \in Msgs |-> IF m \in Removed THEN "gone" ELSE exec[m]]
    /\ active' = active \ Removed
    /\ IF Removed # {} THEN AdvanceActivity ELSE UNCHANGED <<rev, wt>>
    /\ w' = [w EXCEPT !.pc = "claim", !.rev = Later(@, w.snap), !.reconciled = TRUE,
                      !.saw = {}, !.snap = 0,
                      !.fast = IF Materialized # {} THEN FastPolls ELSE @]
    /\ UNCHANGED <<amb, late, faults>>

\* The snapshot, a profile or the readiness report fails: the pass is repeated.
PassFails ==
    /\ w.pc = "pass" /\ Fault
    /\ \E r \in {w.rev, Later(w.rev, w.snap)} :
          w' = [w EXCEPT !.pc = "top", !.reconciled = FALSE, !.rev = r, !.saw = {}, !.snap = 0]
    /\ UNCHANGED <<profile, exec, rev, active, amb, late, wt>>

-----------------------------------------------------------------------------
(* Claims *)

\* The delays after a request that has to be repeated, and after an answer.
BackOff(x) == [x EXCEPT !.slow = x.back, !.back = TRUE]
Quick(x) == [x EXCEPT !.slow = FALSE, !.back = FALSE]
Retry(x) == [BackOff(x) EXCEPT !.retry = TRUE]
Answered(x) == [x EXCEPT !.retry = FALSE, !.back = @ /\ ~x.retry]
Empty(x) == IF x.fast > 0 THEN [Quick(x) EXCEPT !.fast = @ - 1] ELSE BackOff(x)

Ambiguous == IF amb = NoClaim THEN 0 ELSE 1
HasSlot == Cardinality(active) + Ambiguous < Slots

\* The identifier of an answered claim is given up; a request of it that is still
\* under way matters only if Foundry has not seen the identifier.
SettleFault(res) ==
    /\ amb' = IF res.kind = "claim" THEN NoClaim ELSE amb
    /\ UNCHANGED late
Settle(res) ==
    /\ amb' = NoClaim
    /\ late' = IF late = "amb" /\ amb = Unanswered /\ res.kind = "empty" THEN "orphan"
               ELSE IF late = "amb" THEN "none" ELSE late

TakeAnswer(res) ==
    CASE res.kind = "claim" ->
            /\ Settle(res) /\ active' = active \union {res.msg}
            /\ w' = [Quick(Answered(w)) EXCEPT !.fast = 0]
      [] res.kind = "empty" ->
            /\ Settle(res) /\ UNCHANGED active /\ w' = [Empty(Answered(w)) EXCEPT !.pc = "idle"]
      [] res.kind = "not_ready" ->
            /\ w' = [Retry(w) EXCEPT !.pc = "idle", !.reconciled = FALSE]
            /\ UNCHANGED <<amb, late, active>>
      [] res.kind = "fenced" ->
            w' = [w EXCEPT !.pc = "drain"] /\ UNCHANGED <<amb, late, active>>

Claim ==
    /\ w.pc = "claim" /\ HasSlot
    /\ \E res \in ClaimResults(amb) : exec' = res.exec /\ TakeAnswer(res)
    /\ UNCHANGED <<profile, rev, wt, faults>>

SlotsFull ==
    /\ w.pc = "claim" /\ ~HasSlot /\ w' = [w EXCEPT !.pc = "idle"]
    /\ UNCHANGED <<profile, exec, rev, active, amb, late, wt, faults>>

\* Refused with 429 or 503; or the answer is lost, and the request was applied,
\* was not, or may still be.
ClaimFails ==
    /\ w.pc = "claim" /\ HasSlot /\ Fault
    /\ w' = [Retry(w) EXCEPT !.pc = "idle"]
    /\ \/ UNCHANGED <<exec, amb, late>>
       \/ \E res \in ClaimResults(amb) :
             /\ exec' = res.exec /\ UNCHANGED late
             /\ amb' = CASE res.kind = "claim" -> res.msg
                         [] res.kind # "claim" /\ amb = NoClaim -> Unanswered
                         [] OTHER -> amb
       \/ /\ late = "none" /\ amb \notin Msgs
          /\ late' = "amb" /\ amb' = Unanswered /\ UNCHANGED exec
    /\ UNCHANGED <<profile, rev, active, wt>>

\* The request arrives after all.
LateClaim ==
    /\ late # "none" /\ late' = "none"
    /\ IF late = "amb" /\ amb \in Msgs THEN UNCHANGED <<exec, amb>>
       ELSE \E res \in ClaimResults(NoClaim) :
               /\ exec' = res.exec
               /\ amb' = IF late = "amb" /\ res.kind = "claim" THEN res.msg ELSE amb
    /\ UNCHANGED <<profile, rev, w, active, wt, faults>>

\* lease_seconds after the first answer of this identifier was lost.  The lease may
\* be younger: a repeated request was the one that Foundry applied.
DropAmbiguous ==
    /\ w.pc = "claim" /\ amb # NoClaim
    /\ amb' = NoClaim
    /\ late' = IF late = "amb" THEN IF amb = Unanswered THEN "orphan" ELSE "none" ELSE late
    /\ UNCHANGED <<profile, exec, rev, w, active, wt, faults>>

TaskEnds(m) ==
    /\ m \in active /\ active' = active \ {m} /\ exec' = [exec EXCEPT ![m] = "done"]
    /\ w' = IF w.pc = "idle" THEN [Quick(w) EXCEPT !.pc = "top"] ELSE w
    /\ UNCHANGED <<profile, rev, amb, late, wt, faults>>

-----------------------------------------------------------------------------
(* Sleeping and waiting *)

MayWaitFault == active = {} /\ amb = NoClaim /\ w.waits /\ w.slow
MayWait == active = {} /\ amb = NoClaim /\ w.waits /\ ~w.retry /\ w.slow

Sleep ==
    /\ w.pc = "idle" /\ ~MayWait /\ w' = [w EXCEPT !.pc = "top"]
    /\ UNCHANGED <<profile, exec, rev, active, amb, late, wt, faults>>

\* A second waiter of the workspace is refused (advisory lock, _workspace_waits).
StartWait ==
    /\ w.pc = "idle" /\ MayWait
    /\ IF wt = NoWait
       THEN /\ wt' = [NoWait EXCEPT !.pc = "listen", !.after = w.rev]
            /\ w' = [w EXCEPT !.pc = "wait"]
       ELSE w' = [BackOff(w) EXCEPT !.pc = "top"] /\ UNCHANGED wt
    /\ UNCHANGED <<profile, exec, rev, active, amb, late, faults>>

Listen ==
    /\ wt.pc = "listen" /\ wt' = [wt EXCEPT !.pc = "read"]
    /\ UNCHANGED <<profile, exec, rev, w, active, amb, late, faults>>

\* The answer; nobody hears the one of an abandoned handler.
AnswerWait ==
    /\ wt' = NoWait
    /\ w' = CASE wt.alone -> w
              [] ~wt.alone /\ rev > wt.after ->
                    [Quick(w) EXCEPT !.pc = "top", !.rev = Later(@, rev), !.reconciled = FALSE]
              [] OTHER -> [w EXCEPT !.pc = "top", !.rev = Later(@, rev)]

ReadRevision ==
    /\ wt.pc = "read"
    /\ IF rev > wt.after THEN AnswerWait
       ELSE wt' = [wt EXCEPT !.pc = "blocked"] /\ UNCHANGED w
    /\ UNCHANGED <<profile, exec, rev, active, amb, late, faults>>

\* A notification, or the end of the wait.
WakeUp ==
    /\ wt.pc = "blocked" /\ wt' = [wt EXCEPT !.pc = "reread"]
    /\ UNCHANGED <<profile, exec, rev, w, active, amb, late, faults>>

Reread ==
    /\ wt.pc = "reread" /\ AnswerWait
    /\ UNCHANGED <<profile, exec, rev, active, amb, late, faults>>

\* The wait is refused, its connection fails, its answer is lost while the handler
\* goes on, or the server allows no wait this long (422).
WaitFails ==
    /\ w.pc = "wait" /\ Fault
    /\ \/ w' = [BackOff(w) EXCEPT !.pc = "top"] /\ wt' \in {NoWait, [wt EXCEPT !.alone = TRUE]}
       \/ w' = [w EXCEPT !.pc = "top", !.waits = FALSE] /\ wt' = NoWait
    /\ UNCHANGED <<profile, exec, rev, active, amb, late>>

-----------------------------------------------------------------------------
(* The process *)

Abandoned == IF w.pc = "wait" THEN [wt EXCEPT !.alone = TRUE] ELSE wt
Exited == [Started EXCEPT !.pc = "exited"]

Crash ==
    /\ w.pc # "exited" /\ Fault /\ w' = Exited /\ active' = {} /\ amb' = NoClaim
    /\ wt' = Abandoned
    /\ late' = IF late = "amb" THEN IF amb = Unanswered THEN "orphan" ELSE "none" ELSE late
    /\ UNCHANGED <<profile, exec, rev>>

\* _stopping: the tasks are waited for, then run returns and the process ends.
DrainEnds ==
    /\ w.pc = "drain" /\ active = {} /\ w' = Exited /\ amb' = NoClaim
    /\ late' = IF late = "amb" THEN "none" ELSE late
    /\ UNCHANGED <<profile, exec, rev, active, wt, faults>>

Boot ==
    /\ w.pc = "exited" /\ w' = Started
    /\ UNCHANGED <<profile, exec, rev, active, amb, late, wt, faults>>

-----------------------------------------------------------------------------
Requests(m) == EnsureProfile(m) \/ CreateExecution(m) \/ DeleteProfile(m)
WorkerStep ==
    \/ SkipPass \/ ReadSnapshot \/ ApplySnapshot
    \/ Claim \/ SlotsFull \/ Sleep \/ StartWait \/ DrainEnds \/ Boot
WaitStep == Listen \/ ReadRevision \/ WakeUp \/ Reread

LoopNext ==
    \/ \E m \in Msgs :
          Requests(m) \/ MessageLeaseExpires(m) \/ CleanupDeadline(m) \/ TaskEnds(m)
    \/ WorkerStep \/ WaitStep
    \/ PassFails \/ ClaimFails \/ LateClaim \/ DropAmbiguous \/ WaitFails \/ Crash

(***************************************************************************)
(* The event loop runs the worker and its tasks, a pass is due again after *)
(* its interval, a handler's wait ends within five seconds, leases expire, *)
(* requests do not stay under way for ever, and the Machine's restart      *)
(* policy starts a process that has ended.                                 *)
(***************************************************************************)
LoopSpec ==
    /\ LoopInit /\ [][LoopNext]_loopVars
    /\ WF_loopVars(WorkerStep) /\ SF_loopVars(ReadSnapshot)
    /\ WF_loopVars(WaitStep) /\ WF_loopVars(LateClaim)
    /\ \A m \in Msgs :
          /\ WF_loopVars(MessageLeaseExpires(m)) /\ WF_loopVars(CleanupDeadline(m))
          /\ WF_loopVars(TaskEnds(m))

-----------------------------------------------------------------------------
\* Every record keeps its shape, and the worker waits exactly while Foundry has
\* a handler for it.
LoopTypeOK ==
    /\ profile \in [Msgs -> {"none", "pending", "active", "deleting", "gone"}]
    /\ exec \in [Msgs -> {"none", "queued", "requeued", "running", "expired", "done", "gone"}]
    /\ rev \in Nat /\ w.rev <= rev /\ w.fast \in 0..FastPolls /\ w.saw \subseteq Msgs
    /\ w.pc \in {"top", "pass", "claim", "idle", "wait", "drain", "exited"}
    /\ amb \in Msgs \union {NoClaim, Unanswered} /\ late \in {"none", "amb", "orphan"}
    /\ wt.pc \in {"none", "listen", "read", "blocked", "reread"} /\ wt.after <= rev
    /\ w.pc = "wait" <=> wt.pc # "none" /\ ~wt.alone
    /\ faults \in 0..MaxFaults

\* A worker that waits to be told of activity leaves no new message behind that
\* it could claim: what it does not know of will wake it, what it knows of went
\* through a claim, and its tasks never exceed its slots (_run_loop, the order of
\* LISTEN, reading and waiting in _wait_postgres).  A message that an expired
\* lease puts back is not announced; the end of the wait finds it.
NoSleepThroughWork ==
    /\ LoopTypeOK
    /\ Cardinality(active) + Ambiguous <= Slots
    /\ \A m \in active : exec[m] = "running"
    /\ wt.pc = "blocked" /\ ~wt.alone /\ ~wt.notified =>
          \A m \in Msgs : ~(exec[m] = "queued" /\ profile[m] = "active")

\* A queued message reaches a slot and is run, whatever request is lost, repeated
\* or late and whatever process dies on the way, unless its profile is deleted.
QueuedWorkIsRun == \A m \in Msgs : exec[m] = "queued" ~> exec[m] \in {"done", "gone"}
=============================================================================
