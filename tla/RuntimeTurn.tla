----------------------------- MODULE RuntimeTurn -----------------------------
(***************************************************************************)
(* One message turn as the runtime worker runs it (runtime/allies_runtime/ *)
(* foundry.py and hermes.py), with the approval a turn may wait for        *)
(* (backend/runtime/services/approvals.py).                                *)
(*                                                                         *)
(* Four actors interleave: the task that runs the claim, the task that     *)
(* renews its lease, the Hermes run whose events the first task reads, and *)
(* Foundry, where Cloud records a decision, a deletion stops the lease and *)
(* a later claim takes an expired lease away.  A call to Foundry is        *)
(* answered, refused, refused for load, or lost before or after it took    *)
(* effect.                                                                 *)
(*                                                                         *)
(* Time is counted in ticks of ten seconds and only where the lease        *)
(* depends on it: the lease, the sleep between renewals and the renewal    *)
(* request.  The deadlines of an approval pass at any time, on Foundry's   *)
(* clock and on the Machine's clock separately.  The backend's side of the *)
(* turn is the part of TurnLease one attempt can see.                      *)
(*                                                                         *)
(* A definition named ...Fault is a faulty variant of the one after it; no *)
(* specification uses it, the mutation runs put it in the other's place.   *)
(***************************************************************************)
EXTENDS Integers, Sequences

CONSTANTS
    LeaseTicks,    \* LEASE_SECONDS
    RenewTicks,    \* DEFAULT_RENEW_INTERVAL
    RequestTicks,  \* the timeout of one request to Foundry
    MaxFaults      \* bound: lost and refused calls, crashes, cancels

ASSUME TurnAssumption ==
    /\ LeaseTicks \in Nat \ {0} /\ RenewTicks \in Nat \ {0} /\ RequestTicks \in Nat
    /\ MaxFaults \in Nat

\* One interval and one request that times out fit into one lease: 20 + 10 of
\* 60 seconds.  Nothing is assumed of how long a turn takes to open its stream.
ASSUME RenewalAssumption == RenewTicks + RequestTicks < LeaseTicks

VARIABLES
    turn,     \* the attempt, its execution and its lease, at Foundry
    row,      \* the ApprovalRequest, at Foundry
    past,     \* the deadlines that passed, on each clock
    hermes,   \* the run, its guarded action and the events not yet read
    worker,   \* the task of _run_claim
    renewal,  \* the task of _renew_loop
    faults

vars == <<turn, row, past, hermes, worker, renewal, faults>>

None == "none"
Decisions == {"approve", "reject"}
Granted(d) == IF d = "approve" THEN "approved" ELSE "rejected"

NoRun == [run |-> "none", guard |-> "none", out |-> <<>>, late |-> None]
Off == [at |-> "off", t |-> 0, late |-> FALSE]

\* late is kept for the properties alone: when this sleep began, the lease had
\* no more left than the sleep and the request after it may take.
Sleeping(late) == [at |-> "sleep", t |-> RenewTicks, late |-> late]

\* The locals of _run_claim: the event in hand and whether Foundry has it, the
\* tries of _retry_response_loss, pending_approval with its decision and its
\* wait outcome, and what follows a close.
Idle == [at |-> "idle", what |-> None, recorded |-> FALSE, tries |-> 0, lost |-> FALSE,
         files |-> FALSE, pending |-> FALSE, decision |-> None, wait |-> None,
         then |-> None]

Init ==
    /\ turn = [status |-> "queued", ended |-> "no", lease |-> "none", left |-> 0,
               dispatched |-> FALSE]
    /\ row = [status |-> "none", decision |-> None]
    /\ past = [foundry |-> {}, machine |-> {}]
    /\ hermes = NoRun /\ worker = Idle /\ renewal = Off /\ faults = 0

-----------------------------------------------------------------------------
(* Calls to Foundry *)

Answers == {"answered", "unavailable", "lost_before", "lost_after"}
Arrives(answer) == answer \in {"answered", "lost_after"}
Lost(answer) == answer \in {"lost_before", "lost_after"}

Fault == faults < MaxFaults /\ faults' = faults + 1
Costs(answer) == IF answer = "answered" THEN UNCHANGED faults ELSE Fault

Short == turn.left <= RenewTicks + RequestTicks
LeaseLive == turn.lease \in {"active", "stopping"}
Authorized == turn.status = "running" /\ turn.lease = "active" /\ turn.left > 0

-----------------------------------------------------------------------------
(* The approval row *)

Reconciled(r) ==
    CASE r.status = "pending" /\ "expiry" \in past.foundry -> [r EXCEPT !.status = "expired"]
      [] r.status = "decision_recorded" /\ "ack" \in past.foundry ->
            [r EXCEPT !.status = "outcome_unknown"]
      [] OTHER -> r

CancelLiveRequestsFault(r) ==
    IF r.status \in {"pending", "decision_recorded"} THEN [r EXCEPT !.status = "cancelled"] ELSE r
CancelLiveRequests(r) ==
    LET s == Reconciled(r) IN
    CASE s.status = "pending" -> [s EXCEPT !.status = "cancelled"]
      [] s.status = "decision_recorded" -> [s EXCEPT !.status = "outcome_unknown"]
      [] OTHER -> s

\* The row after apply_approval_resolution, and whether it raises a conflict.
ResolutionConflicts(r, outcome) ==
    LET s == Reconciled(r).status IN
    IF outcome \in {"approved", "rejected"}
    THEN s \notin {"outcome_unknown", "decision_recorded"} \/ outcome # Granted(r.decision)
    ELSE s \notin {"outcome_unknown", "pending", "decision_recorded", outcome}

Resolved(r, outcome) ==
    IF Reconciled(r).status = "outcome_unknown" THEN Reconciled(r)
    ELSE [r EXCEPT !.status = IF outcome \in {"approved", "rejected"} THEN "applied" ELSE outcome]

\* What a read by the runtime returns and saves.
ReadRow == Reconciled(row)

RecordDecision(d) ==
    /\ row.status = "pending" /\ "expiry" \notin past.foundry
    /\ Authorized
    /\ row' = [row EXCEPT !.status = "decision_recorded", !.decision = d]
    /\ UNCHANGED <<turn, past, hermes, worker, renewal, faults>>

\* What the awaiting and resolved events do to the row, beside being appended.
EventRefused(what) ==
    \/ what = "awaiting" /\ "expiry" \in past.foundry
    \/ what = "resolved" /\ ResolutionConflicts(row, hermes.guard)

RowAfterEvent(what) ==
    CASE what = "awaiting" -> [row EXCEPT !.status = "pending"]
      [] what = "resolved" -> Resolved(row, hermes.guard)
      [] OTHER -> row

-----------------------------------------------------------------------------
(* The end of the attempt, at Foundry *)

EndFault(status, how) ==
    /\ turn' = [turn EXCEPT !.status = status, !.ended = how, !.lease = "released",
                             !.left = 0, !.dispatched = FALSE]
    /\ UNCHANGED row
End(status, how) ==
    /\ turn' = [turn EXCEPT !.status = status, !.ended = how, !.lease = "released",
                             !.left = 0, !.dispatched = FALSE]
    /\ row' = CancelLiveRequests(row)

StatusWhenGivenUp ==
    IF turn.dispatched \/ turn.lease = "stopping" THEN "failed" ELSE "queued"

StopAccepted == LeaseLive /\ End(StatusWhenGivenUp, "stopped")

\* A later claim of the workspace reconciles the expired lease.
ReconcileExpiredLease ==
    /\ LeaseLive /\ turn.left = 0
    /\ End(StatusWhenGivenUp, "expiry")
    /\ UNCHANGED <<past, hermes, worker, renewal, faults>>

\* A deletion of the profile stops its lease.
BeginDeletion ==
    /\ turn.lease = "active"
    /\ turn' = [turn EXCEPT !.lease = "stopping"]
    /\ Fault
    /\ UNCHANGED <<row, past, hermes, worker, renewal>>

-----------------------------------------------------------------------------
(* The Hermes run: external but for its client *)

Running == hermes.run = "running"
Emit(h, e) == [h EXCEPT !.out = IF Running THEN Append(@, e) ELSE @]
Settle(h, outcome) == Emit([h EXCEPT !.guard = outcome], "responded")

DeadlinePassed == past.machine \cap {"expiry", "ack"} # {}

AfterResolve(h, d) ==
    IF h.guard # "pending" THEN h
    ELSE Settle(h, IF DeadlinePassed THEN "expired" ELSE Granted(d))

\* The client joins the texts that wait into one event; an activity of the
\* agent is the same to the worker.  Bound: the text of a run comes before the
\* action it asks about.
SendText ==
    /\ Running /\ hermes.guard = "none" /\ hermes.out = <<>>
    /\ hermes' = Emit(hermes, "delta")

\* Bound: one action a turn, and none in a turn with files.
RaiseGuard ==
    /\ Running /\ hermes.guard = "none" /\ ~worker.files
    /\ hermes' = [Emit(hermes, "request") EXCEPT !.guard = "pending"]

GuardExpires ==
    /\ hermes.guard = "pending" /\ "expiry" \in past.machine
    /\ hermes' = Settle(hermes, "expired")

\* Hermes sees that the reader is gone and drops what waits.
GuardCancelled ==
    /\ hermes.guard = "pending" /\ hermes.run = "interrupted"
    /\ hermes' = [hermes EXCEPT !.guard = "cancelled"]

RunCompletes ==
    /\ Running /\ hermes.guard # "pending"
    /\ hermes' = [Emit(hermes, "completed") EXCEPT !.run = "completed"]

\* A resolve request the worker gave up on arrives after all, or never.
LateResolve ==
    /\ hermes.late # None
    /\ hermes' \in {[AfterResolve(hermes, hermes.late) EXCEPT !.late = None],
                    [hermes EXCEPT !.late = None]}

RunEnds == RunCompletes /\ UNCHANGED <<turn, row, past, worker, renewal, faults>>

HermesStep ==
    /\ SendText \/ RaiseGuard \/ GuardExpires \/ GuardCancelled \/ RunCompletes \/ LateResolve
    /\ UNCHANGED <<turn, row, past, worker, renewal, faults>>

RunBreaks ==
    /\ Running
    /\ hermes' = [Emit(hermes, "error") EXCEPT !.run = "completed"]
    /\ Fault
    /\ UNCHANGED <<turn, row, past, worker, renewal>>

Closed == [hermes EXCEPT !.run = IF @ = "none" THEN @ ELSE "interrupted", !.out = <<>>]

-----------------------------------------------------------------------------
(* The renewal of the lease *)

RenewStart ==
    /\ renewal.at = "sleep" /\ renewal.t = 0
    /\ renewal' = [renewal EXCEPT !.at = "call", !.t = RequestTicks]
    /\ UNCHANGED <<turn, row, past, hermes, worker, faults>>

RenewFailsFault == renewal' = Sleeping(renewal.late) /\ UNCHANGED worker
RenewFails ==
    /\ renewal' = [renewal EXCEPT !.at = "close", !.t = 0]
    /\ worker' = [worker EXCEPT !.lost = TRUE]

RenewAnswer(answer) ==
    /\ renewal.at = "call"
    /\ turn' = IF Arrives(answer) /\ Authorized THEN [turn EXCEPT !.left = LeaseTicks] ELSE turn
    /\ IF answer = "answered" /\ Authorized
         THEN renewal' = Sleeping(FALSE) /\ UNCHANGED worker
         ELSE RenewFails
    /\ Costs(answer)
    /\ UNCHANGED <<row, past, hermes>>

RenewClose ==
    /\ renewal.at = "close"
    /\ renewal' = Off
    /\ hermes' = Closed
    /\ UNCHANGED <<turn, row, past, worker, faults>>

-----------------------------------------------------------------------------
(* The task of one claim *)

At(pc) == worker.at = pc
Go(pc) == [worker EXCEPT !.at = pc, !.what = None, !.recorded = FALSE, !.tries = 0]
Post(what) == [worker EXCEPT !.at = "event", !.what = what, !.recorded = FALSE, !.tries = 0]
Finish(what) == [worker EXCEPT !.at = "finish", !.what = what, !.tries = 0]
CloseThen(w, next) == [w EXCEPT !.at = "close", !.then = next, !.what = None, !.recorded = FALSE, !.tries = 0]
Ended == [Idle EXCEPT !.at = "done", !.files = worker.files]

\* The handler of FoundryError and HermesError: a lost lease is only
\* acknowledged, anything else fails the turn after the stream is closed.
Failing(leaseError) ==
    IF worker.lost \/ leaseError THEN Go("stopped") ELSE CloseThen(worker, "fail")

\* The first claim, or the replay of one whose answer was lost.
Claim(files, answer) ==
    /\ At("idle") \/ At("ambiguous")
    /\ answer # "unavailable"  \* asked again
    /\ LET new == turn.status = "queued" /\ turn.ended = "no"
           mine == new \/ (At("ambiguous") /\ Authorized) IN
       /\ turn' = IF Arrives(answer) /\ new
                    THEN [turn EXCEPT !.status = "running", !.lease = "active", !.left = LeaseTicks]
                    ELSE turn
       /\ worker' = CASE answer = "answered" /\ mine -> [Go("prepare") EXCEPT !.files = files]
                      [] answer = "answered" /\ ~mine -> Ended
                      [] Lost(answer) -> Go("ambiguous")
    /\ Costs(answer)
    /\ UNCHANGED <<row, past, hermes, renewal>>

\* _run_loop forgets an unanswered claim once its lease must be over.
ForgetClaim ==
    /\ At("ambiguous") /\ turn.left = 0
    /\ worker' = IF turn.status = "queued" /\ turn.ended = "no" THEN Idle ELSE Ended
    /\ UNCHANGED <<turn, row, past, hermes, renewal, faults>>

\* What the claim asks for is invalid, or its history cannot be proved.
ClaimRefused == Failing(FALSE)
\* Both answers to the first turn's bootstrap were lost.
BootstrapLost == Go("stopped")

\* Everything before the dispatch; the files come last, under renewal.
Prepare ==
    /\ At("prepare")
    /\ \/ /\ worker' = IF worker.files THEN Go("staging") ELSE Post("dispatched")
          /\ renewal' = IF worker.files THEN Sleeping(Short) ELSE renewal
          /\ UNCHANGED faults
       \/ worker' \in {ClaimRefused, BootstrapLost} /\ Fault /\ UNCHANGED renewal
    /\ UNCHANGED <<turn, row, past, hermes>>

StageFiles ==
    /\ At("staging")
    /\ \/ worker' = (IF worker.lost THEN Go("stopped") ELSE Post("dispatched")) /\ UNCHANGED faults
       \/ worker' = Failing(FALSE) /\ Fault
    /\ UNCHANGED <<turn, row, past, hermes, renewal>>

\* Where the worker goes once Foundry took the event in hand.
AfterEvent ==
    CASE worker.what = "dispatched" -> Go("setup")
      [] worker.what = "awaiting" -> [Go("poll") EXCEPT !.pending = TRUE, !.decision = None, !.wait = None]
      [] worker.what = "resolved" -> [Go("read") EXCEPT !.pending = FALSE, !.decision = None, !.wait = None]
      [] OTHER -> Go("read")

Retry == [worker EXCEPT !.tries = 1]

AfterEventLost ==
    CASE worker.tries = 0 -> Retry
      [] worker.tries # 0 /\ worker.what = "dispatched" -> Go("stopped")
      [] OTHER -> CloseThen([worker EXCEPT !.lost = TRUE], "stopped")

PostEvent(answer) ==
    /\ At("event")
    /\ LET replay == worker.recorded /\ (Authorized \/ turn.lease = "released")
           append == ~worker.recorded /\ Authorized /\ ~EventRefused(worker.what)
           took == worker.recorded \/ (Arrives(answer) /\ append) IN
       /\ IF Arrives(answer) /\ append
            THEN /\ row' = RowAfterEvent(worker.what)
                 /\ turn' = [turn EXCEPT !.dispatched = @ \/ worker.what = "dispatched"]
            ELSE UNCHANGED <<row, turn>>
       /\ worker' = CASE answer = "answered" /\ (replay \/ append) -> AfterEvent
                      [] answer = "answered" /\ ~(replay \/ append) -> Failing(~Authorized)
                      [] answer = "unavailable" -> Failing(FALSE)
                      [] Lost(answer) -> [AfterEventLost EXCEPT !.recorded = took]
    /\ Costs(answer)
    /\ UNCHANGED <<past, hermes, renewal>>

\* The session, the profile's keys and the model lock, then the stream, however
\* little of the lease they left.
OpenStream ==
    /\ At("setup")
    /\ hermes' = [hermes EXCEPT !.run = "running"]
    /\ worker' = Go("read")
    /\ renewal' = IF worker.files THEN renewal ELSE Sleeping(Short)
    /\ UNCHANGED <<turn, row, past, faults>>

SessionRefused == Failing(FALSE)
BindingNotApplied == Go("stopped")

SetupFails ==
    /\ At("setup")
    /\ worker' \in {SessionRefused, BindingNotApplied}
    /\ Fault
    /\ UNCHANGED <<turn, row, past, hermes, renewal>>

\* The outcome that _run_claim accepts in approval.responded.
ExpectedOutcome ==
    IF worker.wait \in {"expired", "cancelled"} THEN {worker.wait}
    ELSE IF worker.decision # None THEN {Granted(worker.decision)}
    ELSE {"approved", "rejected", "expired", "cancelled"}

\* A text past the event budget ends the turn; the count itself is left out.
AfterRead(e) ==
    CASE e = "delta" -> Post("delta")
      [] e = "request" /\ "expiry" \notin past.machine -> Post("awaiting")
      [] e = "responded" /\ hermes.guard \in ExpectedOutcome -> Post("resolved")
      [] e = "completed" /\ ~worker.pending -> CloseThen(worker, "complete")
      [] OTHER -> Failing(FALSE)

ReadEvent ==
    /\ At("read")
    /\ \/ /\ hermes.out # <<>>
          /\ worker' \in IF worker.lost THEN {Go("stopped")}
                        ELSE {AfterRead(Head(hermes.out))}
                               \cup {w \in {CloseThen(worker, "fail")} : Head(hermes.out) = "delta"}
          /\ hermes' = [hermes EXCEPT !.out = Tail(@)]
       \/ /\ hermes.out = <<>>
          /\ worker' = Failing(FALSE)  \* closed by the renewal, or idle too long
          /\ UNCHANGED hermes
    /\ UNCHANGED <<turn, row, past, renewal, faults>>

\* _wait_for_approval, one poll of the row, which reconciles it.  A poll that
\* is not answered is repeated.
PollApproval(answer) ==
    /\ At("poll") /\ ~worker.lost /\ "expiry" \notin past.machine
    /\ LET r == ReadRow
           read == answer = "answered" /\ Authorized IN
       /\ row' = IF Arrives(answer) /\ Authorized THEN r ELSE row
       /\ worker' =
            CASE read /\ r.status = "decision_recorded" ->
                   IF "ack" \in past.machine THEN Failing(FALSE)
                   ELSE [Go("resolve") EXCEPT !.decision = r.decision]
              [] read /\ r.status = "expired" -> [Go("read") EXCEPT !.wait = "expired"]
              [] read /\ r.status = "outcome_unknown" -> Failing(FALSE)
              [] answer = "answered" /\ ~Authorized -> Failing(TRUE)
              [] OTHER -> worker
    /\ UNCHANGED <<turn, past, hermes, renewal, faults>>

StopPolling ==
    /\ At("poll")
    /\ worker' \in {w \in {Go("stopped")} : worker.lost}
                     \cup {w \in {[Go("read") EXCEPT !.wait = "expired"]} :
                              ~worker.lost /\ "expiry" \in past.machine}
    /\ UNCHANGED <<turn, row, past, hermes, renewal, faults>>

\* The terminal receipt of a guard as the client returns it.
Receipt(guard) == IF guard \in {"expired", "cancelled"} THEN guard ELSE "decision"

ResolveApproval ==
    /\ At("resolve")
    /\ LET h == AfterResolve(hermes, worker.decision) IN
       \/ hermes' = h /\ worker' = [Go("read") EXCEPT !.wait = Receipt(h.guard)] /\ UNCHANGED faults
       \/ /\ hermes' \in {h, [hermes EXCEPT !.late = worker.decision]}
          /\ worker' = Go("reconcile") /\ Fault
       \/ /\ DeadlinePassed
          /\ hermes' = [hermes EXCEPT !.late = worker.decision]
          /\ worker' = Failing(FALSE) /\ UNCHANGED faults
    /\ UNCHANGED <<turn, row, past, renewal>>

\* Reading the state of a guard lets it expire.
ApprovalStatus ==
    IF hermes.guard = "pending" /\ "expiry" \in past.machine THEN Settle(hermes, "expired") ELSE hermes

\* A lost answer is looked up, never sent again.
ReconcileApproval ==
    /\ At("reconcile")
    /\ LET h == ApprovalStatus IN
       \/ /\ "ack" \in past.machine
          /\ worker' = Failing(FALSE) /\ UNCHANGED hermes
       \/ /\ "ack" \notin past.machine /\ h.guard # "pending"
          /\ hermes' = h
          /\ worker' = [Go("read") EXCEPT !.wait = Receipt(h.guard)]
    /\ UNCHANGED <<turn, row, past, renewal, faults>>

CloseStream ==
    /\ At("close")
    /\ hermes' = Closed
    /\ worker' = [(IF worker.then = "stopped" THEN Go("stopped") ELSE Finish(worker.then))
                    EXCEPT !.then = None, !.pending = FALSE, !.decision = None, !.wait = None]
    /\ UNCHANGED <<turn, row, past, renewal, faults>>

\* complete and fail, each replayed once when its answer is lost.
Outcome(what) == IF what = "complete" THEN "succeeded" ELSE "failed"

PostFinish(answer) ==
    /\ At("finish")
    /\ LET replay == turn.ended = worker.what IN
       /\ IF Arrives(answer) /\ Authorized THEN End(Outcome(worker.what), worker.what)
          ELSE UNCHANGED <<turn, row>>
       /\ worker' = CASE answer = "answered" /\ (replay \/ Authorized \/ worker.what = "fail") -> Go("finally")
                      [] answer = "answered" /\ ~(replay \/ Authorized \/ worker.what = "fail") -> Failing(TRUE)
                      [] answer = "unavailable" ->
                            IF worker.what = "fail" THEN Go("finally") ELSE Failing(FALSE)
                      [] Lost(answer) /\ worker.tries = 0 -> Retry
                      [] OTHER -> CloseThen([worker EXCEPT !.lost = TRUE], "stopped")
    /\ Costs(answer)
    /\ UNCHANGED <<past, hermes, renewal>>

\* stopped is sent once, whatever comes back.
PostStopped(answer) ==
    /\ At("stopped")
    /\ IF Arrives(answer) /\ LeaseLive THEN StopAccepted ELSE UNCHANGED <<turn, row>>
    /\ worker' = Go("finally")
    /\ Costs(answer)
    /\ UNCHANGED <<past, hermes, renewal>>

Finally ==
    /\ At("finally")
    /\ hermes' = Closed /\ renewal' = Off /\ worker' = Ended
    /\ UNCHANGED <<turn, row, past, faults>>

\* Quiescence for a deletion, or the stop of the worker, cancels the task.
CancelTask ==
    /\ worker.at \in {"prepare", "staging", "event", "setup", "read", "poll", "resolve", "reconcile"}
    /\ worker' = CloseThen(worker, "stopped")
    /\ Fault
    /\ UNCHANGED <<turn, row, past, hermes, renewal>>

CrashWorker ==
    /\ worker.at \notin {"idle", "done"}
    /\ worker' = Ended /\ renewal' = Off /\ hermes' = Closed
    /\ Fault
    /\ UNCHANGED <<turn, row, past>>

TaskStep ==
    \/ \E files \in BOOLEAN, answer \in Answers : Claim(files, answer)
    \/ ForgetClaim \/ Prepare \/ StageFiles \/ OpenStream \/ SetupFails
    \/ \E answer \in Answers : PostEvent(answer) \/ PostFinish(answer) \/ PostStopped(answer)
    \/ \E answer \in Answers : PollApproval(answer)
    \/ ReadEvent \/ StopPolling \/ ResolveApproval \/ ReconcileApproval
    \/ CloseStream \/ Finally

RenewalStep == RenewStart \/ RenewClose \/ \E answer \in Answers : RenewAnswer(answer)

-----------------------------------------------------------------------------
(* Time *)

\* The time of the lease, and of the renewal when the lease is over already.
Tick ==
    /\ turn.left > 0 \/ renewal.at # "off"
    /\ renewal.at # "off" => renewal.t > 0
    /\ turn' = [turn EXCEPT !.left = IF @ > 0 THEN @ - 1 ELSE 0]
    /\ renewal' = [renewal EXCEPT !.t = IF renewal.at = "off" THEN @ ELSE @ - 1]
    /\ UNCHANGED <<row, past, hermes, worker, faults>>

\* A deadline is only followed while someone still looks at it.
PassDeadline(clock, deadline) ==
    /\ IF deadline = "expiry" THEN hermes.guard # "none" ELSE row.decision # None
    /\ IF clock = "machine" THEN worker.pending \/ hermes.guard = "pending"
       ELSE row.status \in IF deadline = "expiry" THEN {"none", "pending"} ELSE {"decision_recorded"}
    /\ deadline \notin past[clock]
    /\ past' = [past EXCEPT ![clock] = @ \cup {deadline}]
    /\ UNCHANGED <<turn, row, hermes, worker, renewal, faults>>

DeadlinesPass == \E c \in {"foundry", "machine"}, d \in {"expiry", "ack"} : PassDeadline(c, d)

\* The turn is over and nothing of it is left.
Settled ==
    /\ At("done") /\ ~LeaseLive /\ hermes.late = None /\ hermes.guard # "pending"
    /\ UNCHANGED vars

Next ==
    \/ TaskStep \/ RenewalStep \/ HermesStep \/ Tick \/ DeadlinesPass \/ ReconcileExpiredLease
    \/ \E d \in Decisions : RecordDecision(d)
    \/ BeginDeletion \/ RunBreaks \/ CancelTask \/ CrashWorker \/ Settled

\* The loop of the worker, Hermes and the clocks go on; nobody has to decide,
\* and no fault has to happen.
Fairness ==
    /\ WF_vars(TaskStep) /\ WF_vars(RenewalStep) /\ WF_vars(HermesStep)
    /\ WF_vars(RunEnds)
    /\ WF_vars(Tick) /\ WF_vars(DeadlinesPass) /\ WF_vars(ReconcileExpiredLease)

Spec == Init /\ [][Next]_vars /\ Fairness

-----------------------------------------------------------------------------
(* Properties *)

\* Every record keeps its shape, the lease never counts past its length, and
\* the worker only waits for an approval that Foundry has recorded.
TypeOK ==
    /\ turn \in [status : {"queued", "running", "succeeded", "failed"},
                 ended : {"no", "complete", "fail", "stopped", "expiry"},
                 lease : {"none", "active", "stopping", "released"},
                 left : 0..LeaseTicks, dispatched : BOOLEAN]
    /\ row \in [status : {"none", "pending", "decision_recorded", "applied", "expired",
                          "cancelled", "outcome_unknown"},
                decision : Decisions \cup {None}]
    /\ hermes.run \in {"none", "running", "interrupted", "completed"}
    /\ renewal.at \in {"off", "sleep", "call", "close"}
    /\ At("poll") \/ At("resolve") \/ At("reconcile") => worker.pending /\ row.status # "none"

\* While Hermes works on a turn without files, the renewal watches it, and the
\* lease of the turn has at least a tick left, unless the worker itself reported
\* the turn stopped: so no other holder works on the session at the same time,
\* and fail and complete are sent only after the stream is closed (_run_claim,
\* _renew_loop).  The lease may only be over for a stream that was opened with
\* no more of it left than one interval and one request take, and whose renewal
\* was not answered since: _run_claim does not look at the lease before it
\* opens a stream.
HermesStopsBeforeExpiry ==
    Running /\ ~worker.files =>
        \/ turn.ended = "stopped"
        \/ /\ renewal.at # "off"
           /\ ~renewal.late => turn.status = "running" /\ turn.left >= 1

\* What Foundry records about an approval is what Hermes did: an applied
\* decision took effect, an expired or cancelled request never let the action
\* run, and no action runs that nobody approved (approvals.py with the
\* approval handling of _run_claim), whatever is lost, late or cancelled.
ApprovalOutcomeIsTrue ==
    /\ TypeOK
    /\ row.status = "applied" => hermes.guard = Granted(row.decision)
    /\ row.status \in {"expired", "cancelled"} => hermes.guard # "approved"
    /\ hermes.guard = "approved" => row.decision = "approve"

\* Every claimed turn ends at Foundry, and with it the approval it waited for.
TurnSettles ==
    turn.status = "running" ~>
        /\ turn.status # "running"
        /\ row.status \notin {"pending", "decision_recorded"}
=============================================================================
