-------------------------- MODULE RuntimeTurnProofs --------------------------
(***************************************************************************)
(* Theorems about RuntimeTurn, for every length of the lease, of the       *)
(* interval between renewals and of a request that satisfy                 *)
(* RenewalAssumption, however long the setup of a turn takes, and for      *)
(* every number of faults.                                                 *)
(***************************************************************************)
EXTENDS RuntimeTurn, SequenceTheorems, TLAPS

-----------------------------------------------------------------------------
(* The invariant.                                                          *)

Turns == [status : {"queued", "running", "succeeded", "failed"},
          ended : {"no", "complete", "fail", "stopped", "expiry"},
          lease : {"none", "active", "stopping", "released"},
          left : 0..LeaseTicks, dispatched : BOOLEAN]
RowStates == {"none", "pending", "decision_recorded", "applied", "expired", "cancelled",
              "outcome_unknown"}
Rows == [status : RowStates, decision : Decisions \cup {None}]
Outcomes == {"approved", "rejected", "expired", "cancelled"}
Events == {"delta", "request", "responded", "completed", "error"}
Hermes == [run : {"none", "running", "interrupted", "completed"},
           guard : {"none", "pending"} \cup Outcomes, out : Seq(Events),
           late : Decisions \cup {None}]
Places == {"idle", "ambiguous", "prepare", "staging", "event", "setup", "read", "poll",
           "resolve", "reconcile", "close", "finish", "stopped", "finally", "done"}
Posts == {None, "dispatched", "delta", "awaiting", "resolved", "complete", "fail"}
Workers == [at : Places, what : Posts, recorded : BOOLEAN, tries : {0, 1}, lost : BOOLEAN,
            files : BOOLEAN, pending : BOOLEAN, decision : Decisions \cup {None},
            wait : {None, "expired", "cancelled", "decision"},
            then : {None, "stopped", "fail", "complete"}]
Renewals == [at : {"off", "sleep", "call", "close"}, t : Nat, late : BOOLEAN]

Typed ==
    /\ turn \in Turns /\ row \in Rows /\ hermes \in Hermes /\ worker \in Workers
    /\ renewal \in Renewals

\* The lease, the attempt and its end agree, and no time is left on a dead lease.
LeaseAgrees ==
    /\ LeaseLive <=> turn.status = "running"
    /\ turn.left > 0 => LeaseLive
    /\ turn.ended # "no" => turn.lease = "released"

\* Before the claim is answered and once the outcome is sent, Hermes does not run.
Quiet ==
    /\ worker.at \in {"idle", "ambiguous", "finish"} => hermes.run # "running"
    /\ worker.at = "close" => worker.then # None
    /\ worker.at = "finish" => worker.what \in {"complete", "fail"}

\* The renewal runs, and unless it began late the lease outlasts what it may
\* still need to notice that the lease is lost: the sleep, the request and the
\* close.
Suffices(left, r) ==
    /\ r.at = "sleep" => left > r.t + RequestTicks
    /\ r.at = "call" => left > r.t
    /\ r.at = "close" => left > 0 /\ r.t = 0
Outlasts(left, r) == r.at # "off" /\ (r.late \/ Suffices(left, r))

InTimeToStop ==
    hermes.run = "running" /\ ~worker.files =>
        turn.ended = "stopped" \/ Outlasts(turn.left, renewal)

\* The events in hand and not yet read hold at most one request, and none once
\* the row exists.
Asks(s) == \E i \in 1..Len(s) : s[i] = "request"
AsksOnce(s) ==
    \A i \in 1..Len(s), j \in 1..Len(s) : s[i] = "request" /\ s[j] = "request" => i = j
AskedOnce ==
    /\ AsksOnce(hermes.out)
    /\ Asks(hermes.out) => /\ row.status = "none" /\ worker.what # "awaiting"
                           /\ hermes.guard # "none"
    /\ worker.what = "awaiting" =>
          hermes.guard # "none" /\ (worker.recorded <=> row.status # "none")
    /\ hermes.guard = "none" => row.status = "none"

\* What the row says about a decision, and what its outcome says about Hermes.
RowAgrees ==
    /\ row.status \in {"none", "pending"} => row.decision = None
    /\ row.status = "decision_recorded" => row.decision # None
    /\ row.status = "applied" => hermes.guard = Granted(row.decision)
    /\ row.status \in {"expired", "cancelled"} =>
          row.decision = None \/ hermes.guard \in {"expired", "cancelled"}

\* A decision on its way to Hermes, and one that Hermes applied, is the row's.
DecisionIsTheRows ==
    /\ worker.decision # None => worker.decision = row.decision
    /\ worker.at = "resolve" => worker.decision # None
    /\ hermes.late # None => hermes.late = row.decision
    /\ hermes.guard = "approved" => row.decision = "approve"

\* Where the worker waits for an approval it has one, and what it reports happened.
WaitsForARow ==
    /\ worker.at \in {"poll", "resolve", "reconcile"} =>
          worker.pending /\ row.status # "none"
    /\ worker.what = "resolved" => hermes.guard \in Outcomes

ApprovalInv == AskedOnce /\ RowAgrees /\ DecisionIsTheRows /\ WaitsForARow
TurnInv == Typed /\ LeaseAgrees /\ Quiet /\ InTimeToStop /\ ApprovalInv

-----------------------------------------------------------------------------
(* What a step does to one record.                                         *)

\* The worker turns to something other than an approval.
Free(v) ==
    /\ v \in Workers /\ v.decision \in {None, worker.decision}
    /\ v.at \notin {"poll", "resolve", "reconcile"} /\ v.what \notin {"awaiting", "resolved"}

\* The same, and not to the outcome, in the claim it has.
Calm(v) ==
    /\ Free(v) /\ v.files = worker.files /\ v.at \notin {"idle", "ambiguous", "finish"}
    /\ v.at = "close" => v.then # None

\* The worker stays with what it does.
SameTask(v) ==
    /\ v \in Workers /\ v.at = worker.at /\ v.what = worker.what
    /\ v.what = "awaiting" => v.recorded = worker.recorded
    /\ v.files = worker.files /\ v.pending = worker.pending
    /\ v.decision = worker.decision /\ v.then = worker.then

\* Foundry reconciles or cancels the row.
RowFollows(r, s) ==
    /\ s \in Rows /\ s.decision = r.decision /\ (s.status = "none" <=> r.status = "none")
    /\ s.status \in {"pending", "decision_recorded", "applied"} => s.status = r.status
    /\ s.status \in {"expired", "cancelled"} => r.status \in {"pending", "expired", "cancelled"}

\* Hermes is left alone or closed.
HermesFollows(h) ==
    /\ h \in Hermes /\ h.guard = hermes.guard /\ h.late = hermes.late
    /\ h.out \in {hermes.out, <<>>} /\ (h.run = "running" => hermes.run = "running")

\* The places where the worker goes without an approval are calm.
LEMMA CalmGo ==
  ASSUME worker \in Workers,
         NEW pc \in {"prepare", "staging", "setup", "read", "stopped", "finally"}
  PROVE  Calm(Go(pc))
<1> DEFINE v == Go(pc)
<1>1. v \in Workers
  BY DEF Go, Workers, Places, Posts, None
<1>2. v.at = pc /\ v.what = None /\ v.decision = worker.decision /\ v.files = worker.files
  BY DEF Go, Workers
<1> HIDE DEF v
<1>3. Calm(v)
  BY <1>1, <1>2 DEF Free, Calm, None
<1>. QED
  BY <1>3 DEF v

\* So are the first event and a text.
LEMMA CalmPost ==
  ASSUME worker \in Workers, NEW what \in {"dispatched", "delta"}
  PROVE  Calm(Post(what))
  BY DEF Free, Calm, Post, Workers, Places, Posts, None

\* So is the close of the stream.
LEMMA CalmClose ==
  ASSUME NEW v \in Workers, v.files = worker.files, v.decision = worker.decision,
         NEW after \in {"stopped", "fail", "complete"}
  PROVE  Calm(CloseThen(v, after))
<1>1. /\ "close" \in Places /\ None \in Posts /\ after # None
      /\ after \in {None, "stopped", "fail", "complete"}
  BY DEF Places, Posts, None
<1>2. /\ CloseThen(v, after) \in Workers /\ CloseThen(v, after).at = "close"
      /\ CloseThen(v, after).then = after /\ CloseThen(v, after).what = None
      /\ CloseThen(v, after).files = v.files /\ CloseThen(v, after).decision = v.decision
  BY <1>1 DEF CloseThen, Workers
<1>. QED
  BY <1>1, <1>2 DEF Free, Calm, None

\* So is the handler of errors.
LEMMA CalmFailing ==
  ASSUME worker \in Workers, NEW b \in BOOLEAN
  PROVE  Calm(Failing(b))
  BY CalmGo, CalmClose DEF Failing

\* So is the end of the task.
LEMMA CalmEnded ==
  ASSUME worker \in Workers
  PROVE  Calm(Ended)
  BY DEF Free, Calm, Ended, Idle, Workers, Places, Posts, None

\* A reconciled row follows the row.
LEMMA ReconciledFollows ==
  ASSUME row \in Rows
  PROVE  RowFollows(row, Reconciled(row)) /\ RowFollows(row, CancelLiveRequests(row))
<1>1. RowFollows(row, Reconciled(row))
  BY DEF RowFollows, Reconciled, Rows, RowStates
<1>2. ASSUME NEW s \in Rows, RowFollows(row, s)
      PROVE  /\ s.status = "pending" => RowFollows(row, [s EXCEPT !.status = "cancelled"])
             /\ s.status = "decision_recorded" =>
                   RowFollows(row, [s EXCEPT !.status = "outcome_unknown"])
  BY <1>2 DEF RowFollows, Rows, RowStates
<1>. QED
  BY <1>1, <1>2 DEF CancelLiveRequests, RowFollows

\* Closing the stream and doing nothing to it.
LEMMA ClosedFollows ==
  ASSUME hermes \in Hermes
  PROVE  HermesFollows(Closed) /\ HermesFollows(hermes) /\ Closed.run # "running"
<1>1. <<>> \in Seq(Events)
  OBVIOUS
<1>. QED
  BY <1>1 DEF HermesFollows, Closed, Hermes

\* Nothing waits to be read.
LEMMA EmptyAsks == ~Asks(<<>>) /\ AsksOnce(<<>>)
  BY DEF Asks, AsksOnce

\* A step that does no more than this keeps what is known of the approval.
LEMMA ApprovalKept ==
  ASSUME TurnInv, Free(worker') \/ SameTask(worker'), RowFollows(row, row'),
         HermesFollows(hermes')
  PROVE  ApprovalInv' /\ row' \in Rows /\ hermes' \in Hermes /\ worker' \in Workers
<1>1. /\ Typed /\ AskedOnce /\ RowAgrees /\ DecisionIsTheRows /\ WaitsForARow
      /\ row' \in Rows /\ hermes' \in Hermes /\ worker' \in Workers
  BY DEF TurnInv, ApprovalInv, Free, SameTask, RowFollows, HermesFollows
<1>2. AskedOnce'
  BY <1>1, EmptyAsks DEF AskedOnce, Free, SameTask, RowFollows, HermesFollows
<1>3. RowAgrees'
  BY <1>1 DEF RowAgrees, RowFollows, HermesFollows
<1>4. DecisionIsTheRows'
  BY <1>1 DEF DecisionIsTheRows, Free, SameTask, RowFollows, HermesFollows
<1>5. WaitsForARow'
  BY <1>1 DEF WaitsForARow, Free, SameTask, RowFollows, HermesFollows
<1>. QED
  BY <1>1, <1>2, <1>3, <1>4, <1>5 DEF ApprovalInv

\* The same, with the time that is left and the renewal.
LEMMA StepKept ==
  ASSUME TurnInv, Calm(worker') \/ SameTask(worker'), RowFollows(row, row'),
         HermesFollows(hermes'), turn' \in Turns, LeaseAgrees', renewal' \in Renewals,
         hermes'.run = "running" /\ ~worker.files =>
            turn'.ended = "stopped" \/ Outlasts(turn'.left, renewal')
  PROVE  TurnInv'
<1>0. Free(worker') \/ SameTask(worker')
  BY DEF Calm
<1>1. Typed'
  BY <1>0, ApprovalKept DEF Typed
<1>2. Quiet'
  BY DEF TurnInv, Quiet, Calm, SameTask, HermesFollows
<1>3. InTimeToStop'
  BY DEF InTimeToStop, Calm, SameTask
<1>. QED
  BY <1>0, <1>1, <1>2, <1>3, ApprovalKept DEF TurnInv

\* A step of the worker that Foundry does not see.
LEMMA WorkerKept ==
  ASSUME TurnInv, Calm(worker') \/ SameTask(worker'), UNCHANGED <<turn, row>>,
         \/ UNCHANGED renewal /\ HermesFollows(hermes')
         \/ renewal' \in Renewals /\ HermesFollows(hermes') /\ hermes'.run # "running"
  PROVE  TurnInv'
<1>1. turn \in Turns /\ row \in Rows /\ renewal \in Renewals /\ LeaseAgrees /\ InTimeToStop
  BY DEF TurnInv, Typed
<1>2. RowFollows(row, row') /\ LeaseAgrees' /\ turn' \in Turns /\ renewal' \in Renewals
  BY <1>1 DEF RowFollows, LeaseAgrees, LeaseLive
<1>3. hermes'.run = "running" /\ ~worker.files =>
         turn'.ended = "stopped" \/ Outlasts(turn'.left, renewal')
  BY <1>1 DEF InTimeToStop, HermesFollows
<1>. QED
  BY <1>2, <1>3, StepKept

\* A step after which Hermes does not run.
LEMMA StillKept ==
  ASSUME TurnInv, Free(worker'), RowFollows(row, row'), HermesFollows(hermes'),
         hermes'.run # "running", turn' \in Turns, LeaseAgrees', renewal' \in Renewals,
         worker'.at = "close" => worker'.then # None,
         worker'.at = "finish" => worker'.what \in {"complete", "fail"}
  PROVE  TurnInv'
<1>1. Typed'
  BY ApprovalKept DEF Typed
<1>2. Quiet' /\ InTimeToStop'
  BY DEF Quiet, InTimeToStop
<1>. QED
  BY <1>1, <1>2, ApprovalKept DEF TurnInv

\* The end of the attempt at Foundry, whoever asks for it.
LEMMA EndFollows ==
  ASSUME TurnInv, NEW status \in {"queued", "succeeded", "failed"},
         NEW how \in {"complete", "fail", "stopped", "expiry"}, End(status, how)
  PROVE  /\ turn' \in Turns /\ LeaseAgrees' /\ turn'.ended = how
         /\ RowFollows(row, row')
<1>1. turn \in Turns /\ row \in Rows
  BY DEF TurnInv, Typed
<1>2. RowFollows(row, row')
  BY <1>1, ReconciledFollows DEF End
<1>3. 0 \in 0..LeaseTicks
  BY TurnAssumption
<1>4. /\ turn' \in Turns /\ turn'.ended = how /\ turn'.lease = "released" /\ turn'.left = 0
      /\ turn'.status = status
  BY <1>1, <1>3 DEF End, Turns
<1>5. LeaseAgrees'
  BY <1>4 DEF LeaseAgrees, LeaseLive
<1>. QED
  BY <1>2, <1>4, <1>5

-----------------------------------------------------------------------------
(* Hermes.                                                                 *)

\* What an event more means for the requests that wait.
LEMMA AppendAsks ==
  ASSUME NEW s \in Seq(Events), NEW e \in Events
  PROVE  /\ Append(s, e) \in Seq(Events)
         /\ e # "request" => (Asks(Append(s, e)) => Asks(s)) /\ (AsksOnce(s) => AsksOnce(Append(s, e)))
         /\ e = "request" /\ ~Asks(s) => AsksOnce(Append(s, e))
<1>1. /\ Append(s, e) \in Seq(Events) /\ Len(Append(s, e)) = Len(s) + 1 /\ Len(s) \in Nat
      /\ \A i \in 1..Len(s) : Append(s, e)[i] = s[i]
      /\ Append(s, e)[Len(s) + 1] = e
  OBVIOUS
<1>2. \A i \in 1..Len(Append(s, e)) : i \in 1..Len(s) \/ i = Len(s) + 1
  BY <1>1
<1>. QED
  BY <1>1, <1>2 DEF Asks, AsksOnce

\* What reading an event means for them.
LEMMA TailAsks ==
  ASSUME NEW s \in Seq(Events), s # <<>>
  PROVE  /\ Tail(s) \in Seq(Events) /\ Head(s) \in Events
         /\ Asks(Tail(s)) => Asks(s)
         /\ AsksOnce(s) => AsksOnce(Tail(s))
         /\ AsksOnce(s) /\ Head(s) = "request" => ~Asks(Tail(s))
         /\ Head(s) = "request" => Asks(s)
<1>1. /\ Tail(s) \in Seq(Events) /\ Len(Tail(s)) = Len(s) - 1 /\ Len(s) \in Nat /\ Len(s) > 0
      /\ \A i \in 1..Len(Tail(s)) : Tail(s)[i] = s[i + 1]
      /\ Head(s) = s[1] /\ Head(s) \in Events
  BY HeadTailProperties, EmptySeq
<1>2. 1 \in 1..Len(s) /\ \A i \in 1..Len(Tail(s)) : i + 1 \in 1..Len(s) /\ i + 1 # 1
  BY <1>1
<1>3. Asks(Tail(s)) => Asks(s)
  BY <1>1, <1>2 DEF Asks
<1>4. ASSUME AsksOnce(s) PROVE AsksOnce(Tail(s))
  <2>1. \A i \in 1..Len(Tail(s)), j \in 1..Len(Tail(s)) : i + 1 = j + 1 => i = j
    BY <1>1
  <2>. QED
    BY <1>1, <1>2, <1>4, <2>1 DEF AsksOnce
<1>5. AsksOnce(s) /\ Head(s) = "request" => ~Asks(Tail(s))
  BY <1>1, <1>2 DEF AsksOnce, Asks
<1>6. Head(s) = "request" => Asks(s)
  BY <1>1, <1>2 DEF Asks
<1>. QED
  BY <1>1, <1>3, <1>4, <1>5, <1>6

\* Hermes emits, settles an action by the row's decision or expires it, or is
\* handed the decision.
HermesMoves(h) ==
    /\ h \in Hermes /\ AsksOnce(h.out) /\ (Asks(h.out) => Asks(hermes.out))
    /\ h.late \in {None, hermes.late, worker.decision}
    /\ \/ h.guard = hermes.guard
       \/ /\ hermes.guard = "pending" /\ h.guard \in Outcomes
          /\ h.guard = "approved" => row.decision = "approve"

\* The worker looks up a decision whose answer was lost.
LooksUp(v) ==
    /\ v \in Workers /\ v.files = worker.files /\ worker.at = "resolve" /\ v.at = "reconcile"
    /\ v.what = None /\ v.pending = worker.pending /\ v.decision = worker.decision

\* Such steps keep what is known of the approval.
LEMMA HermesKept ==
  ASSUME TurnInv, Calm(worker') \/ SameTask(worker') \/ LooksUp(worker'),
         HermesMoves(hermes'), UNCHANGED row
  PROVE  ApprovalInv' /\ row' \in Rows /\ hermes' \in Hermes /\ worker' \in Workers
<1>1. /\ Typed /\ AskedOnce /\ RowAgrees /\ DecisionIsTheRows /\ WaitsForARow
      /\ row' \in Rows /\ hermes' \in Hermes /\ worker' \in Workers
  BY DEF TurnInv, Typed, ApprovalInv, Free, Calm, SameTask, LooksUp, HermesMoves
<1>2. AskedOnce'
  BY <1>1 DEF AskedOnce, Free, Calm, SameTask, LooksUp, HermesMoves, Outcomes, None
<1>3. RowAgrees'
  BY <1>1 DEF RowAgrees, HermesMoves, Granted, Outcomes
<1>4. DecisionIsTheRows'
  BY <1>1 DEF DecisionIsTheRows, Free, Calm, SameTask, LooksUp, HermesMoves
<1>5. WaitsForARow'
  BY <1>1 DEF WaitsForARow, Free, Calm, SameTask, LooksUp, HermesMoves, Outcomes, None
<1>. QED
  BY <1>1, <1>2, <1>3, <1>4, <1>5 DEF ApprovalInv

\* And the rest, when Hermes does not start to run and Foundry sees nothing.
LEMMA HermesStepKept ==
  ASSUME TurnInv, Calm(worker') \/ SameTask(worker') \/ LooksUp(worker'),
         HermesMoves(hermes'), UNCHANGED <<turn, row, renewal>>,
         hermes'.run = "running" => hermes.run = "running"
  PROVE  TurnInv'
<1>1. Typed /\ LeaseAgrees /\ Quiet /\ InTimeToStop
  BY DEF TurnInv
<1>2. Typed'
  BY <1>1, HermesKept DEF Typed
<1>3. LeaseAgrees'
  BY <1>1 DEF LeaseAgrees, LeaseLive
<1>4. Quiet'
  BY <1>1 DEF Quiet, Calm, SameTask, LooksUp
<1>5. InTimeToStop'
  BY <1>1 DEF InTimeToStop, Outlasts, Suffices, Calm, SameTask, LooksUp
<1>. QED
  BY <1>2, <1>3, <1>4, <1>5, HermesKept DEF TurnInv

\* An event more: only the queue grows, and by no request.
LEMMA EmitMoves ==
  ASSUME NEW h \in Hermes, NEW e \in Events \ {"request"}, AsksOnce(h.out)
  PROVE  /\ Emit(h, e) \in Hermes /\ AsksOnce(Emit(h, e).out)
         /\ Asks(Emit(h, e).out) => Asks(h.out)
         /\ Emit(h, e).guard = h.guard /\ Emit(h, e).late = h.late /\ Emit(h, e).run = h.run
<1>1. h.out \in Seq(Events)
  BY DEF Hermes
<1>2. /\ Append(h.out, e) \in Seq(Events) /\ AsksOnce(Append(h.out, e))
      /\ Asks(Append(h.out, e)) => Asks(h.out)
  BY <1>1, AppendAsks
<1> DEFINE q == IF Running THEN Append(h.out, e) ELSE h.out
<1>3. q \in Seq(Events) /\ AsksOnce(q) /\ (Asks(q) => Asks(h.out))
  BY <1>1, <1>2
<1>4. Emit(h, e) = [h EXCEPT !.out = q]
  BY DEF Emit
<1> HIDE DEF q
<1>5. /\ Emit(h, e) \in Hermes /\ Emit(h, e).out = q /\ Emit(h, e).guard = h.guard
      /\ Emit(h, e).late = h.late /\ Emit(h, e).run = h.run
  BY <1>3, <1>4 DEF Hermes
<1>. QED
  BY <1>3, <1>5

\* An action that waits is settled, and Hermes says so.
LEMMA SettleMoves ==
  ASSUME TurnInv, hermes.guard = "pending", NEW outcome \in Outcomes,
         outcome = "approved" => row.decision = "approve"
  PROVE  HermesMoves(Settle(hermes, outcome)) /\ Settle(hermes, outcome).run = hermes.run
<1>1. hermes \in Hermes /\ AsksOnce(hermes.out)
  BY DEF TurnInv, Typed, ApprovalInv, AskedOnce
<1> DEFINE h == [hermes EXCEPT !.guard = outcome]
<1>2. /\ h \in Hermes /\ h.guard = outcome /\ h.out = hermes.out /\ h.late = hermes.late
      /\ h.run = hermes.run
  BY <1>1 DEF Hermes, Outcomes
<1>3. Settle(hermes, outcome) = Emit(h, "responded") /\ "responded" \in Events \ {"request"}
  BY DEF Settle, Events
<1> HIDE DEF h
<1>. QED
  BY <1>1, <1>2, <1>3, EmitMoves DEF HermesMoves

\* A decision of the row arrives at Hermes.
LEMMA ResolveMoves ==
  ASSUME TurnInv, NEW d \in Decisions, d = row.decision
  PROVE  /\ HermesMoves(AfterResolve(hermes, d)) /\ AfterResolve(hermes, d).run = hermes.run
         /\ AfterResolve(hermes, d).late = hermes.late
<1>1. hermes \in Hermes /\ AsksOnce(hermes.out)
  BY DEF TurnInv, Typed, ApprovalInv, AskedOnce
<1> DEFINE outcome == IF DeadlinePassed THEN "expired" ELSE Granted(d)
<1>2. outcome \in Outcomes /\ (outcome = "approved" => row.decision = "approve")
  BY DEF Outcomes, Granted
<1>3. CASE hermes.guard # "pending"
  BY <1>1, <1>3 DEF AfterResolve, HermesMoves
<1>4. CASE hermes.guard = "pending"
  <2>1. AfterResolve(hermes, d) = Settle(hermes, outcome)
    BY <1>4 DEF AfterResolve
  <2> HIDE DEF outcome
  <2>2. [hermes EXCEPT !.guard = outcome] \in Hermes /\ [hermes EXCEPT !.guard = outcome].late = hermes.late
        /\ [hermes EXCEPT !.guard = outcome].out = hermes.out
    BY <1>1, <1>2 DEF Hermes, Outcomes
  <2>3. Settle(hermes, outcome).late = hermes.late
    BY <1>1, <2>2, EmitMoves DEF Settle, Events
  <2>. QED
    BY <1>2, <1>4, <2>1, <2>3, SettleMoves
<1>. QED
  BY <1>3, <1>4

\* The worker does nothing.
LEMMA Unmoved == ASSUME TurnInv, UNCHANGED worker PROVE SameTask(worker')
  BY DEF TurnInv, Typed, SameTask

\* Hermes asks for the first time: no row, no request under way.
LEMMA InvRaiseGuard ==
  ASSUME TurnInv, RaiseGuard, UNCHANGED <<turn, row, worker, renewal>>
  PROVE  TurnInv'
<1>1. /\ Typed /\ LeaseAgrees /\ Quiet /\ InTimeToStop
      /\ AskedOnce /\ RowAgrees /\ DecisionIsTheRows /\ WaitsForARow
  BY DEF TurnInv, ApprovalInv
<1>2. /\ hermes \in Hermes /\ hermes.out \in Seq(Events) /\ hermes.guard = "none"
      /\ row.status = "none" /\ worker.what # "awaiting" /\ ~Asks(hermes.out)
  BY <1>1 DEF RaiseGuard, Typed, AskedOnce, Hermes
<1>3. Append(hermes.out, "request") \in Seq(Events) /\ AsksOnce(Append(hermes.out, "request"))
  BY <1>2, AppendAsks DEF Events
<1>4. hermes' = [hermes EXCEPT !.out = Append(hermes.out, "request"), !.guard = "pending"]
  BY DEF RaiseGuard, Emit
<1>5. /\ hermes' \in Hermes /\ hermes'.out = Append(hermes.out, "request")
      /\ hermes'.guard = "pending" /\ hermes'.late = hermes.late /\ hermes'.run = hermes.run
  BY <1>2, <1>3, <1>4 DEF Hermes
<1>6. Typed'
  BY <1>1, <1>5 DEF Typed
<1>7. LeaseAgrees' /\ Quiet' /\ InTimeToStop'
  BY <1>1, <1>5 DEF LeaseAgrees, LeaseLive, Quiet, InTimeToStop, Outlasts, Suffices
<1>8. AskedOnce'
  BY <1>2, <1>3, <1>5 DEF AskedOnce
<1>9. RowAgrees' /\ DecisionIsTheRows' /\ WaitsForARow'
  BY <1>1, <1>2, <1>5 DEF RowAgrees, DecisionIsTheRows, WaitsForARow, Outcomes
<1>. QED
  BY <1>6, <1>7, <1>8, <1>9 DEF TurnInv, ApprovalInv

\* Every step of Hermes keeps the invariant.
LEMMA InvHermes ==
  ASSUME TurnInv, HermesStep \/ RunBreaks
  PROVE  TurnInv'
<1>0. UNCHANGED <<turn, row, worker, renewal>>
  BY DEF HermesStep, RunBreaks
<1>1. hermes \in Hermes /\ AsksOnce(hermes.out) /\ DecisionIsTheRows
  BY DEF TurnInv, Typed, ApprovalInv, AskedOnce
<1>2. CASE RaiseGuard
  BY <1>0, <1>2, InvRaiseGuard
<1>3. ASSUME HermesMoves(hermes'), hermes'.run = "running" => hermes.run = "running"
      PROVE  TurnInv'
  BY <1>0, <1>3, Unmoved, HermesStepKept
<1>4. ASSUME NEW e \in Events \ {"request"}, NEW run \in {hermes.run, "completed"},
             hermes' = [Emit(hermes, e) EXCEPT !.run = run]
      PROVE  TurnInv'
  <2> DEFINE h == Emit(hermes, e)
  <2>1. /\ h \in Hermes /\ AsksOnce(h.out) /\ (Asks(h.out) => Asks(hermes.out))
        /\ h.guard = hermes.guard /\ h.late = hermes.late
    BY <1>1, EmitMoves
  <2>2. hermes' = [h EXCEPT !.run = run]
    BY <1>4
  <2> HIDE DEF h
  <2>3. /\ hermes' \in Hermes /\ hermes'.out = h.out /\ hermes'.guard = h.guard
        /\ hermes'.late = h.late /\ hermes'.run = run
    BY <1>1, <1>4, <2>1, <2>2 DEF Hermes
  <2>. QED
    BY <1>3, <1>4, <2>1, <2>3 DEF HermesMoves
<1>5. CASE SendText
  <2>1. Emit(hermes, "delta") = [Emit(hermes, "delta") EXCEPT !.run = hermes.run]
    BY <1>1, EmitMoves DEF Hermes, Events
  <2>. QED
    BY <1>4, <1>5, <2>1 DEF SendText, Events
<1>6. CASE RunCompletes
  BY <1>4, <1>6 DEF RunCompletes, Events
<1>7. CASE RunBreaks
  BY <1>4, <1>7 DEF RunBreaks, Events
<1>8. CASE GuardExpires
  <2>1. "expired" \in Outcomes
    BY DEF Outcomes
  <2>. QED
    BY <1>3, <1>8, <2>1, SettleMoves DEF GuardExpires
<1>9. CASE GuardCancelled
  BY <1>1, <1>3, <1>9 DEF GuardCancelled, HermesMoves, Hermes, Outcomes
<1>10. CASE LateResolve
  <2>1. hermes.late \in Decisions /\ hermes.late = row.decision
    BY <1>1, <1>10 DEF LateResolve, DecisionIsTheRows, Hermes
  <2> DEFINE h == AfterResolve(hermes, hermes.late)
  <2>2. HermesMoves(h) /\ h.run = hermes.run
    BY <2>1, ResolveMoves
  <2>3. HermesMoves(hermes)
    BY <1>1 DEF HermesMoves
  <2> HIDE DEF h
  <2>4. ASSUME NEW g, HermesMoves(g), g.run = hermes.run
        PROVE  /\ HermesMoves([g EXCEPT !.late = None])
               /\ [g EXCEPT !.late = None].run = hermes.run
    BY <2>4 DEF HermesMoves, Hermes
  <2>5. hermes' \in {[h EXCEPT !.late = None], [hermes EXCEPT !.late = None]}
    BY <1>10 DEF LateResolve, h
  <2>. QED
    BY <1>3, <2>2, <2>3, <2>4, <2>5
<1>. QED
  BY <1>2, <1>5, <1>6, <1>7, <1>8, <1>9, <1>10 DEF HermesStep

-----------------------------------------------------------------------------
(* Foundry, the renewal and the clock.                                     *)

\* A decision is recorded on a row that waits; Hermes has none yet.
LEMMA InvRecordDecision ==
  ASSUME TurnInv, NEW d \in Decisions, RecordDecision(d)
  PROVE  TurnInv'
<1>1. /\ Typed /\ LeaseAgrees /\ Quiet /\ InTimeToStop
      /\ AskedOnce /\ RowAgrees /\ DecisionIsTheRows /\ WaitsForARow
  BY DEF TurnInv, ApprovalInv
<1>2. row.status = "pending" /\ row.decision = None /\ UNCHANGED <<turn, hermes, worker, renewal>>
  BY <1>1 DEF RecordDecision, RowAgrees
<1>3. /\ row' \in Rows /\ row'.status = "decision_recorded" /\ row'.decision = d /\ d # None
  BY <1>1 DEF RecordDecision, Typed, Rows, RowStates, Decisions, None
<1>4. Typed' /\ LeaseAgrees' /\ Quiet' /\ InTimeToStop'
  BY <1>1, <1>2, <1>3 DEF Typed, LeaseAgrees, LeaseLive, Quiet, InTimeToStop, Outlasts, Suffices
<1>5. AskedOnce' /\ RowAgrees'
  BY <1>1, <1>2, <1>3 DEF AskedOnce, RowAgrees
<1>6. DecisionIsTheRows' /\ WaitsForARow'
  BY <1>1, <1>2, <1>3 DEF DecisionIsTheRows, WaitsForARow, Decisions, None
<1>. QED
  BY <1>4, <1>5, <1>6 DEF TurnInv, ApprovalInv

\* The statuses of a turn that is given up.
LEMMA GivenUp == StatusWhenGivenUp \in {"queued", "failed"}
  BY DEF StatusWhenGivenUp

\* An expired lease is taken away: Hermes runs on it only when its stream was
\* opened late.
LEMMA InvReconcileExpiredLease ==
  ASSUME TurnInv, ReconcileExpiredLease
  PROVE  TurnInv'
<1>1. hermes \in Hermes /\ renewal \in Renewals /\ turn \in Turns /\ LeaseAgrees /\ InTimeToStop
  BY DEF TurnInv, Typed
<1>2. /\ LeaseLive /\ turn.left = 0 /\ End(StatusWhenGivenUp, "expiry")
      /\ UNCHANGED <<hermes, worker, renewal>>
  BY DEF ReconcileExpiredLease
<1>3. turn' \in Turns /\ LeaseAgrees' /\ RowFollows(row, row')
  BY <1>2, GivenUp, EndFollows
<1>4. turn.ended # "stopped"
  BY <1>1, <1>2 DEF LeaseAgrees, LeaseLive
<1>5. renewal.at # "off" => ~Suffices(turn.left, renewal)
  BY <1>1, <1>2, TurnAssumption DEF Suffices, Renewals
<1>6. hermes'.run = "running" /\ ~worker.files => Outlasts(turn'.left, renewal')
  BY <1>1, <1>2, <1>4, <1>5 DEF InTimeToStop, Outlasts
<1>7. HermesFollows(hermes') /\ SameTask(worker')
  BY <1>1, <1>2, ClosedFollows, Unmoved
<1>. QED
  BY <1>1, <1>2, <1>3, <1>6, <1>7, StepKept

\* A deletion stops the lease; its time goes on.
LEMMA InvBeginDeletion ==
  ASSUME TurnInv, BeginDeletion
  PROVE  TurnInv'
<1>1. /\ hermes \in Hermes /\ renewal \in Renewals /\ turn \in Turns /\ row \in Rows
      /\ LeaseAgrees /\ InTimeToStop
  BY DEF TurnInv, Typed
<1>2. UNCHANGED <<row, hermes, worker, renewal>>
  BY DEF BeginDeletion
<1>3. /\ turn' \in Turns /\ turn'.lease = "stopping" /\ turn'.left = turn.left
      /\ turn'.ended = turn.ended /\ turn'.status = turn.status /\ turn.lease = "active"
  BY <1>1 DEF BeginDeletion, Turns
<1>4. LeaseAgrees'
  BY <1>1, <1>3 DEF LeaseAgrees, LeaseLive
<1>5. HermesFollows(hermes') /\ SameTask(worker') /\ RowFollows(row, row')
  BY <1>1, <1>2, ClosedFollows, Unmoved DEF RowFollows
<1>. QED
  BY <1>1, <1>2, <1>3, <1>4, <1>5, StepKept DEF InTimeToStop

\* The renewal starts its request, is answered, or closes the stream.
LEMMA InvRenewal ==
  ASSUME TurnInv, RenewalStep
  PROVE  TurnInv'
<1>1. /\ hermes \in Hermes /\ renewal \in Renewals /\ turn \in Turns /\ row \in Rows
      /\ worker \in Workers /\ LeaseAgrees /\ InTimeToStop
  BY DEF TurnInv, Typed
<1>2. RowFollows(row, row) /\ HermesFollows(hermes)
  BY <1>1, ClosedFollows DEF RowFollows
<1>3. CASE RenewStart
  <2>1. UNCHANGED <<turn, row, hermes, worker>> /\ renewal.at = "sleep" /\ renewal.t = 0
    BY <1>3 DEF RenewStart
  <2>2. /\ renewal' \in Renewals /\ renewal'.at = "call" /\ renewal'.t = RequestTicks
        /\ renewal'.late = renewal.late
    BY <1>1, <1>3, TurnAssumption DEF RenewStart, Renewals
  <2>3. Suffices(turn.left, renewal) => Suffices(turn.left, renewal')
    BY <1>1, <2>1, <2>2, TurnAssumption DEF Suffices, Turns
  <2>4. LeaseAgrees'
    BY <1>1, <2>1 DEF LeaseAgrees, LeaseLive
  <2>. QED
    BY <1>1, <1>2, <2>1, <2>2, <2>3, <2>4, Unmoved, StepKept DEF InTimeToStop, Outlasts
<1>4. CASE RenewClose
  <2>1. /\ UNCHANGED <<turn, row, worker>> /\ hermes' = Closed /\ renewal' \in Renewals
    BY <1>4 DEF RenewClose, Off, Renewals
  <2>. QED
    BY <1>1, <2>1, ClosedFollows, Unmoved, WorkerKept
<1>5. ASSUME NEW answer \in Answers, RenewAnswer(answer)
      PROVE  TurnInv'
  <2>1. UNCHANGED <<row, hermes>> /\ renewal.at = "call"
    BY <1>5 DEF RenewAnswer
  <2>2. /\ turn' \in Turns /\ turn'.lease = turn.lease /\ turn'.status = turn.status
        /\ turn'.ended = turn.ended
        /\ turn'.left = turn.left \/ (Authorized /\ turn'.left = LeaseTicks)
    <3>1. LeaseTicks \in 0..LeaseTicks
      BY TurnAssumption
    <3>. QED
      BY <1>1, <1>5, <3>1 DEF RenewAnswer, Turns
  <2>3. LeaseAgrees'
    BY <1>1, <2>2 DEF LeaseAgrees, LeaseLive, Authorized
  <2>4. SameTask(worker')
    <3>1. worker' = worker \/ worker' = [worker EXCEPT !.lost = TRUE]
      BY <1>5 DEF RenewAnswer, RenewFails
    <3>. QED
      BY <1>1, <3>1 DEF SameTask, Workers
  <2>5. CASE answer = "answered" /\ Authorized
    <3>1. /\ renewal' \in Renewals /\ renewal'.at = "sleep" /\ renewal'.t = RenewTicks
          /\ turn'.left = LeaseTicks
      <4>1. renewal' = Sleeping(FALSE) /\ turn' = [turn EXCEPT !.left = LeaseTicks]
        BY <1>5, <2>5 DEF RenewAnswer, Arrives
      <4>2. Sleeping(FALSE) \in Renewals
        BY TurnAssumption DEF Sleeping, Renewals
      <4>. QED
        BY <1>1, <4>1, <4>2 DEF Sleeping, Turns
    <3>2. LeaseTicks > RenewTicks + RequestTicks
      BY TurnAssumption, RenewalAssumption
    <3>3. Outlasts(turn'.left, renewal')
      BY <3>1, <3>2 DEF Outlasts, Suffices
    <3>. QED
      BY <1>2, <2>1, <2>2, <2>3, <2>4, <3>1, <3>3, StepKept
  <2>6. CASE ~(answer = "answered" /\ Authorized)
    <3>1. /\ renewal' \in Renewals /\ renewal'.at = "close" /\ renewal'.t = 0
          /\ renewal'.late = renewal.late
      <4>1. renewal' = [renewal EXCEPT !.at = "close", !.t = 0]
        BY <1>5, <2>6 DEF RenewAnswer, RenewFails
      <4>. QED
        BY <1>1, <4>1 DEF Renewals
    <3>2. Suffices(turn.left, renewal) => turn.left > 0 /\ turn'.left > 0
      BY <1>1, <2>1, <2>2, TurnAssumption DEF Suffices, Turns, Renewals
    <3>3. Outlasts(turn.left, renewal) => Outlasts(turn'.left, renewal')
      BY <3>1, <3>2 DEF Outlasts, Suffices
    <3>. QED
      BY <1>1, <1>2, <2>1, <2>2, <2>3, <2>4, <3>1, <3>3, StepKept DEF InTimeToStop
  <2>. QED
    BY <2>5, <2>6
<1>. QED
  BY <1>3, <1>4, <1>5 DEF RenewalStep

\* A tick takes as much from a lease that lives as from the renewal.
LEMMA InvTick ==
  ASSUME TurnInv, Tick
  PROVE  TurnInv'
<1>1. /\ hermes \in Hermes /\ renewal \in Renewals /\ turn \in Turns /\ row \in Rows
      /\ LeaseAgrees /\ InTimeToStop
  BY DEF TurnInv, Typed
<1>2. UNCHANGED <<row, hermes, worker>>
  BY DEF Tick
<1> DEFINE m == IF turn.left > 0 THEN turn.left - 1 ELSE 0
<1>3. /\ turn.left \in 0..LeaseTicks /\ m \in 0..LeaseTicks
      /\ turn.left > 0 => m = turn.left - 1
      /\ m > 0 => turn.left > 0
  BY <1>1, TurnAssumption DEF Turns
<1>4. /\ turn' \in Turns /\ turn'.lease = turn.lease /\ turn'.status = turn.status
      /\ turn'.ended = turn.ended /\ turn'.left = m
  <2>1. turn' = [turn EXCEPT !.left = m]
    BY DEF Tick
  <2> HIDE DEF m
  <2>. QED
    BY <1>1, <1>3, <2>1 DEF Turns
<1> HIDE DEF m
<1>5. LeaseAgrees'
  BY <1>1, <1>3, <1>4 DEF LeaseAgrees, LeaseLive
<1>6. /\ renewal' \in Renewals /\ renewal'.at = renewal.at /\ renewal'.late = renewal.late
      /\ renewal.at # "off" => renewal.t > 0 /\ renewal'.t = renewal.t - 1
  <2> DEFINE n == IF renewal.at = "off" THEN renewal.t ELSE renewal.t - 1
  <2>1. n \in Nat /\ (renewal.at # "off" => renewal.t > 0 /\ n = renewal.t - 1)
    BY <1>1 DEF Tick, Renewals
  <2>2. renewal' = [renewal EXCEPT !.t = n]
    BY DEF Tick
  <2> HIDE DEF n
  <2>. QED
    BY <1>1, <2>1, <2>2 DEF Renewals
<1>7. renewal.at # "off" /\ Suffices(turn.left, renewal) => Suffices(turn'.left, renewal')
  BY <1>1, <1>3, <1>4, <1>6, TurnAssumption DEF Suffices, Renewals
<1>8. HermesFollows(hermes') /\ SameTask(worker') /\ RowFollows(row, row')
  BY <1>1, <1>2, ClosedFollows, Unmoved DEF RowFollows
<1>. QED
  BY <1>1, <1>2, <1>4, <1>5, <1>6, <1>7, <1>8, StepKept DEF InTimeToStop, Outlasts

\* The deadlines are no part of the invariant.
LEMMA InvUnchanged ==
  ASSUME TurnInv, UNCHANGED <<turn, row, hermes, worker, renewal>>
  PROVE  TurnInv'
<1>1. hermes \in Hermes
  BY DEF TurnInv, Typed
<1>. QED
  BY <1>1, ClosedFollows, Unmoved, WorkerKept

-----------------------------------------------------------------------------
(* The task.                                                               *)

\* The claim: Hermes does not run yet.
LEMMA InvClaim ==
  ASSUME TurnInv, NEW files \in BOOLEAN, NEW answer \in Answers, Claim(files, answer)
  PROVE  TurnInv'
<1>1. /\ hermes \in Hermes /\ renewal \in Renewals /\ turn \in Turns /\ row \in Rows
      /\ worker \in Workers /\ LeaseAgrees /\ Quiet
  BY DEF TurnInv, Typed
<1>2. UNCHANGED <<row, hermes, renewal>> /\ hermes.run # "running"
  BY <1>1 DEF Claim, Quiet, At
<1>3. /\ turn' \in Turns
      /\ \/ turn' = turn
         \/ /\ turn'.status = "running" /\ turn'.lease = "active"
            /\ turn'.ended = turn.ended /\ turn.ended = "no"
  <2>1. LeaseTicks \in 0..LeaseTicks
    BY TurnAssumption
  <2>. QED
    BY <1>1, <2>1 DEF Claim, Turns
<1>4. LeaseAgrees'
  BY <1>1, <1>3 DEF LeaseAgrees, LeaseLive
<1>5. worker' \in {[Go("prepare") EXCEPT !.files = files], Ended, Go("ambiguous")}
  <2>1. answer = "answered" \/ Lost(answer)
    BY DEF Claim, Answers, Lost
  <2>2. ~(answer = "answered" /\ Lost(answer))
    BY DEF Lost
  <2>. QED
    BY <2>1, <2>2 DEF Claim
<1>6. Free(worker') /\ worker'.at \notin {"close", "finish"}
  <2>1. worker' = Ended => Free(worker') /\ worker'.at = "done"
    BY <1>1, CalmEnded DEF Calm, Ended, Idle
  <2>2. worker' = Go("ambiguous") => Free(worker') /\ worker'.at = "ambiguous"
    BY <1>1 DEF Go, Free, Workers, Places, Posts, None
  <2>3. worker' = [Go("prepare") EXCEPT !.files = files] =>
           Free(worker') /\ worker'.at = "prepare"
    BY <1>1 DEF Go, Free, Workers, Places, Posts, None
  <2>. QED
    BY <1>5, <2>1, <2>2, <2>3
<1>7. HermesFollows(hermes') /\ RowFollows(row, row')
  BY <1>1, <1>2, ClosedFollows DEF RowFollows
<1>. QED
  BY <1>1, <1>2, <1>3, <1>4, <1>6, <1>7, StillKept

\* A claim without an answer is forgotten.
LEMMA InvForgetClaim ==
  ASSUME TurnInv, ForgetClaim
  PROVE  TurnInv'
<1>1. /\ hermes \in Hermes /\ renewal \in Renewals /\ turn \in Turns /\ row \in Rows
      /\ worker \in Workers /\ LeaseAgrees /\ Quiet
  BY DEF TurnInv, Typed
<1>2. UNCHANGED <<turn, row, hermes, renewal>> /\ hermes.run # "running"
  BY <1>1 DEF ForgetClaim, Quiet, At
<1>3. LeaseAgrees'
  BY <1>1, <1>2 DEF LeaseAgrees, LeaseLive
<1>4. Free(worker') /\ worker'.at \notin {"close", "finish"}
  BY <1>1, CalmEnded DEF ForgetClaim, Calm, Ended, Idle, Free, Workers, Places, Posts, None
<1>5. HermesFollows(hermes') /\ RowFollows(row, row')
  BY <1>1, <1>2, ClosedFollows DEF RowFollows
<1>. QED
  BY <1>1, <1>2, <1>3, <1>4, <1>5, StillKept

\* The sleep of a renewal that starts has its type.
LEMMA SleepTyped == Sleeping(Short) \in Renewals
<1>1. Short \in BOOLEAN
  BY DEF Short
<1>. QED
  BY <1>1, TurnAssumption DEF Sleeping, Renewals

\* What comes before the stream; with files the renewal starts here.
LEMMA InvPrepare ==
  ASSUME TurnInv, Prepare \/ StageFiles \/ SetupFails
  PROVE  TurnInv'
<1>1. /\ hermes \in Hermes /\ renewal \in Renewals /\ turn \in Turns /\ row \in Rows
      /\ worker \in Workers /\ LeaseAgrees /\ InTimeToStop
  BY DEF TurnInv, Typed
<1>2. UNCHANGED <<turn, row, hermes>> /\ HermesFollows(hermes') /\ RowFollows(row, row')
  BY <1>1, ClosedFollows DEF Prepare, StageFiles, SetupFails, RowFollows
<1>3. Calm(worker')
  BY <1>1, CalmGo, CalmPost, CalmFailing
  DEF Prepare, StageFiles, SetupFails, ClaimRefused, BootstrapLost, SessionRefused,
      BindingNotApplied
<1>4. UNCHANGED renewal \/ (renewal' = Sleeping(Short) /\ worker.files)
  BY DEF Prepare, StageFiles, SetupFails
<1>5. renewal' \in Renewals
  BY <1>1, <1>4, SleepTyped
<1>6. LeaseAgrees'
  BY <1>1, <1>2 DEF LeaseAgrees, LeaseLive
<1>7. hermes'.run = "running" /\ ~worker.files =>
         turn'.ended = "stopped" \/ Outlasts(turn'.left, renewal')
  BY <1>1, <1>2, <1>4 DEF InTimeToStop
<1>. QED
  BY <1>1, <1>2, <1>3, <1>5, <1>6, <1>7, StepKept

\* The stream opens with enough of the lease left, or late.
LEMMA InvOpenStream ==
  ASSUME TurnInv, OpenStream
  PROVE  TurnInv'
<1>1. /\ hermes \in Hermes /\ renewal \in Renewals /\ turn \in Turns /\ row \in Rows
      /\ worker \in Workers /\ LeaseAgrees /\ AskedOnce
  BY DEF TurnInv, Typed, ApprovalInv
<1>2. /\ UNCHANGED <<turn, row>> /\ worker' = Go("read")
  BY DEF OpenStream
<1>3. Calm(worker') /\ worker'.at = "read"
  BY <1>1, <1>2, CalmGo DEF Go, Workers
<1>4. HermesMoves(hermes')
  BY <1>1 DEF OpenStream, HermesMoves, Hermes, AskedOnce
<1>5. renewal' \in Renewals
  BY <1>1, SleepTyped DEF OpenStream
<1>6. ~worker.files => Outlasts(turn.left, renewal')
  <2>. SUFFICES ASSUME ~worker.files PROVE Outlasts(turn.left, renewal')
    OBVIOUS
  <2>1. renewal'.at = "sleep" /\ renewal'.t = RenewTicks /\ renewal'.late = Short
    BY DEF OpenStream, Sleeping
  <2>2. turn.left \in 0..LeaseTicks
    BY <1>1 DEF Turns
  <2>3. Short \/ turn.left > RenewTicks + RequestTicks
    BY <2>2, TurnAssumption DEF Short
  <2>. QED
    BY <2>1, <2>3 DEF Outlasts, Suffices
<1>7. Typed' /\ ApprovalInv'
  BY <1>1, <1>2, <1>3, <1>4, <1>5, HermesKept DEF Typed
<1>8. LeaseAgrees' /\ Quiet'
  BY <1>1, <1>2, <1>3 DEF LeaseAgrees, LeaseLive, Quiet
<1>9. InTimeToStop'
  BY <1>2, <1>3, <1>6 DEF InTimeToStop, Calm
<1>. QED
  BY <1>7, <1>8, <1>9 DEF TurnInv

\* Whether the event is known to be recorded does not matter to a calm worker.
LEMMA CalmRecorded ==
  ASSUME NEW v, Calm(v), NEW b \in BOOLEAN
  PROVE  Calm([v EXCEPT !.recorded = b])
<1>1. v \in Workers
  BY DEF Calm, Free
<1>2. LET u == [v EXCEPT !.recorded = b]
      IN  /\ u \in Workers /\ u.at = v.at /\ u.what = v.what /\ u.decision = v.decision
          /\ u.files = v.files /\ u.then = v.then
  BY <1>1 DEF Workers
<1>. QED
  BY <1>2 DEF Calm, Free

\* What PostEvent does to the turn, and what it may do to the row and the worker.
LEMMA PostEventSteps ==
  ASSUME TurnInv, NEW answer \in Answers, PostEvent(answer)
  PROVE  LET append == ~worker.recorded /\ Authorized /\ ~EventRefused(worker.what)
         IN  /\ turn' \in Turns /\ LeaseAgrees' /\ turn'.ended = turn.ended
             /\ turn'.left = turn.left /\ UNCHANGED <<hermes, renewal>>
             /\ row' = row \/ (append /\ row' = RowAfterEvent(worker.what))
             /\ \/ Calm(worker') /\ row' = row
                \/ worker' = AfterEvent /\ worker.recorded /\ row' = row
                \/ worker' = AfterEvent /\ append /\ row' = RowAfterEvent(worker.what)
                \/ /\ \/ worker' = [Retry EXCEPT !.recorded = worker.recorded] /\ row' = row
                      \/ worker' = [Retry EXCEPT !.recorded = TRUE] /\ append
                         /\ row' = RowAfterEvent(worker.what)
                \/ Calm(worker') /\ append /\ row' = RowAfterEvent(worker.what)
<1> DEFINE append == ~worker.recorded /\ Authorized /\ ~EventRefused(worker.what)
           replay == worker.recorded /\ (Authorized \/ turn.lease = "released")
           took == worker.recorded \/ (Arrives(answer) /\ append)
<1>1. turn \in Turns /\ LeaseAgrees /\ worker \in Workers /\ worker.recorded \in BOOLEAN
  BY DEF TurnInv, Typed, Workers
<1>2. /\ turn' \in Turns /\ turn'.ended = turn.ended /\ turn'.left = turn.left
      /\ turn'.lease = turn.lease /\ turn'.status = turn.status
  BY <1>1 DEF PostEvent, Turns
<1>3. LeaseAgrees'
  BY <1>1, <1>2 DEF LeaseAgrees, LeaseLive
<1>4. UNCHANGED <<hermes, renewal>>
  BY DEF PostEvent
<1>5. IF Arrives(answer) /\ append THEN row' = RowAfterEvent(worker.what) ELSE row' = row
  BY DEF PostEvent
<1>6. took \in BOOLEAN /\ (took <=> worker.recorded \/ (Arrives(answer) /\ append))
  BY <1>1
<1>7. CASE answer = "answered"
  <2>1. worker' = IF replay \/ append THEN AfterEvent ELSE Failing(~Authorized)
    BY <1>7 DEF PostEvent, Lost
  <2>2. Calm(Failing(~Authorized))
    BY <1>1, CalmFailing DEF Authorized
  <2>3. Arrives(answer)
    BY <1>7 DEF Arrives
  <2>. QED
    BY <1>2, <1>3, <1>4, <1>5, <2>1, <2>2, <2>3
<1>8. CASE answer = "unavailable"
  <2>1. worker' = Failing(FALSE) /\ ~Arrives(answer)
    BY <1>8 DEF PostEvent, Lost, Arrives
  <2>. QED
    BY <1>1, <1>2, <1>3, <1>4, <1>5, <2>1, CalmFailing
<1>9. CASE Lost(answer)
  <2>1. worker' = [AfterEventLost EXCEPT !.recorded = took]
    BY <1>9 DEF PostEvent, Lost
  <2>2. AfterEventLost = Retry \/ Calm(AfterEventLost)
    <3>1. LET v == [worker EXCEPT !.lost = TRUE]
          IN  v \in Workers /\ v.files = worker.files /\ v.decision = worker.decision
      BY <1>1 DEF Workers
    <3>. QED
      BY <1>1, <3>1, CalmGo, CalmClose DEF AfterEventLost
  <2>3. CASE AfterEventLost = Retry
    <3>1. CASE Arrives(answer) /\ append
      <4>1. took = TRUE
        BY <3>1, <1>6
      <4>. QED
        BY <1>2, <1>3, <1>4, <1>5, <2>1, <2>3, <3>1, <4>1
    <3>2. CASE ~(Arrives(answer) /\ append)
      <4>1. took = worker.recorded
        BY <3>2, <1>1, <1>6
      <4>. QED
        BY <1>2, <1>3, <1>4, <1>5, <2>1, <2>3, <3>2, <4>1
    <3>. QED
      BY <3>1, <3>2
  <2>4. CASE Calm(AfterEventLost)
    <3>1. Calm(worker')
      BY <1>6, <2>1, <2>4, CalmRecorded
    <3>. QED
      BY <1>2, <1>3, <1>4, <1>5, <3>1
  <2>. QED
    BY <2>2, <2>3, <2>4
<1>. QED
  BY <1>7, <1>8, <1>9 DEF Answers, Lost

\* The time that is left does not depend on the event.
LEMMA PostEventKept ==
  ASSUME TurnInv, NEW answer \in Answers, PostEvent(answer), ApprovalInv',
         row' \in Rows, worker' \in Workers, worker'.files = worker.files,
         worker'.at \notin {"idle", "ambiguous", "finish"},
         worker'.at = "close" => worker'.then # None
  PROVE  TurnInv'
<1>1. Typed /\ InTimeToStop
  BY DEF TurnInv
<1>2. /\ turn' \in Turns /\ LeaseAgrees' /\ turn'.ended = turn.ended
      /\ turn'.left = turn.left /\ UNCHANGED <<hermes, renewal>>
  BY PostEventSteps
<1>3. Typed'
  BY <1>1, <1>2 DEF Typed
<1>4. Quiet' /\ InTimeToStop'
  BY <1>1, <1>2 DEF Quiet, InTimeToStop, Outlasts, Suffices
<1>. QED
  BY <1>2, <1>3, <1>4 DEF TurnInv

\* The worker after another try.
LEMMA RetrySame ==
  ASSUME worker \in Workers, NEW b \in BOOLEAN
  PROVE  LET v == [Retry EXCEPT !.recorded = b]
         IN  /\ v \in Workers /\ v.at = worker.at /\ v.what = worker.what /\ v.recorded = b
             /\ v.files = worker.files /\ v.pending = worker.pending
             /\ v.decision = worker.decision /\ v.then = worker.then
  BY DEF Retry, Workers

\* The first event of a request writes the row, once.
LEMMA InvPostAwaiting ==
  ASSUME TurnInv, NEW answer \in Answers, PostEvent(answer), worker.what = "awaiting"
  PROVE  TurnInv'
<1>1. /\ Typed /\ AskedOnce /\ RowAgrees /\ DecisionIsTheRows /\ WaitsForARow /\ Quiet
      /\ worker \in Workers /\ row \in Rows /\ worker.recorded \in BOOLEAN
  BY DEF TurnInv, Typed, ApprovalInv, Workers
<1>2. /\ hermes.guard # "none" /\ (worker.recorded <=> row.status # "none")
      /\ ~Asks(hermes.out) /\ worker.at = "event"
  BY <1>1 DEF AskedOnce, PostEvent, At
<1>3. UNCHANGED <<hermes, renewal>>
  BY DEF PostEvent
<1>4. RowAfterEvent("awaiting") = [row EXCEPT !.status = "pending"]
  BY DEF RowAfterEvent
<1>5. /\ row' \in Rows /\ row'.decision = row.decision
      /\ \/ row' = row
         \/ row.status = "none" /\ row'.status = "pending" /\ ~worker.recorded
  BY <1>1, <1>2, <1>4, PostEventSteps DEF Rows, RowStates
<1>6. /\ worker' \in Workers /\ worker'.files = worker.files
      /\ \/ Calm(worker')
         \/ /\ worker'.at = "event" /\ worker'.what = "awaiting"
            /\ (worker'.recorded <=> row'.status # "none")
            /\ worker'.decision = worker.decision
         \/ /\ worker'.at = "poll" /\ worker'.what = None /\ worker'.pending
            /\ worker'.decision = None /\ row'.status # "none"
  <2>1. LET v == [Go("poll") EXCEPT !.pending = TRUE, !.decision = None, !.wait = None]
        IN  /\ AfterEvent = v /\ v \in Workers /\ v.files = worker.files /\ v.at = "poll"
            /\ v.what = None /\ v.pending /\ v.decision = None
    BY <1>1 DEF AfterEvent, Go, Workers, Places, Posts
  <2>2. RowAfterEvent(worker.what).status = "pending"
    BY <1>1, <1>4 DEF Rows
  <2>3. CASE Calm(worker')
    BY <2>3 DEF Calm, Free
  <2>4. CASE worker' = AfterEvent /\ worker.recorded /\ row' = row
    BY <1>2, <2>1, <2>4
  <2>5. CASE worker' = AfterEvent /\ row' = RowAfterEvent(worker.what)
    BY <2>1, <2>2, <2>5
  <2>6. CASE worker' = [Retry EXCEPT !.recorded = worker.recorded] /\ row' = row
    BY <1>1, <1>2, <2>6, RetrySame
  <2>7. CASE worker' = [Retry EXCEPT !.recorded = TRUE] /\ row' = RowAfterEvent(worker.what)
    BY <1>1, <1>2, <2>2, <2>7, RetrySame
  <2>. QED
    BY <2>3, <2>4, <2>5, <2>6, <2>7, PostEventSteps
<1>7. AskedOnce'
  BY <1>1, <1>2, <1>3, <1>5, <1>6 DEF AskedOnce, Calm, Free, None
<1>8. RowAgrees'
  BY <1>1, <1>3, <1>5 DEF RowAgrees
<1>9. DecisionIsTheRows'
  BY <1>1, <1>3, <1>5, <1>6 DEF DecisionIsTheRows, Calm, Free
<1>10. WaitsForARow'
  BY <1>1, <1>3, <1>5, <1>6 DEF WaitsForARow, Calm, Free, None
<1>. QED
  BY <1>5, <1>6, <1>7, <1>8, <1>9, <1>10, PostEventKept DEF ApprovalInv, Calm

\* The row that a resolution leaves: it follows the row, or tells what Hermes did.
LEMMA ResolvedRow ==
  ASSUME row \in Rows, hermes.guard \in Outcomes, ~ResolutionConflicts(row, hermes.guard),
         row.status = "decision_recorded" => row.decision # None
  PROVE  LET s == Resolved(row, hermes.guard)
         IN  \/ RowFollows(row, s)
             \/ /\ s \in Rows /\ s.decision = row.decision /\ row.status # "none"
                /\ s.status # "none"
                /\ \/ s.status = "applied" /\ hermes.guard = Granted(row.decision)
                   \/ s.status = hermes.guard /\ hermes.guard \in {"expired", "cancelled"}
<1> DEFINE r == Reconciled(row)
<1>1. RowFollows(row, r) /\ r.status \in RowStates
  BY ReconciledFollows DEF RowFollows, Rows
<1>2. CASE r.status = "outcome_unknown"
  BY <1>1, <1>2 DEF Resolved
<1>3. CASE r.status # "outcome_unknown" /\ hermes.guard \in {"approved", "rejected"}
  <2>1. Resolved(row, hermes.guard) = [row EXCEPT !.status = "applied"]
    BY <1>3 DEF Resolved
  <2>2. r.status = "decision_recorded" /\ hermes.guard = Granted(row.decision)
    BY <1>3 DEF ResolutionConflicts
  <2>3. row.status # "none"
    BY <1>1, <2>2 DEF RowFollows
  <2>. QED
    BY <2>1, <2>2, <2>3 DEF Rows, RowStates
<1>4. CASE r.status # "outcome_unknown" /\ hermes.guard \notin {"approved", "rejected"}
  <2>1. hermes.guard \in {"expired", "cancelled"}
    BY <1>4 DEF Outcomes
  <2>2. Resolved(row, hermes.guard) = [row EXCEPT !.status = hermes.guard]
    BY <1>4 DEF Resolved
  <2>3. r.status # "none"
    BY <1>4, <2>1 DEF ResolutionConflicts
  <2>4. row.status # "none"
    BY <1>1, <2>3 DEF RowFollows
  <2>. QED
    BY <2>1, <2>2, <2>4 DEF Rows, RowStates
<1>. QED
  BY <1>2, <1>3, <1>4

\* The second event of a request tells Foundry what Hermes did.
LEMMA InvPostResolved ==
  ASSUME TurnInv, NEW answer \in Answers, PostEvent(answer), worker.what = "resolved"
  PROVE  TurnInv'
<1>1. /\ Typed /\ AskedOnce /\ RowAgrees /\ DecisionIsTheRows /\ WaitsForARow
      /\ worker \in Workers /\ row \in Rows /\ hermes \in Hermes /\ worker.recorded \in BOOLEAN
  BY DEF TurnInv, Typed, ApprovalInv, Workers
<1>2. hermes.guard \in Outcomes /\ UNCHANGED <<hermes, renewal>> /\ worker.at = "event"
  BY <1>1 DEF WaitsForARow, PostEvent, At
<1>3. Calm(worker') \/ SameTask(worker')
  <2>1. LET v == [Go("read") EXCEPT !.pending = FALSE, !.decision = None, !.wait = None]
        IN  AfterEvent = v /\ Calm(v)
    BY <1>1 DEF AfterEvent, Go, Calm, Free, Workers, Places, Posts, None
  <2>2. \A b \in BOOLEAN : SameTask([Retry EXCEPT !.recorded = b])
    BY <1>1, RetrySame DEF SameTask
  <2>. QED
    BY <1>1, <2>1, <2>2, PostEventSteps
<1>4. RowAfterEvent("resolved") = Resolved(row, hermes.guard)
  BY DEF RowAfterEvent
<1>5. row' = row \/ (row' = Resolved(row, hermes.guard) /\ ~ResolutionConflicts(row, hermes.guard))
  BY <1>4, PostEventSteps DEF EventRefused
<1>6. HermesFollows(hermes')
  BY <1>1, <1>2, ClosedFollows
<1>7. CASE RowFollows(row, row')
  <2>1. ApprovalInv' /\ row' \in Rows /\ worker' \in Workers
    BY <1>3, <1>6, <1>7, ApprovalKept DEF Calm
  <2>. QED
    BY <1>2, <1>3, <2>1, PostEventKept DEF Calm, SameTask
<1>8. CASE ~RowFollows(row, row')
  <2>1. /\ row' \in Rows /\ row'.decision = row.decision /\ row.status # "none"
        /\ row'.status # "none"
        /\ \/ row'.status = "applied" /\ hermes.guard = Granted(row.decision)
           \/ row'.status = hermes.guard /\ hermes.guard \in {"expired", "cancelled"}
    <3>1. row' # row
      BY <1>1, <1>8 DEF RowFollows
    <3>. QED
      BY <1>1, <1>2, <1>5, <1>8, <3>1, ResolvedRow DEF RowAgrees
  <2>2. AskedOnce'
    BY <1>1, <1>2, <1>3, <2>1 DEF AskedOnce, Calm, Free, SameTask
  <2>3. RowAgrees'
    BY <1>2, <2>1 DEF RowAgrees
  <2>4. DecisionIsTheRows' /\ WaitsForARow'
    BY <1>1, <1>2, <1>3, <2>1 DEF DecisionIsTheRows, WaitsForARow, Calm, Free, SameTask
  <2>. QED
    BY <1>2, <1>3, <2>1, <2>2, <2>3, <2>4, PostEventKept DEF ApprovalInv, Calm, Free, SameTask
<1>. QED
  BY <1>7, <1>8

\* Any event.
LEMMA InvPostEvent ==
  ASSUME TurnInv, NEW answer \in Answers, PostEvent(answer)
  PROVE  TurnInv'
<1>1. CASE worker.what \notin {"awaiting", "resolved"}
  <2>1. /\ worker \in Workers /\ row \in Rows /\ hermes \in Hermes
        /\ worker.recorded \in BOOLEAN /\ worker.at = "event"
    BY DEF TurnInv, Typed, Workers, PostEvent, At
  <2>2. UNCHANGED hermes /\ RowAfterEvent(worker.what) = row
    BY <1>1 DEF PostEvent, RowAfterEvent
  <2>3. row' = row
    BY <2>2, PostEventSteps
  <2>4. Calm(AfterEvent)
    BY <1>1, <2>1, CalmGo DEF AfterEvent
  <2>5. \A b \in BOOLEAN : SameTask([Retry EXCEPT !.recorded = b])
    BY <1>1, <2>1, RetrySame DEF SameTask
  <2>6. Calm(worker') \/ SameTask(worker')
    BY <2>1, <2>4, <2>5, PostEventSteps
  <2>7. RowFollows(row, row') /\ HermesFollows(hermes')
    BY <2>1, <2>2, <2>3, ClosedFollows DEF RowFollows
  <2>8. ApprovalInv' /\ row' \in Rows /\ worker' \in Workers
    BY <2>6, <2>7, ApprovalKept DEF Calm
  <2>. QED
    BY <2>1, <2>6, <2>8, PostEventKept DEF Calm, SameTask
<1>. QED
  BY <1>1, InvPostAwaiting, InvPostResolved

\* An event is read: a request leads to the row, an answer to its report.
LEMMA InvReadEvent ==
  ASSUME TurnInv, ReadEvent
  PROVE  TurnInv'
<1>1. /\ Typed /\ LeaseAgrees /\ Quiet /\ InTimeToStop
      /\ AskedOnce /\ RowAgrees /\ DecisionIsTheRows /\ WaitsForARow
      /\ worker \in Workers /\ row \in Rows /\ hermes \in Hermes /\ hermes.out \in Seq(Events)
  BY DEF TurnInv, Typed, ApprovalInv, Hermes
<1>2. UNCHANGED <<turn, row, renewal>> /\ worker.at = "read"
  BY DEF ReadEvent, At
<1>3. CASE hermes.out = <<>>
  <2>1. worker' = Failing(FALSE) /\ UNCHANGED hermes
    BY <1>3 DEF ReadEvent
  <2>. QED
    BY <1>1, <1>2, <2>1, CalmFailing, ClosedFollows, WorkerKept
<1>4. CASE hermes.out # <<>>
  <2> DEFINE e == Head(hermes.out)
  <2>1. /\ hermes' \in Hermes /\ hermes'.out = Tail(hermes.out) /\ hermes'.run = hermes.run
        /\ hermes'.guard = hermes.guard /\ hermes'.late = hermes.late
        /\ AsksOnce(hermes'.out) /\ (Asks(hermes'.out) => Asks(hermes.out))
        /\ e = "request" => Asks(hermes.out) /\ ~Asks(hermes'.out)
    <3>1. hermes' = [hermes EXCEPT !.out = Tail(hermes.out)]
      BY <1>4 DEF ReadEvent
    <3>2. Tail(hermes.out) \in Seq(Events)
      BY <1>1, <1>4, TailAsks
    <3>3. /\ hermes' \in Hermes /\ hermes'.out = Tail(hermes.out) /\ hermes'.run = hermes.run
          /\ hermes'.guard = hermes.guard /\ hermes'.late = hermes.late
      BY <1>1, <3>1, <3>2 DEF Hermes
    <3>. QED
      BY <1>1, <1>4, <3>3, TailAsks DEF AskedOnce
  <2>2. HermesMoves(hermes')
    BY <2>1 DEF HermesMoves
  <2>3. \/ worker' \in {Go("stopped"), Failing(FALSE), CloseThen(worker, "fail"),
                         CloseThen(worker, "complete"), Post("delta")}
        \/ worker' = Post("awaiting") /\ e = "request"
        \/ worker' = Post("resolved") /\ hermes.guard \in ExpectedOutcome
    BY <1>4 DEF ReadEvent, AfterRead
  <2>4. CASE worker' \in {Go("stopped"), Failing(FALSE), CloseThen(worker, "fail"),
                           CloseThen(worker, "complete"), Post("delta")}
    <3>1. Calm(worker')
      BY <1>1, <2>4, CalmGo, CalmFailing, CalmClose, CalmPost
    <3>. QED
      BY <1>2, <2>1, <2>2, <3>1, HermesStepKept
  <2>5. ASSUME NEW what \in {"awaiting", "resolved"}, worker' = Post(what)
        PROVE  /\ worker' \in Workers /\ worker'.at = "event" /\ worker'.what = what
               /\ ~worker'.recorded /\ worker'.files = worker.files
               /\ worker'.decision = worker.decision
               /\ Typed' /\ LeaseAgrees' /\ Quiet' /\ InTimeToStop' /\ RowAgrees'
               /\ DecisionIsTheRows'
    <3>1. /\ worker' \in Workers /\ worker'.at = "event" /\ worker'.what = what
          /\ ~worker'.recorded /\ worker'.files = worker.files
          /\ worker'.decision = worker.decision
      BY <1>1, <2>5 DEF Post, Workers, Places, Posts
    <3>2. Typed' /\ LeaseAgrees'
      BY <1>1, <1>2, <2>1, <3>1 DEF Typed, LeaseAgrees, LeaseLive
    <3>3. Quiet' /\ InTimeToStop'
      BY <1>1, <1>2, <2>1, <3>1 DEF Quiet, InTimeToStop, Outlasts, Suffices
    <3>4. RowAgrees' /\ DecisionIsTheRows'
      BY <1>1, <1>2, <2>1, <3>1 DEF RowAgrees, DecisionIsTheRows
    <3>. QED
      BY <3>1, <3>2, <3>3, <3>4
  <2>6. CASE worker' = Post("awaiting") /\ e = "request"
    <3>1. AskedOnce'
      BY <1>1, <1>2, <2>1, <2>5, <2>6 DEF AskedOnce
    <3>2. WaitsForARow'
      BY <1>1, <1>2, <2>1, <2>5, <2>6 DEF WaitsForARow
    <3>. QED
      BY <2>5, <2>6, <3>1, <3>2 DEF TurnInv, ApprovalInv
  <2>7. CASE worker' = Post("resolved") /\ hermes.guard \in ExpectedOutcome
    <3>1. hermes.guard \in Outcomes
      BY <1>1, <2>7 DEF ExpectedOutcome, Outcomes, Granted
    <3>2. AskedOnce'
      BY <1>1, <1>2, <2>1, <2>5, <2>7 DEF AskedOnce
    <3>3. WaitsForARow'
      BY <1>1, <1>2, <2>1, <2>5, <2>7, <3>1 DEF WaitsForARow
    <3>. QED
      BY <2>5, <2>7, <3>2, <3>3 DEF TurnInv, ApprovalInv
  <2>. QED
    BY <2>3, <2>4, <2>6, <2>7
<1>. QED
  BY <1>3, <1>4

\* Reading the wait outcome of an approval is calm.
LEMMA CalmWait ==
  ASSUME worker \in Workers, NEW wait \in {"expired", "cancelled", "decision"}
  PROVE  Calm([Go("read") EXCEPT !.wait = wait])
<1>1. Calm(Go("read")) /\ Go("read") \in Workers
  BY CalmGo DEF Calm, Free
<1>2. LET v == [Go("read") EXCEPT !.wait = wait]
      IN  /\ v \in Workers /\ v.at = Go("read").at /\ v.what = Go("read").what
          /\ v.files = Go("read").files /\ v.decision = Go("read").decision
          /\ v.then = Go("read").then
  BY <1>1 DEF Workers
<1>. QED
  BY <1>1, <1>2 DEF Calm, Free

\* The row is polled: a decision goes on to Hermes.
LEMMA InvPollApproval ==
  ASSUME TurnInv, NEW answer \in Answers, PollApproval(answer)
  PROVE  TurnInv'
<1>1. /\ Typed /\ LeaseAgrees /\ Quiet /\ InTimeToStop
      /\ AskedOnce /\ RowAgrees /\ DecisionIsTheRows /\ WaitsForARow
      /\ worker \in Workers /\ row \in Rows /\ hermes \in Hermes
      /\ turn \in Turns /\ renewal \in Renewals
  BY DEF TurnInv, Typed, ApprovalInv
<1>2. UNCHANGED <<turn, hermes, renewal>> /\ worker.at = "poll"
  BY DEF PollApproval, At
<1>3. RowFollows(row, Reconciled(row)) /\ RowFollows(row, row) /\ HermesFollows(hermes)
  BY <1>1, ReconciledFollows, ClosedFollows DEF RowFollows
<1>4. row' \in {row, Reconciled(row)}
  BY DEF PollApproval, ReadRow
<1>5. LeaseAgrees'
  BY <1>1, <1>2 DEF LeaseAgrees, LeaseLive
<1>6. \/ worker' \in {Failing(FALSE), Failing(TRUE), [Go("read") EXCEPT !.wait = "expired"]}
      \/ worker' = worker
      \/ /\ worker' = [Go("resolve") EXCEPT !.decision = Reconciled(row).decision]
         /\ row' = Reconciled(row) /\ Reconciled(row).status = "decision_recorded"
  BY DEF PollApproval, ReadRow, Arrives
<1>7. CASE Calm(worker') \/ SameTask(worker')
  <2>1. RowFollows(row, row')
    BY <1>3, <1>4
  <2>. QED
    BY <1>1, <1>2, <1>3, <1>5, <1>7, <2>1, StepKept DEF InTimeToStop
<1>8. CASE worker' = [Go("resolve") EXCEPT !.decision = Reconciled(row).decision]
           /\ row' = Reconciled(row) /\ Reconciled(row).status = "decision_recorded"
  <2>1. /\ row' \in Rows /\ row'.decision = row.decision /\ row'.status = "decision_recorded"
        /\ row.status = "decision_recorded" /\ row.decision # None
        /\ row.decision \in Decisions \cup {None}
    BY <1>1, <1>3, <1>8 DEF RowFollows, RowAgrees, Rows
  <2>2. worker' = [Go("resolve") EXCEPT !.decision = row.decision]
    BY <1>8, <2>1
  <2>3. /\ worker' \in Workers /\ worker'.at = "resolve" /\ worker'.what = None
        /\ worker'.decision = row.decision /\ worker'.pending = worker.pending
        /\ worker'.files = worker.files
    BY <1>1, <2>1, <2>2 DEF Go, Workers, Places, Posts
  <2>4. Typed' /\ Quiet' /\ InTimeToStop'
    BY <1>1, <1>2, <2>1, <2>3 DEF Typed, Quiet, InTimeToStop, Outlasts, Suffices
  <2>5. AskedOnce' /\ RowAgrees'
    BY <1>1, <1>2, <2>1, <2>3 DEF AskedOnce, RowAgrees, None
  <2>6. DecisionIsTheRows' /\ WaitsForARow'
    BY <1>1, <1>2, <2>1, <2>3 DEF DecisionIsTheRows, WaitsForARow, None
  <2>. QED
    BY <1>5, <2>4, <2>5, <2>6 DEF TurnInv, ApprovalInv
<1>. QED
  BY <1>1, <1>6, <1>7, <1>8, CalmFailing, CalmWait, Unmoved

\* The decision is handed to Hermes; a lost answer is looked up.
LEMMA InvResolveApproval ==
  ASSUME TurnInv, ResolveApproval
  PROVE  TurnInv'
<1>1. /\ worker \in Workers /\ row \in Rows /\ hermes \in Hermes /\ AsksOnce(hermes.out)
      /\ DecisionIsTheRows /\ worker.at = "resolve"
  BY DEF TurnInv, Typed, ApprovalInv, AskedOnce, ResolveApproval, At
<1>2. UNCHANGED <<turn, row, renewal>>
  BY DEF ResolveApproval
<1>3. worker.decision \in Decisions /\ worker.decision = row.decision
  BY <1>1 DEF DecisionIsTheRows, Workers
<1> DEFINE h == AfterResolve(hermes, worker.decision)
           late == [hermes EXCEPT !.late = worker.decision]
<1>4. HermesMoves(h) /\ h.run = hermes.run
  BY <1>3, ResolveMoves
<1>5. HermesMoves(late) /\ late.run = hermes.run
  BY <1>1, <1>3 DEF HermesMoves, Hermes
<1>6. \/ hermes' = h /\ worker' = [Go("read") EXCEPT !.wait = Receipt(h.guard)]
      \/ hermes' \in {h, late} /\ worker' = Go("reconcile")
      \/ hermes' = late /\ worker' = Failing(FALSE)
  BY DEF ResolveApproval
<1>7. Receipt(h.guard) \in {"expired", "cancelled", "decision"}
  BY DEF Receipt
<1>8. LooksUp(Go("reconcile"))
  BY <1>1 DEF LooksUp, Go, Workers, Places, Posts
<1> HIDE DEF h, late
<1>9. HermesMoves(hermes') /\ hermes'.run = hermes.run
  BY <1>4, <1>5, <1>6
<1>10. Calm(worker') \/ LooksUp(worker')
  BY <1>1, <1>6, <1>7, <1>8, CalmWait, CalmFailing
<1>. QED
  BY <1>2, <1>9, <1>10, HermesStepKept

\* The state of the action is looked up.
LEMMA InvReconcileApproval ==
  ASSUME TurnInv, ReconcileApproval
  PROVE  TurnInv'
<1>1. worker \in Workers /\ hermes \in Hermes /\ AsksOnce(hermes.out)
  BY DEF TurnInv, Typed, ApprovalInv, AskedOnce
<1>2. UNCHANGED <<turn, row, renewal>>
  BY DEF ReconcileApproval
<1>3. HermesMoves(hermes)
  BY <1>1 DEF HermesMoves
<1>4. HermesMoves(ApprovalStatus) /\ ApprovalStatus.run = hermes.run
  BY <1>3, SettleMoves DEF ApprovalStatus, Outcomes
<1>5. HermesMoves(hermes') /\ hermes'.run = hermes.run
  BY <1>3, <1>4 DEF ReconcileApproval
<1>6. Calm(worker')
  BY <1>1, CalmWait, CalmFailing DEF ReconcileApproval, Receipt
<1>. QED
  BY <1>2, <1>5, <1>6, HermesStepKept

\* The stream is closed before the outcome is sent.
LEMMA InvCloseStream ==
  ASSUME TurnInv, CloseStream
  PROVE  TurnInv'
<1>1. /\ worker \in Workers /\ hermes \in Hermes /\ row \in Rows /\ turn \in Turns
      /\ renewal \in Renewals /\ LeaseAgrees /\ Quiet
  BY DEF TurnInv, Typed
<1>2. UNCHANGED <<turn, row, renewal>> /\ hermes' = Closed
  BY DEF CloseStream
<1>3. worker.then \in {"stopped", "fail", "complete"}
  BY <1>1 DEF CloseStream, At, Quiet, Workers
<1> DEFINE v == IF worker.then = "stopped" THEN Go("stopped") ELSE Finish(worker.then)
<1>4. /\ v \in Workers /\ v.at \in {"stopped", "finish"} /\ v.what \in {None, "fail", "complete"}
      /\ v.at = "finish" => v.what \in {"fail", "complete"}
  BY <1>1, <1>3 DEF Go, Finish, Workers, Places, Posts, None
<1>5. worker' = [v EXCEPT !.then = None, !.pending = FALSE, !.decision = None, !.wait = None]
  BY DEF CloseStream
<1> HIDE DEF v
<1>6. /\ worker' \in Workers /\ worker'.at = v.at /\ worker'.what = v.what
      /\ worker'.decision = None
  BY <1>4, <1>5 DEF Workers
<1>7. Free(worker')
  BY <1>4, <1>6 DEF Free, None
<1>8. RowFollows(row, row') /\ LeaseAgrees'
  BY <1>1, <1>2 DEF RowFollows, LeaseAgrees, LeaseLive
<1>. QED
  BY <1>1, <1>2, <1>4, <1>6, <1>7, <1>8, ClosedFollows, StillKept

\* The outcome is sent; Hermes does not run.
LEMMA InvPostFinish ==
  ASSUME TurnInv, NEW answer \in Answers, PostFinish(answer)
  PROVE  TurnInv'
<1>1. /\ worker \in Workers /\ hermes \in Hermes /\ row \in Rows /\ turn \in Turns
      /\ renewal \in Renewals /\ LeaseAgrees /\ Quiet
  BY DEF TurnInv, Typed
<1>2. /\ UNCHANGED <<hermes, renewal>> /\ worker.at = "finish"
      /\ hermes.run # "running" /\ worker.what \in {"complete", "fail"}
  BY <1>1 DEF PostFinish, At, Quiet
<1>3. End(Outcome(worker.what), worker.what) \/ UNCHANGED <<turn, row>>
  BY DEF PostFinish
<1>4. turn' \in Turns /\ LeaseAgrees' /\ RowFollows(row, row')
  <2>1. CASE End(Outcome(worker.what), worker.what)
    <3>1. /\ Outcome(worker.what) \in {"queued", "succeeded", "failed"}
          /\ worker.what \in {"complete", "fail", "stopped", "expiry"}
      BY <1>2 DEF Outcome
    <3>. QED
      BY <2>1, <3>1, EndFollows
  <2>2. CASE UNCHANGED <<turn, row>>
    BY <1>1, <2>2 DEF LeaseAgrees, LeaseLive, RowFollows
  <2>. QED
    BY <1>3, <2>1, <2>2
<1>5. worker' \in {Go("finally"), Failing(TRUE), Failing(FALSE), Retry,
                    CloseThen([worker EXCEPT !.lost = TRUE], "stopped")}
  BY DEF PostFinish
<1>6. /\ Free(worker') /\ (worker'.at = "close" => worker'.then # None)
      /\ worker'.at = "finish" => worker'.what \in {"complete", "fail"}
  <2>1. Calm(Go("finally")) /\ Calm(Failing(TRUE)) /\ Calm(Failing(FALSE))
    BY <1>1, CalmGo, CalmFailing
  <2>2. Calm(CloseThen([worker EXCEPT !.lost = TRUE], "stopped"))
    <3>1. LET v == [worker EXCEPT !.lost = TRUE]
          IN  v \in Workers /\ v.files = worker.files /\ v.decision = worker.decision
      BY <1>1 DEF Workers
    <3>. QED
      BY <3>1, CalmClose
  <2>3. /\ Retry \in Workers /\ Retry.at = "finish" /\ Retry.what = worker.what
        /\ Retry.decision = worker.decision
    BY <1>1, <1>2 DEF Retry, Workers
  <2>4. Free(Retry)
    BY <1>2, <2>3 DEF Free
  <2>. QED
    BY <1>2, <1>5, <2>1, <2>2, <2>3, <2>4 DEF Calm
<1>. QED
  BY <1>1, <1>2, <1>4, <1>6, ClosedFollows, StillKept

\* The stop is reported, whether or not Hermes still runs.
LEMMA InvPostStopped ==
  ASSUME TurnInv, NEW answer \in Answers, PostStopped(answer)
  PROVE  TurnInv'
<1>1. /\ worker \in Workers /\ hermes \in Hermes /\ row \in Rows /\ turn \in Turns
      /\ renewal \in Renewals /\ LeaseAgrees /\ InTimeToStop
  BY DEF TurnInv, Typed
<1>2. UNCHANGED <<hermes, renewal>> /\ worker' = Go("finally")
  BY DEF PostStopped
<1>3. Calm(worker') /\ HermesFollows(hermes')
  BY <1>1, <1>2, CalmGo, ClosedFollows
<1>4. CASE UNCHANGED <<turn, row>>
  BY <1>2, <1>3, <1>4, WorkerKept
<1>5. CASE End(StatusWhenGivenUp, "stopped")
  <2>1. turn' \in Turns /\ LeaseAgrees' /\ RowFollows(row, row') /\ turn'.ended = "stopped"
    BY <1>5, GivenUp, EndFollows
  <2>. QED
    BY <1>1, <1>2, <1>3, <2>1, StepKept
<1>. QED
  BY <1>4, <1>5 DEF PostStopped, StopAccepted

\* The task stops waiting, ends, is cancelled, or dies with its process.
LEMMA InvTaskEnds ==
  ASSUME TurnInv, StopPolling \/ Finally \/ CancelTask \/ CrashWorker
  PROVE  TurnInv'
<1>1. worker \in Workers /\ hermes \in Hermes /\ renewal \in Renewals
  BY DEF TurnInv, Typed
<1>2. Calm(worker')
  BY <1>1, CalmGo, CalmWait, CalmEnded, CalmClose
  DEF StopPolling, Finally, CancelTask, CrashWorker
<1>3. UNCHANGED <<turn, row>>
  BY DEF StopPolling, Finally, CancelTask, CrashWorker
<1>4. \/ UNCHANGED <<hermes, renewal>>
      \/ hermes' = Closed /\ renewal' = Off
  BY DEF StopPolling, Finally, CancelTask, CrashWorker
<1>5. Off \in Renewals
  BY DEF Off, Renewals
<1>. QED
  BY <1>1, <1>2, <1>3, <1>4, <1>5, ClosedFollows, WorkerKept

-----------------------------------------------------------------------------
(* The theorems.                                                           *)

\* A turn that is queued satisfies the invariant.
LEMMA InvInit == Init => TurnInv
<1>. SUFFICES ASSUME Init PROVE TurnInv
  OBVIOUS
<1>1. 0 \in 0..LeaseTicks /\ <<>> \in Seq(Events)
  BY TurnAssumption
<1>2. turn \in Turns /\ row \in Rows
  BY <1>1 DEF Init, Turns, Rows, RowStates
<1>3. hermes \in Hermes /\ renewal \in Renewals
  BY <1>1 DEF Init, NoRun, Off, Hermes, Renewals, None
<1>4. worker \in Workers
  BY DEF Init, Idle, Workers, Places, Posts
<1>5. LeaseAgrees /\ Quiet /\ InTimeToStop
  BY DEF Init, LeaseAgrees, LeaseLive, Quiet, InTimeToStop, Idle, NoRun
<1>6. AskedOnce /\ RowAgrees /\ DecisionIsTheRows /\ WaitsForARow
  BY EmptyAsks DEF Init, AskedOnce, RowAgrees, DecisionIsTheRows, WaitsForARow, Idle, NoRun, None
<1>. QED
  BY <1>2, <1>3, <1>4, <1>5, <1>6 DEF TurnInv, Typed, ApprovalInv

\* Every step of the task keeps the invariant.
LEMMA InvTask == ASSUME TurnInv, TaskStep PROVE TurnInv'
  BY InvClaim, InvForgetClaim, InvPrepare, InvOpenStream, InvPostEvent, InvPostFinish,
     InvPostStopped, InvPollApproval, InvReadEvent, InvTaskEnds, InvResolveApproval,
     InvReconcileApproval, InvCloseStream
  DEF TaskStep

\* The invariant is inductive.
LEMMA InvNext == TurnInv /\ [Next]_vars => TurnInv'
<1>. SUFFICES ASSUME TurnInv, [Next]_vars PROVE TurnInv'
  OBVIOUS
<1>1. CASE DeadlinesPass \/ Settled \/ UNCHANGED vars
  <2>1. UNCHANGED <<turn, row, hermes, worker, renewal>>
    BY <1>1 DEF DeadlinesPass, PassDeadline, Settled, vars
  <2>. QED
    BY <2>1, InvUnchanged
<1>2. CASE CancelTask \/ CrashWorker
  BY <1>2, InvTaskEnds
<1>3. CASE HermesStep \/ RunBreaks
  BY <1>3, InvHermes
<1>4. CASE \E d \in Decisions : RecordDecision(d)
  BY <1>4, InvRecordDecision
<1>. QED
  BY <1>1, <1>2, <1>3, <1>4, InvTask, InvRenewal, InvTick, InvReconcileExpiredLease,
     InvBeginDeletion DEF Next

\* In every reachable state the lease, the renewal, the stream, the worker and
\* the approval row agree as the parts of the invariant say (_run_claim,
\* _renew_loop and approvals.py together).
THEOREM TurnInvariant == Spec => []TurnInv
<1>1. Init => TurnInv
  BY InvInit
<1>2. TurnInv /\ [Next]_vars => TurnInv'
  BY InvNext
<1>. QED
  BY <1>1, <1>2, PTL DEF Spec

\* While Hermes works on a turn without files, the renewal watches it and its
\* lease has at least a tick left, unless the worker reported the stop itself or
\* opened the stream late and was not answered since, for every lease length,
\* renewal interval and request timeout that fit into one lease and however long
\* the setup took: no other holder works on the session meanwhile (_renew_loop
\* closes the stream in time).
THEOREM HermesStopsInTime == Spec => []HermesStopsBeforeExpiry
<1>1. TurnInv => HermesStopsBeforeExpiry
  <2>. SUFFICES ASSUME TurnInv, Running, ~worker.files, turn.ended # "stopped"
               PROVE  /\ renewal.at # "off"
                      /\ ~renewal.late => turn.status = "running" /\ turn.left >= 1
    BY DEF HermesStopsBeforeExpiry
  <2>1. turn \in Turns /\ renewal \in Renewals /\ LeaseAgrees /\ Outlasts(turn.left, renewal)
    BY DEF TurnInv, Typed, InTimeToStop, Running
  <2>2. renewal.at # "off" /\ Suffices(turn.left, renewal) => turn.left >= 1
    BY <2>1, TurnAssumption DEF Suffices, Turns, Renewals
  <2>3. turn.left >= 1 => turn.status = "running"
    BY <2>1 DEF LeaseAgrees, Turns
  <2>. QED
    BY <2>1, <2>2, <2>3 DEF Outlasts
<1>. QED
  BY <1>1, TurnInvariant, PTL

\* What Foundry records of an approval is what Hermes did, for every sequence of
\* lost, late and refused calls, deadlines, deletions and crashes: an applied
\* decision took effect, an expired or cancelled request never let the action run,
\* and no action runs that nobody approved (approvals.py with _run_claim).
THEOREM ApprovalsAreTrue == Spec => []ApprovalOutcomeIsTrue
<1>1. TurnInv => ApprovalOutcomeIsTrue
  <2>. SUFFICES ASSUME TurnInv PROVE ApprovalOutcomeIsTrue
    OBVIOUS
  <2>1. Typed /\ RowAgrees /\ DecisionIsTheRows /\ WaitsForARow
    BY DEF TurnInv, ApprovalInv
  <2>2. TypeOK
    BY <2>1 DEF TypeOK, Typed, Turns, Rows, RowStates, Hermes, Renewals, WaitsForARow, At
  <2>3. row.status \in {"expired", "cancelled"} => hermes.guard # "approved"
    BY <2>1 DEF RowAgrees, DecisionIsTheRows, None
  <2>. QED
    BY <2>1, <2>2, <2>3 DEF ApprovalOutcomeIsTrue, RowAgrees, DecisionIsTheRows
<1>. QED
  BY <1>1, TurnInvariant, PTL
=============================================================================
