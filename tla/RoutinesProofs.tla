--------------------------- MODULE RoutinesProofs ---------------------------
(***************************************************************************)
(* Theorems about Routines, for any runs and routines and every bound on   *)
(* claims, approvals, events, Machine generations and releases; and, in    *)
(* its last part, about WorkerLoop, for every set of messages, every       *)
(* number of slots above one and every number of faults.                   *)
(***************************************************************************)
EXTENDS Routines, WorkerLoop, FiniteSetTheorems, WellFoundedInduction, TLAPS

Rows == [status : RunStatuses,
         exec : {"none", "queued", "running", "succeeded", "failed", "cancelled"},
         attempt : {"none", "queued", "running", "waiting", "succeeded", "failed",
                    "cancelled", "unknown"},
         gen : 0..MaxGeneration, lease : {"none", "active", "released", "fenced"},
         late : BOOLEAN, claims : Nat, current : BOOLEAN, session : BOOLEAN,
         dispatched : BOOLEAN, sequence : 0..(MaxSequence + 1), results : Nat,
         approval : [Approvals -> ApprovalStatuses], due : BOOLEAN]

-----------------------------------------------------------------------------
(* The inductive invariant, about the rows of one run.                     *)

\* The approvals of a run against its status.  Waiting is for one request.
ApprovalsOK(t) ==
    /\ t.status = "waiting" =>
          \E a \in Approvals : /\ t.approval[a] = "pending"
                               /\ \A b \in Approvals : t.approval[b] = "pending" => b = a
    /\ \A a \in Approvals :
          /\ t.approval[a] = "pending" => t.status = "waiting"
          /\ t.approval[a] = "rejected" => t.status = "cancelled"
          /\ t.approval[a] = "expired" => t.status = "expired"
          /\ t.approval[a] = "authorizing" => t.status \notin {"cancelled", "expired"}

\* A run that waits to be claimed the first time, or again from the start,
\* has not reached Hermes.
StatusOK(t) ==
    /\ t.results = IF t.status \in Terminal THEN 1 ELSE 0
    /\ t.lease = "active" =>
          t.status = "working" /\ t.exec = "running" /\ t.attempt = "running" /\ t.current
    /\ t.status \in {"none", "queued"} => ~t.session /\ ~t.dispatched

RunOK(t) == t \in Rows /\ ApprovalsOK(t) /\ StatusOK(t)

RoutineInv ==
    /\ gen \in 1..MaxGeneration /\ phase \in {"idle", "stopping", "starting"}
    /\ run \in [Runs -> Rows]
    /\ \A r \in Runs : RunOK(run[r])

-----------------------------------------------------------------------------
(* Operators on the rows of a run.                                         *)

\* The bounds are numbers and the runs are numbered.
LEMMA Bounds ==
    /\ MaxSequence \in Nat /\ MaxGeneration \in Nat /\ MaxGeneration > 0
    /\ Runs \in SUBSET Nat
    BY RunsAssumption

\* Rows that agree on everything but the lease and its acquisition.
SameWork(t, u) ==
    /\ u.status = t.status /\ u.exec = t.exec /\ u.attempt = t.attempt /\ u.gen = t.gen
    /\ u.claims = t.claims /\ u.session = t.session /\ u.dispatched = t.dispatched
    /\ u.sequence = t.sequence /\ u.results = t.results /\ u.approval = t.approval

\* A lease that ends changes nothing of the work.
LEMMA LeftFields ==
    ASSUME NEW t \in Rows, NEW state \in {"released", "fenced"}
    PROVE  /\ Left(t, state) \in Rows /\ Left(t, state).lease = state
           /\ SameWork(t, Left(t, state))
           /\ Retired(t, state) \in Rows /\ Retired(t, state).lease = state
           /\ SameWork(t, Retired(t, state))
    <1>1. Left(t, state) \in Rows /\ Left(t, state).lease = state
        BY DEF Left, Rows
    <1>2. SameWork(t, Left(t, state))
        BY DEF Left, Rows, SameWork
    <1>3. Retired(t, state) \in Rows /\ Retired(t, state).lease = state
        BY DEF Retired, Left, Rows
    <1>4. SameWork(t, Retired(t, state))
        BY DEF Retired, Left, Rows, SameWork
    <1> QED
        BY <1>1, <1>2, <1>3, <1>4

\* A lease row that leaves its live state disturbs nothing else.
LEMMA LeftOK ==
    ASSUME NEW t, RunOK(t), NEW state \in {"released", "fenced"}
    PROVE  RunOK(Left(t, state)) /\ RunOK(Retired(t, state))
    <1>1. ASSUME NEW u \in Rows, SameWork(t, u), u.lease # "active"
          PROVE  RunOK(u)
        BY <1>1 DEF RunOK, ApprovalsOK, StatusOK, SameWork
    <1> QED
        BY <1>1, LeftFields DEF RunOK

\* What the record of a result writes.
LEMMA RecordedFields ==
    ASSUME NEW t \in Rows, NEW outcome \in {"changed", "failed"},
           NEW sequence \in 0..(MaxSequence + 1)
    PROVE  LET u == Recorded(t, outcome, sequence)
               final == IF outcome = "failed" THEN "failed" ELSE "succeeded"
           IN  /\ u \in Rows
               /\ u.status = final /\ u.exec = final /\ u.attempt = final
               /\ u.results = t.results + 1
               /\ u.lease = (IF t.lease = "active" THEN "released" ELSE t.lease)
               /\ u.claims = t.claims /\ u.gen = t.gen
               /\ u.session = t.session /\ u.dispatched = t.dispatched
               /\ \A a \in Approvals :
                     u.approval[a] = IF outcome = "failed" /\ t.approval[a] = "authorizing"
                                     THEN "cancelled" ELSE t.approval[a]
    <1> DEFINE final == IF outcome = "failed" THEN "failed" ELSE "succeeded"
               s == IF t.lease = "active" THEN Retired(t, "released") ELSE t
               A == [a \in Approvals |->
                       IF outcome = "failed" /\ t.approval[a] = "authorizing"
                       THEN "cancelled" ELSE t.approval[a]]
               u == [s EXCEPT !.status = final, !.attempt = final, !.exec = final,
                              !.results = t.results + 1, !.sequence = sequence,
                              !.approval = A]
    <1>1. /\ s \in Rows /\ s.approval = t.approval /\ s.results = t.results
          /\ s.lease = (IF t.lease = "active" THEN "released" ELSE t.lease)
          /\ s.claims = t.claims /\ s.gen = t.gen
          /\ s.session = t.session /\ s.dispatched = t.dispatched
        BY LeftFields DEF SameWork
    <1>2. A \in [Approvals -> ApprovalStatuses]
        BY DEF Rows, ApprovalStatuses
    <1>3. t.results + 1 \in Nat
        BY DEF Rows
    <1>4. final \in {"succeeded", "failed"} /\ final \in RunStatuses
        BY DEF RunStatuses
    <1>5. Recorded(t, outcome, sequence) = u
        BY <1>1 DEF Recorded
    <1> HIDE DEF s, A, final
    <1>6. /\ u \in Rows
          /\ u.status = final /\ u.exec = final /\ u.attempt = final
          /\ u.results = t.results + 1 /\ u.lease = s.lease
          /\ u.claims = s.claims /\ u.gen = s.gen
          /\ u.session = s.session /\ u.dispatched = s.dispatched /\ u.approval = A
        BY <1>1, <1>2, <1>3, <1>4 DEF Rows
    <1> HIDE DEF u
    <1> QED
        BY <1>1, <1>5, <1>6 DEF A, final

\* A run without a result and without a request that waits may fail.
LEMMA FailedOK ==
    ASSUME NEW t \in Rows, t.results = 0, t.sequence <= MaxSequence,
           NEW status \in {"failed", "cancelled", "expired"},
           NEW final \in {"failed", "cancelled"},
           \A a \in Approvals : /\ t.approval[a] # "pending"
                                /\ t.approval[a] = "rejected" => status = "cancelled"
                                /\ t.approval[a] = "expired" => status = "expired"
    PROVE  LET u == FailedAs(t, status, final)
           IN  /\ RunOK(u) /\ u.status = status /\ u.exec = final /\ u.attempt = final
               /\ u.lease # "active" /\ u.claims = t.claims
    <1> DEFINE v == Recorded(t, "failed", NextEventSequence(t))
               u == [v EXCEPT !.status = status, !.exec = final, !.attempt = final]
    <1>1. NextEventSequence(t) \in 0..(MaxSequence + 1)
        BY Bounds DEF NextEventSequence, Rows
    <1>2. /\ v \in Rows /\ v.results = 1 /\ v.lease # "active" /\ v.claims = t.claims
          /\ \A a \in Approvals :
                v.approval[a] = IF t.approval[a] = "authorizing"
                                THEN "cancelled" ELSE t.approval[a]
        BY <1>1, RecordedFields
    <1>3. FailedAs(t, status, final) = u
        BY DEF FailedAs
    <1> HIDE DEF v
    <1>4. /\ u \in Rows /\ u.results = 1 /\ u.lease # "active" /\ u.claims = t.claims
          /\ u.status = status /\ u.exec = final /\ u.attempt = final
          /\ u.approval = v.approval
        <2>1. status \in RunStatuses
            BY DEF RunStatuses
        <2> QED
            BY <1>2, <2>1 DEF Rows
    <1> HIDE DEF u
    <1>5. ApprovalsOK(u)
        BY <1>2, <1>4 DEF ApprovalsOK
    <1>6. StatusOK(u)
        BY <1>4 DEF StatusOK, Terminal
    <1> QED
        BY <1>3, <1>4, <1>5, <1>6 DEF RunOK

\* Rows with the same work are as good, if a live lease is the current one.
LEMMA SameOK ==
    ASSUME NEW t, RunOK(t), NEW u \in Rows, SameWork(t, u),
           u.lease = "active" => t.lease = "active" /\ u.current
    PROVE  RunOK(u)
    BY DEF RunOK, ApprovalsOK, StatusOK, SameWork

\* A run that has a lease is at work: it has no result and waits for nobody.
LEMMA ActiveRun ==
    ASSUME NEW t, RunOK(t), t.lease = "active"
    PROVE  /\ t \in Rows /\ t.status = "working" /\ t.exec = "running"
           /\ t.attempt = "running" /\ t.results = 0 /\ t.current
           /\ \A a \in Approvals : t.approval[a] \notin {"pending", "rejected", "expired"}
    BY DEF RunOK, StatusOK, ApprovalsOK, Terminal

\* The same for a run whose request waits.
LEMMA WaitingRun ==
    ASSUME NEW t, RunOK(t), NEW a \in Approvals, t.approval[a] = "pending"
    PROVE  /\ t \in Rows /\ t.status = "waiting" /\ t.results = 0 /\ t.lease # "active"
           /\ \A b \in Approvals \ {a} : t.approval[b] \notin {"pending", "rejected", "expired"}
    <1>1. t \in Rows /\ t.status = "waiting"
        BY DEF RunOK, ApprovalsOK
    <1>2. t.results = 0 /\ t.lease # "active"
        BY <1>1 DEF RunOK, StatusOK, Terminal
    <1>3. \A b \in Approvals \ {a} : t.approval[b] \notin {"pending", "rejected", "expired"}
        BY <1>1 DEF RunOK, ApprovalsOK
    <1> QED
        BY <1>1, <1>2, <1>3

-----------------------------------------------------------------------------
(* What each step makes of the rows of its run.  Only a claim acquires.    *)

Keeps(t, u) == RunOK(u) /\ u.claims = t.claims

\* The row of an accepted run.
LEMMA OKAccept ==
    ASSUME gen \in 0..MaxGeneration
    PROVE  LET u == [NoRun EXCEPT !.status = "queued", !.exec = "queued",
                               !.attempt = "queued", !.gen = gen]
           IN  RunOK(u) /\ u.claims = 0
    <1> DEFINE A == [a \in Approvals |-> "none"]
               u == [NoRun EXCEPT !.status = "queued", !.exec = "queued",
                                  !.attempt = "queued", !.gen = gen]
    <1>1. A \in [Approvals -> ApprovalStatuses] /\ \A a \in Approvals : A[a] = "none"
        BY DEF ApprovalStatuses
    <1>2. 0 \in 0..(MaxSequence + 1) /\ "queued" \in RunStatuses
        BY Bounds DEF RunStatuses
    <1>3. NoRun.approval = A
        BY DEF NoRun
    <1> HIDE DEF A
    <1>4. /\ u \in Rows /\ u.approval = A /\ u.status = "queued" /\ u.results = 0
          /\ u.lease = "none" /\ u.claims = 0 /\ ~u.session /\ ~u.dispatched
        <2>1. NoRun = [status |-> "none", exec |-> "none", attempt |-> "none", gen |-> 0,
                       lease |-> "none", late |-> FALSE, claims |-> 0, current |-> FALSE,
                       session |-> FALSE, dispatched |-> FALSE, sequence |-> 0,
                       results |-> 0, approval |-> A, due |-> FALSE]
            BY DEF NoRun, A
        <2> QED
            BY <1>1, <1>2, <2>1 DEF Rows
    <1> HIDE DEF u
    <1>5. ApprovalsOK(u)
        BY <1>1, <1>4 DEF ApprovalsOK
    <1>6. StatusOK(u)
        BY <1>4 DEF StatusOK, Terminal
    <1> QED
        BY <1>4, <1>5, <1>6 DEF RunOK, u

\* The clock: a lease or a request is overdue.
LEMMA OKLate ==
    ASSUME NEW t, RunOK(t)
    PROVE  Keeps(t, [t EXCEPT !.late = TRUE]) /\ Keeps(t, [t EXCEPT !.due = TRUE])
    <1>1. t \in Rows /\ (t.lease = "active" => t.current)
        BY DEF RunOK, StatusOK
    <1>2. Keeps(t, [t EXCEPT !.late = TRUE])
        <2> DEFINE u == [t EXCEPT !.late = TRUE]
        <2>1. u \in Rows /\ SameWork(t, u) /\ u.lease = t.lease /\ u.current = t.current
            BY <1>1 DEF Rows, SameWork
        <2> HIDE DEF u
        <2>2. RunOK(u)
            BY <1>1, <2>1, SameOK
        <2> QED
            BY <2>1, <2>2 DEF u, Keeps, SameWork
    <1>3. Keeps(t, [t EXCEPT !.due = TRUE])
        <2> DEFINE u == [t EXCEPT !.due = TRUE]
        <2>1. u \in Rows /\ SameWork(t, u) /\ u.lease = t.lease /\ u.current = t.current
            BY <1>1 DEF Rows, SameWork
        <2> HIDE DEF u
        <2>2. RunOK(u)
            BY <1>1, <2>1, SameOK
        <2> QED
            BY <2>1, <2>2 DEF u, Keeps, SameWork
    <1> QED
        BY <1>2, <1>3

\* The session is bound.
LEMMA OKBindSession ==
    ASSUME NEW t, RunOK(t), t.lease = "active"
    PROVE  Keeps(t, [t EXCEPT !.session = TRUE])
    <1> DEFINE u == [t EXCEPT !.session = TRUE]
    <1>1. t \in Rows /\ t.status = "working"
        BY ActiveRun
    <1>2. /\ u \in Rows /\ u.status = t.status /\ u.exec = t.exec /\ u.attempt = t.attempt
          /\ u.lease = t.lease /\ u.current = t.current /\ u.results = t.results
          /\ u.approval = t.approval /\ u.claims = t.claims
        BY <1>1 DEF Rows
    <1> HIDE DEF u
    <1>3. RunOK(u)
        BY <1>1, <1>2 DEF RunOK, ApprovalsOK, StatusOK
    <1> QED
        BY <1>2, <1>3 DEF u, Keeps

\* An event is appended.
LEMMA OKAppendEvent ==
    ASSUME NEW t, RunOK(t), t.lease = "active", NEW d \in BOOLEAN,
           NextEventSequence(t) <= MaxSequence
    PROVE  Keeps(t, [t EXCEPT !.sequence = @ + 1, !.dispatched = @ \/ d])
    <1>1. t \in Rows /\ t.status = "working"
        BY ActiveRun
    <1>2. PICK s \in 0..(MaxSequence + 1) : s = t.sequence + 1
        BY <1>1, Bounds DEF NextEventSequence, Rows
    <1>3. PICK e \in BOOLEAN : e = (t.dispatched \/ d)
        BY <1>1 DEF Rows
    <1> DEFINE u == [t EXCEPT !.sequence = s, !.dispatched = e]
    <1>4. /\ u \in Rows /\ u.status = t.status /\ u.exec = t.exec /\ u.attempt = t.attempt
          /\ u.lease = t.lease /\ u.current = t.current /\ u.results = t.results
          /\ u.approval = t.approval /\ u.claims = t.claims
        BY <1>1 DEF Rows
    <1>5. u = [t EXCEPT !.sequence = @ + 1, !.dispatched = @ \/ d]
        BY <1>2, <1>3
    <1> HIDE DEF u
    <1>6. RunOK(u)
        BY <1>1, <1>4 DEF RunOK, ApprovalsOK, StatusOK
    <1> QED
        BY <1>4, <1>5, <1>6 DEF Keeps

\* A result is recorded under a live lease.
LEMMA OKResult ==
    ASSUME NEW t, RunOK(t), t.lease = "active", NEW outcome \in {"changed", "failed"},
           MayRecord(t, NextEventSequence(t))
    PROVE  Keeps(t, Recorded(t, outcome, NextEventSequence(t)))
    <1> DEFINE u == Recorded(t, outcome, NextEventSequence(t))
    <1>1. NextEventSequence(t) \in 0..(MaxSequence + 1)
        BY Bounds DEF MayRecord
    <1>2. t \in Rows
        BY DEF RunOK
    <1>3. /\ u \in Rows /\ u.status \in {"succeeded", "failed"}
          /\ u.results = t.results + 1 /\ u.lease = "released" /\ u.claims = t.claims
          /\ \A a \in Approvals : u.approval[a] = t.approval[a] \/ u.approval[a] = "cancelled"
        BY <1>1, <1>2, RecordedFields
    <1> HIDE DEF u
    <1>4. ApprovalsOK(u)
        BY <1>3, ActiveRun DEF ApprovalsOK
    <1>5. StatusOK(u)
        BY <1>3, ActiveRun DEF StatusOK, Terminal
    <1> QED
        BY <1>3, <1>4, <1>5 DEF RunOK, Keeps, u

\* There is room for one more event when a result may be recorded.
LEMMA RoomToRecord ==
    ASSUME NEW t \in Rows, MayRecord(t, NextEventSequence(t))
    PROVE  t.sequence <= MaxSequence
    BY Bounds DEF MayRecord, NextEventSequence, Rows

\* A run is stopped.
LEMMA OKStopped ==
    ASSUME NEW t, RunOK(t), t.lease = "active", MayRecord(t, NextEventSequence(t))
    PROVE  Keeps(t, FailedAs(t, "failed", "failed"))
    BY ActiveRun, RoomToRecord, FailedOK DEF Keeps

\* A request that ends without approval, and the failure of its run.
LEMMA OKEnds ==
    ASSUME NEW t, RunOK(t), NEW a \in Approvals, t.approval[a] = "pending",
           MayRecord(t, NextEventSequence(t)), NEW due \in BOOLEAN,
           NEW as \in {"rejected", "expired", "cancelled"},
           NEW status \in {"cancelled", "expired"},
           as = "rejected" => status = "cancelled", as = "expired" => status = "expired",
           NEW final \in {"failed", "cancelled"}
    PROVE  LET u == FailedAs([t EXCEPT !.approval[a] = as, !.due = due], status, final)
           IN  Keeps(t, u) /\ u.lease # "active"
    <1> DEFINE A == [t.approval EXCEPT ![a] = as]
               s == [t EXCEPT !.approval = A, !.due = due]
    <1>1. /\ t \in Rows /\ t.status = "waiting" /\ t.results = 0
          /\ \A b \in Approvals \ {a} : t.approval[b] \notin {"pending", "rejected", "expired"}
        BY WaitingRun
    <1>2. t.approval \in [Approvals -> ApprovalStatuses] /\ as \in ApprovalStatuses
        BY <1>1 DEF Rows, ApprovalStatuses
    <1>3. /\ A \in [Approvals -> ApprovalStatuses] /\ A[a] = as
          /\ \A b \in Approvals \ {a} : A[b] = t.approval[b]
        BY <1>2
    <1>4. [t EXCEPT !.approval[a] = as, !.due = due] = s
        BY <1>1 DEF Rows
    <1> HIDE DEF A
    <1>5. /\ s \in Rows /\ s.results = t.results /\ s.sequence = t.sequence
          /\ s.approval = A /\ s.claims = t.claims
        BY <1>1, <1>3 DEF Rows
    <1> HIDE DEF s
    <1>6. s.sequence <= MaxSequence
        BY <1>1, <1>5, RoomToRecord
    <1>7. \A b \in Approvals : /\ s.approval[b] # "pending"
                               /\ s.approval[b] = "rejected" => status = "cancelled"
                               /\ s.approval[b] = "expired" => status = "expired"
        BY <1>1, <1>3, <1>5
    <1>8. /\ RunOK(FailedAs(s, status, final))
          /\ FailedAs(s, status, final).claims = s.claims
          /\ FailedAs(s, status, final).lease # "active"
        BY <1>1, <1>5, <1>6, <1>7, FailedOK
    <1> QED
        BY <1>4, <1>5, <1>8 DEF Keeps

\* An approval that the person gave.
LEMMA OKApproved ==
    ASSUME NEW t, RunOK(t), NEW a \in Approvals, t.approval[a] = "pending"
    PROVE  Keeps(t, [t EXCEPT !.approval[a] = "authorizing", !.status = "working",
                           !.exec = "running", !.attempt = "queued"])
    <1> DEFINE A == [t.approval EXCEPT ![a] = "authorizing"]
               u == [t EXCEPT !.approval = A, !.status = "working",
                              !.exec = "running", !.attempt = "queued"]
    <1>1. /\ t \in Rows /\ t.status = "waiting" /\ t.results = 0 /\ t.lease # "active"
          /\ \A b \in Approvals \ {a} : t.approval[b] \notin {"pending", "rejected", "expired"}
        BY WaitingRun
    <1>2. t.approval \in [Approvals -> ApprovalStatuses] /\ "working" \in RunStatuses
        BY <1>1 DEF Rows, RunStatuses
    <1>3. /\ A \in [Approvals -> ApprovalStatuses] /\ A[a] = "authorizing"
          /\ \A b \in Approvals \ {a} : A[b] = t.approval[b]
        BY <1>2 DEF ApprovalStatuses
    <1>4. [t EXCEPT !.approval[a] = "authorizing", !.status = "working",
                    !.exec = "running", !.attempt = "queued"] = u
        BY <1>1 DEF Rows
    <1> HIDE DEF A
    <1>5. /\ u \in Rows /\ u.results = 0 /\ u.lease = t.lease
          /\ u.approval = A /\ u.claims = t.claims /\ u.status = "working"
        BY <1>1, <1>2, <1>3 DEF Rows
    <1> HIDE DEF u
    <1>6. ApprovalsOK(u)
        BY <1>1, <1>3, <1>5 DEF ApprovalsOK
    <1>7. StatusOK(u)
        BY <1>1, <1>5 DEF StatusOK, Terminal
    <1> QED
        BY <1>4, <1>5, <1>6, <1>7 DEF RunOK, Keeps

\* A request for approval gives the lease back.
LEMMA OKRequest ==
    ASSUME NEW t, RunOK(t), NEW a \in Approvals, t.lease = "active",
           NextEventSequence(t) <= MaxSequence
    PROVE  Keeps(t, [Retired(t, "released") EXCEPT
                     !.approval[a] = "pending", !.status = "waiting",
                     !.attempt = "waiting", !.sequence = NextEventSequence(t)])
    <1> DEFINE s == Retired(t, "released")
               A == [s.approval EXCEPT ![a] = "pending"]
               n == NextEventSequence(t)
               u == [s EXCEPT !.approval = A, !.status = "waiting",
                              !.attempt = "waiting", !.sequence = n]
    <1>1. /\ t \in Rows /\ t.status = "working" /\ t.results = 0
          /\ \A b \in Approvals : t.approval[b] \notin {"pending", "rejected", "expired"}
        BY ActiveRun
    <1>2. /\ s \in Rows /\ s.lease = "released" /\ s.results = 0
          /\ s.approval = t.approval /\ s.claims = t.claims
        BY <1>1, LeftFields DEF SameWork
    <1>3. n \in 0..(MaxSequence + 1)
        BY <1>1, Bounds DEF NextEventSequence, Rows
    <1>4. s.approval \in [Approvals -> ApprovalStatuses] /\ "waiting" \in RunStatuses
        BY <1>2 DEF Rows, RunStatuses
    <1>5. /\ A \in [Approvals -> ApprovalStatuses] /\ A[a] = "pending"
          /\ \A b \in Approvals \ {a} : A[b] = t.approval[b]
        BY <1>2, <1>4 DEF ApprovalStatuses
    <1> HIDE DEF s, n
    <1>6. [s EXCEPT !.approval[a] = "pending", !.status = "waiting",
                    !.attempt = "waiting", !.sequence = n] = u
        BY <1>2 DEF Rows
    <1> HIDE DEF A
    <1>7. /\ u \in Rows /\ u.results = 0 /\ u.lease = s.lease
          /\ u.approval = A /\ u.claims = s.claims /\ u.status = "waiting"
        BY <1>2, <1>3, <1>4, <1>5 DEF Rows
    <1> HIDE DEF u
    <1>8. ApprovalsOK(u)
        BY <1>1, <1>5, <1>7 DEF ApprovalsOK
    <1>9. StatusOK(u)
        BY <1>2, <1>7 DEF StatusOK, Terminal
    <1> QED
        BY <1>2, <1>6, <1>7, <1>8, <1>9 DEF RunOK, Keeps, s, n

\* The fence takes the lease and the attempt and leaves the run's own row.
LEMMA OKFenced ==
    ASSUME NEW t, RunOK(t)
    PROVE  Keeps(t, Fenced(t))
    <1>1. CASE t.lease = "active" /\ t.gen = gen - 1
        <2> DEFINE s == Left(t, "fenced")
        <2>1. t \in Rows /\ t.status = "working"
            BY <1>1, ActiveRun
        <2>2. s \in Rows /\ s.lease = "fenced" /\ SameWork(t, s)
            BY <2>1, LeftFields
        <2>3. PICK e \in {"none", "queued", "running", "succeeded", "failed", "cancelled"},
                   f \in {"none", "queued", "running", "waiting", "succeeded", "failed",
                          "cancelled", "unknown"} :
                  Fenced(t) = [s EXCEPT !.attempt = f, !.exec = e]
            <3>1. /\ s.exec \in {"none", "queued", "running", "succeeded", "failed", "cancelled"}
                  /\ s.attempt \in {"none", "queued", "running", "waiting", "succeeded",
                                    "failed", "cancelled", "unknown"}
                BY <2>2 DEF Rows
            <3> HIDE DEF s
            <3>2. Fenced(t) =
                    [s EXCEPT
                       !.attempt = IF s.attempt \in {"queued", "running"} THEN "unknown"
                                   ELSE s.attempt,
                       !.exec = IF t.attempt \in {"queued", "running"} /\ s.exec = "running"
                                THEN IF t.dispatched THEN "failed" ELSE "queued"
                                ELSE s.exec]
                BY <1>1 DEF Fenced, s
            <3> QED
                BY <3>1, <3>2
        <2> DEFINE u == [s EXCEPT !.attempt = f, !.exec = e]
        <2> HIDE DEF s
        <2>4. /\ u \in Rows /\ u.lease = s.lease /\ u.status = s.status
              /\ u.results = s.results /\ u.approval = s.approval /\ u.claims = s.claims
            BY <2>2 DEF Rows
        <2> HIDE DEF u
        <2>5. RunOK(u)
            BY <2>1, <2>2, <2>4 DEF RunOK, ApprovalsOK, StatusOK, SameWork
        <2> QED
            BY <2>2, <2>3, <2>4, <2>5 DEF u, Keeps, SameWork
    <1>2. CASE ~(t.lease = "active" /\ t.gen = gen - 1)
        BY <1>2 DEF Fenced, Keeps
    <1> QED
        BY <1>1, <1>2

-----------------------------------------------------------------------------
(* A claim: the reconciliation of every run, then one acquisition.         *)

\* An expired lease is replayed only for a run that has not reached Hermes.
LEMMA ReconciledOK ==
    ASSUME NEW t, RunOK(t), ~ReconcileRaises(t)
    PROVE  /\ RunOK(Reconciled(t)) /\ Reconciled(t).claims = t.claims
           /\ Candidate(Reconciled(t)) /\ HasReplayCheckpoint(t) => Authorized(t)
    <1>1. CASE ~(t.lease = "active" /\ t.late)
        <2>1. Reconciled(t) = t
            BY <1>1 DEF Reconciled
        <2>2. Candidate(t) /\ HasReplayCheckpoint(t) => Authorized(t)
            BY DEF Candidate, HasReplayCheckpoint, RunOK, StatusOK
        <2> QED
            BY <2>1, <2>2
    <1>2. CASE t.lease = "active" /\ t.late /\ Replayable(t)
        <2> DEFINE s == Retired(t, "released")
                   u == [s EXCEPT !.attempt = "queued", !.exec = "queued",
                                  !.status = "queued"]
        <2>1. /\ t \in Rows /\ t.status = "working" /\ t.results = 0
              /\ \A a \in Approvals : t.approval[a] \notin {"pending", "rejected", "expired"}
            BY <1>2, ActiveRun
        <2>2. s \in Rows /\ s.lease = "released" /\ SameWork(t, s)
            BY <2>1, LeftFields
        <2>3. ~HasReplayCheckpoint(t)
            BY <1>2 DEF Replayable, Untouched
        <2>4. Reconciled(t) = u
            BY <1>2 DEF Reconciled
        <2> HIDE DEF s
        <2>5. /\ u \in Rows /\ u.status = "queued" /\ u.results = s.results
              /\ u.lease = s.lease /\ u.approval = s.approval /\ u.claims = s.claims
              /\ u.session = s.session /\ u.dispatched = s.dispatched
            <3>1. "queued" \in RunStatuses
                BY DEF RunStatuses
            <3> QED
                BY <2>2, <3>1 DEF Rows
        <2> HIDE DEF u
        <2>6. ApprovalsOK(u)
            BY <2>1, <2>2, <2>5 DEF ApprovalsOK, SameWork
        <2>7. StatusOK(u)
            BY <2>1, <2>2, <2>3, <2>5
               DEF StatusOK, SameWork, Terminal, HasReplayCheckpoint
        <2> QED
            BY <2>2, <2>3, <2>4, <2>5, <2>6, <2>7 DEF RunOK, SameWork
    <1>3. CASE t.lease = "active" /\ t.late /\ ~Replayable(t)
        <2> DEFINE s == [t EXCEPT !.sequence = @ + 1]
                   f == FailedAs(s, "failed", "failed")
                   v == [f EXCEPT !.attempt = "unknown"]
        <2>1. /\ t \in Rows /\ t.attempt = "running" /\ t.results = 0
              /\ \A a \in Approvals : t.approval[a] \notin {"pending", "rejected", "expired"}
            BY <1>3, ActiveRun
        <2>2. PICK n \in 0..(MaxSequence + 1) : n = t.sequence + 1 /\ n <= MaxSequence
            BY <1>3, <2>1, Bounds DEF ReconcileRaises, Rows
        <2>3. /\ s \in Rows /\ s.sequence <= MaxSequence /\ s.results = 0
              /\ s.approval = t.approval /\ s.claims = t.claims
            <3>1. s = [t EXCEPT !.sequence = n]
                BY <2>2
            <3> QED
                BY <2>1, <2>2, <3>1 DEF Rows
        <2>4. PICK state \in {"released", "fenced"} : Reconciled(t) = Retired(v, state)
            BY <1>3, <2>1 DEF Reconciled
        <2> HIDE DEF s
        <2>5. RunOK(f) /\ f.status = "failed" /\ f.lease # "active" /\ f.claims = t.claims
            BY <2>1, <2>3, FailedOK
        <2> HIDE DEF f
        <2>6. /\ v \in Rows /\ v.status = f.status /\ v.lease = f.lease
              /\ v.claims = f.claims /\ v.results = f.results /\ v.approval = f.approval
            BY <2>5 DEF RunOK, Rows
        <2> HIDE DEF v
        <2>7. RunOK(v)
            BY <2>5, <2>6 DEF RunOK, ApprovalsOK, StatusOK
        <2>8. RunOK(Retired(v, state))
            BY <2>7, LeftOK
        <2>9. Retired(v, state).claims = t.claims /\ Retired(v, state).status = "failed"
            BY <2>5, <2>6, LeftFields DEF SameWork
        <2> QED
            BY <2>4, <2>8, <2>9 DEF Candidate
    <1> QED
        BY <1>1, <1>2, <1>3

\* A candidate gets a lease.
LEMMA AcquiredOK ==
    ASSUME NEW t, RunOK(t), Candidate(t), gen \in 0..MaxGeneration
    PROVE  RunOK(Acquired(t))
    <1>1. t \in Rows /\ t.status \in {"queued", "working"}
        BY DEF RunOK, Candidate
    <1>2. PICK n \in Nat : n = t.claims + 1
        BY <1>1 DEF Rows
    <1> DEFINE u == [t EXCEPT !.status = "working", !.exec = "running",
                              !.attempt = "running", !.gen = gen, !.lease = "active",
                              !.late = FALSE, !.current = TRUE, !.claims = n]
    <1>3. Acquired(t) = u
        BY <1>2 DEF Acquired
    <1>4. /\ u \in Rows /\ u.status = "working" /\ u.exec = "running"
          /\ u.attempt = "running" /\ u.current /\ u.results = t.results
          /\ u.approval = t.approval
        <2>1. "working" \in RunStatuses
            BY DEF RunStatuses
        <2> QED
            BY <1>1, <2>1 DEF Rows
    <1> HIDE DEF u
    <1>5. ApprovalsOK(u)
        BY <1>1, <1>4 DEF RunOK, ApprovalsOK
    <1>6. StatusOK(u)
        BY <1>1, <1>4 DEF RunOK, StatusOK, Terminal
    <1> QED
        BY <1>3, <1>4, <1>5, <1>6 DEF RunOK

\* The run that is served first exists.
LEMMA LeastEligible ==
    ASSUME NEW S \in SUBSET Nat, S # {}
    PROVE  Min(S) \in S
    <1> DEFINE R == {ss \in Nat \X Nat : ss[1] < ss[2]}
    <1>1. IsWellFoundedOn(R, Nat)
        BY NatLessThanWellFounded DEF OpToRel
    <1> HIDE DEF R
    <1>2. PICK x \in S : \A y \in S : <<y, x>> \notin R
        BY <1>1, WFMin
    <1>3. ASSUME NEW y \in S
          PROVE  x <= y
        <2>1. x \in Nat /\ y \in Nat /\ ~(y < x)
            BY <1>2 DEF R
        <2> QED
            BY <2>1
    <1> QED
        BY <1>3 DEF Min

\* What a claim does to each run.
LEMMA ClaimRun ==
    ASSUME RoutineInv, ClaimNextExecution, NEW r \in Runs
    PROVE  LET u == Reconciled(run[r])
           IN  \/ run'[r] = u
               \/ Candidate(u) /\ run'[r] = Acquired(u)
    <1> DEFINE rows == [q \in Runs |-> Reconciled(run[q])]
               eligible == {q \in Runs : Eligible(rows, q)}
    <1>1. \/ /\ eligible # {}
             /\ run' = [rows EXCEPT ![Min(eligible)] = Acquired(@)]
          \/ run' = rows
        BY DEF ClaimNextExecution
    <1>2. eligible # {} => Min(eligible) \in eligible
        BY LeastEligible, Bounds
    <1>3. \A q \in eligible : Candidate(rows[q])
        BY DEF Eligible
    <1>4. rows[r] = Reconciled(run[r])
        OBVIOUS
    <1> HIDE DEF eligible
    <1>5. CASE run' = rows
        BY <1>4, <1>5
    <1>6. CASE /\ eligible # {}
               /\ run' = [rows EXCEPT ![Min(eligible)] = Acquired(@)]
        <2>1. CASE r = Min(eligible)
            BY <1>2, <1>3, <1>4, <1>6, <2>1
        <2>2. CASE r # Min(eligible)
            BY <1>4, <1>6, <2>2
        <2> QED
            BY <2>1, <2>2
    <1> QED
        BY <1>1, <1>5, <1>6

-----------------------------------------------------------------------------
(* The invariant.                                                          *)

\* A step of one run.
LEMMA OneRun ==
    ASSUME RoutineInv, NEW r \in Runs, NEW u, Set(r, u), RunOK(u), u.claims <= run[r].claims,
           UNCHANGED machine
    PROVE  /\ RoutineInv'
           /\ \A q \in Runs : run'[q].claims <= run[q].claims
    <1>1. u \in Rows
        BY DEF RunOK
    <1>2. /\ run' \in [Runs -> Rows] /\ run'[r] = u
          /\ \A q \in Runs : q # r => run'[q] = run[q]
        BY <1>1 DEF RoutineInv, Set
    <1>3. \A q \in Runs : run[q].claims \in Nat
        BY DEF RoutineInv, Rows
    <1>4. \A q \in Runs : RunOK(run'[q])
        BY <1>2 DEF RoutineInv
    <1>5. \A q \in Runs : run'[q].claims <= run[q].claims
        BY <1>2, <1>3
    <1> QED
        BY <1>2, <1>4, <1>5 DEF RoutineInv, machine

\* The same for a change that claims nothing.
LEMMA KeptOneRun ==
    ASSUME RoutineInv, NEW r \in Runs, NEW u, Set(r, u), Keeps(run[r], u), UNCHANGED machine
    PROVE  /\ RoutineInv'
           /\ \A q \in Runs : run'[q].claims <= run[q].claims
    <1>1. u.claims <= run[r].claims
        BY DEF RoutineInv, Rows, Keeps
    <1> QED
        BY <1>1, OneRun DEF Keeps

\* A run is accepted, a lease grows old.
LEMMA StepDispatch ==
    ASSUME RoutineInv, NEW r \in Runs, AcceptRoutineDispatch(r) \/ LeaseExpires(r)
    PROVE  /\ RoutineInv'
           /\ \A q \in Runs : run'[q].claims <= run[q].claims
    <1>1. CASE AcceptRoutineDispatch(r)
        <2> DEFINE u == [NoRun EXCEPT !.status = "queued", !.exec = "queued",
                                      !.attempt = "queued", !.gen = gen]
        <2>1. gen \in 0..MaxGeneration
            BY Bounds DEF RoutineInv
        <2>2. RunOK(u) /\ u.claims = 0
            BY <2>1, OKAccept
        <2>3. Set(r, u) /\ UNCHANGED machine
            BY <1>1 DEF AcceptRoutineDispatch
        <2> HIDE DEF u
        <2>4. u.claims <= run[r].claims
            BY <2>2 DEF RoutineInv, Rows
        <2> QED
            BY <2>2, <2>3, <2>4, OneRun
    <1>2. CASE LeaseExpires(r)
        <2>1. RunOK(run[r])
            BY DEF RoutineInv
        <2> QED
            BY <1>2, <2>1, OKLate, KeptOneRun DEF LeaseExpires
    <1> QED
        BY <1>1, <1>2

\* What the runtime writes under a lease.
LEMMA StepRuntimeWrite ==
    ASSUME RoutineInv, NEW r \in Runs, RuntimeWrite(r)
    PROVE  /\ RoutineInv'
           /\ \A q \in Runs : run'[q].claims <= run[q].claims
    <1>0. RunOK(run[r])
        BY DEF RoutineInv
    <1>1. CASE BindRoutineSession(r)
        BY <1>0, <1>1, OKBindSession, KeptOneRun DEF BindRoutineSession, Holds
    <1>2. CASE AcknowledgeStopped(r)
        BY <1>0, <1>2, OKStopped, KeptOneRun DEF AcknowledgeStopped
    <1>3. ASSUME NEW d \in BOOLEAN, AppendRuntimeEvent(r, d)
          PROVE  /\ RoutineInv'
                 /\ \A q \in Runs : run'[q].claims <= run[q].claims
        <2>1. /\ run[r].lease = "active" /\ NextEventSequence(run[r]) <= MaxSequence
              /\ Set(r, [run[r] EXCEPT !.sequence = @ + 1, !.dispatched = @ \/ d])
              /\ UNCHANGED machine
            BY <1>3 DEF AppendRuntimeEvent, Holds
        <2> QED
            BY <1>0, <2>1, OKAppendEvent, KeptOneRun
    <1>4. ASSUME NEW outcome \in {"changed", "failed"}, AppendRuntimeRoutineResult(r, outcome)
          PROVE  /\ RoutineInv'
                 /\ \A q \in Runs : run'[q].claims <= run[q].claims
        BY <1>0, <1>4, OKResult, KeptOneRun DEF AppendRuntimeRoutineResult, Holds
    <1> QED
        BY <1>1, <1>2, <1>3, <1>4 DEF RuntimeWrite

\* A wait that Cloud cancels: its run has no lease that could be fenced.
LEMMA StepApproval ==
    ASSUME RoutineInv, NEW r \in Runs, Approval(r)
    PROVE  /\ RoutineInv'
           /\ \A q \in Runs : run'[q].claims <= run[q].claims
    <1>0. RunOK(run[r])
        BY DEF RoutineInv
    <1>1. CASE ApprovalDue(r)
        BY <1>0, <1>1, OKLate, KeptOneRun DEF ApprovalDue
    <1>2. ASSUME NEW a \in Approvals, RequestRoutineApproval(r, a)
          PROVE  /\ RoutineInv'
                 /\ \A q \in Runs : run'[q].claims <= run[q].claims
        BY <1>0, <1>2, OKRequest, KeptOneRun DEF RequestRoutineApproval
    <1>3. ASSUME NEW a \in Approvals, run[r].approval[a] = "pending", ExpireAction(r, a),
                 UNCHANGED machine
          PROVE  /\ RoutineInv'
                 /\ \A q \in Runs : run'[q].claims <= run[q].claims
        <2> DEFINE u == FailedAs([run[r] EXCEPT !.approval[a] = "expired", !.due = FALSE],
                                 "expired", "failed")
        <2>1. Set(r, u) /\ MayRecord(run[r], NextEventSequence(run[r]))
            BY <1>3 DEF ExpireAction
        <2>2. Keeps(run[r], u)
            BY <1>0, <1>3, <2>1, OKEnds
        <2> HIDE DEF u
        <2> QED
            BY <1>3, <2>1, <2>2, KeptOneRun
    <1>4. ASSUME NEW a \in Approvals, CancelRoutineWait(r, a)
          PROVE  /\ RoutineInv'
                 /\ \A q \in Runs : run'[q].claims <= run[q].claims
        <2> DEFINE u == FailedAs([run[r] EXCEPT !.approval[a] = "cancelled", !.due = FALSE],
                                 "cancelled", "cancelled")
        <2>1. /\ run[r].approval[a] = "pending"
              /\ MayRecord(run[r], NextEventSequence(run[r])) /\ UNCHANGED machine
              /\ Set(r, IF u.lease = "active" THEN Left(u, "fenced") ELSE u)
            BY <1>4 DEF CancelRoutineWait, MayCancel
        <2>2. Keeps(run[r], u) /\ u.lease # "active"
            BY <1>0, <2>1, OKEnds
        <2> HIDE DEF u
        <2> QED
            BY <2>1, <2>2, KeptOneRun
    <1>5. ASSUME NEW a \in Approvals, NEW d \in {"approve", "reject"},
                 DecideRoutineApproval(r, a, d)
          PROVE  /\ RoutineInv'
                 /\ \A q \in Runs : run'[q].claims <= run[q].claims
        <2>0. run[r].approval[a] = "pending" /\ UNCHANGED machine
            BY <1>5 DEF DecideRoutineApproval
        <2>1. CASE ExpireAction(r, a)
            BY <1>3, <2>0, <2>1
        <2> DEFINE u == FailedAs([run[r] EXCEPT !.approval[a] = "rejected"],
                                 "cancelled", "cancelled")
        <2>2. CASE /\ MayRecord(run[r], NextEventSequence(run[r])) /\ Set(r, u)
            <3>1. run[r] \in Rows
                BY <1>0 DEF RunOK
            <3>2. /\ [run[r] EXCEPT !.approval[a] = "rejected"]
                       = [run[r] EXCEPT !.approval[a] = "rejected", !.due = run[r].due]
                  /\ run[r].due \in BOOLEAN
                BY <3>1 DEF Rows
            <3> DEFINE v == FailedAs([run[r] EXCEPT !.approval[a] = "rejected",
                                                    !.due = run[r].due],
                                     "cancelled", "cancelled")
            <3>3. Keeps(run[r], v)
                BY <1>0, <2>0, <2>2, <3>2, OKEnds
            <3>4. Keeps(run[r], u)
                BY <3>2, <3>3
            <3> HIDE DEF u
            <3> QED
                BY <2>0, <2>2, <3>4, KeptOneRun
        <2>3. CASE Set(r, [run[r] EXCEPT !.approval[a] = "authorizing", !.status = "working",
                                         !.exec = "running", !.attempt = "queued"])
            BY <1>0, <2>0, <2>3, OKApproved, KeptOneRun
        <2> QED
            BY <1>5, <2>1, <2>2, <2>3 DEF DecideRoutineApproval
    <1>6. ASSUME NEW a \in Approvals, ExpireRoutineApprovals(r, a)
          PROVE  /\ RoutineInv'
                 /\ \A q \in Runs : run'[q].claims <= run[q].claims
        BY <1>3, <1>6 DEF ExpireRoutineApprovals
    <1> QED
        BY <1>1, <1>2, <1>4, <1>5, <1>6 DEF Approval

\* The retired Machine loses its leases.
LEMMA StepFence ==
    ASSUME RoutineInv, ConfirmMachineStoppedAndFence
    PROVE  /\ RoutineInv'
           /\ \A q \in Runs : run'[q].claims <= run[q].claims
    <1>1. ASSUME NEW q \in Runs
          PROVE  RunOK(run'[q]) /\ run'[q].claims = run[q].claims /\ run[q].claims \in Nat
        <2>1. run'[q] = Fenced(run[q]) /\ RunOK(run[q]) /\ run[q].claims \in Nat
            BY DEF ConfirmMachineStoppedAndFence, RoutineInv, Rows
        <2> QED
            BY <2>1, OKFenced DEF Keeps
    <1>2. run' = [q \in Runs |-> run'[q]]
        BY DEF ConfirmMachineStoppedAndFence
    <1>3. run' \in [Runs -> Rows]
        BY <1>1, <1>2 DEF RunOK
    <1>4. gen' \in 1..MaxGeneration /\ phase' \in {"idle", "stopping", "starting"}
        BY DEF ConfirmMachineStoppedAndFence, RoutineInv
    <1> QED
        BY <1>1, <1>3, <1>4 DEF RoutineInv

\* A claim reconciles every run and leases at most one.
LEMMA StepClaim ==
    ASSUME RoutineInv, ClaimNextExecution
    PROVE  /\ RoutineInv'
           /\ \A q \in Runs : run'[q].claims > run[q].claims /\ HasReplayCheckpoint(run[q])
                                 => Authorized(run[q])
    <1>1. ASSUME NEW q \in Runs
          PROVE  /\ RunOK(run'[q])
                 /\ run'[q].claims > run[q].claims /\ HasReplayCheckpoint(run[q])
                       => Authorized(run[q])
        <2>1. RunOK(run[q]) /\ ~ReconcileRaises(run[q]) /\ run[q].claims \in Nat
            BY DEF ClaimNextExecution, RoutineInv, Rows
        <2>2. gen \in 0..MaxGeneration
            BY Bounds DEF RoutineInv
        <2>3. CASE run'[q] = Reconciled(run[q])
            <3>1. RunOK(run'[q]) /\ run'[q].claims = run[q].claims
                BY <2>1, <2>3, ReconciledOK
            <3> QED
                BY <2>1, <3>1
        <2>4. CASE /\ Candidate(Reconciled(run[q]))
                   /\ run'[q] = Acquired(Reconciled(run[q]))
            BY <2>1, <2>2, <2>4, ReconciledOK, AcquiredOK
        <2> QED
            BY <2>3, <2>4, ClaimRun
    <1>2. run' = [q \in Runs |-> run'[q]]
        BY DEF ClaimNextExecution
    <1>3. run' \in [Runs -> Rows]
        BY <1>1, <1>2 DEF RunOK
    <1>4. gen' \in 1..MaxGeneration /\ phase' \in {"idle", "stopping", "starting"}
        BY DEF ClaimNextExecution, RoutineInv, machine
    <1> QED
        BY <1>1, <1>3, <1>4 DEF RoutineInv

\* The steps of the Machine and of the gate leave the runs alone.
LEMMA StepMachine ==
    ASSUME RoutineInv, \/ BeginReplacement \/ BindIdle \/ Materialize
                       \/ EnableRoutineAdmission \/ DisableRoutineAdmission
                       \/ ReleaseChanges \/ UNCHANGED vars
    PROVE  RoutineInv' /\ UNCHANGED run
    <1>1. UNCHANGED run
        BY DEF BeginReplacement, BindIdle, Materialize, EnableRoutineAdmission,
               DisableRoutineAdmission, ReleaseChanges, vars
    <1>2. gen' \in 1..MaxGeneration
        BY Bounds DEF RoutineInv, BeginReplacement, BindIdle, Materialize, machine,
              EnableRoutineAdmission, DisableRoutineAdmission, ReleaseChanges, vars
    <1>3. phase' \in {"idle", "stopping", "starting"}
        BY DEF RoutineInv, BeginReplacement, BindIdle, Materialize, machine,
               EnableRoutineAdmission, DisableRoutineAdmission, ReleaseChanges, vars
    <1> QED
        BY <1>1, <1>2, <1>3 DEF RoutineInv

Resumes ==
    \A r \in Runs : run[r].claims' > run[r].claims /\ (run[r].session \/ run[r].dispatched)
                       => Authorized(run[r])

\* The invariant is inductive, and a run with a checkpoint is claimed again only when authorized.
LEMMA StepsKeep ==
    ASSUME RoutineInv, [Next]_vars
    PROVE  RoutineInv' /\ Resumes
    <1>0. \A q \in Runs : run[q].claims \in Nat
        BY DEF RoutineInv, Rows
    <1>1. ASSUME RoutineInv', \A q \in Runs : run'[q].claims <= run[q].claims
          PROVE  Resumes
        <2>1. \A q \in Runs : run'[q].claims \in Nat
            BY <1>1 DEF RoutineInv, Rows
        <2>2. \A q \in Runs : ~(run'[q].claims > run[q].claims)
            BY <1>0, <1>1, <2>1
        <2> QED
            BY <2>2 DEF Resumes
    <1>2. CASE ClaimNextExecution
        BY <1>2, StepClaim DEF Resumes, HasReplayCheckpoint
    <1>3. CASE \E r \in Runs : \/ AcceptRoutineDispatch(r) \/ LeaseExpires(r)
                               \/ RuntimeWrite(r) \/ Approval(r)
        BY <1>1, <1>3, StepDispatch, StepRuntimeWrite, StepApproval
    <1>4. CASE ConfirmMachineStoppedAndFence
        BY <1>1, <1>4, StepFence
    <1>5. CASE \/ BeginReplacement \/ BindIdle \/ Materialize
               \/ EnableRoutineAdmission \/ DisableRoutineAdmission
               \/ ReleaseChanges \/ UNCHANGED vars
        <2>1. RoutineInv' /\ UNCHANGED run
            BY <1>5, StepMachine
        <2> QED
            BY <1>0, <1>1, <2>1
    <1> QED
        BY <1>2, <1>3, <1>4, <1>5 DEF Next

\* No run: the invariant holds.
LEMMA InvInit == Init => RoutineInv
    <1> SUFFICES ASSUME Init PROVE RoutineInv
        OBVIOUS
    <1> DEFINE A == [a \in Approvals |-> "none"]
    <1>1. A \in [Approvals -> ApprovalStatuses] /\ \A a \in Approvals : A[a] = "none"
        BY DEF ApprovalStatuses
    <1>2. NoRun = [status |-> "none", exec |-> "none", attempt |-> "none", gen |-> 0,
                   lease |-> "none", late |-> FALSE, claims |-> 0, current |-> FALSE,
                   session |-> FALSE, dispatched |-> FALSE, sequence |-> 0,
                   results |-> 0, approval |-> A, due |-> FALSE]
        BY DEF NoRun
    <1> HIDE DEF A
    <1>3. NoRun \in Rows
        <2>1. 0 \in 0..(MaxSequence + 1) /\ 0 \in 0..MaxGeneration
            BY Bounds
        <2> QED
            BY <1>1, <1>2, <2>1 DEF Rows, RunStatuses
    <1>4. ApprovalsOK(NoRun) /\ StatusOK(NoRun)
        BY <1>1, <1>2 DEF ApprovalsOK, StatusOK, Terminal
    <1>5. gen \in 1..MaxGeneration
        BY Bounds DEF Init
    <1> QED
        BY <1>3, <1>4, <1>5 DEF Init, RoutineInv, RunOK

(* Every reachable state satisfies the inductive invariant.                *)
THEOREM RoutineInvariant == Spec => []RoutineInv
    <1>1. RoutineInv /\ [Next]_vars => RoutineInv'
        BY StepsKeep
    <1> QED
        BY <1>1, InvInit, PTL DEF Spec

(* A run has one result exactly when it has ended, whichever of the        *)
(* runtime, a stop, an expired lease, a decision, a cancellation and an    *)
(* expired wait came first, and no decision about an action is undone.     *)
THEOREM RunsEndOnce == Spec => []OneOutcomePerRun
    <1>1. RoutineInv => OneOutcomePerRun
        <2> SUFFICES ASSUME RoutineInv PROVE OneOutcomePerRun
            OBVIOUS
        <2>1. ASSUME NEW r \in Runs
              PROVE  (run[r].status = "waiting") <=>
                       Cardinality({a \in Approvals : run[r].approval[a] = "pending"}) = 1
            <3> DEFINE P == {a \in Approvals : run[r].approval[a] = "pending"}
            <3>1. ApprovalsOK(run[r])
                BY DEF RoutineInv, RunOK
            <3>2. CASE run[r].status = "waiting"
                <4>1. PICK a \in Approvals : P = {a}
                    BY <3>1, <3>2 DEF ApprovalsOK
                <4> QED
                    BY <3>2, <4>1, FS_Singleton
            <3>3. CASE run[r].status # "waiting"
                <4>1. P = {}
                    BY <3>1, <3>3 DEF ApprovalsOK
                <4> QED
                    BY <3>3, <4>1, FS_EmptySet
            <3> QED
                BY <3>2, <3>3
        <2>2. ASSUME NEW r \in Runs
              PROVE  /\ run[r] \in Rows /\ ApprovalsOK(run[r]) /\ StatusOK(run[r])
            BY DEF RoutineInv, RunOK
        <2>3. ASSUME NEW r \in Runs
              PROVE  /\ run[r].status \in RunStatuses /\ run[r].gen \in 0..MaxGeneration
                     /\ run[r].approval \in [Approvals -> ApprovalStatuses]
                     /\ run[r].sequence \in 0..(MaxSequence + 1) /\ run[r].claims \in Nat
            BY <2>2 DEF Rows
        <2>4. TypeOK
            BY <2>1, <2>2, <2>3 DEF RoutineInv, TypeOK, ApprovalsOK, StatusOK
        <2> QED
            BY <2>2, <2>4 DEF OneOutcomePerRun, ApprovalsOK, StatusOK
    <1> QED
        BY <1>1, RoutineInvariant, PTL

(* A run that may have reached Hermes is claimed again only to go on from  *)
(* an action that its owner approved: its prompt is never run twice.       *)
THEOREM ResumesFromApproval == Spec => ResumesOnlyApprovedWork
    <1>1. RoutineInv /\ [Next]_vars => Resumes
        BY StepsKeep
    <1>2. Resumes => [Resumes]_vars
        OBVIOUS
    <1> QED
        BY <1>1, RoutineInvariant, PTL DEF Spec, ResumesOnlyApprovedWork, Resumes

-----------------------------------------------------------------------------
(***************************************************************************)
(* WorkerLoop.  The claim that hands out a run is asked for by the poll    *)
(* loop of the runtime worker.  That specification has constants and       *)
(* variables of its own, and nothing below is about Routines.              *)
(*                                                                         *)
(* The invariant says what the worker knows when it goes to sleep: a       *)
(* message that is queued then is newer than the revision it will wait     *)
(* with, and a wait blocks only on the current revision.                   *)
(***************************************************************************)
LoopStates == [pc : {"top", "pass", "claim", "idle", "wait", "drain", "exited"},
               rev : Nat, snap : Nat, saw : SUBSET Msgs, reconciled : BOOLEAN,
               retry : BOOLEAN, slow : BOOLEAN, back : BOOLEAN, fast : 0..FastPolls,
               waits : BOOLEAN]
WaitStates == [pc : {"none", "listen", "read", "blocked", "reread"}, after : Nat,
               notified : BOOLEAN, alone : BOOLEAN]

\* Whole records, and no revision from the future: neither the worker's, nor the
\* snapshot's, nor the one a wait compares with.
LoopTyped ==
    /\ profile \in [Msgs -> {"none", "pending", "active", "deleting", "gone"}]
    /\ exec \in [Msgs -> {"none", "queued", "requeued", "running", "expired", "done", "gone"}]
    /\ w \in LoopStates /\ wt \in WaitStates
    /\ rev \in Nat /\ w.rev <= rev /\ w.snap <= rev /\ wt.after <= rev
    /\ amb \in Msgs \union {NoClaim, Unanswered} /\ late \in {"none", "amb", "orphan"}
    /\ faults \in 0..MaxFaults
    /\ w.pc = "wait" <=> wt.pc # "none" /\ ~wt.alone

\* Every task has a slot and a lease, and an ambiguous claim keeps its slot: the
\* worker goes on retrying it, and a request under way belongs to it.
SlotsHeld ==
    /\ IsFiniteSet(active) /\ active \subseteq Msgs
    /\ Cardinality(active) + Ambiguous <= Slots
    /\ \A m \in active : exec[m] = "running"
    /\ amb # NoClaim => w.retry
    /\ w.pc = "exited" => amb = NoClaim
    /\ late = "amb" => amb # NoClaim

\* A message that is queued while the worker goes to sleep, or waits, is newer than
\* the revision that it, or its wait, knows; a wait blocks on the current one.
QueuedIsNews ==
    /\ w.pc = "idle" /\ ~w.retry /\ w.slow /\ active = {} =>
          \A m \in Msgs : exec[m] = "queued" => w.rev < rev
    /\ w.pc = "wait" => \A m \in Msgs : exec[m] = "queued" => wt.after < rev
    /\ wt.pc = "blocked" /\ ~wt.notified => wt.after = rev

LoopInv == LoopTyped /\ SlotsHeld /\ QueuedIsNews

\* What the claims of Foundry do to the executions: none is queued that was not,
\* and none that runs is taken away.
ExecFollows(e) ==
    /\ e \in [Msgs -> {"none", "queued", "requeued", "running", "expired", "done", "gone"}]
    /\ \A m \in Msgs : e[m] = "queued" => exec[m] = "queued"
    /\ \A m \in Msgs : exec[m] = "running" => e[m] = "running"

\* What a claim transaction leaves and answers, whatever identifier it carries
\* (ClaimResults); only an empty answer to a new identifier finds nothing queued.
LEMMA ClaimResultFacts ==
    ASSUME LoopTyped, NEW id,
           NEW res \in ClaimResults(id)
    PROVE  /\ ExecFollows(res.exec)
           /\ res.kind \in {"claim", "empty", "not_ready", "fenced"}
           /\ res.kind = "claim" => res.msg \in Msgs /\ res.exec[res.msg] = "running"
           /\ res.kind = "empty" /\ id \notin Msgs => \A m \in Msgs : res.exec[m] # "queued"
<1> USE DEF ClaimResult
<1>1. ExecFollows(Requeued)
  BY DEF ExecFollows, Requeued, LoopTyped
<1>2. ExecFollows(exec)
  BY DEF ExecFollows, LoopTyped
<1>3. \A m \in Msgs : Requeued[m] = "queued" => m \in Waiting
  BY DEF Waiting
<1>4. ASSUME NEW m \in Claimable, id \notin Msgs,
             res = ClaimResult("claim", m, [Requeued EXCEPT ![m] = "running"])
      PROVE  ExecFollows(res.exec) /\ res.kind = "claim" /\ res.msg = m /\ m \in Msgs
             /\ res.exec[m] = "running"
  <2>1. m \in Msgs
    BY DEF Claimable, Waiting
  <2> QED BY <1>1, <1>4, <2>1 DEF ExecFollows
<1>5. CASE id \in Msgs /\ profile[id] # "active"
  BY <1>2, <1>5 DEF ClaimResults
<1>6. CASE id \in Msgs /\ profile[id] = "active" /\ exec[id] = "running"
  <2>1. res = ClaimResult("claim", id, Requeued)
    BY <1>6 DEF ClaimResults
  <2> QED BY <1>1, <1>6, <2>1 DEF ExecFollows
<1>7. CASE id \in Msgs /\ profile[id] = "active" /\ exec[id] # "running"
  BY <1>1, <1>7 DEF ClaimResults
<1>8. CASE id \notin Msgs /\ Claimable # {}
  <2>1. PICK m \in Claimable :
           res = ClaimResult("claim", m, [Requeued EXCEPT ![m] = "running"])
    BY <1>8 DEF ClaimResults
  <2> QED BY <1>4, <1>8, <2>1
<1>9. CASE id \notin Msgs /\ Claimable = {} /\ Unready # {}
  BY <1>2, <1>9 DEF ClaimResults
<1>10. CASE id \notin Msgs /\ Claimable = {} /\ Unready = {}
  <2>1. res = ClaimResult("empty", NoClaim, Requeued)
    BY <1>10 DEF ClaimResults
  <2>2. Waiting = {}
    BY <1>10 DEF Claimable, Unready
  <2> QED BY <1>1, <1>3, <2>1, <2>2
<1> QED BY <1>5, <1>6, <1>7, <1>8, <1>9, <1>10

\* The start of the system.
LEMMA LoopInitially == LoopInit => LoopInv
<1> SUFFICES ASSUME LoopInit PROVE LoopInv
  OBVIOUS
<1>1. LoopTyped
  BY WorkerAssumption DEF LoopInit, Started, NoWait, LoopTyped, LoopStates, WaitStates
<1>2. SlotsHeld
  BY WorkerAssumption, FS_EmptySet DEF LoopInit, Ambiguous, SlotsHeld
<1>3. QueuedIsNews
  BY DEF LoopInit, Started, NoWait, QueuedIsNews
<1> QED BY <1>1, <1>2, <1>3 DEF LoopInv

\* A notification reaches a wait that has begun to listen, and changes nothing else.
LEMMA NotifyFacts ==
    ASSUME NEW x \in WaitStates
    PROVE  /\ Notify(x) \in WaitStates /\ Notify(x).pc = x.pc
           /\ Notify(x).after = x.after /\ Notify(x).alone = x.alone
           /\ x.pc = "blocked" => Notify(x).notified
<1>1. CASE x.pc \in {"read", "blocked"}
  <2> DEFINE y == [x EXCEPT !.notified = TRUE]
  <2>1. y \in WaitStates /\ y.pc = x.pc /\ y.after = x.after /\ y.alone = x.alone /\ y.notified = TRUE
    BY DEF WaitStates
  <2>2. Notify(x) = y
    BY <1>1 DEF Notify
  <2> QED BY <2>1, <2>2
<1>2. CASE x.pc \notin {"read", "blocked"}
  BY <1>2 DEF Notify
<1> QED BY <1>1, <1>2

\* What is done to Foundry: new profiles, messages and deletions are counted and
\* announced to the wait (advance_workspace_activity).
LEMMA RequestsKept ==
    ASSUME LoopInv, NEW m \in Msgs,
           Requests(m) \/ MessageLeaseExpires(m) \/ CleanupDeadline(m)
    PROVE  LoopInv'
<1> USE DEF LoopInv
<1>1. ASSUME AdvanceActivity
      PROVE  /\ rev' = rev + 1 /\ rev' \in Nat /\ wt' \in WaitStates
             /\ wt'.pc = wt.pc /\ wt'.after = wt.after /\ wt'.alone = wt.alone
             /\ wt.pc = "blocked" => wt'.notified
  BY <1>1, NotifyFacts DEF AdvanceActivity, LoopTyped
<1>2. CASE EnsureProfile(m)
  <2>1. LoopTyped'
    BY <1>1, <1>2 DEF EnsureProfile, LoopTyped, LoopStates, WaitStates
  <2>2. SlotsHeld'
    BY <1>2 DEF EnsureProfile, SlotsHeld, Ambiguous
  <2>3. QueuedIsNews'
    BY <1>1, <1>2 DEF EnsureProfile, QueuedIsNews, LoopTyped, LoopStates, WaitStates
  <2> QED BY <2>1, <2>2, <2>3
<1>3. CASE CreateExecution(m)
  <2>1. LoopTyped'
    BY <1>1, <1>3 DEF CreateExecution, LoopTyped, LoopStates, WaitStates
  <2>2. SlotsHeld'
    BY <1>3 DEF CreateExecution, SlotsHeld, Ambiguous, LoopTyped
  <2>3. QueuedIsNews'
    BY <1>1, <1>3 DEF CreateExecution, QueuedIsNews, LoopTyped, LoopStates, WaitStates
  <2> QED BY <2>1, <2>2, <2>3
<1>4. CASE DeleteProfile(m)
  <2>1. LoopTyped'
    BY <1>1, <1>4 DEF DeleteProfile, LoopTyped, LoopStates, WaitStates
  <2>2. SlotsHeld'
    BY <1>4 DEF DeleteProfile, SlotsHeld, Ambiguous
  <2>3. QueuedIsNews'
    BY <1>1, <1>4 DEF DeleteProfile, QueuedIsNews, LoopTyped, LoopStates, WaitStates
  <2> QED BY <2>1, <2>2, <2>3
<1>5. CASE MessageLeaseExpires(m)
  BY <1>5 DEF MessageLeaseExpires, LoopTyped, SlotsHeld, QueuedIsNews, Ambiguous
<1>6. CASE CleanupDeadline(m)
  <2>1. LoopTyped'
    BY <1>1, <1>6 DEF CleanupDeadline, LoopTyped, LoopStates, WaitStates
  <2>2. SlotsHeld'
    BY <1>6 DEF CleanupDeadline, SlotsHeld, Ambiguous, LoopTyped
  <2>3. QueuedIsNews'
    BY <1>1, <1>6 DEF CleanupDeadline, QueuedIsNews, LoopTyped, LoopStates, WaitStates
  <2> QED BY <2>1, <2>2, <2>3
<1> QED BY <1>2, <1>3, <1>4, <1>5, <1>6 DEF Requests

\* The pass over the profiles, whether it is skipped, read, applied or fails.
LEMMA PassKept ==
    ASSUME LoopInv,
           SkipPass \/ ReadSnapshot \/ ApplySnapshot \/ PassFails
    PROVE  LoopInv'
<1> USE DEF LoopInv
<1>1. CASE SkipPass
  BY <1>1 DEF SkipPass, LoopTyped, LoopStates, SlotsHeld, QueuedIsNews, Ambiguous
<1>2. CASE ReadSnapshot
  <2>1. w' \in LoopStates
    <3> DEFINE seen == {m \in Msgs : profile[m] \in {"pending", "deleting"}}
    <3>1. seen \in SUBSET Msgs /\ w' = [w EXCEPT !.pc = "pass", !.snap = rev, !.saw = seen]
      BY <1>2 DEF ReadSnapshot
    <3> HIDE DEF seen
    <3> QED BY <3>1 DEF LoopTyped, LoopStates
  <2>2. w'.pc = "pass" /\ w'.snap = rev /\ w'.rev = w.rev /\ w'.retry = w.retry
    BY <1>2 DEF ReadSnapshot, LoopTyped, LoopStates
  <2> QED BY <1>2, <2>1, <2>2 DEF ReadSnapshot, LoopTyped, SlotsHeld, QueuedIsNews, Ambiguous
<1>3. CASE ApplySnapshot
  <2>1. /\ rev' \in Nat /\ rev <= rev' /\ wt' \in WaitStates
        /\ wt'.pc = wt.pc /\ wt'.after = wt.after /\ wt'.alone = wt.alone
        /\ wt.pc = "blocked" /\ ~wt'.notified => ~wt.notified /\ rev' = rev
    <3>1. CASE Removed # {}
      BY <1>3, <3>1, NotifyFacts DEF ApplySnapshot, AdvanceActivity, LoopTyped
    <3>2. CASE Removed = {}
      BY <1>3, <3>2 DEF ApplySnapshot, LoopTyped
    <3> QED BY <3>1, <3>2
  <2>2. Later(w.rev, w.snap) \in Nat /\ Later(w.rev, w.snap) <= rev
    BY DEF LoopTyped, LoopStates, Later
  <2>3. /\ w' \in LoopStates /\ w'.pc = "claim" /\ w'.rev <= rev /\ w'.snap <= rev
        /\ w'.retry = w.retry /\ w.pc = "pass"
    <3>1. PICK r \in Nat, f \in 0..FastPolls :
             /\ r <= rev
             /\ w' = [w EXCEPT !.pc = "claim", !.rev = r, !.reconciled = TRUE, !.saw = {},
                               !.snap = 0, !.fast = f]
      <4>1. w.fast \in 0..FastPolls /\ FastPolls \in 0..FastPolls
        BY WorkerAssumption DEF LoopTyped, LoopStates
      <4> QED BY <1>3, <2>2, <4>1 DEF ApplySnapshot
    <3>2. w' \in LoopStates
      BY <3>1 DEF LoopTyped, LoopStates
    <3>3. w'.pc = "claim" /\ w'.rev = r /\ w'.snap = 0 /\ w'.retry = w.retry
      BY <3>1 DEF LoopTyped, LoopStates
    <3>4. w.pc = "pass" /\ rev \in Nat
      BY <1>3 DEF ApplySnapshot, LoopTyped
    <3> QED BY <3>1, <3>2, <3>3, <3>4
  <2>4. LoopTyped'
    <3>1. profile' \in [Msgs -> {"none", "pending", "active", "deleting", "gone"}]
      BY <1>3 DEF ApplySnapshot, LoopTyped
    <3>2. exec' \in [Msgs -> {"none", "queued", "requeued", "running", "expired", "done", "gone"}]
      BY <1>3 DEF ApplySnapshot, LoopTyped
    <3>3. /\ rev' \in Nat /\ w'.rev <= rev' /\ w'.snap <= rev' /\ wt'.after <= rev'
      BY <2>1, <2>3 DEF LoopTyped, LoopStates, WaitStates
    <3>4. w'.pc # "wait" /\ ~(wt'.pc # "none" /\ ~wt'.alone)
      BY <2>1, <2>3 DEF LoopTyped
    <3>5. UNCHANGED <<amb, late, faults>>
      BY <1>3 DEF ApplySnapshot
    <3> QED BY <2>1, <2>3, <3>1, <3>2, <3>3, <3>4, <3>5 DEF LoopTyped
  <2>5. SlotsHeld'
    <3>1. active' \subseteq active
      BY <1>3 DEF ApplySnapshot
    <3>2. IsFiniteSet(active') /\ Cardinality(active') <= Cardinality(active)
      BY <3>1, FS_Subset DEF SlotsHeld
    <3>3. Cardinality(active) \in Nat /\ Cardinality(active') \in Nat
      BY <3>2, FS_CardinalityType DEF SlotsHeld
    <3>4. \A m \in active' : exec'[m] = "running"
      BY <1>3 DEF ApplySnapshot, SlotsHeld
    <3> QED BY WorkerAssumption, <1>3, <2>3, <3>1, <3>2, <3>3, <3>4
         DEF ApplySnapshot, SlotsHeld, Ambiguous
  <2>6. QueuedIsNews'
    BY <2>1, <2>3 DEF QueuedIsNews
  <2> QED BY <2>4, <2>5, <2>6
<1>4. CASE PassFails
  <2>1. Later(w.rev, w.snap) \in Nat /\ Later(w.rev, w.snap) <= rev
    BY DEF LoopTyped, LoopStates, Later
  <2>2. PICK r \in {w.rev, Later(w.rev, w.snap)} :
           w' = [w EXCEPT !.pc = "top", !.reconciled = FALSE, !.rev = r, !.saw = {}, !.snap = 0]
    BY <1>4 DEF PassFails
  <2>3. w' \in LoopStates /\ w'.pc = "top" /\ w'.rev <= rev /\ w'.snap <= rev /\ w'.retry = w.retry
    <3>1. r \in Nat /\ r <= rev
      BY <2>1 DEF LoopTyped, LoopStates
    <3>2. w' \in LoopStates
      BY <2>2, <3>1 DEF LoopTyped, LoopStates
    <3> QED BY <2>2, <3>1, <3>2 DEF LoopTyped, LoopStates
  <2>4. faults' \in 0..MaxFaults
    BY WorkerAssumption, <1>4 DEF PassFails, Fault, LoopTyped
  <2> QED BY <1>4, <2>3, <2>4 DEF PassFails, Fault, LoopTyped, SlotsHeld, QueuedIsNews, Ambiguous
<1> QED BY <1>1, <1>2, <1>3, <1>4

KnowsTheSame(y, x) == y.pc = x.pc /\ y.rev = x.rev /\ y.snap = x.snap

\* The worker's record after the answers and failures of a claim.
LEMMA DelayFacts ==
    ASSUME NEW x \in LoopStates
    PROVE  /\ BackOff(x) \in LoopStates /\ Quick(x) \in LoopStates
           /\ Retry(x) \in LoopStates /\ Answered(x) \in LoopStates
           /\ Empty(x) \in LoopStates
           /\ KnowsTheSame(BackOff(x), x) /\ KnowsTheSame(Quick(x), x)
           /\ KnowsTheSame(Retry(x), x) /\ KnowsTheSame(Answered(x), x)
           /\ KnowsTheSame(Empty(x), x)
           /\ BackOff(x).retry = x.retry /\ Quick(x).retry = x.retry
           /\ Empty(x).retry = x.retry
           /\ Retry(x).retry = TRUE /\ Answered(x).retry = FALSE
           /\ Answered(x).back => ~x.retry
           /\ Empty(x).slow => x.back
<1> USE DEF LoopStates
<1>1. BackOff(x) \in LoopStates
  BY DEF BackOff
<1>2. /\ BackOff(x).pc = x.pc /\ BackOff(x).rev = x.rev /\ BackOff(x).snap = x.snap
      /\ BackOff(x).retry = x.retry /\ BackOff(x).slow = x.back
  BY DEF BackOff
<1>3. Quick(x) \in LoopStates
  BY DEF Quick
<1>4. /\ Quick(x).pc = x.pc /\ Quick(x).rev = x.rev /\ Quick(x).snap = x.snap
      /\ Quick(x).retry = x.retry /\ Quick(x).slow = FALSE /\ Quick(x).fast = x.fast
  BY DEF Quick
<1>5. /\ Retry(x) \in LoopStates /\ Retry(x).pc = x.pc /\ Retry(x).rev = x.rev
      /\ Retry(x).snap = x.snap /\ Retry(x).retry = TRUE
  <2> HIDE DEF LoopStates
  <2> DEFINE z == BackOff(x)
  <2>1. z \in LoopStates /\ z.pc = x.pc /\ z.rev = x.rev /\ z.snap = x.snap
    BY <1>1, <1>2
  <2>2. Retry(x) = [z EXCEPT !.retry = TRUE]
    BY DEF Retry
  <2> HIDE DEF z
  <2> QED BY <2>1, <2>2 DEF LoopStates
<1>6. Answered(x) \in LoopStates
  BY DEF Answered
<1>7. /\ Answered(x).pc = x.pc /\ Answered(x).rev = x.rev
      /\ Answered(x).snap = x.snap /\ Answered(x).retry = FALSE
      /\ Answered(x).back = (x.back /\ ~x.retry)
  BY DEF Answered
<1>8. /\ Empty(x) \in LoopStates /\ Empty(x).pc = x.pc /\ Empty(x).rev = x.rev
      /\ Empty(x).snap = x.snap /\ Empty(x).retry = x.retry
      /\ Empty(x).slow => x.back
  <2>1. CASE x.fast > 0
    <3> HIDE DEF LoopStates
    <3> DEFINE z == Quick(x)
    <3>1. /\ z \in LoopStates /\ z.pc = x.pc /\ z.rev = x.rev /\ z.snap = x.snap
          /\ z.retry = x.retry /\ z.slow = FALSE /\ z.fast = x.fast
      BY <1>3, <1>4
    <3>2. Empty(x) = [z EXCEPT !.fast = z.fast - 1]
      BY <2>1 DEF Empty
    <3>3. z.fast - 1 \in 0..FastPolls
      BY WorkerAssumption, <2>1, <3>1 DEF LoopStates
    <3> HIDE DEF z
    <3> QED BY <3>1, <3>2, <3>3 DEF LoopStates
  <2>2. CASE ~(x.fast > 0)
    BY <1>1, <1>2, <2>2 DEF Empty
  <2> QED BY <2>1, <2>2
<1> HIDE DEF LoopStates
<1> QED BY <1>1, <1>2, <1>3, <1>4, <1>5, <1>6, <1>7, <1>8 DEF KnowsTheSame

\* How the worker's record moves on: to another place, with what it knows, and an
\* ambiguous claim stays one to retry.
Moves(pcs) ==
    /\ w' \in LoopStates /\ w'.pc \in pcs /\ w'.rev = w.rev /\ w'.snap = w.snap

\* A claim that is answered (TakeAnswer): a message takes the slot that its claim
\* had, and only an empty answer to a claim that was not repeated lets the worker
\* sleep long.
LEMMA ClaimKept ==
    ASSUME LoopInv, Claim
    PROVE  LoopInv'
<1> USE DEF LoopInv
<1>1. PICK res \in ClaimResults(amb) : exec' = res.exec /\ TakeAnswer(res)
  BY DEF Claim
<1>2. /\ ExecFollows(res.exec)
      /\ res.kind \in {"claim", "empty", "not_ready", "fenced"}
      /\ res.kind = "claim" => res.msg \in Msgs /\ res.exec[res.msg] = "running"
      /\ res.kind = "empty" /\ amb \notin Msgs => \A m \in Msgs : res.exec[m] # "queued"
  BY ClaimResultFacts
<1>3. w.pc = "claim" /\ HasSlot /\ UNCHANGED <<profile, rev, wt, faults>>
  BY DEF Claim
<1>4. /\ w \in LoopStates /\ Answered(w) \in LoopStates
      /\ KnowsTheSame(Answered(w), w)
      /\ Answered(w).back => ~w.retry
  BY DelayFacts DEF LoopTyped
<1>5. /\ Moves({"claim", "idle", "drain"})
      /\ amb' # NoClaim => w'.retry
      /\ w'.pc = "idle" /\ ~w'.retry /\ w'.slow => res.kind = "empty" /\ ~w.retry
  <2>1. CASE res.kind = "claim"
    <3> DEFINE z == Quick(Answered(w))
    <3>1. z \in LoopStates /\ z.pc = "claim" /\ z.rev = w.rev /\ z.snap = w.snap
      <4>1. z \in LoopStates /\ KnowsTheSame(z, Answered(w))
        BY <1>4, DelayFacts
      <4> QED BY <1>3, <1>4, <4>1 DEF KnowsTheSame
    <3>2. w' = [z EXCEPT !.fast = 0] /\ amb' = NoClaim
      BY <1>1, <2>1 DEF TakeAnswer, Settle
    <3> HIDE DEF z
    <3> QED BY WorkerAssumption, <3>1, <3>2 DEF LoopStates, Moves
  <2>2. CASE res.kind = "empty"
    <3> DEFINE z == Empty(Answered(w))
    <3>1. /\ z \in LoopStates /\ z.rev = w.rev /\ z.snap = w.snap
          /\ z.slow => ~w.retry
      <4>1. z \in LoopStates /\ KnowsTheSame(z, Answered(w)) /\ (z.slow => Answered(w).back)
        BY <1>4, DelayFacts
      <4> QED BY <1>4, <4>1 DEF KnowsTheSame
    <3>2. w' = [z EXCEPT !.pc = "idle"] /\ amb' = NoClaim
      BY <1>1, <2>2 DEF TakeAnswer, Settle
    <3> HIDE DEF z
    <3> QED BY <2>2, <3>1, <3>2 DEF LoopStates, Moves
  <2>3. CASE res.kind = "not_ready"
    <3> DEFINE z == Retry(w)
    <3>1. z \in LoopStates /\ z.rev = w.rev /\ z.snap = w.snap /\ z.retry = TRUE
      BY <1>4, DelayFacts DEF KnowsTheSame
    <3>2. w' = [z EXCEPT !.pc = "idle", !.reconciled = FALSE]
      BY <1>1, <2>3 DEF TakeAnswer
    <3> HIDE DEF z
    <3> QED BY <3>1, <3>2 DEF LoopStates, Moves
  <2>4. CASE res.kind = "fenced"
    <3>1. w' = [w EXCEPT !.pc = "drain"] /\ amb' = amb
      BY <1>1, <2>4 DEF TakeAnswer
    <3> QED BY <1>4, <3>1 DEF LoopStates, Moves, SlotsHeld
  <2> QED BY <1>2, <2>1, <2>2, <2>3, <2>4
<1>6. /\ amb' \in {amb, NoClaim} /\ late' \in {"none", "amb", "orphan"}
      /\ late' = "amb" => amb' # NoClaim
      /\ \/ active' = active /\ amb' = amb
         \/ active' = active /\ amb' = NoClaim
         \/ res.kind = "claim" /\ active' = active \union {res.msg} /\ amb' = NoClaim
  <2>1. CASE res.kind \in {"claim", "empty"}
    BY <1>1, <2>1 DEF TakeAnswer, Settle, LoopTyped
  <2>2. CASE res.kind \in {"not_ready", "fenced"}
    BY <1>1, <2>2 DEF TakeAnswer, LoopTyped, SlotsHeld
  <2> QED BY <1>2, <2>1, <2>2
<1>7. LoopTyped'
  <2>1. w'.rev <= rev' /\ w'.snap <= rev' /\ wt'.after <= rev'
    BY <1>3, <1>5 DEF LoopTyped, Moves
  <2>2. w'.pc # "wait" /\ ~(wt'.pc # "none" /\ ~wt'.alone)
    BY <1>3, <1>5 DEF LoopTyped, Moves
  <2> QED BY <1>1, <1>2, <1>3, <1>5, <1>6, <2>1, <2>2 DEF LoopTyped, Moves, ExecFollows
<1>8. SlotsHeld'
  <2>1. \A m \in active' : exec'[m] = "running"
    BY <1>1, <1>2, <1>6 DEF SlotsHeld, ExecFollows
  <2>2. /\ Cardinality(active) + Ambiguous < Slots
        /\ Ambiguous \in {0, 1}
        /\ amb' = NoClaim => Ambiguous' = 0
        /\ amb' = amb => Ambiguous' = Ambiguous
    BY <1>3 DEF HasSlot, Ambiguous
  <2>5. Cardinality(active) \in Nat
    BY FS_CardinalityType DEF SlotsHeld
  <2>3. IsFiniteSet(active') /\ active' \subseteq Msgs
    BY <1>2, <1>6, FS_AddElement DEF SlotsHeld
  <2>4. Cardinality(active') + Ambiguous' <= Slots
    <3>1. CASE active' = active
      BY WorkerAssumption, <1>6, <2>2, <2>5, <3>1
    <3>2. CASE active' = active \union {res.msg} /\ amb' = NoClaim
      <4>1. Cardinality(active') <= Cardinality(active) + 1
        <5>1. Cardinality(active \union {res.msg}) =
                IF res.msg \in active THEN Cardinality(active) ELSE Cardinality(active) + 1
          BY FS_AddElement DEF SlotsHeld
        <5> QED BY <2>5, <3>2, <5>1
      <4>2. Cardinality(active') \in Nat
        BY <2>3, FS_CardinalityType
      <4> QED BY WorkerAssumption, <2>2, <2>5, <3>2, <4>1, <4>2
    <3> QED BY <1>6, <3>1, <3>2
  <2> QED BY <1>5, <1>6, <2>1, <2>3, <2>4 DEF SlotsHeld, Moves
<1>9. QueuedIsNews'
  <2>1. w'.pc = "idle" /\ ~w'.retry /\ w'.slow => \A m \in Msgs : exec'[m] # "queued"
    <3> SUFFICES ASSUME w'.pc = "idle", ~w'.retry, w'.slow
                 PROVE  \A m \in Msgs : exec'[m] # "queued"
      OBVIOUS
    <3>1. res.kind = "empty" /\ amb = NoClaim
      BY <1>5 DEF SlotsHeld
    <3> QED BY WorkerAssumption, <1>1, <1>2, <3>1
  <2> QED BY <1>3, <1>5, <2>1 DEF QueuedIsNews, Moves
<1> QED BY <1>7, <1>8, <1>9

\* The slots are full, or the request of a claim fails: it was applied, was not, or
\* is still under way (ClaimFails).
LEMMA NoAnswerKept ==
    ASSUME LoopInv, SlotsFull \/ ClaimFails
    PROVE  LoopInv'
<1> USE DEF LoopInv
<1>1. CASE SlotsFull
  <2>1. w' = [w EXCEPT !.pc = "idle"] /\ w.pc = "claim" /\ ~HasSlot
    BY <1>1 DEF SlotsFull
  <2>2. Moves({"idle"}) /\ w'.retry = w.retry
    BY <2>1 DEF LoopTyped, LoopStates, Moves
  <2>3. active # {}
    <3> SUFFICES ASSUME active = {} PROVE FALSE
      OBVIOUS
    <3>1. Cardinality(active) = 0
      BY FS_EmptySet
    <3> QED BY WorkerAssumption, <2>1, <3>1 DEF HasSlot, Ambiguous
  <2>4. UNCHANGED <<profile, exec, rev, active, amb, late, wt, faults>>
    BY <1>1 DEF SlotsFull
  <2>5. LoopTyped'
    BY <2>1, <2>2, <2>4 DEF LoopTyped, Moves
  <2>6. SlotsHeld'
    BY <2>2, <2>4 DEF SlotsHeld, Ambiguous, Moves
  <2>7. QueuedIsNews'
    BY <2>2, <2>3, <2>4 DEF QueuedIsNews, Moves
  <2> QED BY <2>5, <2>6, <2>7
<1>2. CASE ClaimFails
  <2>1. /\ w.pc = "claim" /\ HasSlot /\ w' = [Retry(w) EXCEPT !.pc = "idle"]
        /\ faults' \in 0..MaxFaults /\ UNCHANGED <<profile, rev, active, wt>>
    BY WorkerAssumption, <1>2 DEF ClaimFails, Fault, LoopTyped
  <2>2. Moves({"idle"}) /\ w'.retry = TRUE
    <3> DEFINE z == Retry(w)
    <3>1. z \in LoopStates /\ z.rev = w.rev /\ z.snap = w.snap /\ z.retry = TRUE
      BY DelayFacts DEF KnowsTheSame, LoopTyped
    <3>2. w' = [z EXCEPT !.pc = "idle"]
      BY <2>1
    <3> HIDE DEF z
    <3> QED BY <3>1, <3>2 DEF LoopStates, Moves
  <2>3. /\ ExecFollows(exec') /\ amb' \in Msgs \union {NoClaim, Unanswered}
        /\ late' \in {"none", "amb", "orphan"}
        /\ late' = "amb" => amb' # NoClaim
    <3>1. CASE UNCHANGED <<exec, amb, late>>
      BY <3>1 DEF ExecFollows, LoopTyped, SlotsHeld
    <3>2. CASE \E res \in ClaimResults(amb) :
                  /\ exec' = res.exec /\ UNCHANGED late
                  /\ amb' = CASE res.kind = "claim" -> res.msg
                              [] res.kind # "claim" /\ amb = NoClaim -> Unanswered
                              [] OTHER -> amb
      <4>1. PICK res \in ClaimResults(amb) :
                  /\ exec' = res.exec /\ UNCHANGED late
                  /\ amb' = CASE res.kind = "claim" -> res.msg
                              [] res.kind # "claim" /\ amb = NoClaim -> Unanswered
                              [] OTHER -> amb
        BY <3>2
      <4>2. /\ ExecFollows(res.exec)
            /\ res.kind = "claim" => res.msg \in Msgs
        BY ClaimResultFacts
      <4>3. amb' \in Msgs \union {Unanswered} \/ (amb' = amb /\ amb # NoClaim)
        BY <4>1, <4>2
      <4> QED BY WorkerAssumption, <4>1, <4>2, <4>3 DEF LoopTyped, SlotsHeld
    <3>3. CASE late' = "amb" /\ amb' = Unanswered /\ UNCHANGED exec
      BY WorkerAssumption, <3>3 DEF ExecFollows, LoopTyped
    <3> QED BY <1>2, <3>1, <3>2, <3>3 DEF ClaimFails
  <2>4. LoopTyped'
    <3>1. w'.rev <= rev' /\ w'.snap <= rev' /\ w'.pc # "wait"
      BY <2>1, <2>2 DEF LoopTyped, Moves
    <3> QED BY <2>1, <2>2, <2>3, <3>1 DEF LoopTyped, Moves, ExecFollows
  <2>5. SlotsHeld'
    <3>1. Cardinality(active) + Ambiguous' <= Slots
      <4>1. Cardinality(active) \in Nat
        BY FS_CardinalityType DEF SlotsHeld
      <4> QED BY WorkerAssumption, <2>1, <4>1 DEF HasSlot, Ambiguous
    <3> QED BY <2>1, <2>2, <2>3, <3>1 DEF SlotsHeld, ExecFollows
  <2>6. QueuedIsNews'
    BY <2>1, <2>2 DEF QueuedIsNews, Moves
  <2> QED BY <2>4, <2>5, <2>6
<1> QED BY <1>1, <1>2

\* A request that arrives late, and an ambiguous claim that is given up: both leave
\* the worker where it is (LateClaim, _prepare_claim_retry).
LEMMA LateKept ==
    ASSUME LoopInv, LateClaim \/ DropAmbiguous
    PROVE  LoopInv'
<1> USE DEF LoopInv
<1>1. CASE LateClaim
  <2>1. UNCHANGED <<profile, rev, w, active, wt, faults>> /\ late' = "none"
    BY <1>1 DEF LateClaim
  <2>2. /\ ExecFollows(exec') /\ amb' \in Msgs \union {NoClaim, Unanswered}
        /\ amb = NoClaim => amb' = NoClaim
    <3>1. CASE late = "amb" /\ amb \in Msgs
      BY <1>1, <3>1 DEF LateClaim, ExecFollows, LoopTyped
    <3>2. CASE ~(late = "amb" /\ amb \in Msgs)
      <4>1. PICK res \in ClaimResults(NoClaim) :
               /\ exec' = res.exec
               /\ amb' = IF late = "amb" /\ res.kind = "claim" THEN res.msg ELSE amb
        BY <1>1, <3>2 DEF LateClaim
      <4>2. /\ ExecFollows(res.exec)
            /\ res.kind = "claim" => res.msg \in Msgs
        BY ClaimResultFacts
      <4> QED BY <4>1, <4>2 DEF LoopTyped, SlotsHeld
    <3> QED BY <3>1, <3>2
  <2>3. LoopTyped'
    BY <2>1, <2>2 DEF LoopTyped, ExecFollows
  <2>4. SlotsHeld'
    <3>1. Cardinality(active) \in Nat
      BY FS_CardinalityType DEF SlotsHeld
    <3>2. Cardinality(active) + Ambiguous' <= Slots
      BY WorkerAssumption, <2>2, <3>1 DEF SlotsHeld, Ambiguous
    <3> QED BY <2>1, <2>2, <3>2 DEF SlotsHeld, ExecFollows
  <2>5. QueuedIsNews'
    BY <2>1, <2>2 DEF QueuedIsNews, ExecFollows
  <2> QED BY <2>3, <2>4, <2>5
<1>2. CASE DropAmbiguous
  <2>1. /\ UNCHANGED <<profile, exec, rev, w, active, wt, faults>> /\ amb' = NoClaim
        /\ late' \in {"none", "orphan", late} /\ late' # "amb"
    BY <1>2 DEF DropAmbiguous, LoopTyped
  <2>2. Cardinality(active) \in Nat
    BY FS_CardinalityType DEF SlotsHeld
  <2>3. SlotsHeld'
    BY WorkerAssumption, <2>1, <2>2 DEF SlotsHeld, Ambiguous
  <2> QED BY <2>1, <2>3 DEF LoopTyped, QueuedIsNews
<1> QED BY <1>1, <1>2

\* A task that ends frees its slot and wakes an idle worker.
LEMMA TaskEndsKept ==
    ASSUME LoopInv, NEW m \in Msgs, TaskEnds(m)
    PROVE  LoopInv'
<1> USE DEF LoopInv
<1>1. /\ m \in active /\ active' = active \ {m} /\ exec' = [exec EXCEPT ![m] = "done"]
      /\ UNCHANGED <<profile, rev, amb, late, wt, faults>>
  BY DEF TaskEnds
<1>2. /\ w' \in LoopStates /\ w'.rev = w.rev /\ w'.snap = w.snap /\ w'.retry = w.retry
      /\ w'.pc # "idle"
      /\ w'.pc = "wait" <=> w.pc = "wait"
      /\ w'.pc = "exited" <=> w.pc = "exited"
  <2>1. CASE w.pc = "idle"
    <3> DEFINE z == Quick(w)
    <3>1. z \in LoopStates /\ z.rev = w.rev /\ z.snap = w.snap /\ z.retry = w.retry
      BY DelayFacts DEF KnowsTheSame, LoopTyped
    <3>2. w' = [z EXCEPT !.pc = "top"]
      BY <2>1 DEF TaskEnds
    <3> HIDE DEF z
    <3> QED BY <2>1, <3>1, <3>2 DEF LoopStates
  <2>2. CASE w.pc # "idle"
    BY <2>2 DEF TaskEnds, LoopTyped
  <2> QED BY <2>1, <2>2
<1>3. LoopTyped'
  BY <1>1, <1>2 DEF LoopTyped
<1>4. SlotsHeld'
  <2>1. IsFiniteSet(active') /\ Cardinality(active') <= Cardinality(active)
    BY <1>1, FS_Subset DEF SlotsHeld
  <2>2. Cardinality(active) \in Nat /\ Cardinality(active') \in Nat
    BY <2>1, FS_CardinalityType DEF SlotsHeld
  <2>3. Cardinality(active') + Ambiguous' <= Slots
    BY WorkerAssumption, <1>1, <2>1, <2>2 DEF SlotsHeld, Ambiguous
  <2> QED BY <1>1, <1>2, <2>1, <2>3 DEF SlotsHeld, LoopTyped
<1>5. QueuedIsNews'
  BY <1>1, <1>2 DEF QueuedIsNews, LoopTyped
<1> QED BY <1>3, <1>4, <1>5

\* Only the worker's record moves on, to a place where it neither sleeps nor waits.
LEMMA WorkerMoves ==
    ASSUME LoopInv,
           UNCHANGED <<profile, exec, rev, active, amb, late>>, faults' \in 0..MaxFaults,
           w' \in LoopStates, w'.pc = "top", w'.rev <= rev, w'.snap <= rev, w'.retry = w.retry,
           wt' \in WaitStates, wt'.after <= rev, wt'.pc # "none" => wt'.alone,
           wt'.pc = "blocked" /\ ~wt'.notified => wt.pc = "blocked" /\ ~wt.notified /\ wt'.after = wt.after
    PROVE  LoopInv'
<1> USE DEF LoopInv
<1>1. LoopTyped'
  BY DEF LoopTyped
<1>2. SlotsHeld'
  BY DEF SlotsHeld, Ambiguous
<1>3. QueuedIsNews'
  BY DEF QueuedIsNews
<1> QED BY <1>1, <1>2, <1>3

\* A sleep, and a wait that begins with the revision that the worker knows
\* (StartWait); a second waiter is refused.
LEMMA SleepKept ==
    ASSUME LoopInv, Sleep \/ StartWait
    PROVE  LoopInv'
<1> USE DEF LoopInv
<1>1. CASE Sleep
  <2>1. w' = [w EXCEPT !.pc = "top"] /\ UNCHANGED <<profile, exec, rev, active, amb, late, wt, faults>>
        /\ w.pc = "idle"
    BY <1>1 DEF Sleep
  <2>2. w' \in LoopStates /\ w'.pc = "top" /\ w'.rev = w.rev /\ w'.snap = w.snap /\ w'.retry = w.retry
    BY <2>1 DEF LoopTyped, LoopStates
  <2> QED BY <2>1, <2>2, WorkerMoves DEF LoopTyped
<1>2. CASE StartWait /\ wt = NoWait
  <2>1. /\ wt' = [NoWait EXCEPT !.pc = "listen", !.after = w.rev]
        /\ w' = [w EXCEPT !.pc = "wait"] /\ w.pc = "idle" /\ MayWait
        /\ UNCHANGED <<profile, exec, rev, active, amb, late, faults>>
    BY <1>2 DEF StartWait
  <2>2. w' \in LoopStates /\ w'.pc = "wait" /\ w'.rev = w.rev /\ w'.snap = w.snap /\ w'.retry = w.retry
    BY <2>1 DEF LoopTyped, LoopStates
  <2>3. wt' \in WaitStates /\ wt'.pc = "listen" /\ wt'.after = w.rev /\ wt'.alone = FALSE
    BY <2>1 DEF NoWait, WaitStates, LoopTyped, LoopStates
  <2>4. LoopTyped'
    BY <2>1, <2>2, <2>3 DEF LoopTyped
  <2>5. SlotsHeld'
    BY <2>1, <2>2 DEF SlotsHeld, Ambiguous
  <2>6. QueuedIsNews'
    BY <2>1, <2>2, <2>3 DEF QueuedIsNews, MayWait
  <2> QED BY <2>4, <2>5, <2>6
<1>3. CASE StartWait /\ wt # NoWait
  <2>1. /\ w' = [BackOff(w) EXCEPT !.pc = "top"] /\ w.pc = "idle"
        /\ UNCHANGED <<profile, exec, rev, active, amb, late, wt, faults>>
    BY <1>3 DEF StartWait
  <2>2. w' \in LoopStates /\ w'.pc = "top" /\ w'.rev = w.rev /\ w'.snap = w.snap /\ w'.retry = w.retry
    <3> DEFINE z == BackOff(w)
    <3>1. z \in LoopStates /\ z.rev = w.rev /\ z.snap = w.snap /\ z.retry = w.retry
      BY DelayFacts DEF KnowsTheSame, LoopTyped
    <3>2. w' = [z EXCEPT !.pc = "top"]
      BY <2>1
    <3> HIDE DEF z
    <3> QED BY <3>1, <3>2 DEF LoopStates
  <2> QED BY <2>1, <2>2, WorkerMoves DEF LoopTyped
<1> QED BY <1>1, <1>2, <1>3

\* The answer of a wait, which only a worker that still waits hears (AnswerWait).
LEMMA AnswerKept ==
    ASSUME LoopInv, AnswerWait, wt.pc # "none",
           UNCHANGED <<profile, exec, rev, active, amb, late, faults>>
    PROVE  LoopInv'
<1> USE DEF LoopInv
<1>1. wt' \in WaitStates /\ wt'.pc = "none" /\ wt'.after = 0
  BY DEF AnswerWait, NoWait, WaitStates
<1>2. Later(w.rev, rev) \in Nat /\ Later(w.rev, rev) <= rev
  BY DEF LoopTyped, LoopStates, Later
<1>3. CASE wt.alone
  <2>1. w' = w
    BY <1>3 DEF AnswerWait
  <2>2. w.pc # "wait"
    BY <1>3 DEF LoopTyped
  <2>3. LoopTyped'
    BY <1>1, <2>1, <2>2 DEF LoopTyped
  <2>4. SlotsHeld'
    BY <2>1 DEF SlotsHeld, Ambiguous
  <2>5. QueuedIsNews'
    BY <1>1, <2>1, <2>2 DEF QueuedIsNews
  <2> QED BY <2>3, <2>4, <2>5
<1>4. CASE ~wt.alone /\ rev > wt.after
  <2> DEFINE z == Quick(w)
  <2>1. z \in LoopStates /\ z.rev = w.rev /\ z.snap = w.snap /\ z.retry = w.retry
    BY DelayFacts DEF KnowsTheSame, LoopTyped
  <2>2. w' = [z EXCEPT !.pc = "top", !.rev = Later(z.rev, rev), !.reconciled = FALSE]
    BY <1>4 DEF AnswerWait
  <2> HIDE DEF z
  <2>3. PICK r \in Nat : r <= rev /\ w' = [z EXCEPT !.pc = "top", !.rev = r, !.reconciled = FALSE]
    BY <1>2, <2>1, <2>2
  <2>4. w' \in LoopStates /\ w'.pc = "top" /\ w'.rev = r /\ w'.snap = w.snap /\ w'.retry = w.retry
    BY <2>1, <2>3 DEF LoopStates
  <2> QED BY <1>1, <2>3, <2>4, WorkerMoves DEF LoopTyped
<1>5. CASE ~wt.alone /\ ~(rev > wt.after)
  <2>1. PICK r \in Nat : r <= rev /\ w' = [w EXCEPT !.pc = "top", !.rev = r]
    BY <1>2, <1>5 DEF AnswerWait
  <2>2. w' \in LoopStates /\ w'.pc = "top" /\ w'.rev = r /\ w'.snap = w.snap /\ w'.retry = w.retry
    BY <2>1 DEF LoopStates, LoopTyped
  <2> QED BY <1>1, <2>1, <2>2, WorkerMoves DEF LoopTyped
<1> QED BY <1>3, <1>4, <1>5

\* Foundry's side of a wait: it listens before it reads, and blocks only on the
\* revision it was asked about (_wait_postgres).
LEMMA WaitKept ==
    ASSUME LoopInv, WaitStep
    PROVE  LoopInv'
<1> USE DEF LoopInv
<1>1. ASSUME NEW at \in {"read", "blocked", "reread"}, wt.pc # "none",
             wt' = [wt EXCEPT !.pc = at], at = "blocked" => wt.after = rev,
             UNCHANGED <<profile, exec, rev, w, active, amb, late, faults>>
      PROVE  LoopInv'
  <2>1. wt' \in WaitStates /\ wt'.pc = at /\ wt'.after = wt.after /\ wt'.alone = wt.alone
    BY <1>1 DEF LoopTyped, WaitStates
  <2>2. LoopTyped'
    BY <1>1, <2>1 DEF LoopTyped
  <2>3. SlotsHeld'
    BY <1>1 DEF SlotsHeld, Ambiguous
  <2>4. QueuedIsNews'
    BY <1>1, <2>1 DEF QueuedIsNews
  <2> QED BY <2>2, <2>3, <2>4
<1>2. CASE Listen
  BY <1>1, <1>2 DEF Listen
<1>3. CASE ReadRevision /\ rev > wt.after
  BY <1>3, AnswerKept DEF ReadRevision
<1>4. CASE ReadRevision /\ ~(rev > wt.after)
  <2>1. wt.after = rev
    BY <1>4 DEF LoopTyped, WaitStates
  <2> QED BY <1>1, <1>4, <2>1 DEF ReadRevision
<1>5. CASE WakeUp
  BY <1>1, <1>5 DEF WakeUp
<1>6. CASE Reread
  BY <1>6, AnswerKept DEF Reread
<1> QED BY <1>2, <1>3, <1>4, <1>5, <1>6 DEF WaitStep

\* A wait that fails; its handler may go on without the worker (WaitFails).
LEMMA WaitFailsKept ==
    ASSUME LoopInv, WaitFails
    PROVE  LoopInv'
<1> USE DEF LoopInv
<1>1. /\ UNCHANGED <<profile, exec, rev, active, amb, late>> /\ faults' \in 0..MaxFaults
  BY WorkerAssumption DEF WaitFails, Fault, LoopTyped
<1>2. w' \in LoopStates /\ w'.pc = "top" /\ w'.rev = w.rev /\ w'.snap = w.snap /\ w'.retry = w.retry
  <2> DEFINE z == BackOff(w)
  <2>1. z \in LoopStates /\ z.rev = w.rev /\ z.snap = w.snap /\ z.retry = w.retry
    BY DelayFacts DEF KnowsTheSame, LoopTyped
  <2>2. w' = [z EXCEPT !.pc = "top"] \/ w' = [w EXCEPT !.pc = "top", !.waits = FALSE]
    BY DEF WaitFails
  <2> HIDE DEF z
  <2>3. CASE w' = [z EXCEPT !.pc = "top"]
    BY <2>1, <2>3 DEF LoopStates
  <2>4. CASE w' = [w EXCEPT !.pc = "top", !.waits = FALSE]
    BY <2>4 DEF LoopStates, LoopTyped
  <2> QED BY <2>2, <2>3, <2>4
<1>3. CASE wt' = NoWait
  <2>1. wt' \in WaitStates /\ wt'.pc = "none" /\ wt'.after = 0
    BY <1>3 DEF NoWait, WaitStates
  <2> QED BY <1>1, <1>2, <2>1, WorkerMoves DEF LoopTyped
<1>4. CASE wt' = [wt EXCEPT !.alone = TRUE]
  <2>1. /\ wt' \in WaitStates /\ wt'.pc = wt.pc /\ wt'.after = wt.after /\ wt'.alone = TRUE
        /\ wt'.notified = wt.notified
    BY <1>4 DEF WaitStates, LoopTyped
  <2> QED BY <1>1, <1>2, <2>1, WorkerMoves DEF LoopTyped
<1> QED BY <1>3, <1>4 DEF WaitFails

\* The end and the start of the process: what it knew is lost, its wait goes on
\* without it, and Foundry keeps its leases (Crash, DrainEnds, Boot).
LEMMA ProcessKept ==
    ASSUME LoopInv, Crash \/ DrainEnds \/ Boot
    PROVE  LoopInv'
<1> USE DEF LoopInv
<1>1. ASSUME NEW at \in {"top", "exited"}, w' = [Started EXCEPT !.pc = at],
             active' = {}, amb' = NoClaim, late' # "amb", late' \in {"none", "amb", "orphan"},
             faults' \in 0..MaxFaults, UNCHANGED <<profile, exec, rev>>,
             wt' \in WaitStates, wt'.after = wt.after, wt'.pc = wt.pc,
             wt'.notified = wt.notified, wt'.pc # "none" => wt'.alone
      PROVE  LoopInv'
  <2>1. /\ w' \in LoopStates /\ w'.pc = at /\ w'.rev = 0 /\ w'.snap = 0 /\ w'.slow = FALSE
    <3>1. w' = [pc |-> at, rev |-> 0, snap |-> 0, saw |-> {}, reconciled |-> FALSE,
                retry |-> FALSE, slow |-> FALSE, back |-> FALSE, fast |-> 0, waits |-> TRUE]
      BY <1>1 DEF Started
    <3>2. at \in {"top", "pass", "claim", "idle", "wait", "drain", "exited"} /\ 0 \in 0..FastPolls
      BY WorkerAssumption, <1>1
    <3> QED BY <3>1, <3>2 DEF LoopStates
  <2>2. LoopTyped'
    BY <1>1, <2>1 DEF LoopTyped
  <2>3. SlotsHeld'
    BY WorkerAssumption, <1>1, FS_EmptySet DEF SlotsHeld, Ambiguous
  <2>4. QueuedIsNews'
    BY <1>1, <2>1 DEF QueuedIsNews
  <2> QED BY <2>2, <2>3, <2>4
<1>2. CASE Crash
  <2>1. /\ w' = [Started EXCEPT !.pc = "exited"] /\ active' = {} /\ amb' = NoClaim
        /\ late' # "amb" /\ late' \in {"none", "amb", "orphan"}
        /\ faults' \in 0..MaxFaults /\ UNCHANGED <<profile, exec, rev>>
        /\ wt' = IF w.pc = "wait" THEN [wt EXCEPT !.alone = TRUE] ELSE wt
    BY WorkerAssumption, <1>2 DEF Crash, Fault, Exited, Abandoned, LoopTyped
  <2>2. /\ wt' \in WaitStates /\ wt'.after = wt.after /\ wt'.pc = wt.pc
        /\ wt'.notified = wt.notified
        /\ wt'.pc # "none" => wt'.alone
    <3>1. CASE w.pc = "wait"
      <4>1. wt' = [wt EXCEPT !.alone = TRUE]
        BY <2>1, <3>1
      <4> QED BY <4>1 DEF LoopTyped, WaitStates
    <3>2. CASE w.pc # "wait"
      BY <2>1, <3>2 DEF LoopTyped
    <3> QED BY <3>1, <3>2
  <2> QED BY <1>1, <2>1, <2>2
<1>3. CASE DrainEnds
  <2>1. /\ w' = [Started EXCEPT !.pc = "exited"] /\ active' = {} /\ amb' = NoClaim
        /\ late' # "amb" /\ late' \in {"none", "amb", "orphan"}
        /\ UNCHANGED <<profile, exec, rev, wt, faults>> /\ w.pc # "wait"
    BY <1>3 DEF DrainEnds, Exited, LoopTyped
  <2> QED BY <1>1, <2>1 DEF LoopTyped
<1>4. CASE Boot
  <2>1. /\ w' = Started /\ w.pc = "exited"
        /\ UNCHANGED <<profile, exec, rev, active, amb, late, wt, faults>>
    BY <1>4 DEF Boot
  <2>2. w' \in LoopStates /\ w'.pc = "top" /\ w'.rev = 0 /\ w'.snap = 0 /\ w'.retry = FALSE
    BY WorkerAssumption, <2>1 DEF Started, LoopStates
  <2>3. amb = NoClaim
    BY <2>1 DEF SlotsHeld
  <2>4. LoopTyped'
    BY <2>1, <2>2 DEF LoopTyped
  <2>5. SlotsHeld'
    BY <2>1, <2>2, <2>3 DEF SlotsHeld, Ambiguous
  <2>6. QueuedIsNews'
    BY <2>1, <2>2 DEF QueuedIsNews
  <2> QED BY <2>4, <2>5, <2>6
<1> QED BY <1>2, <1>3, <1>4

\* Every step of the loop keeps its invariant.
LEMMA LoopStep ==
    ASSUME LoopInv, [LoopNext]_loopVars
    PROVE  LoopInv'
<1>1. CASE UNCHANGED loopVars
  BY <1>1 DEF loopVars, LoopInv, LoopTyped, SlotsHeld, QueuedIsNews, Ambiguous
<1>2. CASE \E m \in Msgs : \/ Requests(m) \/ MessageLeaseExpires(m)
                           \/ CleanupDeadline(m) \/ TaskEnds(m)
  BY <1>2, RequestsKept, TaskEndsKept
<1>3. CASE WorkerStep
  BY <1>3, PassKept, ClaimKept, NoAnswerKept, SleepKept, ProcessKept DEF WorkerStep
<1>4. CASE WaitStep
  BY <1>4, WaitKept
<1>5. CASE PassFails \/ ClaimFails \/ LateClaim \/ DropAmbiguous
           \/ WaitFails \/ Crash
  BY <1>5, PassKept, NoAnswerKept, LateKept, WaitFailsKept, ProcessKept
<1> QED BY <1>1, <1>2, <1>3, <1>4, <1>5 DEF LoopNext

\* What the run checks follows: a wait that blocks compares with the current
\* revision, so nothing that is queued is news to it.
LEMMA LoopInvSuffices ==
    ASSUME LoopInv
    PROVE  NoSleepThroughWork
<1>1. LoopTypeOK
  BY DEF LoopInv, LoopTyped, LoopStates, WaitStates, LoopTypeOK
<1>2. Cardinality(active) + Ambiguous <= Slots /\ \A m \in active : exec[m] = "running"
  BY DEF LoopInv, SlotsHeld
<1>3. ASSUME wt.pc = "blocked", ~wt.alone, ~wt.notified, NEW m \in Msgs, exec[m] = "queued"
      PROVE  FALSE
  <2>1. w.pc = "wait" /\ rev \in Nat
    BY <1>3 DEF LoopInv, LoopTyped
  <2> QED BY <1>3, <2>1 DEF LoopInv, QueuedIsNews
<1> QED BY <1>1, <1>2, <1>3 DEF NoSleepThroughWork

\* A worker that waits to be told of activity leaves no new message behind that it
\* could claim, its tasks never exceed its slots and each of them holds a lease
\* (_run_loop and _wait_postgres), for every number of messages, slots and faults.
THEOREM WorkerNeverSleepsThroughWork == LoopSpec => []NoSleepThroughWork
<1>1. LoopInit => LoopInv
  BY LoopInitially
<1>2. LoopInv /\ [LoopNext]_loopVars => LoopInv'
  BY LoopStep
<1>3. LoopInv => NoSleepThroughWork
  BY LoopInvSuffices
<1> QED BY <1>1, <1>2, <1>3, PTL DEF LoopSpec

=============================================================================
