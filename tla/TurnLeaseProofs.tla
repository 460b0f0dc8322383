--------------------------- MODULE TurnLeaseProofs ---------------------------
(***************************************************************************)
(* Theorems about TurnLease, for every set of profiles, attempts and       *)
(* sessions and every bound; and, in its last part, about RuntimePower,    *)
(* for every finite set of worker processes and every limit.               *)
(***************************************************************************)
EXTENDS TurnLease, RuntimePower, FiniteSetTheorems, TLAPS

-----------------------------------------------------------------------------
(* Type correctness.                                                       *)

\* The initial rows have their types.
LEMMA TypeInit == Init => TypeOK
<1>1. AbsentProfile \in ProfileRow
  BY DEF AbsentProfile, ProfileRow, Lifecycles, SessionRefs
<1>2. NoExecution \in ExecutionRow
  BY DEF NoExecution, ExecutionRow, ExecutionStatuses
<1>3. NoAttempt \in AttemptRow
  <2>1. 0 \in 0..MaxTerminalSequence
    BY BoundsAssumption DEF MaxTerminalSequence
  <2>. QED
    BY <2>1 DEF NoAttempt, AttemptRow, AttemptStatuses, SessionRefs
<1>4. NoLease \in LeaseRow
  BY BoundsAssumption DEF NoLease, LeaseRow, LeaseStates
<1>5. ASSUME Init PROVE TypeOK
  <2>1. machineGeneration \in Nat \ {0} /\ phase \in Phases
    BY <1>5 DEF Init, Phases
  <2>2. ready \in BOOLEAN
    BY <1>5 DEF Init
  <2>3. profile \in [Profiles -> ProfileRow]
    BY <1>1, <1>5 DEF Init
  <2>4. execution \in [Executions -> ExecutionRow]
    BY <1>2, <1>5 DEF Init
  <2>5. attempt \in [Attempts -> AttemptRow] /\ lease \in [Attempts -> LeaseRow]
    BY <1>3, <1>4, <1>5 DEF Init
  <2>. QED
    BY <2>1, <2>2, <2>3, <2>4, <2>5 DEF TypeOK
<1>. QED
  BY <1>5

\* What an expired lease leaves behind has the type of what it found.
LEMMA ReconciledTypes ==
  ASSUME TypeOK, NEW S \in SUBSET Attempts, RecoveryEventsFit(S)
  PROVE  /\ AttemptsAfter(S) \in [Attempts -> AttemptRow]
         /\ ExecutionsAfter(S) \in [Executions -> ExecutionRow]
         /\ LeasesAfter(S) \in [Attempts -> LeaseRow]
<1>1. AttemptsAfter(S) \in [Attempts -> AttemptRow]
  <2>1. SUFFICES ASSUME NEW a \in S
                 PROVE  ReconciledAttempt(a) \in AttemptRow
    BY DEF AttemptsAfter, TypeOK
  <2>2. attempt[a] \in AttemptRow
    BY DEF TypeOK
  <2>3. NeedsFailureEvent(a) => attempt[a].sequence + 1 \in 0..MaxTerminalSequence
    BY <2>2, BoundsAssumption DEF RecoveryEventsFit, AttemptRow, MaxTerminalSequence
  <2>. QED
    BY <2>2, <2>3 DEF ReconciledAttempt, AttemptRow, AttemptStatuses
<1>2. ExecutionsAfter(S) \in [Executions -> ExecutionRow]
  <2>1. SUFFICES ASSUME NEW e \in Executions
                 PROVE  [execution[e] EXCEPT !.status = ReconciledStatus(S, e)]
                          \in ExecutionRow
    BY DEF ExecutionsAfter
  <2>2. execution[e] \in ExecutionRow
    BY DEF TypeOK
  <2>3. ReconciledStatus(S, e) \in ExecutionStatuses
    BY <2>2 DEF ReconciledStatus, ExecutionStatuses, ExecutionRow
  <2>. QED
    BY <2>2, <2>3 DEF ExecutionRow
<1>3. LeasesAfter(S) \in [Attempts -> LeaseRow]
  BY DEF LeasesAfter, ReconciledLease, TypeOK, LeaseRow, LeaseStates
<1>. QED
  BY <1>1, <1>2, <1>3

\* Ending an attempt as unknown keeps its type.
LEMMA UnknownType ==
  ASSUME NEW r \in AttemptRow
  PROVE  [r EXCEPT !.status = "unknown"] \in AttemptRow
  BY DEF AttemptRow, AttemptStatuses

\* A new attempt and its lease have the types of their tables.
LEMMA ClaimedTypes ==
  ASSUME TypeOK, NEW e \in Executions, execution[e].profile \in Profiles
  PROVE  /\ [NoAttempt EXCEPT !.status = "running", !.execution = e,
                              !.generation = machineGeneration,
                              !.expected = profile[execution[e].profile].session]
               \in AttemptRow
         /\ [state |-> "active", remaining |-> LeaseTerm] \in LeaseRow
<1>1. 0 \in 0..MaxTerminalSequence /\ LeaseTerm \in 0..LeaseTerm
  BY BoundsAssumption DEF MaxTerminalSequence
<1>2. profile[execution[e].profile].session \in SessionRefs
  BY DEF TypeOK, ProfileRow
<1>. QED
  BY <1>1, <1>2 DEF TypeOK, NoAttempt, AttemptRow, LeaseRow, AttemptStatuses,
                    LeaseStates, SessionRefs

-----------------------------------------------------------------------------
(* The rows refer to each other: a created execution has a profile, an     *)
(* attempt that exists belongs to a created execution that has not been    *)
(* deleted, and an attempt that does not exist has no lease.               *)

RowsLinked ==
    /\ \A e \in Executions :
          execution[e].status # "none" => execution[e].profile \in Profiles
    /\ \A a \in Attempts :
          attempt[a].status = "none" => attempt[a] = NoAttempt /\ lease[a] = NoLease
    /\ \A a \in Attempts :
          attempt[a].status # "none" =>
              /\ attempt[a].execution \in Executions
              /\ execution[attempt[a].execution].status \notin {"none", "purged"}

TypeLinked == TypeOK /\ RowsLinked

\* The reconciliation of stale leases keeps the links: every row keeps its
\* identity, and no execution is created or deleted.
LEMMA ReconciledRows ==
  ASSUME TypeLinked, NEW S \in SUBSET StaleLeases
  PROVE  /\ \A a \in S : attempt[a].status # "none"
         /\ \A a \in Attempts :
              /\ AttemptsAfter(S)[a].execution = attempt[a].execution
              /\ AttemptsAfter(S)[a].status = "none" <=> attempt[a].status = "none"
              /\ a \notin S => /\ AttemptsAfter(S)[a] = attempt[a]
                               /\ LeasesAfter(S)[a] = lease[a]
         /\ \A e \in Executions :
              /\ ExecutionsAfter(S)[e].profile = execution[e].profile
              /\ ExecutionsAfter(S)[e].status = ReconciledStatus(S, e)
              /\ ReconciledStatus(S, e) = "none" <=> execution[e].status = "none"
              /\ ReconciledStatus(S, e) = "purged" <=> execution[e].status = "purged"
<1>1. ASSUME NEW a \in S PROVE a \in Attempts /\ attempt[a].status # "none"
  BY <1>1 DEF StaleLeases, LiveLease, IsLive, LiveStates, TypeLinked, RowsLinked, NoLease
<1>2. ASSUME NEW a \in Attempts
      PROVE  /\ AttemptsAfter(S)[a].execution = attempt[a].execution
             /\ AttemptsAfter(S)[a].status = "none" <=> attempt[a].status = "none"
             /\ a \notin S => /\ AttemptsAfter(S)[a] = attempt[a]
                              /\ LeasesAfter(S)[a] = lease[a]
  <2>1. attempt[a] \in AttemptRow
    BY DEF TypeLinked, TypeOK
  <2>. QED
    BY <2>1 DEF AttemptsAfter, LeasesAfter, ReconciledAttempt, AttemptRow, Unresolved
<1>3. ASSUME NEW e \in Executions
      PROVE  /\ ExecutionsAfter(S)[e].profile = execution[e].profile
             /\ ExecutionsAfter(S)[e].status = ReconciledStatus(S, e)
             /\ ReconciledStatus(S, e) = "none" <=> execution[e].status = "none"
             /\ ReconciledStatus(S, e) = "purged" <=> execution[e].status = "purged"
  <2>1. execution[e] \in ExecutionRow
    BY DEF TypeLinked, TypeOK
  <2>2. ASSUME NEW a \in S, attempt[a].execution = e
        PROVE  execution[e].status \notin {"none", "purged"}
    BY <1>1, <2>2 DEF TypeLinked, RowsLinked
  <2>3. ExecutionsAfter(S)[e] = [execution[e] EXCEPT !.status = ReconciledStatus(S, e)]
    BY DEF ExecutionsAfter
  <2>. QED
    BY <2>1, <2>2, <2>3 DEF ReconciledStatus, ExecutionRow
<1>. QED
  BY <1>1, <1>2, <1>3

\* A claim, whether it hands out work or not, keeps types and links.
LEMMA TypeLinkedClaim ==
  ASSUME TypeLinked, NEW S \in StaleBatches,
         \/ \E a \in Attempts : ClaimExecution(a, S)
         \/ CommitReconciliation(S)
  PROVE  TypeLinked'
<1>. USE DEF TypeLinked
<1>1. S \in SUBSET StaleLeases /\ S \in SUBSET Attempts
  BY DEF StaleBatches, StaleLeases
<1>2. CASE CommitReconciliation(S)
  <2>1. TypeOK'
    BY <1>1, <1>2, ReconciledTypes DEF CommitReconciliation, TypeOK
  <2>2. RowsLinked'
    BY <1>1, <1>2, ReconciledRows DEF CommitReconciliation, RowsLinked
  <2>. QED
    BY <2>1, <2>2
<1>3. ASSUME NEW a \in Attempts, ClaimExecution(a, S)
      PROVE  TypeLinked'
  <2>1. RecoveryEventsFit(S) /\ attempt[a].status = "none"
    BY <1>3 DEF ClaimExecution
  <2>2. PICK e \in OldestClaimable(S) :
          /\ attempt' = [AttemptsAfter(S) EXCEPT ![a] =
                [NoAttempt EXCEPT !.status = "running", !.execution = e,
                                  !.generation = machineGeneration,
                                  !.expected = profile[execution[e].profile].session]]
          /\ execution' = [ExecutionsAfter(S) EXCEPT ![e].status = "running"]
          /\ lease' = [LeasesAfter(S) EXCEPT ![a] =
                [state |-> "active", remaining |-> LeaseTerm]]
    BY <1>3 DEF ClaimExecution
  <2>3. e \in Executions /\ ExecutionsAfter(S)[e].status = "queued"
    BY DEF OldestClaimable, ClaimableAfter, QueuedAfter
  <2>4. execution[e].profile \in Profiles
    BY <1>1, <2>3, ReconciledRows DEF RowsLinked
  <2>5. TypeOK'
    <3>1. attempt' \in [Attempts -> AttemptRow] /\ lease' \in [Attempts -> LeaseRow]
      BY <1>1, <2>1, <2>2, <2>3, <2>4, ReconciledTypes, ClaimedTypes
    <3>2. execution' \in [Executions -> ExecutionRow]
      BY <1>1, <2>1, <2>2, <2>3, ReconciledTypes DEF ExecutionRow, ExecutionStatuses
    <3>. QED
      BY <1>3, <3>1, <3>2 DEF ClaimExecution, TypeOK
  <2>6. RowsLinked'
    <3>1. \A f \in Executions :
            /\ execution'[f].profile = execution[f].profile
            /\ execution'[f].status =
                 IF f = e THEN "running" ELSE ReconciledStatus(S, f)
      BY <1>1, <2>1, <2>2, <2>3, ReconciledRows, ReconciledTypes DEF ExecutionRow
    <3>2. /\ attempt'[a].status = "running" /\ attempt'[a].execution = e
          /\ \A b \in Attempts \ {a} :
               attempt'[b] = AttemptsAfter(S)[b] /\ lease'[b] = LeasesAfter(S)[b]
      BY <1>1, <2>1, <2>2, ReconciledTypes DEF NoAttempt
    <3>3. execution[e].status # "none"
      BY <1>1, <2>3, ReconciledRows
    <3>4. \A b \in Attempts \ {a} :
            /\ attempt'[b].status = "none" => attempt'[b] = NoAttempt /\ lease'[b] = NoLease
            /\ attempt'[b].status # "none" =>
                 /\ attempt'[b].execution \in Executions
                 /\ execution'[attempt'[b].execution].status \notin {"none", "purged"}
      BY <1>1, <3>1, <3>2, ReconciledRows DEF RowsLinked
    <3>. QED
      BY <2>3, <3>1, <3>2, <3>3, <3>4, <2>4, <1>1, ReconciledRows DEF RowsLinked
  <2>. QED
    BY <2>5, <2>6
<1>. QED
  BY <1>2, <1>3

\* The steps of a profile's lifecycle keep types and links; deleting a
\* profile deletes the attempts of its executions with them.
LEMMA TypeLinkedProfile ==
  ASSUME TypeLinked, NEW p \in Profiles, ProfileStep(p)
  PROVE  TypeLinked'
<1>. USE DEF TypeLinked
<1>1. CASE \/ EnsureProfile(p) \/ AcceptMaterialization(p) \/ PollExpiredDeletion(p)
           \/ CleanupDeadline(p) \/ AcceptDeletedReceipt(p)
  <2>1. UNCHANGED <<machineGeneration, phase, ready, execution, attempt, lease>>
    BY <1>1 DEF EnsureProfile, AcceptMaterialization, PollExpiredDeletion,
                CleanupDeadline, AcceptDeletedReceipt
  <2>2. profile' \in [Profiles -> ProfileRow]
    <3>1. CASE EnsureProfile(p)
      BY <3>1 DEF EnsureProfile, TypeOK, ProfileRow, Lifecycles
    <3>2. CASE AcceptMaterialization(p)
      BY <3>2 DEF AcceptMaterialization, TypeOK, ProfileRow, Lifecycles
    <3>3. CASE PollExpiredDeletion(p)
      BY <3>3 DEF PollExpiredDeletion, TypeOK, ProfileRow, Lifecycles
    <3>4. CASE CleanupDeadline(p)
      BY <3>4 DEF CleanupDeadline, TypeOK, ProfileRow
    <3>5. CASE AcceptDeletedReceipt(p)
      BY <3>5 DEF AcceptDeletedReceipt, TypeOK, ProfileRow, Lifecycles
    <3>. QED
      BY <1>1, <3>1, <3>2, <3>3, <3>4, <3>5
  <2>. QED
    BY <2>1, <2>2 DEF TypeOK, RowsLinked
<1>2. CASE RequestDeletion(p) \/ ResumeDeletion(p)
  <2>1. /\ UNCHANGED <<machineGeneration, phase, ready, execution, attempt>>
        /\ StopActiveLeases(p)
    BY <1>2 DEF RequestDeletion, ResumeDeletion
  <2>2. profile' \in [Profiles -> ProfileRow]
    BY <1>2 DEF RequestDeletion, ResumeDeletion, TypeOK, ProfileRow, Lifecycles
  <2>3. lease' \in [Attempts -> LeaseRow]
    BY <2>1 DEF StopActiveLeases, TypeOK, LeaseRow, LeaseStates
  <2>4. \A a \in Attempts : lease[a] = NoLease => lease'[a] = NoLease
    BY <2>1 DEF StopActiveLeases, NoLease
  <2>5. TypeOK'
    BY <2>1, <2>2, <2>3 DEF TypeOK
  <2>6. RowsLinked'
    BY <2>1, <2>4 DEF RowsLinked
  <2>. QED
    BY <2>5, <2>6
<1>3. CASE AcceptRepairReceipt(p) \/ ExpireProfileCleanup(p)
  <2>1. FenceProfileLeases(p)
    BY <1>3 DEF AcceptRepairReceipt, ExpireProfileCleanup
  <2>2. profile' \in [Profiles -> ProfileRow]
    BY <2>1 DEF FenceProfileLeases, TypeOK, ProfileRow, Lifecycles
  <2>3. lease' \in [Attempts -> LeaseRow]
    BY <2>1 DEF FenceProfileLeases, TypeOK, LeaseRow, LeaseStates
  <2>4. attempt' \in [Attempts -> AttemptRow]
    BY <2>1, UnknownType DEF FenceProfileLeases, TypeOK
  <2>5. execution' \in [Executions -> ExecutionRow]
    BY <2>1 DEF FenceProfileLeases, TypeOK, ExecutionRow, ExecutionStatuses
  <2>6. /\ \A a \in Attempts :
            /\ attempt'[a].status = "none" <=> attempt[a].status = "none"
            /\ attempt'[a].execution = attempt[a].execution
            /\ attempt[a].status = "none" => attempt'[a] = attempt[a]
            /\ lease[a] = NoLease => lease'[a] = NoLease
        /\ \A e \in Executions :
            /\ execution'[e].profile = execution[e].profile
            /\ execution'[e].status \in {"none", "purged"} <=>
                 execution[e].status \in {"none", "purged"}
            /\ execution'[e].status = "none" <=> execution[e].status = "none"
    BY <2>1 DEF FenceProfileLeases, TypeOK, AttemptRow, ExecutionRow, NoLease,
                LiveLease, IsLive, LiveStates, Unresolved
  <2>7. TypeOK'
    BY <2>1, <2>2, <2>3, <2>4, <2>5 DEF FenceProfileLeases, TypeOK
  <2>8. RowsLinked'
    BY <2>6 DEF RowsLinked
  <2>. QED
    BY <2>7, <2>8
<1>4. CASE PurgeProfile(p)
  <2>1. profile' \in [Profiles -> ProfileRow]
    BY <1>4 DEF PurgeProfile, TypeOK, ProfileRow, Lifecycles, AbsentProfile, SessionRefs
  <2>2. execution' \in [Executions -> ExecutionRow]
    BY <1>4 DEF PurgeProfile, TypeOK, ExecutionRow, ExecutionStatuses
  <2>3. NoAttempt \in AttemptRow /\ NoLease \in LeaseRow
    <3>1. 0 \in 0..MaxTerminalSequence
      BY BoundsAssumption DEF MaxTerminalSequence
    <3>. QED
      BY <3>1, BoundsAssumption DEF NoAttempt, NoLease, AttemptRow, LeaseRow,
            AttemptStatuses, LeaseStates, SessionRefs
  <2>4. attempt' \in [Attempts -> AttemptRow] /\ lease' \in [Attempts -> LeaseRow]
    BY <1>4, <2>3 DEF PurgeProfile, TypeOK
  <2>5. TypeOK'
    BY <1>4, <2>1, <2>2, <2>4 DEF PurgeProfile, TypeOK
  <2>6. \A e \in Executions :
          /\ execution'[e].profile = execution[e].profile
          /\ execution[e].profile # p => execution'[e] = execution[e]
          /\ execution[e].profile = p => execution'[e].status = "purged"
    BY <1>4 DEF PurgeProfile, TypeOK, ExecutionRow
  <2>7. \A a \in Attempts :
          \/ attempt'[a] = NoAttempt /\ lease'[a] = NoLease
          \/ /\ attempt'[a] = attempt[a] /\ lease'[a] = lease[a]
             /\ attempt[a].status # "none" => OwnerOf(a) # p
    BY <1>4 DEF PurgeProfile
  <2>8. ASSUME NEW a \in Attempts, attempt'[a].status # "none"
        PROVE  /\ attempt'[a].execution \in Executions
               /\ execution'[attempt'[a].execution].status \notin {"none", "purged"}
    <3>1. attempt'[a] = attempt[a] /\ OwnerOf(a) # p
      BY <2>7, <2>8 DEF NoAttempt
    <3>. QED
      BY <2>6, <2>8, <3>1 DEF RowsLinked, OwnerOf
  <2>9. \A a \in Attempts :
          attempt'[a].status = "none" => attempt'[a] = NoAttempt /\ lease'[a] = NoLease
    BY <2>7 DEF RowsLinked
  <2>10. \A e \in Executions :
          execution'[e].status # "none" => execution'[e].profile \in Profiles
    BY <2>6 DEF RowsLinked
  <2>. QED
    BY <2>5, <2>8, <2>9, <2>10 DEF RowsLinked
<1>5. ASSUME NEW e \in Executions, CreateExecution(p, e)
      PROVE  TypeLinked'
  <2>1. execution' \in [Executions -> ExecutionRow]
    BY <1>5 DEF CreateExecution, TypeOK, ExecutionRow, ExecutionStatuses
  <2>2. /\ execution'[e] = [status |-> "queued", profile |-> p]
        /\ \A f \in Executions \ {e} : execution'[f] = execution[f]
    BY <1>5 DEF CreateExecution, TypeOK
  <2>. QED
    BY <1>5, <2>1, <2>2 DEF CreateExecution, TypeOK, RowsLinked
<1>. QED
  BY <1>1, <1>2, <1>3, <1>4, <1>5 DEF ProfileStep

\* The requests of a lease holder keep types and links.
LEMMA TypeLinkedHolder ==
  ASSUME TypeLinked, NEW a \in Attempts, HolderStep(a)
  PROVE  TypeLinked'
<1>. USE DEF TypeLinked
<1>0. attempt[a] \in AttemptRow /\ lease[a] \in LeaseRow
  BY DEF TypeOK
<1>1. CASE ElapseLease(a) \/ RenewLease(a)
  <2>1. lease' \in [Attempts -> LeaseRow]
    <3>1. CASE ElapseLease(a)
      BY <3>1, <1>0, BoundsAssumption DEF ElapseLease, TypeOK, LeaseRow
    <3>2. CASE RenewLease(a)
      BY <3>2, BoundsAssumption DEF RenewLease, TypeOK, LeaseRow
    <3>. QED
      BY <1>1, <3>1, <3>2
  <2>2. attempt[a].status # "none"
    BY <1>1, <1>0 DEF ElapseLease, RenewLease, AuthorizesMutation, LiveLease, IsLive,
                      LiveStates, RowsLinked, NoLease
  <2>3. \A b \in Attempts : attempt[b].status = "none" => lease'[b] = lease[b]
    BY <1>1, <2>2 DEF ElapseLease, RenewLease, TypeOK
  <2>4. TypeOK'
    BY <1>1, <2>1 DEF ElapseLease, RenewLease, TypeOK
  <2>5. RowsLinked'
    BY <1>1, <2>3 DEF ElapseLease, RenewLease, RowsLinked
  <2>. QED
    BY <2>4, <2>5
<1>2. ASSUME NEW n \in SequenceNumbers, NEW d \in RuntimeEvents, AppendEvent(a, n, d)
      PROVE  TypeLinked'
  <2>1. n \in 0..MaxTerminalSequence
    BY <1>2, BoundsAssumption DEF AppendEvent, RuntimeSequenceAllowed, SequenceNumbers,
                                  MaxTerminalSequence
  <2> DEFINE r == [attempt[a] EXCEPT
                     !.sequence = n,
                     !.dispatched = attempt[a].dispatched \/ d = "dispatched",
                     !.stopEvent = attempt[a].stopEvent \/ d = "stopped"]
  <2>2. r \in AttemptRow
    BY <1>0, <2>1 DEF AttemptRow
  <2>3. attempt' = [attempt EXCEPT ![a] = r]
    BY <1>2 DEF AppendEvent, TypeOK
  <2>4. TypeOK'
    BY <1>2, <2>2, <2>3 DEF AppendEvent, TypeOK
  <2>5. /\ attempt'[a].status = attempt[a].status
        /\ attempt'[a].execution = attempt[a].execution
        /\ attempt[a].status # "none"
        /\ \A b \in Attempts \ {a} : attempt'[b] = attempt[b]
    BY <1>0, <1>2, <2>3 DEF TypeOK, AttemptRow, AppendEvent, AuthorizesMutation
  <2>6. RowsLinked'
    BY <1>2, <2>5 DEF AppendEvent, RowsLinked
  <2>. QED
    BY <2>4, <2>6
<1>3. ASSUME NEW s \in Sessions, UpdateSessionBinding(a, s)
      PROVE  TypeLinked'
  <2>1. attempt' \in [Attempts -> AttemptRow]
    BY <1>3, <1>0 DEF UpdateSessionBinding, TypeOK, AttemptRow, SessionRefs
  <2>2. profile' \in [Profiles -> ProfileRow]
    BY <1>3 DEF UpdateSessionBinding, TypeOK, ProfileRow, SessionRefs
  <2>3. TypeOK'
    BY <1>3, <2>1, <2>2 DEF UpdateSessionBinding, TypeOK
  <2>4. /\ attempt'[a].status = attempt[a].status
        /\ attempt'[a].execution = attempt[a].execution
        /\ attempt[a].status # "none"
        /\ \A b \in Attempts \ {a} : attempt'[b] = attempt[b]
    BY <1>0, <1>3 DEF TypeOK, AttemptRow, UpdateSessionBinding, AuthorizesMutation
  <2>5. RowsLinked'
    BY <1>3, <2>4 DEF UpdateSessionBinding, RowsLinked
  <2>. QED
    BY <2>3, <2>5
<1>4. ASSUME NEW n \in SequenceNumbers, NEW outcome \in {"succeeded", "failed"},
             NEW event \in {"completed", "failed"}, NEW s \in SessionRefs,
             Finish(a, n, outcome, event, s), profile' \in [Profiles -> ProfileRow]
      PROVE  TypeLinked'
  <2>1. n \in 0..MaxTerminalSequence
    BY <1>4, BoundsAssumption DEF Finish, TerminalSequenceAllowed, SequenceNumbers,
                                  MaxTerminalSequence
  <2>2. attempt' \in [Attempts -> AttemptRow]
    BY <1>0, <1>4, <2>1 DEF Finish, TypeOK, AttemptRow, AttemptStatuses
  <2>3. execution' \in [Executions -> ExecutionRow]
    BY <1>4 DEF Finish, TypeOK, ExecutionRow, ExecutionStatuses
  <2>4. lease' \in [Attempts -> LeaseRow]
    BY <1>4 DEF Finish, TypeOK, LeaseRow, LeaseStates
  <2>5. TypeOK'
    BY <1>4, <2>2, <2>3, <2>4 DEF Finish, TypeOK
  <2>6. /\ attempt[a].status # "none" /\ attempt'[a].status # "none"
        /\ attempt'[a].execution = attempt[a].execution
        /\ \A b \in Attempts \ {a} : attempt'[b] = attempt[b] /\ lease'[b] = lease[b]
    BY <1>0, <1>4 DEF TypeOK, AttemptRow, Finish, AuthorizesMutation
  <2>7. \A e \in Executions :
          /\ execution'[e].profile = execution[e].profile
          /\ execution'[e].status \in {execution[e].status, "succeeded", "failed"}
          /\ e # attempt[a].execution => execution'[e] = execution[e]
    BY <1>4 DEF Finish, TypeOK, ExecutionRow
  <2>8. RowsLinked'
    BY <2>6, <2>7 DEF RowsLinked
  <2>. QED
    BY <2>5, <2>8
<1>5. ASSUME NEW n \in SequenceNumbers, NEW s \in Sessions, CompleteAttempt(a, n, s)
      PROVE  TypeLinked'
  <2>1. profile' \in [Profiles -> ProfileRow]
    BY <1>5 DEF CompleteAttempt, TypeOK, ProfileRow, SessionRefs
  <2>. QED
    BY <1>4, <1>5, <2>1 DEF CompleteAttempt, SessionRefs
<1>6. ASSUME NEW n \in SequenceNumbers, FailAttempt(a, n)
      PROVE  TypeLinked'
  <2>1. attempt[a].session \in SessionRefs /\ profile' \in [Profiles -> ProfileRow]
    BY <1>0, <1>6 DEF AttemptRow, FailAttempt, TypeOK
  <2>. QED
    BY <1>4, <1>6, <2>1 DEF FailAttempt
<1>7. CASE AcknowledgeStopped(a)
  <2>1. attempt' \in [Attempts -> AttemptRow]
    BY <1>0, <1>7 DEF AcknowledgeStopped, TypeOK, AttemptRow, AttemptStatuses
  <2>2. execution' \in [Executions -> ExecutionRow]
    BY <1>7 DEF AcknowledgeStopped, TypeOK, ExecutionRow, ExecutionStatuses
  <2>3. lease' \in [Attempts -> LeaseRow]
    BY <1>7 DEF AcknowledgeStopped, TypeOK, LeaseRow, LeaseStates
  <2>4. TypeOK'
    BY <1>7, <2>1, <2>2, <2>3 DEF AcknowledgeStopped, TypeOK
  <2>5. /\ attempt[a].status # "none" /\ attempt'[a].status # "none"
        /\ attempt'[a].execution = attempt[a].execution
        /\ \A b \in Attempts \ {a} : attempt'[b] = attempt[b] /\ lease'[b] = lease[b]
    BY <1>0, <1>7 DEF TypeOK, AttemptRow, AcknowledgeStopped
  <2>6. \A e \in Executions :
          /\ execution'[e].profile = execution[e].profile
          /\ execution'[e].status \in {execution[e].status, "queued", "failed"}
          /\ e # attempt[a].execution => execution'[e] = execution[e]
    BY <1>7 DEF AcknowledgeStopped, TypeOK, ExecutionRow
  <2>7. RowsLinked'
    BY <2>5, <2>6 DEF RowsLinked
  <2>. QED
    BY <2>4, <2>7
<1>. QED
  BY <1>1, <1>2, <1>3, <1>5, <1>6, <1>7 DEF HolderStep

\* The steps of a Machine replacement keep types and links.
LEMMA TypeLinkedMachine ==
  ASSUME TypeLinked, MachineStep
  PROVE  TypeLinked'
<1>. USE DEF TypeLinked
<1>1. CASE AcceptReadiness \/ BindIdle \/ FailProvisioning
  <2>1. UNCHANGED <<machineGeneration, profile, execution, attempt, lease>>
    BY <1>1 DEF AcceptReadiness, BindIdle, FailProvisioning
  <2>2. phase' \in Phases /\ ready' \in BOOLEAN
    BY <1>1 DEF AcceptReadiness, BindIdle, FailProvisioning, TypeOK, Phases
  <2>. QED
    BY <2>1, <2>2 DEF TypeOK, RowsLinked
<1>2. CASE BeginReplacement
  <2>1. profile' \in [Profiles -> ProfileRow]
    BY <1>2 DEF BeginReplacement, TypeOK, ProfileRow
  <2>2. machineGeneration' \in Nat \ {0} /\ phase' \in Phases
    BY <1>2 DEF BeginReplacement, TypeOK, Phases
  <2>3. ready' \in BOOLEAN
    BY <1>2 DEF BeginReplacement
  <2>. QED
    BY <1>2, <2>1, <2>2, <2>3 DEF BeginReplacement, TypeOK, RowsLinked
<1>3. CASE ConfirmMachineStoppedAndFence
  <2>1. attempt' \in [Attempts -> AttemptRow]
    BY <1>3, UnknownType DEF ConfirmMachineStoppedAndFence, TypeOK
  <2>2. execution' \in [Executions -> ExecutionRow]
    BY <1>3 DEF ConfirmMachineStoppedAndFence, TypeOK, ExecutionRow, ExecutionStatuses
  <2>3. lease' \in [Attempts -> LeaseRow]
    BY <1>3 DEF ConfirmMachineStoppedAndFence, TypeOK, LeaseRow, LeaseStates
  <2>4. TypeOK'
    BY <1>3, <2>1, <2>2, <2>3 DEF ConfirmMachineStoppedAndFence, TypeOK, Phases
  <2>5. \A a \in Attempts :
          /\ attempt'[a].status = "none" <=> attempt[a].status = "none"
          /\ attempt'[a].execution = attempt[a].execution
          /\ attempt[a].status = "none" => attempt'[a] = attempt[a]
          /\ lease[a] = NoLease => lease'[a] = NoLease
    BY <1>3 DEF ConfirmMachineStoppedAndFence, TypeOK, AttemptRow, NoLease,
                FencedByReplacement, LiveLease, IsLive, LiveStates, Unresolved
  <2>6. \A e \in Executions :
          /\ execution'[e].profile = execution[e].profile
          /\ execution'[e].status \in {"none", "purged"} <=>
               execution[e].status \in {"none", "purged"}
          /\ execution'[e].status = "none" <=> execution[e].status = "none"
    BY <1>3 DEF ConfirmMachineStoppedAndFence, TypeOK, ExecutionRow
  <2>7. RowsLinked'
    BY <2>5, <2>6 DEF RowsLinked
  <2>. QED
    BY <2>4, <2>7
<1>. QED
  BY <1>1, <1>2, <1>3 DEF MachineStep

\* Types and links hold initially and every step keeps them.
THEOREM TypeLinkedInvariant == Spec => []TypeLinked
<1>1. Init => TypeLinked
  BY TypeInit DEF Init, TypeLinked, RowsLinked, NoExecution, NoAttempt
<1>2. TypeLinked /\ [Next]_vars => TypeLinked'
  <2>1. SUFFICES ASSUME TypeLinked, [Next]_vars PROVE TypeLinked'
    OBVIOUS
  <2>2. CASE UNCHANGED vars
    BY <2>1, <2>2 DEF vars, TypeLinked, TypeOK, RowsLinked
  <2>3. CASE Claim
    BY <2>1, <2>3, TypeLinkedClaim DEF Claim, ClaimNothing
  <2>4. CASE \E b \in Attempts, S \in StaleBatches : ReplayClaim(b, S)
    BY <2>1, <2>4, TypeLinkedClaim DEF ReplayClaim
  <2>. QED
    BY <2>1, <2>2, <2>3, <2>4, TypeLinkedProfile, TypeLinkedHolder, TypeLinkedMachine
       DEF Next
<1>. QED
  BY <1>1, <1>2, PTL DEF Spec

\* The type invariant of the runs, for every value of the constants.
THEOREM TypeCorrect == Spec => []TypeOK
  BY TypeLinkedInvariant, PTL DEF TypeLinked

-----------------------------------------------------------------------------
(* One live turn per profile, and never a second delivery to Hermes.       *)
(*                                                                         *)
(* OneLiveLeasePerProfile alone is not inductive, and NoReplayAfterCheck-  *)
(* point needs it: that no two attempts of one execution run at once is    *)
(* what makes the checkpoint of one attempt a fact about the execution.    *)
(* RunningTurnHasLease ties the two to the status the claim loop reads.    *)

TurnInv ==
    /\ RunningTurnHasLease
    /\ OneLiveLeasePerProfile
    /\ NoReplayAfterCheckpoint

\* Two attempts of one execution never run at the same time.
LEMMA OneRunningAttempt ==
  ASSUME TurnInv, NEW a \in Attempts, NEW b \in Attempts, Unresolved(a), Unresolved(b),
         attempt[a].execution = attempt[b].execution
  PROVE  a = b
  BY DEF TurnInv, RunningTurnHasLease, OneLiveLeasePerProfile, OwnerOf

\* An attempt with a checkpoint exists, and is of a created execution.
LEMMA CheckpointedExists ==
  ASSUME TypeLinked, NEW a \in Attempts, Checkpointed(a)
  PROVE  attempt[a].status # "none" /\ attempt[a].execution \in Executions
  BY DEF TypeLinked, RowsLinked, Checkpointed, NoAttempt

\* What the reconciliation of the stale leases S does to turns: those of S
\* stop running, and an execution it requeues was never checkpointed.
LEMMA ReconciledTurns ==
  ASSUME TypeLinked, TurnInv, NEW S \in SUBSET StaleLeases
  PROVE  /\ \A a \in Attempts :
              /\ AttemptsAfter(S)[a].status = "running" <=> a \notin S /\ Unresolved(a)
              /\ IsLive(LeasesAfter(S)[a]) <=> a \notin S /\ LiveLease(a)
              /\ AttemptsAfter(S)[a].dispatched = attempt[a].dispatched
              /\ AttemptsAfter(S)[a].session = attempt[a].session
         /\ \A e \in Executions :
              /\ ReconciledStatus(S, e) = "running" <=>
                   \E a \in Attempts \ S : Unresolved(a) /\ attempt[a].execution = e
              /\ execution[e].status \in TerminalExecution =>
                   ReconciledStatus(S, e) = execution[e].status
              /\ ReconciledStatus(S, e) = "queued" =>
                   \A a \in Attempts : attempt[a].execution = e => ~Checkpointed(a)
         /\ \A a \in S :
              Checkpointed(a) => ReconciledStatus(S, attempt[a].execution) = "failed"
<1>0. ASSUME NEW a \in S
      PROVE  /\ a \in Attempts /\ LiveLease(a) /\ Unresolved(a)
             /\ attempt[a].execution \in Executions
             /\ execution[attempt[a].execution].status = "running"
  <2>1. a \in Attempts /\ LiveLease(a)
    BY DEF StaleLeases
  <2>2. Unresolved(a)
    BY <2>1 DEF TurnInv, RunningTurnHasLease
  <2>3. attempt[a].execution \in Executions
    BY <2>1, <2>2 DEF Unresolved, TypeLinked, RowsLinked
  <2>. QED
    BY <2>1, <2>2, <2>3 DEF TurnInv, RunningTurnHasLease
<1>1. ASSUME NEW a \in Attempts
      PROVE  /\ AttemptsAfter(S)[a].status = "running" <=> a \notin S /\ Unresolved(a)
             /\ IsLive(LeasesAfter(S)[a]) <=> a \notin S /\ LiveLease(a)
             /\ AttemptsAfter(S)[a].dispatched = attempt[a].dispatched
             /\ AttemptsAfter(S)[a].session = attempt[a].session
  <2>1. attempt[a] \in AttemptRow /\ lease[a] \in LeaseRow
    BY DEF TypeLinked, TypeOK
  <2>2. CASE a \in S
    <3>1. /\ AttemptsAfter(S)[a] = ReconciledAttempt(a)
          /\ LeasesAfter(S)[a] = ReconciledLease(a)
      BY <2>2 DEF AttemptsAfter, LeasesAfter
    <3>2. /\ ReconciledAttempt(a).status = "unknown"
          /\ ReconciledAttempt(a).dispatched = attempt[a].dispatched
          /\ ReconciledAttempt(a).session = attempt[a].session
      BY <1>0, <2>1, <2>2 DEF ReconciledAttempt, AttemptRow
    <3>3. ReconciledLease(a).state \in {"fenced", "released"}
      BY <2>1 DEF ReconciledLease, LeaseRow
    <3>. QED
      BY <2>2, <3>1, <3>2, <3>3 DEF IsLive, LiveStates
  <2>3. CASE a \notin S
    BY <2>3 DEF AttemptsAfter, LeasesAfter, LiveLease, Unresolved
  <2>. QED
    BY <2>2, <2>3
<1>2. ASSUME NEW e \in Executions, NEW a \in S, attempt[a].execution = e
      PROVE  /\ ReconciledStatus(S, e) = IF Replayable(a) THEN "queued" ELSE "failed"
             /\ \A b \in Attempts : Unresolved(b) /\ attempt[b].execution = e => b = a
  <2>1. \A b \in Attempts : Unresolved(b) /\ attempt[b].execution = e => b = a
    BY <1>0, <1>2, OneRunningAttempt
  <2>2. execution[e].status = "running" /\ Unresolved(a)
    BY <1>0, <1>2
  <2>3. \A b \in S : attempt[b].execution = e => b = a
    BY <1>0, <2>1
  <2>. QED
    BY <1>2, <2>1, <2>2, <2>3 DEF ReconciledStatus, TerminalExecution
<1>3. ASSUME NEW e \in Executions, \A a \in S : attempt[a].execution # e
      PROVE  ReconciledStatus(S, e) = execution[e].status
  BY <1>3 DEF ReconciledStatus
<1>4. ASSUME NEW e \in Executions
      PROVE  ReconciledStatus(S, e) = "running" <=>
               \E a \in Attempts \ S : Unresolved(a) /\ attempt[a].execution = e
  <2>1. CASE \E a \in S : attempt[a].execution = e
    BY <1>0, <1>2, <2>1
  <2>2. CASE \A a \in S : attempt[a].execution # e
    BY <1>3, <2>2 DEF TurnInv, RunningTurnHasLease
  <2>. QED
    BY <2>1, <2>2
<1>5. ASSUME NEW e \in Executions, execution[e].status \in TerminalExecution
      PROVE  ReconciledStatus(S, e) = execution[e].status
  <2>1. \A a \in S : attempt[a].execution # e
    BY <1>0, <1>5 DEF TerminalExecution
  <2>. QED
    BY <1>3, <2>1
<1>6. ASSUME NEW e \in Executions, ReconciledStatus(S, e) = "queued",
             NEW b \in Attempts, attempt[b].execution = e, Checkpointed(b)
      PROVE  FALSE
  <2>1. CASE \E a \in S : attempt[a].execution = e
    <3>1. PICK a \in S : attempt[a].execution = e
      BY <2>1
    <3>2. Replayable(a) /\ execution[e].status = "running"
      BY <1>0, <1>2, <1>6, <3>1
    <3>3. ~Checkpointed(a)
      BY <3>2 DEF Replayable
    <3>4. ~Unresolved(b)
      BY <1>2, <1>6, <3>1, <3>3
    <3>. QED
      BY <1>6, <3>2, <3>4 DEF TurnInv, NoReplayAfterCheckpoint, TerminalExecution
  <2>2. CASE \A a \in S : attempt[a].execution # e
    <3>1. execution[e].status = "queued"
      BY <1>3, <1>6, <2>2
    <3>2. ~Unresolved(b)
      BY <1>6, <3>1 DEF TurnInv, RunningTurnHasLease
    <3>. QED
      BY <1>6, <3>1, <3>2 DEF TurnInv, NoReplayAfterCheckpoint, TerminalExecution
  <2>. QED
    BY <2>1, <2>2
<1>7. ASSUME NEW a \in S, Checkpointed(a)
      PROVE  ReconciledStatus(S, attempt[a].execution) = "failed"
  BY <1>0, <1>2, <1>7 DEF Replayable
<1>. QED
  BY <1>1, <1>4, <1>5, <1>6, <1>7

\* The executions that still run after the reconciliation of S.
LEMMA ReconciledRunning ==
  ASSUME TypeLinked, TurnInv, NEW S \in SUBSET StaleLeases, NEW e \in Executions
  PROVE  ReconciledStatus(S, e) = "running" <=>
           \E a \in Attempts \ S : Unresolved(a) /\ attempt[a].execution = e
  BY ReconciledTurns

\* A step that starts no attempt keeps TurnInv if lease, attempt and
\* execution still agree after it, if it checkpoints only what runs, and if
\* it leaves the execution of an ended checkpointed attempt terminal.
LEMMA TurnsOnlyEnd ==
  ASSUME TypeLinked, TurnInv, RunningTurnHasLease',
         \A a \in Attempts : Unresolved(a)' =>
            /\ Unresolved(a)
            /\ attempt'[a].execution = attempt[a].execution
            /\ execution'[attempt[a].execution].profile =
                 execution[attempt[a].execution].profile,
         \A a \in Attempts : Checkpointed(a)' =>
            /\ Checkpointed(a) \/ Unresolved(a)
            /\ attempt'[a].execution = attempt[a].execution,
         \A a \in Attempts : Checkpointed(a)' /\ ~Unresolved(a)' =>
            execution'[attempt'[a].execution].status \in TerminalExecution
  PROVE  TurnInv'
<1>1. OneLiveLeasePerProfile'
  <2>1. \A a \in Attempts : LiveLease(a)' => Unresolved(a)' /\ LiveLease(a)
    BY DEF TurnInv, RunningTurnHasLease
  <2>. QED
    BY <2>1 DEF OneLiveLeasePerProfile, OwnerOf, TurnInv
<1>2. ASSUME NEW a \in Attempts, NEW b \in Attempts, Checkpointed(a)', Checkpointed(b)',
             attempt'[b].execution = attempt'[a].execution
      PROVE  b = a
  <2>1. attempt[b].execution = attempt[a].execution
    BY <1>2
  <2>2. CASE Checkpointed(a) /\ Checkpointed(b)
    BY <2>1, <2>2 DEF TurnInv, NoReplayAfterCheckpoint
  <2>3. CASE Unresolved(a) /\ Unresolved(b)
    BY <2>1, <2>3, OneRunningAttempt
  <2>4. ASSUME NEW c \in Attempts, NEW d \in Attempts, Unresolved(c), ~Unresolved(d),
               Checkpointed(d), attempt[d].execution = attempt[c].execution
        PROVE  FALSE
    <3>1. attempt[c].execution \in Executions
      BY <2>4 DEF TypeLinked, RowsLinked, Unresolved
    <3>2. execution[attempt[c].execution].status = "running"
      BY <2>4, <3>1 DEF TurnInv, RunningTurnHasLease
    <3>. QED
      BY <2>4, <3>2 DEF TurnInv, NoReplayAfterCheckpoint, TerminalExecution
  <2>. QED
    BY <1>2, <2>1, <2>2, <2>3, <2>4
<1>3. NoReplayAfterCheckpoint'
  BY <1>2 DEF NoReplayAfterCheckpoint
<1>. QED
  BY <1>1, <1>3 DEF TurnInv

\* The claim transaction: a stale lease ends its turn, and the new attempt
\* is of an execution nobody runs and no checkpoint was ever recorded for,
\* on a profile without a live lease.
LEMMA TurnInvClaim ==
  ASSUME TypeLinked, TurnInv, NEW S \in StaleBatches,
         \/ \E a \in Attempts : ClaimExecution(a, S)
         \/ CommitReconciliation(S)
  PROVE  TurnInv'
<1>0. S \in SUBSET StaleLeases /\ S \in SUBSET Attempts
  BY DEF StaleBatches, StaleLeases
<1>1. CASE CommitReconciliation(S)
  <2>1. /\ attempt' = AttemptsAfter(S) /\ execution' = ExecutionsAfter(S)
        /\ lease' = LeasesAfter(S)
    BY <1>1 DEF CommitReconciliation
  <2>2. \A a \in Attempts :
          /\ Unresolved(a)' <=> a \notin S /\ Unresolved(a)
          /\ LiveLease(a)' <=> a \notin S /\ LiveLease(a)
          /\ Checkpointed(a)' <=> Checkpointed(a)
          /\ attempt'[a].execution = attempt[a].execution
    BY <1>0, <2>1, ReconciledTurns, ReconciledRows DEF Unresolved, LiveLease, Checkpointed
  <2>3. \A e \in Executions :
          /\ execution'[e].profile = execution[e].profile
          /\ execution'[e].status = ReconciledStatus(S, e)
    BY <1>0, <2>1, ReconciledRows
  <2>4. RunningTurnHasLease'
    <3>1. \A a \in Attempts : LiveLease(a)' <=> Unresolved(a)'
      BY <2>2 DEF TurnInv, RunningTurnHasLease
    <3>2. \A e \in Executions : execution'[e].status = "running" <=>
             \E a \in Attempts : Unresolved(a)' /\ attempt'[a].execution = e
      <4>1. ASSUME NEW e \in Executions
            PROVE  execution'[e].status = "running" <=>
                     \E a \in Attempts : Unresolved(a)' /\ attempt'[a].execution = e
        <5>1. ReconciledStatus(S, e) = "running" <=>
                \E a \in Attempts \ S : Unresolved(a) /\ attempt[a].execution = e
          BY <1>0, ReconciledRunning
        <5>2. execution'[e].status = ReconciledStatus(S, e)
          BY <2>3
        <5>. QED
          BY <2>2, <5>1, <5>2
      <4>. QED
        BY <4>1
    <3>. QED
      BY <3>1, <3>2 DEF RunningTurnHasLease
  <2>5. ASSUME NEW a \in Attempts, Checkpointed(a)', ~Unresolved(a)'
        PROVE  execution'[attempt'[a].execution].status \in TerminalExecution
    <3>1. Checkpointed(a) /\ attempt[a].execution \in Executions
      BY <2>2, <2>5, CheckpointedExists
    <3>2. CASE a \in S
      <4>1. ReconciledStatus(S, attempt[a].execution) = "failed"
        BY <1>0, <3>1, <3>2, ReconciledTurns
      <4>. QED
        BY <2>2, <2>3, <3>1, <4>1 DEF TerminalExecution
    <3>3. CASE ~Unresolved(a)
      <4>1. execution[attempt[a].execution].status \in TerminalExecution
        BY <3>1, <3>3 DEF TurnInv, NoReplayAfterCheckpoint
      <4>2. ReconciledStatus(S, attempt[a].execution) =
              execution[attempt[a].execution].status
        BY <1>0, <3>1, <4>1, ReconciledTurns
      <4>. QED
        BY <2>2, <2>3, <3>1, <4>1, <4>2
    <3>. QED
      BY <2>2, <2>5, <3>2, <3>3
  <2>6. \A a \in Attempts : Unresolved(a) => attempt[a].execution \in Executions
    BY DEF TypeLinked, RowsLinked, Unresolved
  <2>. QED
    BY <2>2, <2>3, <2>4, <2>5, <2>6, TurnsOnlyEnd
<1>2. ASSUME NEW a \in Attempts, ClaimExecution(a, S)
      PROVE  TurnInv'
  <2>1. PICK e \in OldestClaimable(S) :
          /\ attempt' = [AttemptsAfter(S) EXCEPT ![a] =
                [NoAttempt EXCEPT !.status = "running", !.execution = e,
                                  !.generation = machineGeneration,
                                  !.expected = profile[execution[e].profile].session]]
          /\ execution' = [ExecutionsAfter(S) EXCEPT ![e].status = "running"]
          /\ lease' = [LeasesAfter(S) EXCEPT ![a] =
                [state |-> "active", remaining |-> LeaseTerm]]
    BY <1>2 DEF ClaimExecution
  <2>2. /\ RecoveryEventsFit(S) /\ attempt[a].status = "none"
        /\ a \notin S /\ ~Unresolved(a) /\ ~Checkpointed(a)
    <3>1. RecoveryEventsFit(S) /\ attempt[a].status = "none"
      BY <1>2 DEF ClaimExecution
    <3>. QED
      BY <1>0, <3>1, ReconciledRows, CheckpointedExists DEF Unresolved
  <2>3. /\ e \in Executions /\ ReconciledStatus(S, e) = "queued"
        /\ ~BusyAfter(S, execution[e].profile)
    BY <1>0, ReconciledRows DEF OldestClaimable, ClaimableAfter, QueuedAfter
  <2>4. \A f \in Executions :
          /\ execution'[f].profile = execution[f].profile
          /\ execution'[f].status = IF f = e THEN "running" ELSE ReconciledStatus(S, f)
    BY <1>0, <2>1, <2>2, <2>3, ReconciledRows, ReconciledTypes
       DEF ExecutionRow, TypeLinked
  <2>5. /\ attempt'[a].status = "running" /\ attempt'[a].execution = e
        /\ attempt'[a].dispatched = FALSE /\ attempt'[a].session = NoSession
        /\ lease'[a].state = "active"
        /\ \A b \in Attempts \ {a} :
             attempt'[b] = AttemptsAfter(S)[b] /\ lease'[b] = LeasesAfter(S)[b]
    BY <1>0, <2>1, <2>2, ReconciledTypes DEF NoAttempt, TypeLinked
  <2>6. Unresolved(a)' /\ LiveLease(a)' /\ ~Checkpointed(a)'
    BY <2>5 DEF Unresolved, LiveLease, IsLive, LiveStates, Checkpointed
  <2>7. \A b \in Attempts \ {a} :
          /\ Unresolved(b)' <=> b \notin S /\ Unresolved(b)
          /\ LiveLease(b)' <=> b \notin S /\ LiveLease(b)
          /\ Checkpointed(b)' <=> Checkpointed(b)
          /\ attempt'[b].execution = attempt[b].execution
    BY <1>0, <2>5, ReconciledTurns, ReconciledRows DEF Unresolved, LiveLease, Checkpointed
  <2>8. \A b \in Attempts : Unresolved(b) => attempt[b].execution \in Executions
    BY DEF TypeLinked, RowsLinked, Unresolved
  <2>9. RunningTurnHasLease'
    <3>1. \A b \in Attempts : LiveLease(b)' <=> Unresolved(b)'
      BY <2>6, <2>7 DEF TurnInv, RunningTurnHasLease
    <3>2. \A f \in Executions : execution'[f].status = "running" <=>
             \E b \in Attempts : Unresolved(b)' /\ attempt'[b].execution = f
      <4>1. ASSUME NEW f \in Executions, f # e
            PROVE  execution'[f].status = "running" <=>
                     \E b \in Attempts : Unresolved(b)' /\ attempt'[b].execution = f
        BY <1>0, <2>2, <2>4, <2>5, <2>7, <4>1, ReconciledTurns
      <4>. QED
        BY <2>4, <2>5, <2>6, <4>1
    <3>. QED
      BY <3>1, <3>2 DEF RunningTurnHasLease
  <2>10. OneLiveLeasePerProfile'
    <3>1. ASSUME NEW b \in Attempts \ {a}, LiveLease(b)'
          PROVE  /\ LiveLease(b) /\ OwnerOf(b)' = OwnerOf(b)
                 /\ OwnerOf(b) # execution[e].profile
      <4>1. LiveLease(b) /\ Unresolved(b) /\ IsLive(LeasesAfter(S)[b])
        BY <1>0, <2>7, <3>1, ReconciledTurns DEF TurnInv, RunningTurnHasLease
      <4>. QED
        BY <2>3, <2>4, <2>7, <2>8, <4>1 DEF BusyAfter, OwnerOf
    <3>2. OwnerOf(a)' = execution[e].profile
      BY <2>3, <2>4, <2>5 DEF OwnerOf
    <3>. QED
      BY <3>1, <3>2 DEF OneLiveLeasePerProfile, TurnInv
  <2>11. NoReplayAfterCheckpoint'
    <3>1. ASSUME NEW b \in Attempts, Checkpointed(b)'
          PROVE  /\ b # a /\ Checkpointed(b)
                 /\ attempt'[b].execution = attempt[b].execution
                 /\ attempt[b].execution \in Executions \ {e}
      <4>1. b # a /\ Checkpointed(b) /\ attempt'[b].execution = attempt[b].execution
        BY <2>6, <2>7, <3>1
      <4>2. attempt[b].execution # e
        BY <1>0, <2>3, <4>1, ReconciledTurns
      <4>. QED
        BY <4>1, <4>2, CheckpointedExists
    <3>2. ASSUME NEW b \in Attempts, Checkpointed(b)', ~Unresolved(b)'
          PROVE  execution'[attempt'[b].execution].status \in TerminalExecution
      <4>0. /\ execution'[attempt'[b].execution].status =
                  ReconciledStatus(S, attempt[b].execution)
            /\ Checkpointed(b) /\ attempt[b].execution \in Executions
        BY <2>4, <3>1, <3>2
      <4>1. CASE b \in S
        <5>1. ReconciledStatus(S, attempt[b].execution) = "failed"
          BY <1>0, <4>0, <4>1, ReconciledTurns
        <5>. QED
          BY <4>0, <5>1 DEF TerminalExecution
      <4>2. CASE ~Unresolved(b)
        <5>1. execution[attempt[b].execution].status \in TerminalExecution
          BY <4>0, <4>2 DEF TurnInv, NoReplayAfterCheckpoint
        <5>2. ReconciledStatus(S, attempt[b].execution) =
                execution[attempt[b].execution].status
          BY <1>0, <4>0, <5>1, ReconciledTurns
        <5>. QED
          BY <4>0, <5>1, <5>2
      <4>. QED
        BY <2>7, <3>1, <3>2, <4>1, <4>2
    <3>3. \A b, c \in Attempts :
            Checkpointed(b)' /\ Checkpointed(c)' /\ attempt'[c].execution = attempt'[b].execution
              => c = b
      BY <3>1 DEF TurnInv, NoReplayAfterCheckpoint
    <3>. QED
      BY <3>2, <3>3 DEF NoReplayAfterCheckpoint
  <2>. QED
    BY <2>9, <2>10, <2>11 DEF TurnInv
<1>. QED
  BY <1>1, <1>2

\* Every way a profile-scoped or Machine-scoped step ends turns: those of F
\* stop, with their leases, and nothing else changes.  A checkpointed one
\* leaves its execution terminal.
LEMMA FencedTurns ==
  ASSUME TypeLinked, TurnInv, NEW F \in SUBSET {a \in Attempts : LiveLease(a)},
         \A a \in Attempts :
            /\ attempt'[a].execution = attempt[a].execution
            /\ attempt'[a].dispatched = attempt[a].dispatched
            /\ attempt'[a].session = attempt[a].session
            /\ a \notin F => /\ attempt'[a].status = attempt[a].status
                             /\ IsLive(lease'[a]) <=> IsLive(lease[a])
            /\ a \in F => attempt'[a].status # "running" /\ ~IsLive(lease'[a]),
         \A e \in Executions :
            /\ execution'[e].profile = execution[e].profile
            /\ (\A a \in F : attempt[a].execution # e) =>
                  execution'[e].status = execution[e].status
            /\ (\E a \in F : attempt[a].execution = e) =>
                  execution'[e].status \in {"queued", "failed"},
         \A a \in F : Checkpointed(a) =>
            execution'[attempt[a].execution].status \in TerminalExecution
  PROVE  TurnInv'
<1>0. \A a \in Attempts : Unresolved(a) => attempt[a].execution \in Executions
  BY DEF TypeLinked, RowsLinked, Unresolved
<1>1. \A a \in Attempts :
        /\ Unresolved(a)' <=> a \notin F /\ Unresolved(a)
        /\ LiveLease(a)' <=> a \notin F /\ LiveLease(a)
        /\ Checkpointed(a)' <=> Checkpointed(a)
        /\ attempt'[a].execution = attempt[a].execution
  BY DEF Unresolved, LiveLease, Checkpointed
<1>2. \A a \in F : a \in Attempts /\ Unresolved(a) /\ attempt[a].execution \in Executions
  BY <1>0 DEF TurnInv, RunningTurnHasLease
<1>3. RunningTurnHasLease'
  <2>1. \A a \in Attempts : LiveLease(a)' <=> Unresolved(a)'
    BY <1>1 DEF TurnInv, RunningTurnHasLease
  <2>2. ASSUME NEW e \in Executions
        PROVE  execution'[e].status = "running" <=>
                 \E a \in Attempts : Unresolved(a)' /\ attempt'[a].execution = e
    <3>1. CASE \A a \in F : attempt[a].execution # e
      <4>1. execution'[e].status = "running" <=>
              \E a \in Attempts : Unresolved(a) /\ attempt[a].execution = e
        BY <3>1 DEF TurnInv, RunningTurnHasLease
      <4>. QED
        BY <1>1, <3>1, <4>1
    <3>2. CASE \E a \in F : attempt[a].execution = e
      <4>1. PICK a \in F : attempt[a].execution = e
        BY <3>2
      <4>2. \A b \in Attempts : Unresolved(b) /\ attempt[b].execution = e => b = a
        BY <1>2, <4>1, OneRunningAttempt
      <4>3. execution'[e].status # "running"
        BY <4>1
      <4>. QED
        BY <1>1, <4>1, <4>2, <4>3
    <3>. QED
      BY <3>1, <3>2
  <2>. QED
    BY <2>1, <2>2 DEF RunningTurnHasLease
<1>4. ASSUME NEW a \in Attempts, Checkpointed(a)', ~Unresolved(a)'
      PROVE  execution'[attempt'[a].execution].status \in TerminalExecution
  <2>1. Checkpointed(a) /\ attempt[a].execution \in Executions
    BY <1>1, <1>4, CheckpointedExists
  <2>2. CASE a \in F
    BY <1>1, <2>1, <2>2
  <2>3. CASE a \notin F
    <3>1. ~Unresolved(a)
      BY <1>1, <1>4, <2>3
    <3>2. execution[attempt[a].execution].status \in TerminalExecution
      BY <2>1, <3>1 DEF TurnInv, NoReplayAfterCheckpoint
    <3>3. \A b \in F : attempt[b].execution # attempt[a].execution
      <4>1. \A b \in F : execution[attempt[b].execution].status = "running"
        BY <1>2 DEF TurnInv, RunningTurnHasLease
      <4>. QED
        BY <3>2, <4>1 DEF TerminalExecution
    <3>. QED
      BY <1>1, <2>1, <3>2, <3>3
  <2>. QED
    BY <2>2, <2>3
<1>5. \A a \in Attempts : Unresolved(a)' =>
        /\ Unresolved(a)
        /\ attempt'[a].execution = attempt[a].execution
        /\ execution'[attempt[a].execution].profile =
             execution[attempt[a].execution].profile
  BY <1>0, <1>1
<1>6. \A a \in Attempts : Checkpointed(a)' =>
        /\ Checkpointed(a) \/ Unresolved(a)
        /\ attempt'[a].execution = attempt[a].execution
  BY <1>1
<1>. QED
  BY <1>3, <1>4, <1>5, <1>6, TurnsOnlyEnd

\* A step that leaves the three records of every turn alone.
LEMMA TurnsUntouched ==
  ASSUME TurnInv, UNCHANGED <<execution, attempt, lease>>
  PROVE  TurnInv'
  BY DEF TurnInv, RunningTurnHasLease, OneLiveLeasePerProfile, NoReplayAfterCheckpoint,
         LiveLease, Unresolved, Checkpointed, OwnerOf

\* Fencing a profile fails its running turns; they are never requeued.
LEMMA TurnInvFenceProfile ==
  ASSUME TypeLinked, TurnInv, NEW p \in Profiles, FenceProfileLeases(p)
  PROVE  TurnInv'
<1> DEFINE F == {a \in Attempts : LiveLease(a) /\ OwnerOf(a) = p}
<1>0. \A a \in Attempts : attempt[a] \in AttemptRow /\ lease[a] \in LeaseRow
  BY DEF TypeLinked, TypeOK
<1>00. \A e \in Executions : execution[e] \in ExecutionRow
  BY DEF TypeLinked, TypeOK
<1>1. \A a \in Attempts :
        /\ attempt'[a] = IF a \in F /\ Unresolved(a)
              THEN [attempt[a] EXCEPT !.status = "unknown"] ELSE attempt[a]
        /\ lease'[a] = IF a \in F THEN [lease[a] EXCEPT !.state = "fenced"] ELSE lease[a]
  BY DEF FenceProfileLeases
<1>2. \A e \in Executions :
        execution'[e] = IF /\ execution[e].status = "running"
                           /\ \E a \in F : attempt[a].execution = e
              THEN [execution[e] EXCEPT !.status = "failed"] ELSE execution[e]
  BY DEF FenceProfileLeases
<1>3. \A a \in F : /\ a \in Attempts /\ Unresolved(a)
                   /\ attempt[a].execution \in Executions
                   /\ execution[attempt[a].execution].status = "running"
  <2>1. \A a \in F : a \in Attempts /\ Unresolved(a)
    BY DEF TurnInv, RunningTurnHasLease
  <2>2. \A a \in F : attempt[a].execution \in Executions
    BY <2>1 DEF TypeLinked, RowsLinked, Unresolved
  <2>. QED
    BY <2>1, <2>2 DEF TurnInv, RunningTurnHasLease
<1> HIDE DEF F
<1>4. \A a \in Attempts :
        /\ attempt'[a].execution = attempt[a].execution
        /\ attempt'[a].dispatched = attempt[a].dispatched
        /\ attempt'[a].session = attempt[a].session
        /\ a \notin F => /\ attempt'[a].status = attempt[a].status
                         /\ IsLive(lease'[a]) <=> IsLive(lease[a])
        /\ a \in F => attempt'[a].status # "running" /\ ~IsLive(lease'[a])
  BY <1>0, <1>1, <1>3 DEF AttemptRow, LeaseRow, IsLive, LiveStates
<1>5. \A e \in Executions :
        /\ execution'[e].profile = execution[e].profile
        /\ (\A a \in F : attempt[a].execution # e) =>
              execution'[e].status = execution[e].status
        /\ (\E a \in F : attempt[a].execution = e) => execution'[e].status = "failed"
  BY <1>00, <1>2, <1>3 DEF ExecutionRow
<1>6. \A a \in F : execution'[attempt[a].execution].status \in TerminalExecution
  BY <1>3, <1>5 DEF TerminalExecution
<1>7. F \in SUBSET {a \in Attempts : LiveLease(a)}
  BY DEF F
<1>. QED
  BY <1>4, <1>5, <1>6, <1>7, FencedTurns

\* Deletion moves active leases to stopping; the turns go on.
LEMMA TurnInvStop ==
  ASSUME TypeLinked, TurnInv, NEW p \in Profiles, StopActiveLeases(p),
         UNCHANGED <<execution, attempt>>
  PROVE  TurnInv'
<1>1. \A a \in Attempts : LiveLease(a)' <=> LiveLease(a)
  <2>1. \A a \in Attempts : lease[a] \in LeaseRow
    BY DEF TypeLinked, TypeOK
  <2>. QED
    BY <2>1 DEF StopActiveLeases, LiveLease, IsLive, LiveStates, LeaseRow
<1>. QED
  BY <1>1 DEF TurnInv, RunningTurnHasLease, OneLiveLeasePerProfile,
              NoReplayAfterCheckpoint, Unresolved, Checkpointed, OwnerOf

\* The purge removes whole turns, none of them live.
LEMMA TurnInvPurge ==
  ASSUME TypeLinked, TurnInv, NEW p \in Profiles, PurgeProfile(p)
  PROVE  TurnInv'
<1> DEFINE G == {a \in Attempts : attempt[a].status # "none" /\ OwnerOf(a) = p}
<1>1. /\ \A a \in Attempts :
            /\ attempt'[a] = IF a \in G THEN NoAttempt ELSE attempt[a]
            /\ lease'[a] = IF a \in G THEN NoLease ELSE lease[a]
      /\ \A e \in Executions :
            execution'[e] = IF execution[e].profile = p
              THEN [execution[e] EXCEPT !.status = "purged"] ELSE execution[e]
      /\ \A a \in Attempts : LiveLease(a) => OwnerOf(a) # p
  BY DEF PurgeProfile, HasLiveLease
<1>2. \A a \in Attempts : Unresolved(a) =>
        a \notin G /\ attempt[a].execution \in Executions /\ OwnerOf(a) # p
  BY <1>1 DEF TurnInv, RunningTurnHasLease, TypeLinked, RowsLinked, Unresolved
<1>3. \A a \in Attempts : a \in G =>
        /\ attempt'[a].status = "none" /\ attempt'[a].dispatched = FALSE
        /\ attempt'[a].session = NoSession /\ lease'[a].state = "none"
  BY <1>1 DEF NoAttempt, NoLease
<1>4. \A a \in Attempts :
        /\ Unresolved(a)' <=> Unresolved(a)
        /\ LiveLease(a)' <=> LiveLease(a)
        /\ Checkpointed(a)' => Checkpointed(a) /\ a \notin G
        /\ a \notin G => attempt'[a] = attempt[a]
  <2>1. ASSUME NEW a \in Attempts, a \in G
        PROVE  ~Unresolved(a) /\ ~LiveLease(a) /\ ~Unresolved(a)' /\ ~LiveLease(a)'
               /\ ~Checkpointed(a)'
    <3>1. ~Unresolved(a) /\ ~LiveLease(a)
      BY <1>2, <2>1 DEF TurnInv, RunningTurnHasLease
    <3>2. ~Unresolved(a)' /\ ~LiveLease(a)' /\ ~Checkpointed(a)'
      BY <1>3, <2>1 DEF Unresolved, LiveLease, IsLive, LiveStates, Checkpointed
    <3>. QED
      BY <3>1, <3>2
  <2>2. ASSUME NEW a \in Attempts, a \notin G
        PROVE  attempt'[a] = attempt[a] /\ lease'[a] = lease[a]
    BY <1>1, <2>2
  <2>3. ASSUME NEW a \in Attempts, a \notin G
        PROVE  /\ Unresolved(a)' <=> Unresolved(a)
               /\ LiveLease(a)' <=> LiveLease(a)
               /\ Checkpointed(a)' <=> Checkpointed(a)
    BY <2>2, <2>3 DEF Unresolved, LiveLease, Checkpointed
  <2>. QED
    BY <2>1, <2>2, <2>3
<1>5. \A a \in Attempts : a \notin G /\ attempt[a].status # "none" =>
        /\ attempt[a].execution \in Executions
        /\ execution'[attempt[a].execution] = execution[attempt[a].execution]
  <2>1. \A a \in Attempts : attempt[a].status # "none" => attempt[a].execution \in Executions
    BY DEF TypeLinked, RowsLinked
  <2>. QED
    BY <1>1, <2>1 DEF OwnerOf
<1>6. \A e \in Executions :
        /\ execution[e].profile = p => execution'[e].status = "purged"
        /\ execution[e].profile # p => execution'[e] = execution[e]
  <2>1. \A e \in Executions : execution[e] \in ExecutionRow
    BY DEF TypeLinked, TypeOK
  <2>. QED
    BY <1>1, <2>1 DEF ExecutionRow
<1> HIDE DEF G
<1>7. RunningTurnHasLease'
  <2>1. \A a \in Attempts : LiveLease(a)' <=> Unresolved(a)'
    BY <1>4 DEF TurnInv, RunningTurnHasLease
  <2>2. ASSUME NEW e \in Executions
        PROVE  execution'[e].status = "running" <=>
                 \E a \in Attempts : Unresolved(a)' /\ attempt'[a].execution = e
    <3>1. (\E a \in Attempts : Unresolved(a)' /\ attempt'[a].execution = e)
            <=> \E a \in Attempts : Unresolved(a) /\ attempt[a].execution = e
      BY <1>2, <1>4
    <3>2. execution[e].status = "running" <=>
            \E a \in Attempts : Unresolved(a) /\ attempt[a].execution = e
      BY DEF TurnInv, RunningTurnHasLease
    <3>3. CASE execution[e].profile = p
      <4>1. ~\E a \in Attempts : Unresolved(a) /\ attempt[a].execution = e
        BY <1>2, <3>3 DEF OwnerOf
      <4>. QED
        BY <1>6, <3>1, <3>3, <4>1
    <3>4. CASE execution[e].profile # p
      BY <1>6, <3>1, <3>2, <3>4
    <3>. QED
      BY <3>3, <3>4
  <2>. QED
    BY <2>1, <2>2 DEF RunningTurnHasLease
<1>8. ASSUME NEW a \in Attempts, Checkpointed(a)'
      PROVE  /\ Checkpointed(a) /\ attempt'[a].execution = attempt[a].execution
             /\ execution'[attempt[a].execution] = execution[attempt[a].execution]
  BY <1>4, <1>5, <1>8, CheckpointedExists
<1>9. ASSUME NEW a \in Attempts, Checkpointed(a)', ~Unresolved(a)'
      PROVE  execution'[attempt'[a].execution].status \in TerminalExecution
  <2>1. execution[attempt[a].execution].status \in TerminalExecution
    BY <1>4, <1>8, <1>9 DEF TurnInv, NoReplayAfterCheckpoint
  <2>. QED
    BY <1>8, <1>9, <2>1
<1>10. \A a \in Attempts : Unresolved(a)' =>
        /\ Unresolved(a)
        /\ attempt'[a].execution = attempt[a].execution
        /\ execution'[attempt[a].execution].profile =
             execution[attempt[a].execution].profile
  BY <1>2, <1>4, <1>5 DEF Unresolved
<1>. QED
  BY <1>7, <1>8, <1>9, <1>10, TurnsOnlyEnd

\* A new execution is queued and has no attempt yet.
LEMMA TurnInvCreate ==
  ASSUME TypeLinked, TurnInv, NEW p \in Profiles, NEW e \in Executions,
         CreateExecution(p, e)
  PROVE  TurnInv'
<1>1. /\ UNCHANGED <<attempt, lease>> /\ execution[e].status = "none"
      /\ \A f \in Executions : execution'[f] =
            IF f = e THEN [status |-> "queued", profile |-> p] ELSE execution[f]
  BY DEF CreateExecution, TypeLinked, TypeOK
<1>2. \A a \in Attempts : attempt[a].status # "none" =>
        attempt[a].execution \in Executions /\ attempt[a].execution # e
  BY <1>1 DEF TypeLinked, RowsLinked
<1>3. \A a \in Attempts :
        /\ Unresolved(a)' <=> Unresolved(a)
        /\ LiveLease(a)' <=> LiveLease(a)
        /\ Checkpointed(a)' <=> Checkpointed(a)
        /\ attempt'[a] = attempt[a]
  BY <1>1 DEF Unresolved, LiveLease, Checkpointed
<1>4. RunningTurnHasLease'
  <2>1. \A f \in Executions : execution'[f].status = "running" <=>
           execution[f].status = "running"
    BY <1>1
  <2>. QED
    BY <1>3, <2>1 DEF TurnInv, RunningTurnHasLease
<1>5. ASSUME NEW a \in Attempts, Unresolved(a) \/ Checkpointed(a)
      PROVE  execution'[attempt[a].execution] = execution[attempt[a].execution]
  BY <1>1, <1>2, <1>5, CheckpointedExists DEF Unresolved
<1>6. ASSUME NEW a \in Attempts, Checkpointed(a)', ~Unresolved(a)'
      PROVE  execution'[attempt'[a].execution].status \in TerminalExecution
  BY <1>3, <1>5, <1>6 DEF TurnInv, NoReplayAfterCheckpoint
<1>. QED
  BY <1>3, <1>4, <1>5, <1>6, TurnsOnlyEnd

\* The steps of a profile keep the turn invariant.
LEMMA TurnInvProfile ==
  ASSUME TypeLinked, TurnInv, NEW p \in Profiles, ProfileStep(p)
  PROVE  TurnInv'
<1>1. CASE EnsureProfile(p)
  BY <1>1, TurnsUntouched DEF EnsureProfile
<1>2. CASE AcceptMaterialization(p)
  BY <1>2, TurnsUntouched DEF AcceptMaterialization
<1>3. CASE RequestDeletion(p)
  BY <1>3, TurnInvStop DEF RequestDeletion
<1>4. CASE PollExpiredDeletion(p)
  BY <1>4, TurnsUntouched DEF PollExpiredDeletion
<1>5. CASE ResumeDeletion(p)
  BY <1>5, TurnInvStop DEF ResumeDeletion
<1>6. CASE CleanupDeadline(p)
  BY <1>6, TurnsUntouched DEF CleanupDeadline
<1>7. CASE AcceptDeletedReceipt(p)
  BY <1>7, TurnsUntouched DEF AcceptDeletedReceipt
<1>8. CASE AcceptRepairReceipt(p)
  BY <1>8, TurnInvFenceProfile DEF AcceptRepairReceipt
<1>9. CASE ExpireProfileCleanup(p)
  BY <1>9, TurnInvFenceProfile DEF ExpireProfileCleanup
<1>10. CASE PurgeProfile(p)
  BY <1>10, TurnInvPurge
<1>11. CASE \E e \in Executions : CreateExecution(p, e)
  BY <1>11, TurnInvCreate
<1>. QED
  BY <1>1, <1>2, <1>3, <1>4, <1>5, <1>6, <1>7, <1>8, <1>9, <1>10, <1>11 DEF ProfileStep

\* A running attempt that records an event or a session.
LEMMA TurnInvProgress ==
  ASSUME TypeLinked, TurnInv, NEW a \in Attempts, Unresolved(a),
         UNCHANGED <<execution, lease>>,
         attempt'[a].status = attempt[a].status,
         attempt'[a].execution = attempt[a].execution,
         \A b \in Attempts \ {a} : attempt'[b] = attempt[b]
  PROVE  TurnInv'
<1>1. \A b \in Attempts :
        /\ Unresolved(b)' <=> Unresolved(b)
        /\ LiveLease(b)' <=> LiveLease(b)
        /\ attempt'[b].execution = attempt[b].execution
        /\ b # a => (Checkpointed(b)' <=> Checkpointed(b))
  BY DEF Unresolved, LiveLease, Checkpointed
<1>2. RunningTurnHasLease'
  BY <1>1 DEF TurnInv, RunningTurnHasLease
<1>3. ASSUME NEW b \in Attempts, Checkpointed(b)', ~Unresolved(b)'
      PROVE  execution'[attempt'[b].execution].status \in TerminalExecution
  BY <1>1, <1>3 DEF TurnInv, NoReplayAfterCheckpoint
<1>. QED
  BY <1>1, <1>2, <1>3, TurnsOnlyEnd

\* An attempt that ends by itself or is acknowledged as stopped.  Its session
\* may be set by the same step, when the execution ends terminally.
LEMMA TurnInvEnd ==
  ASSUME TypeLinked, TurnInv, NEW a \in Attempts, Unresolved(a),
         attempt'[a].status # "running", ~IsLive(lease'[a]),
         attempt'[a].execution = attempt[a].execution,
         \A b \in Attempts \ {a} : attempt'[b] = attempt[b] /\ lease'[b] = lease[b],
         \A e \in Executions :
            /\ execution'[e].profile = execution[e].profile
            /\ e # attempt[a].execution => execution'[e].status = execution[e].status,
         execution'[attempt[a].execution].status # "running",
         Checkpointed(a)' =>
            execution'[attempt[a].execution].status \in TerminalExecution
  PROVE  TurnInv'
<1>0. /\ attempt[a].execution \in Executions
      /\ execution[attempt[a].execution].status = "running"
  <2>1. attempt[a].execution \in Executions
    BY DEF TypeLinked, RowsLinked, Unresolved
  <2>. QED
    BY <2>1 DEF TurnInv, RunningTurnHasLease
<1>1. /\ ~Unresolved(a)' /\ ~LiveLease(a)'
      /\ \A b \in Attempts \ {a} :
            /\ Unresolved(b)' <=> Unresolved(b)
            /\ LiveLease(b)' <=> LiveLease(b)
            /\ Checkpointed(b)' <=> Checkpointed(b)
            /\ attempt'[b].execution = attempt[b].execution
  BY DEF Unresolved, LiveLease, Checkpointed
<1>2. RunningTurnHasLease'
  <2>1. \A b \in Attempts : LiveLease(b)' <=> Unresolved(b)'
    BY <1>1 DEF TurnInv, RunningTurnHasLease
  <2>2. ASSUME NEW e \in Executions
        PROVE  execution'[e].status = "running" <=>
                 \E b \in Attempts : Unresolved(b)' /\ attempt'[b].execution = e
    <3>1. CASE e = attempt[a].execution
      <4>1. \A b \in Attempts \ {a} : Unresolved(b) => attempt[b].execution # e
        BY <3>1, OneRunningAttempt
      <4>. QED
        BY <1>1, <3>1, <4>1
    <3>2. CASE e # attempt[a].execution
      <4>1. execution'[e].status = "running" <=>
              \E b \in Attempts : Unresolved(b) /\ attempt[b].execution = e
        BY <3>2 DEF TurnInv, RunningTurnHasLease
      <4>. QED
        BY <1>1, <3>2, <4>1
    <3>. QED
      BY <3>1, <3>2
  <2>. QED
    BY <2>1, <2>2 DEF RunningTurnHasLease
<1>3. ASSUME NEW b \in Attempts, Checkpointed(b)', ~Unresolved(b)'
      PROVE  execution'[attempt'[b].execution].status \in TerminalExecution
  <2>1. CASE b = a
    BY <1>3, <2>1
  <2>2. CASE b # a
    <3>1. Checkpointed(b) /\ ~Unresolved(b) /\ attempt'[b].execution = attempt[b].execution
      BY <1>1, <1>3, <2>2
    <3>2. /\ execution[attempt[b].execution].status \in TerminalExecution
          /\ attempt[b].execution \in Executions
      BY <3>1, CheckpointedExists DEF TurnInv, NoReplayAfterCheckpoint
    <3>3. attempt[b].execution # attempt[a].execution
      BY <1>0, <3>2 DEF TerminalExecution
    <3>. QED
      BY <3>1, <3>2, <3>3
  <2>. QED
    BY <2>1, <2>2
<1>4. \A b \in Attempts : Unresolved(b) => attempt[b].execution \in Executions
  BY DEF TypeLinked, RowsLinked, Unresolved
<1>5. \A b \in Attempts : Unresolved(b)' =>
        /\ Unresolved(b)
        /\ attempt'[b].execution = attempt[b].execution
        /\ execution'[attempt[b].execution].profile =
             execution[attempt[b].execution].profile
  BY <1>1, <1>4
<1>6. \A b \in Attempts : Checkpointed(b)' =>
        /\ Checkpointed(b) \/ Unresolved(b)
        /\ attempt'[b].execution = attempt[b].execution
  BY <1>1
<1>. QED
  BY <1>2, <1>3, <1>5, <1>6, TurnsOnlyEnd

\* The steps of a lease holder keep the turn invariant.
LEMMA TurnInvHolder ==
  ASSUME TypeLinked, TurnInv, NEW a \in Attempts, HolderStep(a)
  PROVE  TurnInv'
<1>0. /\ attempt \in [Attempts -> AttemptRow] /\ lease \in [Attempts -> LeaseRow]
      /\ execution \in [Executions -> ExecutionRow]
  BY DEF TypeLinked, TypeOK
<1>01. attempt[a] \in AttemptRow /\ lease[a] \in LeaseRow
  BY <1>0
<1>02. LiveLease(a) => Unresolved(a) /\ attempt[a].execution \in Executions
  BY DEF TurnInv, RunningTurnHasLease, TypeLinked, RowsLinked, Unresolved
<1>03. AuthorizesMutation(a) => LiveLease(a)
  BY DEF AuthorizesMutation, LiveLease, IsLive, LiveStates
<1>04. execution[attempt[a].execution] \in ExecutionRow \/ ~LiveLease(a)
  BY <1>0, <1>02
<1>1. ASSUME UNCHANGED <<execution, attempt>>,
             \A b \in Attempts : lease'[b].state = lease[b].state
      PROVE  TurnInv'
  <2>1. \A b \in Attempts : LiveLease(b)' <=> LiveLease(b)
    BY <1>1 DEF LiveLease, IsLive
  <2>. QED
    BY <1>1, <2>1 DEF TurnInv, RunningTurnHasLease, OneLiveLeasePerProfile,
                      NoReplayAfterCheckpoint, Unresolved, Checkpointed, OwnerOf
<1>2. CASE ElapseLease(a)
  <2>1. \A b \in Attempts : lease'[b].state = lease[b].state
    BY <1>0, <1>01, <1>2 DEF ElapseLease, LeaseRow
  <2>. QED
    BY <1>1, <1>2, <2>1 DEF ElapseLease
<1>3. CASE RenewLease(a)
  <2>1. \A b \in Attempts : lease'[b].state = lease[b].state
    BY <1>0, <1>01, <1>3 DEF RenewLease, LeaseRow
  <2>. QED
    BY <1>1, <1>3, <2>1 DEF RenewLease
<1>4. ASSUME NEW n \in SequenceNumbers, NEW d \in RuntimeEvents, AppendEvent(a, n, d)
      PROVE  TurnInv'
  <2>1. /\ attempt'[a].status = attempt[a].status
        /\ attempt'[a].execution = attempt[a].execution
        /\ \A b \in Attempts \ {a} : attempt'[b] = attempt[b]
    BY <1>0, <1>01, <1>4 DEF AppendEvent, AttemptRow
  <2>2. Unresolved(a) /\ UNCHANGED <<execution, lease>>
    BY <1>4 DEF AppendEvent
  <2>. QED
    BY <2>1, <2>2, TurnInvProgress
<1>5. ASSUME NEW s \in Sessions, UpdateSessionBinding(a, s)
      PROVE  TurnInv'
  <2>1. /\ attempt'[a].status = attempt[a].status
        /\ attempt'[a].execution = attempt[a].execution
        /\ \A b \in Attempts \ {a} : attempt'[b] = attempt[b]
    BY <1>0, <1>01, <1>5 DEF UpdateSessionBinding, AttemptRow
  <2>2. Unresolved(a) /\ UNCHANGED <<execution, lease>>
    BY <1>02, <1>03, <1>5 DEF UpdateSessionBinding
  <2>. QED
    BY <2>1, <2>2, TurnInvProgress
<1>6. ASSUME NEW n \in SequenceNumbers, NEW s, NEW event,
             NEW outcome \in TerminalExecution, Finish(a, n, outcome, event, s)
      PROVE  TurnInv'
  <2>1. LiveLease(a) /\ Unresolved(a) /\ attempt[a].execution \in Executions
    BY <1>02, <1>03, <1>6 DEF Finish
  <2>2. /\ attempt'[a].status = outcome
        /\ attempt'[a].execution = attempt[a].execution
        /\ \A b \in Attempts \ {a} : attempt'[b] = attempt[b]
    BY <1>0, <1>01, <1>6 DEF Finish, AttemptRow
  <2>3. /\ lease'[a].state = "released"
        /\ \A b \in Attempts \ {a} : lease'[b] = lease[b]
    BY <1>0, <1>01, <1>6 DEF Finish, LeaseRow
  <2>4. /\ \A e \in Executions :
             /\ execution'[e].profile = execution[e].profile
             /\ e # attempt[a].execution => execution'[e].status = execution[e].status
        /\ execution'[attempt[a].execution].status = outcome
    BY <1>0, <1>6, <2>1 DEF Finish, ExecutionRow
  <2>5. outcome # "running" /\ ~IsLive(lease'[a])
    BY <2>3 DEF TerminalExecution, IsLive, LiveStates
  <2>. QED
    BY <1>6, <2>1, <2>2, <2>3, <2>4, <2>5, TurnInvEnd
<1>7. CASE AcknowledgeStopped(a)
  <2>1. LiveLease(a) /\ Unresolved(a) /\ attempt[a].execution \in Executions
    BY <1>02, <1>7 DEF AcknowledgeStopped
  <2>2. /\ attempt'[a].status = "unknown"
        /\ attempt'[a].execution = attempt[a].execution
        /\ attempt'[a].dispatched = attempt[a].dispatched
        /\ attempt'[a].session = attempt[a].session
        /\ \A b \in Attempts \ {a} : attempt'[b] = attempt[b]
    BY <1>0, <1>01, <1>7 DEF AcknowledgeStopped, AttemptRow
  <2>3. /\ lease'[a].state = "released"
        /\ \A b \in Attempts \ {a} : lease'[b] = lease[b]
    BY <1>0, <1>01, <1>7 DEF AcknowledgeStopped, LeaseRow
  <2>4. /\ \A e \in Executions :
             /\ execution'[e].profile = execution[e].profile
             /\ e # attempt[a].execution => execution'[e].status = execution[e].status
        /\ execution'[attempt[a].execution].status =
             IF ~CleanupPending(OwnerOf(a)) /\ ~Checkpointed(a) THEN "queued" ELSE "failed"
    BY <1>0, <1>7, <2>1 DEF AcknowledgeStopped, ExecutionRow
  <2>5. ~IsLive(lease'[a])
    BY <2>3 DEF IsLive, LiveStates
  <2>6. /\ execution'[attempt[a].execution].status # "running"
        /\ Checkpointed(a)' => execution'[attempt[a].execution].status \in TerminalExecution
    BY <2>2, <2>4 DEF Checkpointed, TerminalExecution
  <2>. QED
    BY <2>1, <2>2, <2>3, <2>4, <2>5, <2>6, TurnInvEnd
<1>8. CASE \E n \in SequenceNumbers, s \in Sessions : CompleteAttempt(a, n, s)
  BY <1>6, <1>8 DEF CompleteAttempt, TerminalExecution
<1>9. CASE \E n \in SequenceNumbers : FailAttempt(a, n)
  BY <1>6, <1>9 DEF FailAttempt, TerminalExecution
<1>. QED
  BY <1>2, <1>3, <1>4, <1>5, <1>7, <1>8, <1>9 DEF HolderStep

\* Replacement: the fence ends the turns of the stopped Machine.
LEMMA TurnInvMachine ==
  ASSUME TypeLinked, TurnInv, MachineStep
  PROVE  TurnInv'
<1>1. CASE ConfirmMachineStoppedAndFence
  <2> DEFINE F == {a \in Attempts : FencedByReplacement(a)}
  <2>0. \A a \in Attempts : attempt[a] \in AttemptRow /\ lease[a] \in LeaseRow
    BY DEF TypeLinked, TypeOK
  <2>00. \A e \in Executions : execution[e] \in ExecutionRow
    BY DEF TypeLinked, TypeOK
  <2>1. \A a \in Attempts :
          /\ attempt'[a] = IF a \in F /\ Unresolved(a)
                THEN [attempt[a] EXCEPT !.status = "unknown"] ELSE attempt[a]
          /\ lease'[a] = IF a \in F THEN [lease[a] EXCEPT !.state = "fenced"] ELSE lease[a]
    BY <1>1 DEF ConfirmMachineStoppedAndFence
  <2>2. \A e \in Executions :
          execution'[e] =
            IF /\ execution[e].status = "running"
               /\ \E a \in F : Unresolved(a) /\ attempt[a].execution = e
              THEN [execution[e] EXCEPT !.status =
                      IF \E a \in F : attempt[a].execution = e /\ Checkpointed(a)
                        THEN "failed" ELSE "queued"]
              ELSE execution[e]
    BY <1>1 DEF ConfirmMachineStoppedAndFence
  <2>3. \A a \in F : /\ a \in Attempts /\ Unresolved(a)
                     /\ attempt[a].execution \in Executions
                     /\ execution[attempt[a].execution].status = "running"
    <3>1. \A a \in F : a \in Attempts /\ Unresolved(a)
      BY DEF TurnInv, RunningTurnHasLease, FencedByReplacement
    <3>2. \A a \in F : attempt[a].execution \in Executions
      BY <3>1 DEF TypeLinked, RowsLinked, Unresolved
    <3>. QED
      BY <3>1, <3>2 DEF TurnInv, RunningTurnHasLease
  <2>4. F \in SUBSET {a \in Attempts : LiveLease(a)}
    BY DEF FencedByReplacement
  <2> HIDE DEF F
  <2>5. \A a \in Attempts :
          /\ attempt'[a].execution = attempt[a].execution
          /\ attempt'[a].dispatched = attempt[a].dispatched
          /\ attempt'[a].session = attempt[a].session
          /\ a \notin F => /\ attempt'[a].status = attempt[a].status
                           /\ IsLive(lease'[a]) <=> IsLive(lease[a])
          /\ a \in F => attempt'[a].status # "running" /\ ~IsLive(lease'[a])
    BY <2>0, <2>1, <2>3 DEF AttemptRow, LeaseRow, IsLive, LiveStates
  <2>6. \A e \in Executions :
          /\ execution'[e].profile = execution[e].profile
          /\ (\A a \in F : attempt[a].execution # e) =>
                execution'[e].status = execution[e].status
          /\ (\E a \in F : attempt[a].execution = e) =>
                execution'[e].status \in {"queued", "failed"}
    <3>1. ASSUME NEW e \in Executions, \A a \in F : attempt[a].execution # e
          PROVE  execution'[e] = execution[e]
      BY <2>2, <3>1
    <3>2. ASSUME NEW e \in Executions, NEW a \in F, attempt[a].execution = e
          PROVE  /\ execution'[e].profile = execution[e].profile
                 /\ execution'[e].status \in {"queued", "failed"}
      <4>1. execution[e].status = "running" /\ Unresolved(a) /\ execution[e] \in ExecutionRow
        BY <2>00, <2>3, <3>2
      <4>2. PICK st \in {"queued", "failed"} :
              execution'[e] = [execution[e] EXCEPT !.status = st]
        BY <2>2, <3>2, <4>1
      <4>. QED
        BY <4>1, <4>2 DEF ExecutionRow
    <3>. QED
      BY <3>1, <3>2
  <2>7. ASSUME NEW a \in F, Checkpointed(a)
        PROVE  execution'[attempt[a].execution].status \in TerminalExecution
    <3>1. /\ attempt[a].execution \in Executions /\ Unresolved(a)
          /\ execution[attempt[a].execution].status = "running"
          /\ execution[attempt[a].execution] \in ExecutionRow
      BY <2>00, <2>3
    <3>2. execution'[attempt[a].execution] =
            [execution[attempt[a].execution] EXCEPT !.status = "failed"]
      BY <2>2, <2>7, <3>1
    <3>. QED
      BY <3>1, <3>2 DEF ExecutionRow, TerminalExecution
  <2>. QED
    BY <2>4, <2>5, <2>6, <2>7, FencedTurns
<1>2. CASE ~ConfirmMachineStoppedAndFence
  BY <1>2, TurnsUntouched
     DEF MachineStep, AcceptReadiness, BeginReplacement, BindIdle, FailProvisioning
<1>. QED
  BY <1>1, <1>2

-----------------------------------------------------------------------------
\* A live lease, its attempt and its execution agree, one live lease per
\* profile, and no second dispatch: together they are inductive, relative to
\* the types and links of the rows.
THEOREM TurnInvariant == Spec => []TurnInv
<1>1. Init => TurnInv
  BY DEF Init, TurnInv, RunningTurnHasLease, OneLiveLeasePerProfile,
         NoReplayAfterCheckpoint, LiveLease, IsLive, LiveStates, Unresolved,
         Checkpointed, NoAttempt, NoLease, NoExecution
<1>2. TypeLinked /\ TurnInv /\ [Next]_vars => TurnInv'
  <2> SUFFICES ASSUME TypeLinked, TurnInv, [Next]_vars
               PROVE  TurnInv'
    OBVIOUS
  <2>1. CASE \E p \in Profiles : ProfileStep(p)
    BY <2>1, TurnInvProfile
  <2>2. CASE \E a \in Attempts : HolderStep(a)
    BY <2>2, TurnInvHolder
  <2>3. CASE MachineStep
    BY <2>3, TurnInvMachine
  <2>4. CASE Claim
    BY <2>4, TurnInvClaim DEF Claim, ClaimNothing
  <2>5. CASE \E b \in Attempts, S \in StaleBatches : ReplayClaim(b, S)
    BY <2>5, TurnInvClaim DEF ReplayClaim
  <2>6. CASE UNCHANGED vars
    BY <2>6, TurnsUntouched DEF vars
  <2>. QED
    BY <2>1, <2>2, <2>3, <2>4, <2>5, <2>6 DEF Next
<1>. QED
  BY <1>1, <1>2, TypeLinkedInvariant, PTL DEF Spec

\* claims.py, leases.py, attempts.py, profiles.py: whatever the order of
\* claims, expiry, stops, deletions and replacements, a profile has at most
\* one live turn lease.
THEOREM OneLeasePerProfile == Spec => []OneLiveLeasePerProfile
<1>1. TurnInv => OneLiveLeasePerProfile
  BY DEF TurnInv
<1>. QED
  BY <1>1, TurnInvariant, PTL

\* The lease, the attempt and the execution of a turn never disagree about
\* whether it runs.
THEOREM LeaseFollowsTurn == Spec => []RunningTurnHasLease
<1>1. TurnInv => RunningTurnHasLease
  BY DEF TurnInv
<1>. QED
  BY <1>1, TurnInvariant, PTL

\* A message whose turn may have reached Hermes is never handed out again.
THEOREM AtMostOneDispatch == Spec => []NoReplayAfterCheckpoint
<1>1. TurnInv => NoReplayAfterCheckpoint
  BY DEF TurnInv
<1>. QED
  BY <1>1, TurnInvariant, PTL

-----------------------------------------------------------------------------
(* Who holds a lease may.                                                  *)

\* A live lease belongs to an attempt of an execution of a profile.
LEMMA LiveOwner ==
  ASSUME TypeLinked, NEW a \in Attempts, LiveLease(a)
  PROVE  /\ attempt[a].status # "none" /\ attempt[a].execution \in Executions
         /\ execution[attempt[a].execution].status # "none" /\ OwnerOf(a) \in Profiles
  BY DEF TypeLinked, RowsLinked, LiveLease, IsLive, LiveStates, NoLease, OwnerOf

\* A step that starts no lease and retires no generation: it is enough that the
\* profiles of the leases it leaves live still entitle them.
LEMMA EntitledByOwner ==
  ASSUME LiveLeasesAreEntitled, UNCHANGED <<machineGeneration, phase>>,
         \A a \in Attempts : LiveLease(a)' =>
            LiveLease(a) /\ attempt'[a].generation = attempt[a].generation,
         \A a \in Attempts : LiveLease(a)' =>
            /\ lease'[a].state = "active" => profile'[OwnerOf(a)'].lifecycle = "active"
            /\ lease'[a].state = "stopping" =>
                  profile'[OwnerOf(a)'].lifecycle \in {"cleanup_pending", "repair_required"}
  PROVE  LiveLeasesAreEntitled'
<1>1. \A a \in Attempts : lease'[a].state \in {"active", "stopping"} => LiveLease(a)'
  BY DEF LiveLease, IsLive, LiveStates
<1>2. \A a \in Attempts : LiveLease(a)' =>
          \/ ~Retired(a)'
          \/ /\ attempt'[a].generation = machineGeneration' - 1
             /\ phase' \in {"old_machine_stopped", "failed"}
  BY DEF LiveLeasesAreEntitled, Retired
<1>. QED
  BY <1>1, <1>2 DEF LiveLeasesAreEntitled

\* The lifecycle of a profile and its leases move together.
LEMMA EntitledProfile ==
  ASSUME TypeLinked, LiveLeasesAreEntitled, NEW p \in Profiles, ProfileStep(p)
  PROVE  LiveLeasesAreEntitled'
<1>1. profile \in [Profiles -> ProfileRow] /\ profile[p] \in ProfileRow
  BY DEF TypeLinked, TypeOK
<1>2. UNCHANGED <<machineGeneration, phase>>
  BY DEF ProfileStep, EnsureProfile, AcceptMaterialization, PollExpiredDeletion,
         RequestDeletion, ResumeDeletion, CleanupDeadline, AcceptDeletedReceipt,
         AcceptRepairReceipt, ExpireProfileCleanup, FenceProfileLeases, PurgeProfile,
         CreateExecution
<1>3. \A a \in Attempts : LiveLease(a) =>
        \/ lease[a].state = "active" /\ profile[OwnerOf(a)].lifecycle = "active"
        \/ /\ lease[a].state = "stopping"
           /\ profile[OwnerOf(a)].lifecycle \in {"cleanup_pending", "repair_required"}
  BY DEF LiveLeasesAreEntitled, LiveLease, IsLive, LiveStates
<1>4. CASE \/ EnsureProfile(p) \/ AcceptMaterialization(p) \/ PollExpiredDeletion(p)
           \/ CleanupDeadline(p) \/ AcceptDeletedReceipt(p)
  <2>1. UNCHANGED <<execution, attempt, lease>>
    BY <1>4 DEF EnsureProfile, AcceptMaterialization, PollExpiredDeletion,
                CleanupDeadline, AcceptDeletedReceipt
  <2>2. \A q \in Profiles \ {p} : profile'[q] = profile[q]
    BY <1>1, <1>4 DEF EnsureProfile, AcceptMaterialization, PollExpiredDeletion,
                CleanupDeadline, AcceptDeletedReceipt
  <2>3. ASSUME NEW a \in Attempts, LiveLease(a), OwnerOf(a) = p
        PROVE  /\ lease[a].state = "active" => profile'[p].lifecycle = "active"
               /\ lease[a].state = "stopping" =>
                     profile'[p].lifecycle \in {"cleanup_pending", "repair_required"}
    <3>1. CASE EnsureProfile(p)
      BY <1>3, <2>3, <3>1 DEF EnsureProfile
    <3>2. CASE AcceptMaterialization(p)
      BY <1>1, <1>3, <2>3, <3>2 DEF AcceptMaterialization, ProfileRow
    <3>3. CASE PollExpiredDeletion(p)
      BY <1>1, <1>3, <2>3, <3>3 DEF PollExpiredDeletion, ProfileRow
    <3>4. CASE CleanupDeadline(p)
      BY <1>1, <1>3, <2>3, <3>4 DEF CleanupDeadline, ProfileRow
    <3>5. CASE AcceptDeletedReceipt(p)
      BY <2>3, <3>5 DEF AcceptDeletedReceipt, HasLiveLease
    <3>. QED
      BY <1>4, <3>1, <3>2, <3>3, <3>4, <3>5
  <2>4. \A a \in Attempts : /\ LiveLease(a)' <=> LiveLease(a)
                            /\ OwnerOf(a)' = OwnerOf(a)
    BY <2>1 DEF LiveLease, OwnerOf
  <2>. QED
    BY <1>2, <1>3, <2>1, <2>2, <2>3, <2>4, LiveOwner, EntitledByOwner
<1>5. CASE RequestDeletion(p) \/ ResumeDeletion(p)
  <2>1. UNCHANGED <<execution, attempt>> /\ StopActiveLeases(p)
    BY <1>5 DEF RequestDeletion, ResumeDeletion
  <2>2. /\ \A q \in Profiles \ {p} : profile'[q] = profile[q]
        /\ profile'[p].lifecycle = "cleanup_pending"
    BY <1>1, <1>5 DEF RequestDeletion, ResumeDeletion, ProfileRow
  <2>3. \A a \in Attempts :
          /\ OwnerOf(a)' = OwnerOf(a)
          /\ OwnerOf(a) # p => lease'[a] = lease[a]
          /\ OwnerOf(a) = p => lease'[a].state # "active"
          /\ LiveLease(a)' => LiveLease(a)
    BY <2>1 DEF StopActiveLeases, OwnerOf, LiveLease, IsLive, LiveStates,
                TypeLinked, TypeOK, LeaseRow
  <2>. QED
    BY <1>2, <1>3, <2>1, <2>2, <2>3, LiveOwner, EntitledByOwner
<1>6. CASE FenceProfileLeases(p)
  <2>1. \A q \in Profiles \ {p} : profile'[q] = profile[q]
    BY <1>1, <1>6 DEF FenceProfileLeases
  <2>2. \A a \in Attempts :
          /\ attempt'[a].execution = attempt[a].execution
          /\ attempt'[a].generation = attempt[a].generation
    BY <1>6 DEF FenceProfileLeases, TypeLinked, TypeOK, AttemptRow
  <2>3. \A e \in Executions : execution'[e].profile = execution[e].profile
    BY <1>6 DEF FenceProfileLeases, TypeLinked, TypeOK, ExecutionRow
  <2>4. \A a \in Attempts : LiveLease(a)' =>
          LiveLease(a) /\ lease'[a] = lease[a] /\ OwnerOf(a) # p
    BY <1>6 DEF FenceProfileLeases, LiveLease, IsLive, LiveStates,
                TypeLinked, TypeOK, LeaseRow
  <2>5. \A a \in Attempts : LiveLease(a)' =>
          OwnerOf(a)' = OwnerOf(a) /\ OwnerOf(a) \in Profiles \ {p}
    <3>1. SUFFICES ASSUME NEW a \in Attempts, LiveLease(a)'
                   PROVE  OwnerOf(a)' = OwnerOf(a) /\ OwnerOf(a) \in Profiles \ {p}
      OBVIOUS
    <3>2. LiveLease(a) /\ OwnerOf(a) # p
      BY <2>4, <3>1
    <3>. QED
      BY <2>2, <2>3, <3>2, LiveOwner DEF OwnerOf
  <2>. QED
    BY <1>2, <1>3, <2>1, <2>2, <2>4, <2>5, EntitledByOwner
<1>7. CASE PurgeProfile(p)
  <2>1. \A q \in Profiles \ {p} : profile'[q] = profile[q]
    BY <1>1, <1>7 DEF PurgeProfile
  <2>2. \A a \in Attempts : LiveLease(a)' =>
          /\ LiveLease(a) /\ attempt'[a] = attempt[a] /\ lease'[a] = lease[a]
          /\ OwnerOf(a) # p
    BY <1>7 DEF PurgeProfile, LiveLease, IsLive, LiveStates, NoLease, HasLiveLease
  <2>3. \A e \in Executions : execution'[e].profile = execution[e].profile
    BY <1>7 DEF PurgeProfile, TypeLinked, TypeOK, ExecutionRow
  <2>4. \A a \in Attempts : LiveLease(a)' =>
          OwnerOf(a)' = OwnerOf(a) /\ OwnerOf(a) \in Profiles \ {p}
    BY <2>2, <2>3, LiveOwner DEF OwnerOf
  <2>. QED
    BY <1>2, <1>3, <2>1, <2>2, <2>4, EntitledByOwner
<1>8. ASSUME NEW e \in Executions, CreateExecution(p, e)
      PROVE  LiveLeasesAreEntitled'
  <2>1. /\ UNCHANGED <<profile, attempt, lease>> /\ execution[e].status = "none"
        /\ \A f \in Executions \ {e} : execution'[f] = execution[f]
    BY <1>8 DEF CreateExecution, TypeLinked, TypeOK
  <2>2. \A a \in Attempts : LiveLease(a)' => LiveLease(a) /\ OwnerOf(a)' = OwnerOf(a)
    <3>1. SUFFICES ASSUME NEW a \in Attempts, LiveLease(a)'
                   PROVE  LiveLease(a) /\ OwnerOf(a)' = OwnerOf(a)
      OBVIOUS
    <3>2. LiveLease(a)
      BY <2>1, <3>1 DEF LiveLease
    <3>. QED
      BY <2>1, <3>2, LiveOwner DEF OwnerOf
  <2>. QED
    BY <1>2, <1>3, <2>1, <2>2, EntitledByOwner
<1>. QED
  BY <1>4, <1>5, <1>6, <1>7, <1>8
     DEF ProfileStep, AcceptRepairReceipt, ExpireProfileCleanup

\* What no step of a holder changes: which execution an attempt is of, its
\* generation, the profile of an execution and the lifecycle of a profile; and a
\* lease keeps its state or is released.
LEMMA HolderRows ==
  ASSUME TypeLinked, NEW a \in Attempts, HolderStep(a)
  PROVE  /\ \A b \in Attempts : /\ attempt'[b].execution = attempt[b].execution
                                /\ attempt'[b].generation = attempt[b].generation
                                /\ attempt'[b].expected = attempt[b].expected
         /\ \A b \in Attempts \ {a} : attempt'[b] = attempt[b] /\ lease'[b] = lease[b]
         /\ \A e \in Executions : execution'[e].profile = execution[e].profile
         /\ \A b \in Attempts : lease'[b].state \in {lease[b].state, "released"}
         /\ \A q \in Profiles : profile'[q].lifecycle = profile[q].lifecycle
<1>. USE DEF TypeLinked, TypeOK
<1>1. CASE ElapseLease(a) \/ RenewLease(a)
  <2>1. UNCHANGED <<profile, execution, attempt>>
    BY <1>1 DEF ElapseLease, RenewLease
  <2>2. \A b \in Attempts : /\ lease'[b].state = lease[b].state
                            /\ b # a => lease'[b] = lease[b]
    BY <1>1 DEF ElapseLease, RenewLease, LeaseRow
  <2>. QED
    BY <2>1, <2>2
<1>2. ASSUME NEW n, NEW d \in RuntimeEvents, AppendEvent(a, n, d)
      PROVE  /\ UNCHANGED <<profile, execution, lease>>
             /\ \A b \in Attempts : /\ attempt'[b].execution = attempt[b].execution
                                    /\ attempt'[b].generation = attempt[b].generation
                                    /\ attempt'[b].expected = attempt[b].expected
                                    /\ b # a => attempt'[b] = attempt[b]
  BY <1>2 DEF AppendEvent, AttemptRow
<1>3. ASSUME NEW s \in Sessions, UpdateSessionBinding(a, s)
      PROVE  /\ UNCHANGED <<execution, lease>>
             /\ \A b \in Attempts : /\ attempt'[b].execution = attempt[b].execution
                                    /\ attempt'[b].generation = attempt[b].generation
                                    /\ attempt'[b].expected = attempt[b].expected
                                    /\ b # a => attempt'[b] = attempt[b]
             /\ \A q \in Profiles : profile'[q].lifecycle = profile[q].lifecycle
  <2>1. UNCHANGED <<execution, lease>>
    BY <1>3 DEF UpdateSessionBinding
  <2>2. \A b \in Attempts : /\ attempt'[b].execution = attempt[b].execution
                            /\ attempt'[b].generation = attempt[b].generation
                            /\ attempt'[b].expected = attempt[b].expected
                            /\ b # a => attempt'[b] = attempt[b]
    BY <1>3 DEF UpdateSessionBinding, AttemptRow
  <2>3. \A q \in Profiles : profile'[q].lifecycle = profile[q].lifecycle
    BY <1>3 DEF UpdateSessionBinding, ProfileRow
  <2>. QED
    BY <2>1, <2>2, <2>3
<1>4. ASSUME NEW n, NEW outcome, NEW event, NEW s, Finish(a, n, outcome, event, s)
      PROVE  /\ \A b \in Attempts : /\ attempt'[b].execution = attempt[b].execution
                                    /\ attempt'[b].generation = attempt[b].generation
                                    /\ attempt'[b].expected = attempt[b].expected
                                    /\ b # a => attempt'[b] = attempt[b]
             /\ \A e \in Executions : execution'[e].profile = execution[e].profile
             /\ \A b \in Attempts : /\ lease'[b].state \in {lease[b].state, "released"}
                                    /\ b # a => lease'[b] = lease[b]
  <2>1. \A b \in Attempts : /\ attempt'[b].execution = attempt[b].execution
                            /\ attempt'[b].generation = attempt[b].generation
                            /\ attempt'[b].expected = attempt[b].expected
                            /\ b # a => attempt'[b] = attempt[b]
    BY <1>4 DEF Finish, AttemptRow
  <2>2. \A e \in Executions : execution'[e].profile = execution[e].profile
    BY <1>4 DEF Finish, ExecutionRow
  <2>3. \A b \in Attempts : /\ lease'[b].state \in {lease[b].state, "released"}
                            /\ b # a => lease'[b] = lease[b]
    BY <1>4 DEF Finish, LeaseRow
  <2>. QED
    BY <2>1, <2>2, <2>3
<1>5. ASSUME NEW n, NEW s \in Sessions, CompleteAttempt(a, n, s)
      PROVE  \A q \in Profiles : profile'[q].lifecycle = profile[q].lifecycle
  BY <1>5 DEF CompleteAttempt, ProfileRow
<1>6. ASSUME NEW n, FailAttempt(a, n)
      PROVE  profile' = profile
  BY <1>6 DEF FailAttempt
<1>7. CASE AcknowledgeStopped(a)
  <2>1. \A b \in Attempts : /\ attempt'[b].execution = attempt[b].execution
                            /\ attempt'[b].generation = attempt[b].generation
                            /\ attempt'[b].expected = attempt[b].expected
                            /\ b # a => attempt'[b] = attempt[b]
    BY <1>7 DEF AcknowledgeStopped, AttemptRow
  <2>2. \A e \in Executions : execution'[e].profile = execution[e].profile
    BY <1>7 DEF AcknowledgeStopped, ExecutionRow
  <2>3. \A b \in Attempts : /\ lease'[b].state \in {lease[b].state, "released"}
                            /\ b # a => lease'[b] = lease[b]
    BY <1>7 DEF AcknowledgeStopped, LeaseRow
  <2>4. profile' = profile
    BY <1>7 DEF AcknowledgeStopped
  <2>. QED
    BY <2>1, <2>2, <2>3, <2>4
<1>. HIDE DEF TypeLinked, TypeOK
<1>8. ASSUME NEW n, NEW s \in Sessions, CompleteAttempt(a, n, s)
      PROVE  Finish(a, n, "succeeded", "completed", s)
  BY <1>8 DEF CompleteAttempt
<1>9. ASSUME NEW n, FailAttempt(a, n)
      PROVE  Finish(a, n, "failed", "failed", attempt[a].session)
  BY <1>9 DEF FailAttempt
<1>10. CASE \E n \in SequenceNumbers, d \in RuntimeEvents : AppendEvent(a, n, d)
  BY <1>2, <1>10
<1>11. CASE \E s \in Sessions : UpdateSessionBinding(a, s)
  BY <1>3, <1>11
<1>12. CASE \E n \in SequenceNumbers, s \in Sessions : CompleteAttempt(a, n, s)
  BY <1>4, <1>5, <1>8, <1>12
<1>13. CASE \E n \in SequenceNumbers : FailAttempt(a, n)
  BY <1>4, <1>6, <1>9, <1>13
<1>. QED
  BY <1>1, <1>7, <1>10, <1>11, <1>12, <1>13 DEF HolderStep

\* A holder renews, uses or ends its lease; it never starts one.
LEMMA EntitledHolder ==
  ASSUME TypeLinked, LiveLeasesAreEntitled, NEW a \in Attempts, HolderStep(a)
  PROVE  LiveLeasesAreEntitled'
<1>1. UNCHANGED <<machineGeneration, phase>>
  BY DEF HolderStep, ElapseLease, RenewLease, AppendEvent, UpdateSessionBinding,
         CompleteAttempt, FailAttempt, Finish, AcknowledgeStopped
<1>2. /\ \A b \in Attempts : /\ attempt'[b].execution = attempt[b].execution
                             /\ attempt'[b].generation = attempt[b].generation
      /\ \A e \in Executions : execution'[e].profile = execution[e].profile
      /\ \A b \in Attempts : lease'[b].state \in {lease[b].state, "released"}
      /\ \A q \in Profiles : profile'[q].lifecycle = profile[q].lifecycle
  BY HolderRows
<1>6. \A b \in Attempts : LiveLease(b)' => LiveLease(b) /\ lease'[b].state = lease[b].state
  BY <1>2 DEF LiveLease, IsLive, LiveStates
<1>7. \A b \in Attempts : LiveLease(b)' => OwnerOf(b)' = OwnerOf(b) /\ OwnerOf(b) \in Profiles
  BY <1>2, <1>6, LiveOwner DEF OwnerOf
<1>8. \A b \in Attempts : LiveLease(b)' =>
        /\ lease'[b].state = "active" => profile'[OwnerOf(b)'].lifecycle = "active"
        /\ lease'[b].state = "stopping" =>
              profile'[OwnerOf(b)'].lifecycle \in {"cleanup_pending", "repair_required"}
  BY <1>2, <1>6, <1>7 DEF LiveLeasesAreEntitled
<1>. QED
  BY <1>1, <1>2, <1>6, <1>8, EntitledByOwner

\* A replacement retires the leases there are, and its fence ends them before
\* anything is admitted again.
LEMMA EntitledMachine ==
  ASSUME TypeLinked, LiveLeasesAreEntitled, MachineStep
  PROVE  LiveLeasesAreEntitled'
<1>1. machineGeneration \in Nat \ {0} /\ \A a \in Attempts : attempt[a].generation \in Nat
  BY DEF TypeLinked, TypeOK, AttemptRow
<1>2. CASE AcceptReadiness \/ BindIdle \/ FailProvisioning
  BY <1>2 DEF AcceptReadiness, BindIdle, FailProvisioning, LiveLeasesAreEntitled,
              LiveLease, OwnerOf, Retired
<1>3. CASE BeginReplacement
  <2>1. /\ phase = "idle" /\ phase' = "old_machine_stopped"
        /\ machineGeneration' = machineGeneration + 1
        /\ UNCHANGED <<execution, attempt, lease>>
    BY <1>3 DEF BeginReplacement
  <2>2. \A q \in Profiles : profile'[q].lifecycle = profile[q].lifecycle
    BY <1>3 DEF BeginReplacement, TypeLinked, TypeOK, ProfileRow
  <2>3. \A a \in Attempts : LiveLease(a)' =>
          /\ LiveLease(a) /\ OwnerOf(a)' = OwnerOf(a) /\ OwnerOf(a) \in Profiles
          /\ attempt[a].generation = machineGeneration
    BY <2>1, LiveOwner DEF LiveLease, OwnerOf, LiveLeasesAreEntitled, Retired
  <2>4. \A a \in Attempts : LiveLease(a)' =>
          /\ attempt'[a].generation = machineGeneration' - 1
          /\ phase' \in {"old_machine_stopped", "failed"}
    BY <1>1, <2>1, <2>3
  <2>5. \A a \in Attempts : lease'[a].state \in {"active", "stopping"} => LiveLease(a)'
    BY DEF LiveLease, IsLive, LiveStates
  <2>6. ASSUME NEW a \in Attempts
        PROVE  /\ lease'[a].state = "active" => profile'[OwnerOf(a)'].lifecycle = "active"
               /\ lease'[a].state = "stopping" =>
                    profile'[OwnerOf(a)'].lifecycle \in {"cleanup_pending", "repair_required"}
    BY <2>1, <2>2, <2>3, <2>5 DEF LiveLeasesAreEntitled
  <2>. QED
    BY <2>4, <2>6 DEF LiveLeasesAreEntitled
<1>4. CASE ConfirmMachineStoppedAndFence
  <2>1. /\ phase' = "old_machine_destroyed" /\ UNCHANGED <<machineGeneration, profile>>
    BY <1>4 DEF ConfirmMachineStoppedAndFence
  <2>2. \A a \in Attempts :
          /\ attempt'[a].execution = attempt[a].execution
          /\ attempt'[a].generation = attempt[a].generation
    BY <1>4 DEF ConfirmMachineStoppedAndFence, TypeLinked, TypeOK, AttemptRow
  <2>3. \A e \in Executions : execution'[e].profile = execution[e].profile
    BY <1>4 DEF ConfirmMachineStoppedAndFence, TypeLinked, TypeOK, ExecutionRow
  <2>4. \A a \in Attempts : LiveLease(a)' =>
          /\ LiveLease(a) /\ lease'[a] = lease[a]
          /\ attempt[a].generation # machineGeneration - 1
    BY <1>4 DEF ConfirmMachineStoppedAndFence, FencedByReplacement, LiveLease, IsLive,
                LiveStates, TypeLinked, TypeOK, LeaseRow
  <2>5. \A a \in Attempts : LiveLease(a)' => ~Retired(a)' /\ OwnerOf(a)' = OwnerOf(a)
    <3>1. SUFFICES ASSUME NEW a \in Attempts, LiveLease(a)'
                   PROVE  ~Retired(a)' /\ OwnerOf(a)' = OwnerOf(a)
      OBVIOUS
    <3>2. LiveLease(a) /\ attempt[a].generation # machineGeneration - 1
      BY <2>4, <3>1
    <3>3. ~Retired(a)
      BY <3>2 DEF LiveLeasesAreEntitled
    <3>. QED
      BY <2>1, <2>2, <2>3, <3>2, <3>3, LiveOwner DEF Retired, OwnerOf
  <2>6. \A a \in Attempts : lease'[a].state \in {"active", "stopping"} => LiveLease(a)'
    BY DEF LiveLease, IsLive, LiveStates
  <2>7. ASSUME NEW a \in Attempts
        PROVE  /\ lease'[a].state = "active" => profile'[OwnerOf(a)'].lifecycle = "active"
               /\ lease'[a].state = "stopping" =>
                    profile'[OwnerOf(a)'].lifecycle \in {"cleanup_pending", "repair_required"}
    BY <2>1, <2>4, <2>5, <2>6 DEF LiveLeasesAreEntitled
  <2>. QED
    BY <2>5, <2>7 DEF LiveLeasesAreEntitled
<1>. QED
  BY <1>2, <1>3, <1>4 DEF MachineStep

\* A claim hands a lease of this generation to a profile that is ready.
LEMMA EntitledClaim ==
  ASSUME TypeLinked, LiveLeasesAreEntitled, NEW S \in StaleBatches,
         \/ \E a \in Attempts : ClaimExecution(a, S)
         \/ CommitReconciliation(S)
  PROVE  LiveLeasesAreEntitled'
<1>1. S \in SUBSET StaleLeases /\ S \in SUBSET Attempts
  BY DEF StaleBatches, StaleLeases
<1>2. \A b \in Attempts : /\ AttemptsAfter(S)[b].execution = attempt[b].execution
                          /\ AttemptsAfter(S)[b].generation = attempt[b].generation
  BY DEF AttemptsAfter, ReconciledAttempt, TypeLinked, TypeOK, AttemptRow
<1>3. \A b \in Attempts : IsLive(LeasesAfter(S)[b]) => b \notin S /\ LeasesAfter(S)[b] = lease[b]
  BY DEF LeasesAfter, ReconciledLease, IsLive, LiveStates, TypeLinked, TypeOK, LeaseRow
<1>4. \A e \in Executions : ExecutionsAfter(S)[e].profile = execution[e].profile
  BY <1>1, ReconciledRows
<1>5. CASE CommitReconciliation(S)
  <2>1. /\ UNCHANGED <<machineGeneration, phase, profile>> /\ attempt' = AttemptsAfter(S)
        /\ execution' = ExecutionsAfter(S) /\ lease' = LeasesAfter(S)
    BY <1>5 DEF CommitReconciliation
  <2>2. \A b \in Attempts : LiveLease(b)' => LiveLease(b) /\ lease'[b] = lease[b]
    BY <1>3, <2>1 DEF LiveLease
  <2>3. \A b \in Attempts : LiveLease(b)' => OwnerOf(b)' = OwnerOf(b)
    BY <1>2, <1>4, <2>1, <2>2, LiveOwner DEF OwnerOf
  <2>4. \A b \in Attempts : LiveLease(b)' =>
        /\ lease'[b].state = "active" => profile'[OwnerOf(b)'].lifecycle = "active"
        /\ lease'[b].state = "stopping" =>
              profile'[OwnerOf(b)'].lifecycle \in {"cleanup_pending", "repair_required"}
    BY <2>1, <2>2, <2>3 DEF LiveLeasesAreEntitled
  <2>. QED
    BY <1>2, <2>1, <2>2, <2>4, EntitledByOwner
<1>6. ASSUME NEW a \in Attempts, ClaimExecution(a, S)
      PROVE  LiveLeasesAreEntitled'
  <2>1. RecoveryEventsFit(S) /\ UNCHANGED <<machineGeneration, phase, profile>>
    BY <1>6 DEF ClaimExecution
  <2>2. PICK e \in OldestClaimable(S) :
          /\ attempt' = [AttemptsAfter(S) EXCEPT ![a] =
                [NoAttempt EXCEPT !.status = "running", !.execution = e,
                                  !.generation = machineGeneration,
                                  !.expected = profile[execution[e].profile].session]]
          /\ execution' = [ExecutionsAfter(S) EXCEPT ![e].status = "running"]
          /\ lease' = [LeasesAfter(S) EXCEPT ![a] =
                [state |-> "active", remaining |-> LeaseTerm]]
    BY <1>6 DEF ClaimExecution
  <2>3. e \in Executions /\ profile[execution[e].profile].lifecycle = "active"
    BY DEF OldestClaimable, ClaimableAfter, QueuedAfter, ProfileIsClaimReady
  <2>4. \A f \in Executions : execution'[f].profile = execution[f].profile
    BY <1>1, <1>4, <2>1, <2>2, ReconciledTypes DEF ExecutionRow, TypeLinked
  <2>5. /\ attempt'[a].execution = e /\ attempt'[a].generation = machineGeneration
        /\ lease'[a].state = "active"
        /\ \A b \in Attempts \ {a} :
             attempt'[b] = AttemptsAfter(S)[b] /\ lease'[b] = LeasesAfter(S)[b]
    BY <1>1, <2>1, <2>2, ReconciledTypes DEF NoAttempt, TypeLinked
  <2>6. ASSUME NEW b \in Attempts
        PROVE  /\ lease'[b].state = "active" => profile'[OwnerOf(b)'].lifecycle = "active"
               /\ lease'[b].state = "stopping" =>
                    profile'[OwnerOf(b)'].lifecycle \in {"cleanup_pending", "repair_required"}
               /\ LiveLease(b)' =>
                    \/ ~Retired(b)'
                    \/ /\ attempt'[b].generation = machineGeneration' - 1
                       /\ phase' \in {"old_machine_stopped", "failed"}
    <3>1. CASE b = a
      BY <2>1, <2>3, <2>4, <2>5, <3>1 DEF OwnerOf, Retired
    <3>2. CASE b # a /\ ~IsLive(lease'[b])
      BY <3>2 DEF LiveLease, IsLive, LiveStates
    <3>3. CASE b # a /\ IsLive(lease'[b])
      <4>1. lease'[b] = lease[b] /\ LiveLease(b)
        BY <1>3, <2>5, <3>3 DEF LiveLease
      <4>2. OwnerOf(b)' = OwnerOf(b) /\ attempt'[b].generation = attempt[b].generation
        BY <1>2, <2>4, <2>5, <3>3, <4>1, LiveOwner DEF OwnerOf
      <4>. QED
        BY <2>1, <4>1, <4>2 DEF LiveLeasesAreEntitled, Retired
    <3>. QED
      BY <3>1, <3>2, <3>3
  <2>. QED
    BY <2>6 DEF LiveLeasesAreEntitled
<1>. QED
  BY <1>5, <1>6

\* profiles.py, leases.py, services/workspaces.py: an active lease belongs to an
\* active profile, a stopping one to a deletion that is unresolved, and a lease
\* of a retired generation is live only until its Machine is confirmed stopped.
THEOREM LeasesAreEntitled == Spec => []LiveLeasesAreEntitled
<1>1. Init => LiveLeasesAreEntitled
  BY DEF Init, LiveLeasesAreEntitled, LiveLease, IsLive, LiveStates, NoLease
<1>2. TypeLinked /\ LiveLeasesAreEntitled /\ [Next]_vars => LiveLeasesAreEntitled'
  <2> SUFFICES ASSUME TypeLinked, LiveLeasesAreEntitled, [Next]_vars
               PROVE  LiveLeasesAreEntitled'
    OBVIOUS
  <2>1. CASE Claim \/ \E b \in Attempts, S \in StaleBatches : ReplayClaim(b, S)
    BY <2>1, EntitledClaim DEF Claim, ClaimNothing, ReplayClaim
  <2>2. CASE UNCHANGED vars
    BY <2>2 DEF vars, LiveLeasesAreEntitled, LiveLease, OwnerOf, Retired
  <2>. QED
    BY <2>1, <2>2, EntitledProfile, EntitledHolder, EntitledMachine DEF Next
<1>. QED
  BY <1>1, <1>2, TypeLinkedInvariant, PTL DEF Spec

-----------------------------------------------------------------------------
(* A live turn owns the session of its profile.                            *)

\* What a step that starts no turn leaves of a live one: who owns it.
LEMMA OwnerKept ==
  ASSUME TypeLinked, NEW a \in Attempts, LiveLease(a),
         attempt'[a].execution = attempt[a].execution,
         \A e \in Executions : execution[e].status # "none" =>
            execution'[e].profile = execution[e].profile
  PROVE  OwnerOf(a)' = OwnerOf(a) /\ OwnerOf(a) \in Profiles
  BY LiveOwner DEF OwnerOf

\* A step that starts no turn and leaves the sessions of the live ones alone.
LEMMA SessionsKept ==
  ASSUME TypeLinked, TurnOwnsSession,
         \A e \in Executions : execution[e].status # "none" =>
            execution'[e].profile = execution[e].profile,
         \A b \in Attempts : LiveLease(b)' =>
            /\ LiveLease(b) /\ attempt'[b].execution = attempt[b].execution
            /\ attempt'[b].session = attempt[b].session
            /\ attempt'[b].expected = attempt[b].expected
            /\ profile'[OwnerOf(b)].session = profile[OwnerOf(b)].session
  PROVE  TurnOwnsSession'
<1>1. \A b \in Attempts : LiveLease(b)' => OwnerOf(b)' = OwnerOf(b)
  BY OwnerKept
<1>. QED
  BY <1>1 DEF TurnOwnsSession

\* Only the deletion of a profile resets its session, after its last turn.
LEMMA SessionProfile ==
  ASSUME TypeLinked, TurnOwnsSession, NEW p \in Profiles, ProfileStep(p)
  PROVE  TurnOwnsSession'
<1>. USE DEF TypeLinked, TypeOK
<1>1. CASE \/ EnsureProfile(p) \/ AcceptMaterialization(p) \/ PollExpiredDeletion(p)
           \/ CleanupDeadline(p) \/ AcceptDeletedReceipt(p)
  <2>1. UNCHANGED <<execution, attempt, lease>>
    BY <1>1 DEF EnsureProfile, AcceptMaterialization, PollExpiredDeletion,
                CleanupDeadline, AcceptDeletedReceipt
  <2>2. \A q \in Profiles : profile'[q].session = profile[q].session
    <3>1. CASE EnsureProfile(p) \/ AcceptMaterialization(p)
      BY <3>1 DEF EnsureProfile, AcceptMaterialization, ProfileRow
    <3>2. CASE PollExpiredDeletion(p) \/ CleanupDeadline(p) \/ AcceptDeletedReceipt(p)
      BY <3>2 DEF PollExpiredDeletion, CleanupDeadline, AcceptDeletedReceipt, ProfileRow
    <3>. QED
      BY <1>1, <3>1, <3>2
  <2>3. \A b \in Attempts : LiveLease(b)' => LiveLease(b) /\ OwnerOf(b) \in Profiles
    BY <2>1, LiveOwner DEF LiveLease
  <2>. QED
    BY <2>1, <2>2, <2>3, SessionsKept
<1>2. CASE RequestDeletion(p) \/ ResumeDeletion(p)
  <2>1. UNCHANGED <<execution, attempt>> /\ StopActiveLeases(p)
    BY <1>2 DEF RequestDeletion, ResumeDeletion
  <2>2. \A q \in Profiles : profile'[q].session = profile[q].session
    BY <1>2 DEF RequestDeletion, ResumeDeletion, ProfileRow
  <2>3. \A b \in Attempts : LiveLease(b)' => LiveLease(b)
    BY <2>1 DEF StopActiveLeases, LiveLease, IsLive, LiveStates, LeaseRow
  <2>4. \A b \in Attempts : LiveLease(b)' => OwnerOf(b) \in Profiles
    BY <2>3, LiveOwner
  <2>. QED
    BY <2>1, <2>2, <2>3, <2>4, SessionsKept
<1>3. CASE FenceProfileLeases(p)
  <2>1. \A q \in Profiles : profile'[q].session = profile[q].session
    BY <1>3 DEF FenceProfileLeases, ProfileRow
  <2>2. \A b \in Attempts :
          /\ attempt'[b].execution = attempt[b].execution
          /\ attempt'[b].session = attempt[b].session
          /\ attempt'[b].expected = attempt[b].expected
    BY <1>3 DEF FenceProfileLeases, AttemptRow
  <2>3. \A e \in Executions : execution'[e].profile = execution[e].profile
    BY <1>3 DEF FenceProfileLeases, ExecutionRow
  <2>4. \A b \in Attempts : LiveLease(b)' => LiveLease(b)
    BY <1>3 DEF FenceProfileLeases, LiveLease, IsLive, LiveStates, LeaseRow
  <2>5. \A b \in Attempts : LiveLease(b)' => OwnerOf(b) \in Profiles
    BY <2>4, LiveOwner
  <2>. QED
    BY <2>1, <2>2, <2>3, <2>4, <2>5, SessionsKept
<1>4. CASE PurgeProfile(p)
  <2>1. \A q \in Profiles \ {p} : profile'[q] = profile[q]
    BY <1>4 DEF PurgeProfile
  <2>2. \A b \in Attempts : LiveLease(b)' =>
          LiveLease(b) /\ attempt'[b] = attempt[b] /\ OwnerOf(b) # p
    BY <1>4 DEF PurgeProfile, LiveLease, IsLive, LiveStates, NoLease, HasLiveLease
  <2>3. \A e \in Executions : execution'[e].profile = execution[e].profile
    BY <1>4 DEF PurgeProfile, ExecutionRow
  <2>4. \A b \in Attempts : LiveLease(b)' => OwnerOf(b) \in Profiles \ {p}
    BY <2>2, LiveOwner
  <2>. QED
    BY <2>1, <2>2, <2>3, <2>4, SessionsKept
<1>5. ASSUME NEW e \in Executions, CreateExecution(p, e)
      PROVE  TurnOwnsSession'
  <2>1. /\ UNCHANGED <<profile, attempt, lease>> /\ execution[e].status = "none"
        /\ \A f \in Executions \ {e} : execution'[f] = execution[f]
    BY <1>5 DEF CreateExecution
  <2>2. \A b \in Attempts : LiveLease(b)' => LiveLease(b)
    BY <2>1 DEF LiveLease
  <2>3. \A f \in Executions : execution[f].status # "none" =>
           execution'[f].profile = execution[f].profile
    BY <2>1
  <2>. QED
    BY <2>1, <2>2, <2>3, SessionsKept
<1>. QED
  BY <1>1, <1>2, <1>3, <1>4, <1>5
     DEF ProfileStep, AcceptRepairReceipt, ExpireProfileCleanup

\* Only the holder of a profile's one live lease binds its session.
LEMMA SessionHolder ==
  ASSUME TypeLinked, TurnInv, TurnOwnsSession, NEW a \in Attempts, HolderStep(a)
  PROVE  TurnOwnsSession'
<1>1. /\ \A b \in Attempts : /\ attempt'[b].execution = attempt[b].execution
                             /\ attempt'[b].expected = attempt[b].expected
      /\ \A b \in Attempts \ {a} : attempt'[b] = attempt[b] /\ lease'[b] = lease[b]
      /\ \A e \in Executions : execution'[e].profile = execution[e].profile
      /\ \A b \in Attempts : lease'[b].state \in {lease[b].state, "released"}
  BY HolderRows
<1>2. \A b \in Attempts : LiveLease(b)' =>
        /\ LiveLease(b) /\ OwnerOf(b)' = OwnerOf(b) /\ OwnerOf(b) \in Profiles
  <2>1. \A b \in Attempts : LiveLease(b)' => LiveLease(b)
    BY <1>1 DEF LiveLease, IsLive, LiveStates
  <2>. QED
    BY <1>1, <2>1, OwnerKept
<1>3. profile \in [Profiles -> ProfileRow] /\ attempt \in [Attempts -> AttemptRow]
      /\ lease \in [Attempts -> LeaseRow]
  BY DEF TypeLinked, TypeOK
<1>4. CASE /\ profile' = profile
           /\ LiveLease(a)' => attempt'[a].session = attempt[a].session
  BY <1>1, <1>2, <1>4, SessionsKept
<1>5. ASSUME LiveLease(a), NEW s, profile' = [profile EXCEPT ![OwnerOf(a)].session = s],
             LiveLease(a)' => attempt'[a].session = s /\ s # NoSession
      PROVE  TurnOwnsSession'
  <2>1. \A b \in Attempts \ {a} : LiveLease(b)' => OwnerOf(b) # OwnerOf(a)
    BY <1>2, <1>5 DEF TurnInv, OneLiveLeasePerProfile
  <2>2. ASSUME NEW b \in Attempts, LiveLease(b)'
        PROVE  profile'[OwnerOf(b)'].session =
                 IF attempt'[b].session = NoSession
                   THEN attempt'[b].expected ELSE attempt'[b].session
    <3>1. CASE b = a
      <4>1. profile[OwnerOf(a)] \in ProfileRow
        BY <1>2, <1>3, <2>2, <3>1
      <4>2. profile'[OwnerOf(a)].session = s
        BY <1>2, <1>3, <1>5, <2>2, <3>1, <4>1 DEF ProfileRow
      <4>. QED
        BY <1>2, <1>5, <2>2, <3>1, <4>2
    <3>2. CASE b # a
      <4>1. profile'[OwnerOf(b)] = profile[OwnerOf(b)]
        BY <1>2, <1>3, <1>5, <2>1, <2>2, <3>2
      <4>. QED
        BY <1>1, <1>2, <2>2, <3>2, <4>1 DEF TurnOwnsSession
    <3>. QED
      BY <3>1, <3>2
  <2>. QED
    BY <2>2 DEF TurnOwnsSession
<1>6. CASE ElapseLease(a) \/ RenewLease(a)
  BY <1>4, <1>6 DEF ElapseLease, RenewLease
<1>7. ASSUME NEW n, NEW d, AppendEvent(a, n, d) PROVE TurnOwnsSession'
  BY <1>3, <1>4, <1>7 DEF AppendEvent, AttemptRow
<1>8. ASSUME NEW s \in Sessions, UpdateSessionBinding(a, s) PROVE TurnOwnsSession'
  <2>1. LiveLease(a) /\ s # NoSession
    BY <1>8, SessionsAssumption DEF UpdateSessionBinding, AuthorizesMutation, LiveLease,
                                    IsLive, LiveStates
  <2>2. /\ profile' = [profile EXCEPT ![OwnerOf(a)].session = s]
        /\ attempt'[a].session = s
    BY <1>3, <1>8 DEF UpdateSessionBinding, AttemptRow
  <2>. QED
    BY <1>5, <2>1, <2>2
<1>9. ASSUME NEW n, NEW o, NEW v, NEW s, Finish(a, n, o, v, s)
      PROVE  LiveLease(a) /\ ~LiveLease(a)'
  BY <1>3, <1>9 DEF Finish, AuthorizesMutation, LiveLease, IsLive, LiveStates, LeaseRow
<1>10. ASSUME NEW n, NEW s \in Sessions, CompleteAttempt(a, n, s) PROVE TurnOwnsSession'
  <2>1. LiveLease(a) /\ ~LiveLease(a)'
    BY <1>9, <1>10 DEF CompleteAttempt
  <2>2. profile' = profile \/ profile' = [profile EXCEPT ![OwnerOf(a)].session = s]
    BY <1>10 DEF CompleteAttempt
  <2>. QED
    BY <1>4, <1>5, <2>1, <2>2
<1>11. ASSUME NEW n, FailAttempt(a, n) PROVE TurnOwnsSession'
  <2>1. Finish(a, n, "failed", "failed", attempt[a].session) /\ profile' = profile
    BY <1>11 DEF FailAttempt
  <2>2. ~LiveLease(a)'
    BY <1>9, <2>1
  <2>. QED
    BY <1>4, <2>1, <2>2
<1>12. CASE AcknowledgeStopped(a)
  BY <1>3, <1>4, <1>12 DEF AcknowledgeStopped, AttemptRow
<1>. QED
  BY <1>6, <1>7, <1>8, <1>10, <1>11, <1>12 DEF HolderStep

\* A replacement leaves sessions alone.
LEMMA SessionMachine ==
  ASSUME TypeLinked, TurnOwnsSession, MachineStep
  PROVE  TurnOwnsSession'
<1>. USE DEF TypeLinked, TypeOK
<1>1. CASE AcceptReadiness \/ BindIdle \/ FailProvisioning
  BY <1>1 DEF AcceptReadiness, BindIdle, FailProvisioning, TurnOwnsSession, LiveLease, OwnerOf
<1>2. CASE BeginReplacement
  <2>1. UNCHANGED <<execution, attempt, lease>>
    BY <1>2 DEF BeginReplacement
  <2>2. \A q \in Profiles : profile'[q].session = profile[q].session
    BY <1>2 DEF BeginReplacement, ProfileRow
  <2>3. \A b \in Attempts : LiveLease(b)' => LiveLease(b) /\ OwnerOf(b) \in Profiles
    BY <2>1, LiveOwner DEF LiveLease
  <2>. QED
    BY <2>1, <2>2, <2>3, SessionsKept
<1>3. CASE ConfirmMachineStoppedAndFence
  <2>1. \A b \in Attempts :
          /\ attempt'[b].execution = attempt[b].execution
          /\ attempt'[b].session = attempt[b].session
          /\ attempt'[b].expected = attempt[b].expected
    BY <1>3 DEF ConfirmMachineStoppedAndFence, AttemptRow
  <2>2. \A e \in Executions : execution'[e].profile = execution[e].profile
    BY <1>3 DEF ConfirmMachineStoppedAndFence, ExecutionRow
  <2>3. \A b \in Attempts : LiveLease(b)' => LiveLease(b)
    BY <1>3 DEF ConfirmMachineStoppedAndFence, LiveLease, IsLive, LiveStates, LeaseRow
  <2>4. profile' = profile
    BY <1>3 DEF ConfirmMachineStoppedAndFence
  <2>. QED
    BY <2>1, <2>2, <2>3, <2>4, SessionsKept
<1>. QED
  BY <1>1, <1>2, <1>3 DEF MachineStep

\* A claim carries the session its profile has.
LEMMA SessionClaim ==
  ASSUME TypeLinked, TurnInv, TurnOwnsSession, NEW S \in StaleBatches,
         \/ \E a \in Attempts : ClaimExecution(a, S)
         \/ CommitReconciliation(S)
  PROVE  TurnOwnsSession'
<1>1. S \in SUBSET StaleLeases /\ S \in SUBSET Attempts
  BY DEF StaleBatches, StaleLeases
<1>2. \A b \in Attempts : /\ AttemptsAfter(S)[b].execution = attempt[b].execution
                          /\ AttemptsAfter(S)[b].session = attempt[b].session
                          /\ AttemptsAfter(S)[b].expected = attempt[b].expected
  BY DEF AttemptsAfter, ReconciledAttempt, TypeLinked, TypeOK, AttemptRow
<1>3. \A b \in Attempts : IsLive(LeasesAfter(S)[b]) => LiveLease(b)
  BY <1>1, ReconciledTurns
<1>4. \A e \in Executions : ExecutionsAfter(S)[e].profile = execution[e].profile
  BY <1>1, ReconciledRows
<1>5. CASE CommitReconciliation(S)
  <2>1. /\ profile' = profile /\ attempt' = AttemptsAfter(S)
        /\ execution' = ExecutionsAfter(S) /\ lease' = LeasesAfter(S)
    BY <1>5 DEF CommitReconciliation
  <2>2. \A b \in Attempts : LiveLease(b)' => LiveLease(b)
    BY <1>3, <2>1 DEF LiveLease
  <2>. QED
    BY <1>2, <1>4, <2>1, <2>2, SessionsKept
<1>6. ASSUME NEW a \in Attempts, ClaimExecution(a, S)
      PROVE  TurnOwnsSession'
  <2>1. RecoveryEventsFit(S) /\ profile' = profile
    BY <1>6 DEF ClaimExecution
  <2>2. PICK e \in OldestClaimable(S) :
          /\ attempt' = [AttemptsAfter(S) EXCEPT ![a] =
                [NoAttempt EXCEPT !.status = "running", !.execution = e,
                                  !.generation = machineGeneration,
                                  !.expected = profile[execution[e].profile].session]]
          /\ execution' = [ExecutionsAfter(S) EXCEPT ![e].status = "running"]
          /\ lease' = [LeasesAfter(S) EXCEPT ![a] =
                [state |-> "active", remaining |-> LeaseTerm]]
    BY <1>6 DEF ClaimExecution
  <2>3. e \in Executions
    BY DEF OldestClaimable, ClaimableAfter, QueuedAfter
  <2>4. \A f \in Executions : execution'[f].profile = execution[f].profile
    BY <1>1, <1>4, <2>1, <2>2, ReconciledTypes DEF ExecutionRow, TypeLinked
  <2>5. /\ attempt'[a].execution = e /\ attempt'[a].session = NoSession
        /\ attempt'[a].expected = profile[execution[e].profile].session
        /\ \A b \in Attempts \ {a} :
             attempt'[b] = AttemptsAfter(S)[b] /\ lease'[b] = LeasesAfter(S)[b]
    BY <1>1, <2>1, <2>2, ReconciledTypes DEF NoAttempt, TypeLinked
  <2>6. ASSUME NEW b \in Attempts, LiveLease(b)'
        PROVE  profile'[OwnerOf(b)'].session =
                 IF attempt'[b].session = NoSession
                   THEN attempt'[b].expected ELSE attempt'[b].session
    <3>1. CASE b = a
      BY <2>1, <2>3, <2>4, <2>5, <3>1 DEF OwnerOf
    <3>2. CASE b # a
      <4>1. LiveLease(b)
        BY <1>3, <2>5, <2>6, <3>2 DEF LiveLease
      <4>2. attempt'[b].execution = attempt[b].execution
        BY <1>2, <2>5, <3>2
      <4>3. OwnerOf(b)' = OwnerOf(b)
        BY <2>4, <4>1, <4>2, OwnerKept
      <4>. QED
        BY <1>2, <2>1, <2>5, <3>2, <4>1, <4>3 DEF TurnOwnsSession
    <3>. QED
      BY <3>1, <3>2
  <2>. QED
    BY <2>6 DEF TurnOwnsSession
<1>. QED
  BY <1>5, <1>6

\* services/sessions.py: while a turn is live its profile's binding is what the
\* turn's claim carried, or what the turn bound itself.
THEOREM SessionHasOneOwner == Spec => []TurnOwnsSession
<1>1. Init => TurnOwnsSession
  BY DEF Init, TurnOwnsSession, LiveLease, IsLive, LiveStates, NoLease
<1>2. TypeLinked /\ TurnInv /\ TurnOwnsSession /\ [Next]_vars => TurnOwnsSession'
  <2> SUFFICES ASSUME TypeLinked, TurnInv, TurnOwnsSession, [Next]_vars
               PROVE  TurnOwnsSession'
    OBVIOUS
  <2>1. CASE Claim \/ \E b \in Attempts, S \in StaleBatches : ReplayClaim(b, S)
    BY <2>1, SessionClaim DEF Claim, ClaimNothing, ReplayClaim
  <2>2. CASE UNCHANGED vars
    BY <2>2 DEF vars, TurnOwnsSession, LiveLease, OwnerOf
  <2>. QED
    BY <2>1, <2>2, SessionProfile, SessionHolder, SessionMachine DEF Next
<1>. QED
  BY <1>1, <1>2, TypeLinkedInvariant, TurnInvariant, PTL DEF Spec

-----------------------------------------------------------------------------
(* How turns move.  Every step but three (a message is accepted, an        *)
(* attempt starts, a profile is purged) only moves turns that run: it      *)
(* changes no ended attempt, no execution that does not run, and only the  *)
(* status of an attempt of a retired generation.                           *)

Outcome(event) == IF event = "completed" THEN "succeeded" ELSE "failed"

TurnsMove(A, E) ==
    /\ \A a \in Attempts :
          \/ A[a] = attempt[a]
          \/ /\ Unresolved(a) /\ A[a].execution = attempt[a].execution
             /\ A[a].status # "none"
             /\ Retired(a) => A[a] = [attempt[a] EXCEPT !.status = "unknown"]
             /\ \/ A[a].outcomeEvent = attempt[a].outcomeEvent
                \/ E[attempt[a].execution].status = Outcome(A[a].outcomeEvent)
    /\ \A e \in Executions :
          /\ E[e].profile = execution[e].profile
          /\ \/ E[e].status = execution[e].status
             \/ /\ execution[e].status = "running"
                /\ E[e].status \in {"queued", "succeeded", "failed"}

\* An attempt that runs is of an execution that runs.
LEMMA RunningExecution ==
  ASSUME TypeLinked, TurnInv, NEW a \in Attempts, Unresolved(a)
  PROVE  /\ attempt[a].execution \in Executions
         /\ execution[attempt[a].execution].status = "running"
<1>1. attempt[a].execution \in Executions
  BY DEF TypeLinked, RowsLinked, Unresolved
<1>. QED
  BY <1>1 DEF TurnInv, RunningTurnHasLease

\* Ending an attempt as unknown changes nothing else of it.
LEMMA UnknownKeeps ==
  ASSUME NEW r \in AttemptRow
  PROVE  /\ [r EXCEPT !.status = "unknown"].execution = r.execution
         /\ [r EXCEPT !.status = "unknown"].status # "none"
         /\ [r EXCEPT !.status = "unknown"].outcomeEvent = r.outcomeEvent
  BY DEF AttemptRow

\* A batch of stale leases, reconciled by a workspace that is bound: none of them
\* is of a retired generation.
LEMMA ReconciledMoves ==
  ASSUME TypeLinked, TurnInv, LiveLeasesAreEntitled, WorkspaceBound,
         NEW S \in SUBSET StaleLeases
  PROVE  TurnsMove(AttemptsAfter(S), ExecutionsAfter(S))
<1>1. ASSUME NEW a \in S
      PROVE  /\ a \in Attempts /\ LiveLease(a) /\ Unresolved(a) /\ ~Retired(a)
             /\ attempt[a].execution \in Executions /\ attempt[a] \in AttemptRow
             /\ execution[attempt[a].execution].status = "running"
  <2>1. a \in Attempts /\ LiveLease(a)
    BY DEF StaleLeases
  <2>2. Unresolved(a)
    BY <2>1 DEF TurnInv, RunningTurnHasLease
  <2>3. ~Retired(a)
    BY <2>1 DEF LiveLeasesAreEntitled, WorkspaceBound
  <2>. QED
    BY <2>1, <2>2, <2>3, RunningExecution DEF TypeLinked, TypeOK
<1>2. \A a \in S : \A b \in S : attempt[b].execution = attempt[a].execution => b = a
  BY <1>1, OneRunningAttempt
<1>3. ASSUME NEW a \in S
      PROVE  ReconciledStatus(S, attempt[a].execution) =
               IF Replayable(a) THEN "queued" ELSE "failed"
  <2>1. \A b \in S : attempt[b].execution = attempt[a].execution => b = a
    BY <1>2
  <2>2. execution[attempt[a].execution].status = "running" /\ Unresolved(a)
    BY <1>1
  <2>. QED
    BY <2>1, <2>2 DEF ReconciledStatus, TerminalExecution
<1>4. \A e \in Executions :
        /\ ExecutionsAfter(S)[e].profile = execution[e].profile
        /\ ExecutionsAfter(S)[e].status = ReconciledStatus(S, e)
  BY ReconciledRows
<1>5. ASSUME NEW e \in Executions
      PROVE  \/ ReconciledStatus(S, e) = execution[e].status
             \/ /\ execution[e].status = "running"
                /\ ReconciledStatus(S, e) \in {"queued", "succeeded", "failed"}
  <2>1. CASE \E a \in S : attempt[a].execution = e
    BY <1>1, <1>3, <2>1
  <2>2. CASE \A a \in S : attempt[a].execution # e
    BY <2>2 DEF ReconciledStatus
  <2>. QED
    BY <2>1, <2>2
<1>6. ASSUME NEW a \in Attempts
      PROVE  \/ AttemptsAfter(S)[a] = attempt[a]
             \/ /\ Unresolved(a) /\ AttemptsAfter(S)[a].execution = attempt[a].execution
                /\ AttemptsAfter(S)[a].status # "none"
                /\ Retired(a) => AttemptsAfter(S)[a] = [attempt[a] EXCEPT !.status = "unknown"]
                /\ \/ AttemptsAfter(S)[a].outcomeEvent = attempt[a].outcomeEvent
                   \/ ExecutionsAfter(S)[attempt[a].execution].status =
                        Outcome(AttemptsAfter(S)[a].outcomeEvent)
  <2>1. CASE a \notin S
    BY <2>1 DEF AttemptsAfter
  <2>2. CASE a \in S
    <3>1. AttemptsAfter(S)[a] = ReconciledAttempt(a)
      BY <2>2 DEF AttemptsAfter
    <3>2. /\ Unresolved(a) /\ ~Retired(a) /\ attempt[a].execution \in Executions
          /\ attempt[a] \in AttemptRow
      BY <1>1, <2>2
    <3>3. CASE NeedsFailureEvent(a)
      <4>1. /\ ReconciledAttempt(a).execution = attempt[a].execution
            /\ ReconciledAttempt(a).status = "unknown"
            /\ ReconciledAttempt(a).outcomeEvent = "failed"
        BY <3>2, <3>3 DEF ReconciledAttempt, AttemptRow
      <4>2. ReconciledStatus(S, attempt[a].execution) = "failed"
        BY <1>3, <2>2, <3>3 DEF NeedsFailureEvent
      <4>. QED
        BY <1>4, <3>1, <3>2, <4>1, <4>2 DEF Outcome
    <3>4. CASE ~NeedsFailureEvent(a)
      <4>1. ReconciledAttempt(a) = [attempt[a] EXCEPT !.status = "unknown"]
        BY <3>2, <3>4 DEF ReconciledAttempt
      <4>. QED
        BY <3>1, <3>2, <4>1, UnknownKeeps
    <3>. QED
      BY <3>3, <3>4
  <2>. QED
    BY <2>1, <2>2
<1>. QED
  BY <1>4, <1>5, <1>6 DEF TurnsMove

\* A fence ends turns as unknown, requeues or fails their executions, and writes
\* nothing else.
LEMMA FencedMoves ==
  ASSUME TypeLinked,
         \A a \in Attempts :
            \/ attempt'[a] = attempt[a]
            \/ Unresolved(a) /\ attempt'[a] = [attempt[a] EXCEPT !.status = "unknown"],
         \A e \in Executions :
            /\ execution'[e].profile = execution[e].profile
            /\ \/ execution'[e].status = execution[e].status
               \/ execution[e].status = "running" /\ execution'[e].status \in {"failed", "queued"}
  PROVE  TurnsMove(attempt', execution')
<1>1. ASSUME NEW a \in Attempts, attempt'[a] # attempt[a]
      PROVE  /\ Unresolved(a) /\ attempt'[a].execution = attempt[a].execution
             /\ attempt'[a].status # "none"
             /\ attempt'[a] = [attempt[a] EXCEPT !.status = "unknown"]
             /\ attempt'[a].outcomeEvent = attempt[a].outcomeEvent
  <2>1. attempt[a] \in AttemptRow
    BY DEF TypeLinked, TypeOK
  <2>2. Unresolved(a) /\ attempt'[a] = [attempt[a] EXCEPT !.status = "unknown"]
    BY <1>1
  <2>. QED
    BY <2>1, <2>2, UnknownKeeps
<1>. QED
  BY <1>1 DEF TurnsMove

\* The steps of a profile, its purge and a new message apart.
LEMMA ProfileMoves ==
  ASSUME TypeLinked, TurnInv, NEW p \in Profiles, ProfileStep(p),
         ~PurgeProfile(p), ~\E e \in Executions : CreateExecution(p, e)
  PROVE  /\ TurnsMove(attempt', execution')
         /\ \A q \in Profiles : profile[q].lifecycle = "purged" =>
               profile'[q].lifecycle = "purged"
<1>. USE DEF TypeLinked, TypeOK
<1>1. CASE \/ EnsureProfile(p) \/ AcceptMaterialization(p) \/ PollExpiredDeletion(p)
           \/ CleanupDeadline(p) \/ AcceptDeletedReceipt(p)
           \/ RequestDeletion(p) \/ ResumeDeletion(p)
  <2>1. UNCHANGED <<attempt, execution>>
    BY <1>1 DEF EnsureProfile, AcceptMaterialization, PollExpiredDeletion, CleanupDeadline,
                AcceptDeletedReceipt, RequestDeletion, ResumeDeletion
  <2>2. \A q \in Profiles : profile[q].lifecycle = "purged" => profile'[q].lifecycle = "purged"
    <3>1. profile[p].lifecycle # "purged" /\ \A q \in Profiles \ {p} : profile'[q] = profile[q]
      BY <1>1 DEF EnsureProfile, AcceptMaterialization, PollExpiredDeletion, CleanupDeadline,
                  AcceptDeletedReceipt, RequestDeletion, ResumeDeletion, CleanupPending
    <3>. QED
      BY <3>1
  <2>. QED
    BY <2>1, <2>2 DEF TurnsMove
<1>2. CASE FenceProfileLeases(p) /\ CleanupPending(p)
  <2>1. \A q \in Profiles : profile[q].lifecycle = "purged" => profile'[q].lifecycle = "purged"
    BY <1>2 DEF FenceProfileLeases, CleanupPending
  <2>2. \A a \in Attempts :
          \/ attempt'[a] = attempt[a]
          \/ Unresolved(a) /\ attempt'[a] = [attempt[a] EXCEPT !.status = "unknown"]
    BY <1>2 DEF FenceProfileLeases
  <2>3. \A e \in Executions :
          /\ execution'[e].profile = execution[e].profile
          /\ \/ execution'[e].status = execution[e].status
             \/ execution[e].status = "running" /\ execution'[e].status = "failed"
    BY <1>2 DEF FenceProfileLeases, ExecutionRow
  <2>. HIDE DEF TypeLinked, TypeOK
  <2>4. TurnsMove(attempt', execution')
    BY <2>2, <2>3, FencedMoves
  <2>. QED
    BY <2>1, <2>4
<1>. QED
  BY <1>1, <1>2 DEF ProfileStep, AcceptRepairReceipt, ExpireProfileCleanup

\* A replacement ends turns and writes nothing else to them.
LEMMA MachineMoves ==
  ASSUME TypeLinked, TurnInv, MachineStep
  PROVE  /\ TurnsMove(attempt', execution')
         /\ \A q \in Profiles : profile'[q].lifecycle = profile[q].lifecycle
<1>. USE DEF TypeLinked, TypeOK
<1>1. CASE AcceptReadiness \/ BindIdle \/ FailProvisioning
  BY <1>1 DEF AcceptReadiness, BindIdle, FailProvisioning, TurnsMove
<1>2. CASE BeginReplacement
  <2>1. \A q \in Profiles : profile'[q].lifecycle = profile[q].lifecycle
    BY <1>2 DEF BeginReplacement, ProfileRow
  <2>. QED
    BY <1>2, <2>1 DEF BeginReplacement, TurnsMove
<1>3. CASE ConfirmMachineStoppedAndFence
  <2>1. \A a \in Attempts :
          \/ attempt'[a] = attempt[a]
          \/ Unresolved(a) /\ attempt'[a] = [attempt[a] EXCEPT !.status = "unknown"]
    BY <1>3 DEF ConfirmMachineStoppedAndFence
  <2>2. \A e \in Executions :
          /\ execution'[e].profile = execution[e].profile
          /\ \/ execution'[e].status = execution[e].status
             \/ execution[e].status = "running" /\ execution'[e].status \in {"failed", "queued"}
    BY <1>3 DEF ConfirmMachineStoppedAndFence, ExecutionRow
  <2>3. profile' = profile
    BY <1>3 DEF ConfirmMachineStoppedAndFence
  <2>. HIDE DEF TypeLinked, TypeOK
  <2>. QED
    BY <2>1, <2>2, <2>3, FencedMoves
<1>. QED
  BY <1>1, <1>2, <1>3 DEF MachineStep

\* A holder writes only to its own turn, while it runs and its generation is the
\* workspace's, and ends it with the outcome its terminal event names.
LEMMA HolderMoves ==
  ASSUME TypeLinked, TurnInv, NEW a \in Attempts, HolderStep(a)
  PROVE  /\ TurnsMove(attempt', execution')
         /\ \A q \in Profiles : profile'[q].lifecycle = profile[q].lifecycle
<1>0. /\ attempt[a] \in AttemptRow
      /\ AuthorizesMutation(a) => LiveLease(a) /\ ~Retired(a)
      /\ LiveLease(a) => Unresolved(a)
  BY DEF TypeLinked, TypeOK, AuthorizesMutation, LiveLease, IsLive, LiveStates,
         TurnInv, RunningTurnHasLease
<1>1. /\ \A b \in Attempts : attempt'[b].execution = attempt[b].execution
      /\ \A b \in Attempts \ {a} : attempt'[b] = attempt[b]
      /\ \A e \in Executions : execution'[e].profile = execution[e].profile
      /\ \A q \in Profiles : profile'[q].lifecycle = profile[q].lifecycle
  BY HolderRows
<1>2. SUFFICES TurnsMove(attempt', execution')
  BY <1>1
<1>3. CASE ElapseLease(a) \/ RenewLease(a)
  BY <1>3 DEF ElapseLease, RenewLease, TurnsMove
<1>4. ASSUME NEW n \in SequenceNumbers, NEW d \in RuntimeEvents, AppendEvent(a, n, d)
      PROVE  TurnsMove(attempt', execution')
  <2>1. execution' = execution /\ Unresolved(a) /\ ~Retired(a)
    BY <1>0, <1>4 DEF AppendEvent
  <2>2. /\ attempt'[a].status = attempt[a].status
        /\ attempt'[a].outcomeEvent = attempt[a].outcomeEvent
    BY <1>4 DEF AppendEvent, TypeLinked, TypeOK, AttemptRow
  <2>. QED
    BY <1>1, <2>1, <2>2 DEF TurnsMove, Unresolved
<1>5. ASSUME NEW s \in Sessions, UpdateSessionBinding(a, s)
      PROVE  TurnsMove(attempt', execution')
  <2>1. execution' = execution /\ Unresolved(a) /\ ~Retired(a)
    BY <1>0, <1>5 DEF UpdateSessionBinding
  <2>2. /\ attempt'[a].status = attempt[a].status
        /\ attempt'[a].outcomeEvent = attempt[a].outcomeEvent
    BY <1>5 DEF UpdateSessionBinding, TypeLinked, TypeOK, AttemptRow
  <2>. QED
    BY <1>1, <2>1, <2>2 DEF TurnsMove, Unresolved
<1>6. ASSUME NEW n, NEW outcome \in {"succeeded", "failed"}, NEW event, NEW s,
             outcome = Outcome(event), Finish(a, n, outcome, event, s)
      PROVE  TurnsMove(attempt', execution')
  <2>1. /\ Unresolved(a) /\ ~Retired(a) /\ attempt[a].execution \in Executions
        /\ execution[attempt[a].execution].status = "running"
    BY <1>0, <1>6, RunningExecution DEF Finish
  <2>2. attempt'[a].status = outcome /\ attempt'[a].outcomeEvent = event
    BY <1>6 DEF Finish, TypeLinked, TypeOK, AttemptRow
  <2>3. /\ execution'[attempt[a].execution].status = outcome
        /\ \A e \in Executions \ {attempt[a].execution} : execution'[e] = execution[e]
    BY <1>6, <2>1 DEF Finish, TypeLinked, TypeOK, ExecutionRow
  <2>. QED
    BY <1>1, <1>6, <2>1, <2>2, <2>3 DEF TurnsMove
<1>7. CASE AcknowledgeStopped(a)
  <2>1. /\ Unresolved(a) /\ ~Retired(a) /\ attempt[a].execution \in Executions
        /\ execution[attempt[a].execution].status = "running"
    BY <1>0, <1>7, RunningExecution DEF AcknowledgeStopped
  <2>2. /\ attempt'[a].status = "unknown"
        /\ attempt'[a].outcomeEvent = attempt[a].outcomeEvent
    BY <1>7 DEF AcknowledgeStopped, TypeLinked, TypeOK, AttemptRow
  <2>3. /\ execution'[attempt[a].execution].status \in {"queued", "failed"}
        /\ \A e \in Executions \ {attempt[a].execution} : execution'[e] = execution[e]
    BY <1>7, <2>1 DEF AcknowledgeStopped, TypeLinked, TypeOK, ExecutionRow
  <2>. QED
    BY <1>1, <2>1, <2>2, <2>3 DEF TurnsMove
<1>8. CASE \E n \in SequenceNumbers, s \in Sessions : CompleteAttempt(a, n, s)
  <2>1. PICK n \in SequenceNumbers, s \in Sessions :
          Finish(a, n, "succeeded", "completed", s)
    BY <1>8 DEF CompleteAttempt
  <2>. QED
    BY <1>6, <2>1 DEF Outcome
<1>9. CASE \E n \in SequenceNumbers : FailAttempt(a, n)
  <2>1. PICK n \in SequenceNumbers : Finish(a, n, "failed", "failed", attempt[a].session)
    BY <1>9 DEF FailAttempt
  <2>. QED
    BY <1>6, <2>1 DEF Outcome
<1>. QED
  BY <1>3, <1>4, <1>5, <1>7, <1>8, <1>9 DEF HolderStep

\* Every step moves turns so, or accepts a message, starts an attempt or purges a
\* profile; and a purged profile stays purged.
LEMMA StepsMove ==
  ASSUME TypeLinked, TurnInv, LiveLeasesAreEntitled, [Next]_vars
  PROVE  \/ /\ TurnsMove(attempt', execution')
            /\ \A q \in Profiles : profile[q].lifecycle = "purged" =>
                  profile'[q].lifecycle = "purged"
         \/ \E p \in Profiles, e \in Executions : CreateExecution(p, e)
         \/ \E p \in Profiles : PurgeProfile(p)
         \/ \E a \in Attempts, S \in SUBSET StaleLeases : ClaimExecution(a, S)
<1>1. CASE \E p \in Profiles : ProfileStep(p)
  BY <1>1, ProfileMoves
<1>2. CASE \E a \in Attempts : HolderStep(a)
  BY <1>2, HolderMoves
<1>3. CASE MachineStep
  BY <1>3, MachineMoves
<1>4. ASSUME NEW S \in StaleBatches, CommitReconciliation(S), WorkspaceBound
      PROVE  /\ TurnsMove(attempt', execution')
             /\ \A q \in Profiles : profile'[q].lifecycle = profile[q].lifecycle
  <2>1. S \in SUBSET StaleLeases
    BY DEF StaleBatches
  <2>2. /\ attempt' = AttemptsAfter(S) /\ execution' = ExecutionsAfter(S)
        /\ profile' = profile
    BY <1>4 DEF CommitReconciliation
  <2>. QED
    BY <1>4, <2>1, <2>2, ReconciledMoves
<1>5. CASE Claim \/ \E b \in Attempts, S \in StaleBatches : ReplayClaim(b, S)
  <2>1. CASE \E a \in Attempts, S \in StaleBatches : ClaimExecution(a, S)
    BY <2>1 DEF StaleBatches
  <2>2. CASE \E S \in StaleBatches : CommitReconciliation(S) /\ WorkspaceBound
    BY <1>4, <2>2
  <2>. QED
    BY <1>5, <2>1, <2>2 DEF Claim, ClaimNothing, ReplayClaim, ClaimsAdmitted
<1>6. CASE UNCHANGED vars
  BY <1>6 DEF vars, TurnsMove
<1>. QED
  BY <1>1, <1>2, <1>3, <1>5, <1>6 DEF Next

\* A claim: a batch is reconciled, and then one new attempt runs one execution
\* that the batch left queued.
LEMMA ClaimStarts ==
  ASSUME TypeLinked, TurnInv, LiveLeasesAreEntitled,
         NEW a \in Attempts, NEW S \in SUBSET StaleLeases, ClaimExecution(a, S)
  PROVE  /\ TurnsMove(AttemptsAfter(S), ExecutionsAfter(S))
         /\ attempt[a].status = "none" /\ profile' = profile
         /\ \E e \in OldestClaimable(S) :
              /\ e \in Executions /\ ExecutionsAfter(S)[e].status = "queued"
              /\ attempt'[a].status = "running" /\ attempt'[a].execution = e
              /\ attempt'[a].outcomeEvent = "none"
              /\ execution'[e].status = "running"
              /\ \A b \in Attempts \ {a} : attempt'[b] = AttemptsAfter(S)[b]
              /\ \A f \in Executions \ {e} : execution'[f] = ExecutionsAfter(S)[f]
              /\ \A f \in Executions : execution'[f].profile = execution[f].profile
<1>1. /\ S \in SUBSET Attempts /\ WorkspaceBound /\ RecoveryEventsFit(S)
      /\ attempt[a].status = "none" /\ profile' = profile
  BY DEF ClaimExecution, ClaimsAdmitted, StaleLeases
<1>2. TurnsMove(AttemptsAfter(S), ExecutionsAfter(S))
  BY <1>1, ReconciledMoves
<1>3. PICK e \in OldestClaimable(S) :
        /\ attempt' = [AttemptsAfter(S) EXCEPT ![a] =
              [NoAttempt EXCEPT !.status = "running", !.execution = e,
                                !.generation = machineGeneration,
                                !.expected = profile[execution[e].profile].session]]
        /\ execution' = [ExecutionsAfter(S) EXCEPT ![e].status = "running"]
  BY DEF ClaimExecution
<1>4. e \in Executions /\ ExecutionsAfter(S)[e].status = "queued"
  BY DEF OldestClaimable, ClaimableAfter, QueuedAfter
<1>5. /\ AttemptsAfter(S) \in [Attempts -> AttemptRow]
      /\ ExecutionsAfter(S) \in [Executions -> ExecutionRow]
  BY <1>1, ReconciledTypes DEF TypeLinked
<1>6. /\ attempt'[a].status = "running" /\ attempt'[a].execution = e
      /\ attempt'[a].outcomeEvent = "none"
      /\ \A b \in Attempts \ {a} : attempt'[b] = AttemptsAfter(S)[b]
  BY <1>3, <1>5 DEF NoAttempt
<1>7. /\ execution'[e].status = "running"
      /\ \A f \in Executions \ {e} : execution'[f] = ExecutionsAfter(S)[f]
      /\ \A f \in Executions : execution'[f].profile = ExecutionsAfter(S)[f].profile
  BY <1>3, <1>4, <1>5 DEF ExecutionRow
<1>8. \A f \in Executions : execution'[f].profile = execution[f].profile
  BY <1>2, <1>7 DEF TurnsMove
<1>. QED
  BY <1>1, <1>2, <1>4, <1>6, <1>7, <1>8

-----------------------------------------------------------------------------
(* The messages of a profile run in order.                                 *)

\* An execution's row is empty until its message is accepted; messages are
\* numbered in the order they are accepted; and a row is purged only with its
\* profile, so a claim, which needs the profile active, has no purged one
\* before it.
CreatedInOrder ==
    \A e \in Executions :
        IF execution[e].status = "none" THEN execution[e].profile = NoProfile
        ELSE \A f \in 1..(e - 1) : execution[f].status # "none"

PurgedWithProfile ==
    \A e \in Executions : execution[e].status = "purged" =>
        profile[execution[e].profile].lifecycle = "purged"

OrderInv == TurnsRunInOrder /\ CreatedInOrder /\ PurgedWithProfile

\* Moving turns keeps the order.
LEMMA MovedInOrder ==
  ASSUME TypeLinked, TurnsRunInOrder, NEW A, NEW E, TurnsMove(A, E),
         NEW a \in Attempts, A[a].status # "none"
  PROVE  /\ attempt[a].status # "none"
         /\ A[a].execution \in Executions /\ A[a].execution = attempt[a].execution
         /\ \A e \in 1..(A[a].execution - 1) :
              E[e].profile = E[A[a].execution].profile => E[e].status \in TerminalExecution
<1>1. attempt[a].status # "none" /\ A[a].execution = attempt[a].execution
  BY DEF TurnsMove, Unresolved
<1>2. attempt[a].execution \in Executions
  BY <1>1 DEF TypeLinked, RowsLinked
<1>3. ASSUME NEW e \in 1..(A[a].execution - 1), E[e].profile = E[A[a].execution].profile
      PROVE  E[e].status \in TerminalExecution
  <2>1. e \in Executions /\ e \in 1..(attempt[a].execution - 1)
    BY <1>1, <1>2, <1>3, BoundsAssumption DEF Executions
  <2>2. execution[e].profile = OwnerOf(a)
    BY <1>1, <1>2, <1>3, <2>1 DEF TurnsMove, OwnerOf
  <2>3. execution[e].status \in TerminalExecution
    BY <1>1, <2>1, <2>2 DEF TurnsRunInOrder
  <2>. QED
    BY <2>1, <2>3 DEF TurnsMove, TerminalExecution
<1>. QED
  BY <1>1, <1>2, <1>3

\* The numbering and the purge mark, for a step that accepts no message and
\* purges no profile.
LEMMA MovedRows ==
  ASSUME TypeLinked, CreatedInOrder, PurgedWithProfile,
         \A e \in Executions :
            /\ execution'[e].profile = execution[e].profile
            /\ execution'[e].status = "none" <=> execution[e].status = "none"
            /\ execution'[e].status = "purged" => execution[e].status = "purged",
         \A q \in Profiles : profile[q].lifecycle = "purged" =>
            profile'[q].lifecycle = "purged"
  PROVE  CreatedInOrder' /\ PurgedWithProfile'
<1>1. \A e \in Executions : \A f \in 1..(e - 1) : f \in Executions
  BY BoundsAssumption DEF Executions
<1>2. Executions' = Executions
  BY DEF Executions
<1>3. CreatedInOrder'
  BY <1>1, <1>2 DEF CreatedInOrder
<1>4. PurgedWithProfile'
  BY <1>2 DEF PurgedWithProfile, TypeLinked, RowsLinked
<1>. QED
  BY <1>3, <1>4

\* The claim takes the oldest: an earlier message of the profile that had not
\* ended would be queued, and older, or running, and its profile busy.
LEMMA ClaimIsOldest ==
  ASSUME TypeLinked, TurnInv, CreatedInOrder, PurgedWithProfile,
         NEW S \in SUBSET StaleLeases, NEW e \in OldestClaimable(S),
         NEW f \in 1..(e - 1), execution[f].profile = execution[e].profile
  PROVE  ExecutionsAfter(S)[f].status \in TerminalExecution
<1>1. /\ e \in Executions /\ ReconciledStatus(S, e) = "queued"
      /\ ProfileIsClaimReady(execution[e].profile)
      /\ ~BusyAfter(S, execution[e].profile)
      /\ \A g \in ClaimableAfter(S) : e <= g
  BY ReconciledRows DEF OldestClaimable, ClaimableAfter, QueuedAfter
<1>2. f \in Executions /\ f < e
  BY <1>1, BoundsAssumption DEF Executions
<1>3. execution[e].status # "none" /\ execution[e].profile \in Profiles
  BY <1>1, ReconciledRows DEF TypeLinked, RowsLinked
<1>4. execution[f].status \notin {"none", "purged"}
  <2>1. execution[f].status # "none"
    BY <1>1, <1>3 DEF CreatedInOrder
  <2>2. profile[execution[f].profile].lifecycle # "purged"
    BY <1>1 DEF ProfileIsClaimReady
  <2>. QED
    BY <1>2, <2>1, <2>2 DEF PurgedWithProfile
<1>5. /\ ExecutionsAfter(S)[f].status = ReconciledStatus(S, f)
      /\ ReconciledStatus(S, f) \notin {"none", "purged"}
  BY <1>2, <1>4, ReconciledRows
<1>6. ReconciledStatus(S, f) # "queued"
  <2>1. ASSUME ReconciledStatus(S, f) = "queued" PROVE FALSE
    <3>1. f \in ClaimableAfter(S)
      BY <1>1, <1>2, <1>5, <2>1 DEF ClaimableAfter, QueuedAfter
    <3>. QED
      BY <1>1, <1>2, <3>1 DEF Executions
  <2>. QED
    BY <2>1
<1>7. ReconciledStatus(S, f) # "running"
  <2>1. ASSUME NEW b \in Attempts \ S, Unresolved(b), attempt[b].execution = f
        PROVE  BusyAfter(S, execution[e].profile)
    <3>1. LiveLease(b)
      BY <2>1 DEF TurnInv, RunningTurnHasLease
    <3>2. IsLive(LeasesAfter(S)[b])
      BY <2>1, <3>1, ReconciledTurns
    <3>. QED
      BY <2>1, <3>2 DEF BusyAfter, OwnerOf
  <2>. QED
    BY <1>1, <1>2, <2>1, ReconciledRunning
<1>8. ReconciledStatus(S, f) \in ExecutionStatuses
  BY <1>2 DEF ReconciledStatus, ExecutionStatuses, TypeLinked, TypeOK, ExecutionRow
<1>. QED
  BY <1>5, <1>6, <1>7, <1>8 DEF ExecutionStatuses, TerminalExecution

\* A claim keeps the order.
LEMMA OrderClaim ==
  ASSUME TypeLinked, TurnInv, LiveLeasesAreEntitled, OrderInv,
         NEW a \in Attempts, NEW S \in SUBSET StaleLeases, ClaimExecution(a, S)
  PROVE  OrderInv'
<1>0. TurnsRunInOrder /\ CreatedInOrder /\ PurgedWithProfile
  BY DEF OrderInv
<1>1. TurnsMove(AttemptsAfter(S), ExecutionsAfter(S)) /\ profile' = profile
  BY ClaimStarts
<1>2. PICK e \in OldestClaimable(S) :
        /\ e \in Executions /\ ExecutionsAfter(S)[e].status = "queued"
        /\ attempt'[a].status = "running" /\ attempt'[a].execution = e
        /\ execution'[e].status = "running"
        /\ \A b \in Attempts \ {a} : attempt'[b] = AttemptsAfter(S)[b]
        /\ \A f \in Executions \ {e} : execution'[f] = ExecutionsAfter(S)[f]
        /\ \A f \in Executions : execution'[f].profile = execution[f].profile
  BY ClaimStarts
<1>3. \A f \in Executions :
        /\ execution'[f].profile = execution[f].profile
        /\ execution'[f].status = "none" <=> execution[f].status = "none"
        /\ execution'[f].status = "purged" => execution[f].status = "purged"
  BY <1>1, <1>2 DEF TurnsMove
<1>4. CreatedInOrder' /\ PurgedWithProfile'
  BY <1>0, <1>1, <1>3, MovedRows
<1>5. ASSUME NEW b \in Attempts, attempt'[b].status # "none",
             NEW f \in 1..(attempt'[b].execution - 1), execution'[f].profile = OwnerOf(b)'
      PROVE  execution'[f].status \in TerminalExecution
  <2>1. CASE b = a
    <3>1. f \in 1..(e - 1) /\ f \in Executions \ {e}
      BY <1>2, <1>5, <2>1, BoundsAssumption DEF Executions
    <3>2. execution[f].profile = execution[e].profile
      BY <1>2, <1>5, <2>1, <3>1 DEF OwnerOf
    <3>. QED
      BY <1>0, <1>2, <3>1, <3>2, ClaimIsOldest
  <2>2. CASE b # a
    <3>1. attempt'[b] = AttemptsAfter(S)[b]
      BY <1>2, <2>2
    <3>2. /\ attempt'[b].execution \in Executions
          /\ \A g \in 1..(attempt'[b].execution - 1) :
               ExecutionsAfter(S)[g].profile = ExecutionsAfter(S)[attempt'[b].execution].profile
                 => ExecutionsAfter(S)[g].status \in TerminalExecution
      BY <1>0, <1>1, <1>5, <3>1, MovedInOrder
    <3>3. f \in Executions
      BY <1>5, <3>2, BoundsAssumption DEF Executions
    <3>4. ExecutionsAfter(S)[f].profile = ExecutionsAfter(S)[attempt'[b].execution].profile
      BY <1>1, <1>2, <1>5, <3>2, <3>3 DEF TurnsMove, OwnerOf
    <3>5. ExecutionsAfter(S)[f].status \in TerminalExecution
      BY <1>5, <3>2, <3>4
    <3>6. f # e
      BY <1>2, <3>5 DEF TerminalExecution
    <3>. QED
      BY <1>2, <3>3, <3>5, <3>6
  <2>. QED
    BY <2>1, <2>2
<1>. QED
  BY <1>4, <1>5 DEF OrderInv, TurnsRunInOrder

\* A new message comes after every other.
LEMMA OrderCreate ==
  ASSUME TypeLinked, OrderInv, NEW p \in Profiles, NEW e \in Executions,
         CreateExecution(p, e)
  PROVE  OrderInv'
<1>1. /\ execution[e].status = "none" /\ UNCHANGED <<attempt, profile>>
      /\ \A f \in 1..(e - 1) : execution[f].status # "none"
      /\ \A f \in Executions \ {e} : execution'[f] = execution[f]
      /\ execution'[e].status = "queued" /\ execution'[e].profile = p
  BY DEF CreateExecution, TypeLinked, TypeOK
<1>2. \A g \in Executions : \A f \in 1..(g - 1) : f \in Executions
  BY BoundsAssumption DEF Executions
<1>3. CreatedInOrder'
  BY <1>1, <1>2 DEF OrderInv, CreatedInOrder
<1>4. PurgedWithProfile'
  BY <1>1 DEF OrderInv, PurgedWithProfile
<1>5. ASSUME NEW a \in Attempts, attempt'[a].status # "none",
             NEW f \in 1..(attempt'[a].execution - 1), execution'[f].profile = OwnerOf(a)'
      PROVE  execution'[f].status \in TerminalExecution
  <2>1. /\ attempt[a].execution \in Executions \ {e}
        /\ execution[attempt[a].execution].status # "none"
    BY <1>1, <1>5 DEF TypeLinked, RowsLinked
  <2>2. f \in 1..(attempt[a].execution - 1) /\ f \in Executions
    BY <1>1, <1>2, <1>5, <2>1
  <2>3. f # e
    BY <1>1, <2>1, <2>2 DEF OrderInv, CreatedInOrder
  <2>. QED
    BY <1>1, <1>5, <2>1, <2>2, <2>3 DEF OrderInv, TurnsRunInOrder, OwnerOf
<1>. QED
  BY <1>3, <1>4, <1>5 DEF OrderInv, TurnsRunInOrder

\* A purge takes a whole profile: the turns that are left are of others.
LEMMA OrderPurge ==
  ASSUME TypeLinked, OrderInv, NEW p \in Profiles, PurgeProfile(p)
  PROVE  OrderInv'
<1>1. /\ \A a \in Attempts : attempt'[a] =
           IF attempt[a].status # "none" /\ OwnerOf(a) = p THEN NoAttempt ELSE attempt[a]
      /\ \A e \in Executions : execution[e].profile # p => execution'[e] = execution[e]
  BY DEF PurgeProfile
<1>2. \A e \in Executions :
        /\ execution'[e].profile = execution[e].profile
        /\ execution[e].profile = p => execution'[e].status = "purged"
  BY DEF PurgeProfile, TypeLinked, TypeOK, ExecutionRow
<1>3. /\ profile'[p].lifecycle = "purged"
      /\ \A q \in Profiles \ {p} : profile'[q] = profile[q]
  BY DEF PurgeProfile, AbsentProfile, TypeLinked, TypeOK
<1>4. \A g \in Executions : \A f \in 1..(g - 1) : f \in Executions
  BY BoundsAssumption DEF Executions
<1>5. \A e \in Executions : execution'[e].status = "none" <=> execution[e].status = "none"
  BY <1>1, <1>2, ProfilesAssumption DEF OrderInv, CreatedInOrder
<1>6. CreatedInOrder'
  BY <1>2, <1>4, <1>5 DEF OrderInv, CreatedInOrder
<1>7. PurgedWithProfile'
  BY <1>1, <1>2, <1>3 DEF OrderInv, PurgedWithProfile, TypeLinked, RowsLinked
<1>8. ASSUME NEW a \in Attempts, attempt'[a].status # "none",
             NEW f \in 1..(attempt'[a].execution - 1), execution'[f].profile = OwnerOf(a)'
      PROVE  execution'[f].status \in TerminalExecution
  <2>1. attempt'[a] = attempt[a] /\ attempt[a].status # "none" /\ OwnerOf(a) # p
    BY <1>1, <1>8 DEF NoAttempt
  <2>2. attempt[a].execution \in Executions
    BY <2>1 DEF TypeLinked, RowsLinked
  <2>3. f \in 1..(attempt[a].execution - 1) /\ f \in Executions
    BY <1>4, <1>8, <2>1, <2>2
  <2>4. execution[f].profile = OwnerOf(a)
    BY <1>2, <1>8, <2>1, <2>2, <2>3 DEF OwnerOf
  <2>5. execution[f].status \in TerminalExecution
    BY <2>1, <2>3, <2>4 DEF OrderInv, TurnsRunInOrder
  <2>. QED
    BY <1>1, <2>1, <2>3, <2>4, <2>5
<1>. QED
  BY <1>6, <1>7, <1>8 DEF OrderInv, TurnsRunInOrder

\* services/claims.py: by the time a message has an attempt, every earlier one of
\* its profile has ended, requeued ones included.
THEOREM MessagesRunInOrder == Spec => []TurnsRunInOrder
<1>1. Init => OrderInv
  <2>1. \A e \in Executions : Init => execution[e] = NoExecution
    BY DEF Init
  <2>. QED
    BY <2>1 DEF Init, OrderInv, TurnsRunInOrder, CreatedInOrder, PurgedWithProfile,
                NoExecution, NoAttempt
<1>2. TypeLinked /\ TurnInv /\ LiveLeasesAreEntitled /\ OrderInv /\ [Next]_vars => OrderInv'
  <2> SUFFICES ASSUME TypeLinked, TurnInv, LiveLeasesAreEntitled, OrderInv, [Next]_vars
               PROVE  OrderInv'
    OBVIOUS
  <2>1. CASE /\ TurnsMove(attempt', execution')
             /\ \A q \in Profiles : profile[q].lifecycle = "purged" =>
                   profile'[q].lifecycle = "purged"
    <3>1. CreatedInOrder' /\ PurgedWithProfile'
      <4>1. \A e \in Executions :
              /\ execution'[e].profile = execution[e].profile
              /\ execution'[e].status = "none" <=> execution[e].status = "none"
              /\ execution'[e].status = "purged" => execution[e].status = "purged"
        BY <2>1 DEF TurnsMove
      <4>. QED
        BY <2>1, <4>1, MovedRows DEF OrderInv
    <3>2. TurnsRunInOrder'
      BY <2>1, MovedInOrder DEF OrderInv, TurnsRunInOrder, OwnerOf
    <3>. QED
      BY <3>1, <3>2 DEF OrderInv
  <2>. QED
    BY <2>1, StepsMove, OrderCreate, OrderPurge, OrderClaim
<1>3. OrderInv => TurnsRunInOrder
  BY DEF OrderInv
<1>. QED
  BY <1>1, <1>2, <1>3, TypeLinkedInvariant, TurnInvariant, LeasesAreEntitled, PTL DEF Spec

-----------------------------------------------------------------------------
(* One terminal event, and it is true.                                     *)

\* An attempt with a terminal event, and the execution it speaks of.
LEMMA EventOutcome ==
  ASSUME TypeLinked, OneTruthfulOutcomeEvent, NEW a \in Attempts,
         attempt[a].outcomeEvent # "none"
  PROVE  /\ attempt[a].status # "none" /\ attempt[a].execution \in Executions
         /\ execution[attempt[a].execution].status = Outcome(attempt[a].outcomeEvent)
         /\ execution[attempt[a].execution].status \in TerminalExecution
<1>1. attempt[a].status # "none" /\ attempt[a].execution \in Executions
  BY DEF TypeLinked, RowsLinked, NoAttempt
<1>. QED
  BY <1>1 DEF OneTruthfulOutcomeEvent, Outcome, TerminalExecution

\* Moving turns adds an event only to a turn that runs, and nobody has told the
\* outcome of a running execution before.
LEMMA MovedTruth ==
  ASSUME TypeLinked, TurnInv, OneTruthfulOutcomeEvent, NEW A, NEW E, TurnsMove(A, E),
         NEW a \in Attempts, A[a].outcomeEvent # "none"
  PROVE  /\ A[a].execution \in Executions
         /\ E[A[a].execution].status = Outcome(A[a].outcomeEvent)
         /\ \A b \in Attempts :
              A[b].outcomeEvent # "none" /\ A[b].execution = A[a].execution => b = a
<1>1. ASSUME NEW b \in Attempts, A[b].outcomeEvent # "none"
      PROVE  /\ A[b].execution = attempt[b].execution /\ attempt[b].execution \in Executions
             /\ E[attempt[b].execution].status = Outcome(A[b].outcomeEvent)
             /\ \/ /\ attempt[b].outcomeEvent # "none"
                   /\ execution[attempt[b].execution].status # "running"
                \/ Unresolved(b) /\ execution[attempt[b].execution].status = "running"
  <2>1. CASE A[b].outcomeEvent = attempt[b].outcomeEvent
    <3>1. /\ attempt[b].execution \in Executions
          /\ execution[attempt[b].execution].status = Outcome(attempt[b].outcomeEvent)
          /\ execution[attempt[b].execution].status # "running"
      BY <1>1, <2>1, EventOutcome DEF TerminalExecution
    <3>2. E[attempt[b].execution].status = execution[attempt[b].execution].status
      BY <3>1 DEF TurnsMove
    <3>3. A[b].execution = attempt[b].execution
      BY DEF TurnsMove
    <3>. QED
      BY <1>1, <2>1, <3>1, <3>2, <3>3
  <2>2. CASE A[b].outcomeEvent # attempt[b].outcomeEvent
    <3>1. /\ Unresolved(b) /\ A[b].execution = attempt[b].execution
          /\ E[attempt[b].execution].status = Outcome(A[b].outcomeEvent)
      BY <2>2 DEF TurnsMove
    <3>. QED
      BY <3>1, RunningExecution
  <2>. QED
    BY <2>1, <2>2
<1>2. ASSUME NEW b \in Attempts, A[b].outcomeEvent # "none",
             A[b].execution = A[a].execution
      PROVE  b = a
  <2>1. attempt[b].execution = attempt[a].execution
    BY <1>1, <1>2
  <2>2. CASE execution[attempt[a].execution].status = "running"
    BY <1>1, <1>2, <2>1, <2>2, OneRunningAttempt
  <2>3. CASE execution[attempt[a].execution].status # "running"
    BY <1>1, <1>2, <2>1, <2>3 DEF OneTruthfulOutcomeEvent
  <2>. QED
    BY <2>2, <2>3
<1>. QED
  BY <1>1, <1>2

\* events.py, completion.py, claims.py: over all its attempts an execution gets at
\* most one terminal event, and it names the outcome the execution has.
THEOREM OutcomeEventIsTrue == Spec => []OneTruthfulOutcomeEvent
<1>1. Init => OneTruthfulOutcomeEvent
  BY DEF Init, OneTruthfulOutcomeEvent, NoAttempt
<1>2. TypeLinked /\ TurnInv /\ LiveLeasesAreEntitled /\ OneTruthfulOutcomeEvent /\ [Next]_vars
        => OneTruthfulOutcomeEvent'
  <2> SUFFICES ASSUME TypeLinked, TurnInv, LiveLeasesAreEntitled, OneTruthfulOutcomeEvent,
                      [Next]_vars
               PROVE  OneTruthfulOutcomeEvent'
    OBVIOUS
  <2>1. SUFFICES ASSUME NEW a \in Attempts, attempt'[a].outcomeEvent # "none"
                 PROVE  /\ execution'[attempt'[a].execution].status =
                             Outcome(attempt'[a].outcomeEvent)
                        /\ \A b \in Attempts :
                             /\ attempt'[b].outcomeEvent # "none"
                             /\ attempt'[b].execution = attempt'[a].execution
                             => b = a
    BY DEF OneTruthfulOutcomeEvent, Outcome
  <2>2. CASE TurnsMove(attempt', execution')
    BY <2>1, <2>2, MovedTruth
  <2>3. ASSUME NEW p \in Profiles, NEW e \in Executions, CreateExecution(p, e)
        PROVE  /\ execution'[attempt'[a].execution].status = Outcome(attempt'[a].outcomeEvent)
               /\ \A b \in Attempts :
                    /\ attempt'[b].outcomeEvent # "none"
                    /\ attempt'[b].execution = attempt'[a].execution
                    => b = a
    <3>1. /\ attempt' = attempt /\ execution[e].status = "none"
          /\ \A f \in Executions \ {e} : execution'[f] = execution[f]
      BY <2>3 DEF CreateExecution, TypeLinked, TypeOK
    <3>2. /\ attempt[a].execution \in Executions
          /\ execution[attempt[a].execution].status = Outcome(attempt[a].outcomeEvent)
          /\ execution[attempt[a].execution].status \in TerminalExecution
      BY <2>1, <3>1, EventOutcome
    <3>3. attempt[a].execution # e
      BY <3>1, <3>2 DEF TerminalExecution
    <3>. QED
      BY <2>1, <3>1, <3>2, <3>3 DEF OneTruthfulOutcomeEvent
  <2>4. ASSUME NEW p \in Profiles, PurgeProfile(p)
        PROVE  /\ execution'[attempt'[a].execution].status = Outcome(attempt'[a].outcomeEvent)
               /\ \A b \in Attempts :
                    /\ attempt'[b].outcomeEvent # "none"
                    /\ attempt'[b].execution = attempt'[a].execution
                    => b = a
    <3>1. \A b \in Attempts : attempt'[b] =
            IF attempt[b].status # "none" /\ OwnerOf(b) = p THEN NoAttempt ELSE attempt[b]
      BY <2>4 DEF PurgeProfile
    <3>2. \A b \in Attempts : attempt'[b].outcomeEvent # "none" =>
            attempt'[b] = attempt[b] /\ ~(attempt[b].status # "none" /\ OwnerOf(b) = p)
      BY <3>1 DEF NoAttempt
    <3>3. /\ attempt[a].execution \in Executions /\ OwnerOf(a) # p
          /\ execution[attempt[a].execution].status = Outcome(attempt[a].outcomeEvent)
      BY <2>1, <3>2, EventOutcome
    <3>4. execution'[attempt[a].execution] = execution[attempt[a].execution]
      BY <2>4, <3>3 DEF PurgeProfile, OwnerOf
    <3>. QED
      BY <2>1, <3>2, <3>3, <3>4 DEF OneTruthfulOutcomeEvent
  <2>5. ASSUME NEW c \in Attempts, NEW S \in SUBSET StaleLeases, ClaimExecution(c, S)
        PROVE  /\ execution'[attempt'[a].execution].status = Outcome(attempt'[a].outcomeEvent)
               /\ \A b \in Attempts :
                    /\ attempt'[b].outcomeEvent # "none"
                    /\ attempt'[b].execution = attempt'[a].execution
                    => b = a
    <3>1. TurnsMove(AttemptsAfter(S), ExecutionsAfter(S))
      BY <2>5, ClaimStarts
    <3>2. PICK e \in OldestClaimable(S) :
            /\ e \in Executions /\ ExecutionsAfter(S)[e].status = "queued"
            /\ attempt'[c].outcomeEvent = "none"
            /\ \A b \in Attempts \ {c} : attempt'[b] = AttemptsAfter(S)[b]
            /\ \A f \in Executions \ {e} : execution'[f] = ExecutionsAfter(S)[f]
      BY <2>5, ClaimStarts
    <3>3. \A b \in Attempts : attempt'[b].outcomeEvent # "none" =>
            b # c /\ attempt'[b] = AttemptsAfter(S)[b]
      BY <3>2
    <3>4. /\ attempt'[a].execution \in Executions
          /\ ExecutionsAfter(S)[attempt'[a].execution].status =
               Outcome(attempt'[a].outcomeEvent)
          /\ \A b \in Attempts :
               /\ attempt'[b].outcomeEvent # "none"
               /\ attempt'[b].execution = attempt'[a].execution
               => b = a
      BY <2>1, <3>1, <3>3, MovedTruth
    <3>5. attempt'[a].execution # e
      BY <3>2, <3>4 DEF Outcome
    <3>. QED
      BY <3>2, <3>4, <3>5
  <2>. QED
    BY <2>2, <2>3, <2>4, <2>5, StepsMove
<1>. QED
  BY <1>1, <1>2, TypeLinkedInvariant, TurnInvariant, LeasesAreEntitled, PTL DEF Spec

-----------------------------------------------------------------------------
(* Nobody writes to a turn that is over.                                   *)

\* fencing, stop and completion: a finished attempt or execution is never changed
\* again, and a turn of a retired generation gets nothing but its end; only a
\* profile's deletion removes them.
THEOREM EndedTurnsStayQuiet == Spec => EndedTurnsAreQuiet
<1> DEFINE Quiet ==
      /\ \A a \in Attempts : attempt'[a] # NoAttempt =>
            /\ attempt[a].status \in {"succeeded", "failed", "unknown"} =>
                  attempt'[a] = attempt[a]
            /\ attempt[a].status # "none" /\ Retired(a) =>
                  attempt'[a] \in {attempt[a], [attempt[a] EXCEPT !.status = "unknown"]}
      /\ \A e \in Executions :
            execution[e].status \in TerminalExecution =>
                execution'[e].status \in {execution[e].status, "purged"}
<1>1. TypeLinked /\ TurnInv /\ LiveLeasesAreEntitled /\ [Next]_vars => [Quiet]_vars
  <2> SUFFICES ASSUME TypeLinked, TurnInv, LiveLeasesAreEntitled, [Next]_vars
               PROVE  Quiet
    OBVIOUS
  <2>1. CASE TurnsMove(attempt', execution')
    <3>1. \A a \in Attempts :
            /\ attempt[a].status \in {"succeeded", "failed", "unknown"} =>
                  attempt'[a] = attempt[a]
            /\ Retired(a) =>
                  attempt'[a] \in {attempt[a], [attempt[a] EXCEPT !.status = "unknown"]}
      BY <2>1 DEF TurnsMove, Unresolved
    <3>2. \A e \in Executions : execution[e].status \in TerminalExecution =>
            execution'[e].status = execution[e].status
      BY <2>1 DEF TurnsMove, TerminalExecution
    <3>. QED
      BY <3>1, <3>2
  <2>2. ASSUME NEW p \in Profiles, NEW e \in Executions, CreateExecution(p, e)
        PROVE  Quiet
    <3>1. /\ attempt' = attempt /\ execution[e].status = "none"
          /\ \A f \in Executions \ {e} : execution'[f] = execution[f]
      BY <2>2 DEF CreateExecution, TypeLinked, TypeOK
    <3>. QED
      BY <3>1 DEF TerminalExecution
  <2>3. ASSUME NEW p \in Profiles, PurgeProfile(p)
        PROVE  Quiet
    <3>1. \A a \in Attempts : attempt'[a] \in {NoAttempt, attempt[a]}
      BY <2>3 DEF PurgeProfile
    <3>2. \A e \in Executions : execution'[e].status \in {execution[e].status, "purged"}
      BY <2>3 DEF PurgeProfile, TypeLinked, TypeOK, ExecutionRow
    <3>. QED
      BY <3>1, <3>2
  <2>4. ASSUME NEW c \in Attempts, NEW S \in SUBSET StaleLeases, ClaimExecution(c, S)
        PROVE  Quiet
    <3>1. TurnsMove(AttemptsAfter(S), ExecutionsAfter(S)) /\ attempt[c].status = "none"
      BY <2>4, ClaimStarts
    <3>2. PICK e \in OldestClaimable(S) :
            /\ e \in Executions /\ ExecutionsAfter(S)[e].status = "queued"
            /\ \A b \in Attempts \ {c} : attempt'[b] = AttemptsAfter(S)[b]
            /\ \A f \in Executions \ {e} : execution'[f] = ExecutionsAfter(S)[f]
      BY <2>4, ClaimStarts
    <3>3. \A a \in Attempts \ {c} :
            /\ attempt[a].status \in {"succeeded", "failed", "unknown"} =>
                  attempt'[a] = attempt[a]
            /\ Retired(a) =>
                  attempt'[a] \in {attempt[a], [attempt[a] EXCEPT !.status = "unknown"]}
      BY <3>1, <3>2 DEF TurnsMove, Unresolved
    <3>4. \A f \in Executions : execution[f].status \in TerminalExecution =>
            execution'[f].status = execution[f].status
      BY <3>1, <3>2 DEF TurnsMove, TerminalExecution
    <3>. QED
      BY <3>1, <3>3, <3>4
  <2>. QED
    BY <2>1, <2>2, <2>3, <2>4, StepsMove
<1>2. ([][Quiet]_vars) => EndedTurnsAreQuiet
  BY DEF EndedTurnsAreQuiet
<1>. QED
  BY <1>1, <1>2, TypeLinkedInvariant, TurnInvariant, LeasesAreEntitled, PTL DEF Spec

-----------------------------------------------------------------------------
(***************************************************************************)
(* RuntimePower.  The rows that carry the turns live in a workspace whose  *)
(* Machine the power workers start, stop and replace.  That specification  *)
(* has constants and variables of its own, and nothing below is about      *)
(* TurnLease.                                                              *)
(*                                                                         *)
(* A stop decided on a row without work is carried out by calls on the     *)
(* provider, between which the row is unlocked.  What keeps it safe:       *)
(* a claim token is fresh, so once a prompt took the operation away no     *)
(* older call holds the claim of the row again; a replacement holds one    *)
(* only under release; and an activation never one of a row that starts    *)
(* or stops.                                                               *)
(***************************************************************************)
PowerIds == Ids \cup {0}
Rows == [state : OperationStates, op : PowerIds, trigger : Triggers,
         at : {"none", "later", "due", "overdue"}, retries : 0..MaxRetries,
         token : PowerIds, expired : BOOLEAN, warm : {"null", "future", "past"},
         receipt : {"none", "live", "dead"}, fresh : BOOLEAN,
         release : 0..MaxReleaseAttempts, phase : {"idle", "inflight", "failed"}]

\* Where a process is, by what it called.
WakeSteps == {"inspect wake", "prepare start", "start", "reinspect start", "not startable",
              "mark awaiting", "claim release"}
PreparedSteps == {"stop", "reinspect stop", "finalize stop"}
StopSteps == {"inspect stop", "prepare stop"} \cup PreparedSteps
ReplaceSteps == {"replace", "replacing"}
ActivationSteps == {"inspect activation", "recovery wake", "release activation"}
PowerSteps == {"none", "recover"} \cup WakeSteps \cup StopSteps \cup ReplaceSteps
                 \cup ActivationSteps
Calls == [step : PowerSteps, op : PowerIds, token : PowerIds, trigger : Triggers,
          state : OperationStates, seen : {"none", "started", "stopped", "unknown"}]

\* The constraints of the Workspace row r, with the operations k that intents wait
\* for; nobody waits for a stop.
RowFits(r, k) ==
    /\ r \in Rows
    /\ r.op = 0 <=> r.state = "idle"
    /\ r.at = "none" <=> r.state = "idle"
    /\ r.state \in {"starting", "stopping"} /\ r.release = 0 => r.token # 0
    /\ k \subseteq Ids \cap {r.op}
    /\ r.state = "stopping" => k = {}

\* A process that holds the claim of r with the call c: a replacement's is of a row
\* under release, and an activation's never of one that starts or stops.
CallerFits(c, r) ==
    /\ c \in Calls
    /\ c.step # "none" => c.token # 0
    /\ c.step \in ReplaceSteps /\ r.token = c.token => r.release > 0
    /\ c.step \in ActivationSteps /\ r.token = c.token => r.state \notin {"starting", "stopping"}

\* A prepared stop that still holds its claim; the work of a workspace with q queued
\* executions and the turn t.
Prepared(c, r) ==
    /\ r.op = c.op /\ r.token = c.token /\ r.state = "stopping"
    /\ c.step \in PreparedSteps
HasWork(q, t) == q > 0 \/ t # "none"

\* The row and the processes fit each other, and a prepared stop that holds its claim
\* is one of a workspace without work and without a receipt.
PowerInv ==
    /\ RowFits(row, waking)
    /\ worker \in [Workers -> Calls]
    /\ \A w \in Workers :
          /\ CallerFits(worker[w], row)
          /\ Prepared(worker[w], row) => ~HasWork(queue, turn) /\ row.receipt = "none"
    /\ bundle \in {"none", "parked", "assigned", "failed", "exhausted"}
    /\ machine \in MachineStates /\ current \in BOOLEAN
    /\ prompts \in 0..MaxPrompts /\ queue \in 0..prompts

\* Some id is left when the row and every process hold one.
LEMMA SpareId ==
    ASSUME NEW T, NEW f \in [Workers -> T], NEW a
    PROVE  \E n \in Ids : n # a /\ \A w \in Workers : n # f[w]
<1> DEFINE S == {f[w] : w \in Workers}
<1>1. IsFiniteSet(Workers)
  BY LimitsAssumption
<1>2. f \in Surjection(Workers, S)
  BY DEF Surjection
<1>3. IsFiniteSet(S) /\ Cardinality(S) <= Cardinality(Workers)
  <2> HIDE DEF S
  <2> QED BY <1>1, <1>2, FS_Surjection
<1> HIDE DEF S
<1>4. IsFiniteSet(S \cup {a}) /\ Cardinality(S \cup {a}) <= Cardinality(S) + 1
  <2>1. Cardinality(S) \in Nat
    BY <1>3, FS_CardinalityType
  <2>2. /\ IsFiniteSet(S \cup {a})
        /\ Cardinality(S \cup {a}) = Cardinality(S) \/ Cardinality(S \cup {a}) = Cardinality(S) + 1
    BY <1>3, FS_AddElement
  <2> QED BY <2>1, <2>2
<1>5. /\ Cardinality(Workers) \in Nat /\ Cardinality(S) \in Nat
      /\ Cardinality(S \cup {a}) \in Nat
  BY <1>1, <1>3, <1>4, FS_CardinalityType
<1>6. Ids = 1..(Cardinality(Workers) + 3)
  BY DEF Ids
<1>7. Cardinality(Ids) = Cardinality(Workers) + 3
  <2>1. Cardinality(Workers) + 3 \in Int /\ ~(1 > Cardinality(Workers) + 3)
    BY <1>5
  <2>2. Cardinality(1..(Cardinality(Workers) + 3)) = (Cardinality(Workers) + 3) - 1 + 1
    BY <2>1, FS_Interval
  <2> QED BY <1>5, <1>6, <2>2
<1>8. ASSUME Ids \subseteq S \cup {a} PROVE FALSE
  <2>1. Cardinality(Ids) <= Cardinality(S \cup {a})
    BY <1>4, <1>8, FS_Subset
  <2> QED BY <1>3, <1>4, <1>5, <1>7, <2>1
<1> QED BY <1>8 DEF S

\* Ids are not zero.
LEMMA IdsCount == 0 \notin Ids
<1>1. Cardinality(Workers) \in Nat
  BY LimitsAssumption, FS_CardinalityType
<1> QED BY <1>1 DEF Ids

\* A fresh operation id and a fresh token exist, and nobody holds them.
LEMMA FreshIds ==
    ASSUME PowerInv
    PROVE  /\ FreshOp \in PowerIds /\ FreshOp # 0 /\ FreshOp \in Ids
           /\ FreshToken \in PowerIds /\ FreshToken # 0
           /\ \A w \in Workers : FreshToken # worker[w].token
<1> DEFINE ops == [w \in Workers |-> worker[w].op]
           tokens == [w \in Workers |-> worker[w].token]
<1>1. \E n \in Ids : n \notin {row.op} \cup {worker[w].op : w \in Workers} \cup waking
  <2>1. ops \in [Workers -> PowerIds]
    BY DEF PowerInv, Calls
  <2>2. PICK n \in Ids : n # row.op /\ \A w \in Workers : n # ops[w]
    <3> HIDE DEF ops
    <3> QED BY <2>1, SpareId
  <2>3. n \notin {worker[w].op : w \in Workers}
    BY <2>2
  <2>4. n \notin waking
    BY <2>2 DEF PowerInv, RowFits
  <2> QED BY <2>2, <2>3, <2>4
<1>2. \E n \in Ids : n \notin {row.token} \cup {worker[w].token : w \in Workers}
  <2>1. tokens \in [Workers -> PowerIds]
    BY DEF PowerInv, Calls
  <2>2. PICK n \in Ids : n # row.token /\ \A w \in Workers : n # tokens[w]
    <3> HIDE DEF tokens
    <3> QED BY <2>1, SpareId
  <2>3. n \notin {worker[w].token : w \in Workers}
    BY <2>2
  <2> QED BY <2>2, <2>3
<1>3. FreshOp \in Ids
  BY <1>1 DEF FreshOp
<1>4. /\ FreshToken \in Ids
      /\ FreshToken \notin {row.token} \cup {worker[w].token : w \in Workers}
  BY <1>2 DEF FreshToken
<1> QED BY <1>3, <1>4, IdsCount DEF PowerIds

\* The row moves from r to n: the claim is given up, taken anew, or kept, and then
\* nothing starts or stops under it that did not before.
Moves(r, n) ==
    \/ n.token = 0
    \/ \A w \in Workers : n.token # worker[w].token
    \/ /\ n.token = r.token /\ (r.release > 0 => n.release > 0)
       /\ n.state \in {"starting", "stopping"} => r.state = n.state
       /\ n.state = "stopping" => n.op = r.op /\ (r.receipt = "none" => n.receipt = "none")

\* A process goes on from c to d with the operation and the claim it has.
Follows(c, d) ==
    \/ d = c
    \/ /\ d \in Calls /\ c.step # "none" /\ d.op = c.op /\ d.token = c.token
       /\ d.step \in ReplaceSteps => c.step \in ReplaceSteps
       /\ d.step \in ActivationSteps => c.step \in ActivationSteps
       /\ d.step \in PreparedSteps => c.step \in PreparedSteps

\* A process with the call c fits the row n of a workspace whose work is b.
Passes(c, n, b) ==
    /\ CallerFits(c, n)
    /\ Prepared(c, n) => ~b /\ n.receipt = "none"

\* New work for the row n takes a stop's operation away, or finds a runtime ready.
WorkFits(n, b) ==
    \/ b => HasWork(queue, turn)
    \/ n.state # "stopping"
    \/ row.receipt # "none" /\ n.token = row.token

\* The heart of the proof: moves of the row and of the processes keep the invariant.
LEMMA PowerKept ==
    ASSUME PowerInv, RowFits(row', waking'), Moves(row, row'),
           WorkFits(row', HasWork(queue', turn')), worker' \in [Workers -> Calls],
           \A w \in Workers : Follows(worker[w], worker'[w])
                              \/ Passes(worker'[w], row', HasWork(queue', turn')),
           bundle' \in {"none", "parked", "assigned", "failed", "exhausted"},
           machine' \in MachineStates, current' \in BOOLEAN,
           prompts' \in 0..MaxPrompts, queue' \in 0..prompts'
    PROVE  PowerInv'
<1>1. ASSUME NEW w \in Workers, Follows(worker[w], worker'[w])
      PROVE  Passes(worker'[w], row', HasWork(queue', turn'))
  <2> DEFINE c == worker[w]
             d == worker'[w]
             n == row'
             b == HasWork(queue', turn')
  <2>1. /\ c \in Calls /\ CallerFits(c, row)
        /\ Prepared(c, row) => ~HasWork(queue, turn) /\ row.receipt = "none"
    BY DEF PowerInv
  <2>2. /\ d \in Calls /\ d.op = c.op /\ d.token = c.token
        /\ d.step # "none" => c.step # "none"
        /\ d.step \in ReplaceSteps => c.step \in ReplaceSteps
        /\ d.step \in ActivationSteps => c.step \in ActivationSteps
        /\ d.step \in PreparedSteps => c.step \in PreparedSteps
    BY <1>1, <2>1 DEF Follows
  <2>3. /\ "none" \notin ReplaceSteps \cup ActivationSteps \cup PreparedSteps
        /\ c.step # "none" => c.token # 0
    BY <2>1 DEF ReplaceSteps, ActivationSteps, PreparedSteps, CallerFits
  <2>4. row.release \in Nat /\ n.release \in Nat
    BY DEF PowerInv, RowFits, Rows
  <2> HIDE DEF c, d, n, b
  <2>5. /\ Moves(row, n) /\ WorkFits(n, b)
        /\ (\A v \in Workers : n.token # worker[v].token) => n.token # c.token
    BY DEF n, b, c
  <2>6. CallerFits(d, n)
    BY <2>1, <2>2, <2>3, <2>4, <2>5 DEF CallerFits, Moves
  <2>7. Prepared(d, n) => ~b /\ n.receipt = "none"
    BY <2>1, <2>2, <2>3, <2>5 DEF Prepared, Moves, WorkFits
  <2> QED BY <2>6, <2>7 DEF Passes, d, n, b
<1> QED BY <1>1 DEF PowerInv, Passes

\* A process goes on to the step s, or returns.
LEMMA GoesOn ==
    ASSUME PowerInv, NEW w \in Workers
    PROVE  /\ \A s \in PowerSteps : Goto(w, s) =>
                 /\ worker' \in [Workers -> Calls] /\ worker'[w].step = s
                 /\ worker'[w].op = worker[w].op /\ worker'[w].token = worker[w].token
                 /\ \A v \in Workers : v # w => worker'[v] = worker[v]
           /\ Return(w) =>
                 /\ worker' \in [Workers -> Calls]
                 /\ \A v \in Workers : Follows(worker[v], worker'[v])
                                       \/ \A n, b : Passes(worker'[v], n, b)
<1>1. worker \in [Workers -> Calls]
  BY DEF PowerInv
<1>2. ASSUME NEW s \in PowerSteps, Goto(w, s)
      PROVE  /\ worker' \in [Workers -> Calls] /\ worker'[w].step = s
             /\ worker'[w].op = worker[w].op /\ worker'[w].token = worker[w].token
             /\ \A v \in Workers : v # w => worker'[v] = worker[v]
  <2> DEFINE c == [worker[w] EXCEPT !.step = s]
  <2>1. worker' = [worker EXCEPT ![w] = c]
    BY <1>2 DEF Goto
  <2>2. c \in Calls /\ c.step = s /\ c.op = worker[w].op /\ c.token = worker[w].token
    BY <1>1 DEF Calls
  <2> HIDE DEF c
  <2> QED BY <1>1, <2>1, <2>2
<1>3. ASSUME Return(w)
      PROVE  /\ worker' \in [Workers -> Calls]
             /\ \A v \in Workers : Follows(worker[v], worker'[v])
                                   \/ \A n, b : Passes(worker'[v], n, b)
  <2>1. worker' = [worker EXCEPT ![w] = NoCall]
    BY <1>3 DEF Return
  <2>2. /\ NoCall \in Calls /\ NoCall.step = "none"
    BY DEF NoCall, Calls, PowerSteps, PowerIds, Triggers, OperationStates
  <2>3. \A n, b : Passes(NoCall, n, b)
    BY <2>2 DEF Passes, CallerFits, Prepared, ReplaceSteps, ActivationSteps, PreparedSteps
  <2>4. /\ worker' \in [Workers -> Calls] /\ worker'[w] = NoCall
        /\ \A v \in Workers : v # w => worker'[v] = worker[v]
    BY <1>1, <2>1, <2>2
  <2> QED BY <2>3, <2>4 DEF Follows
<1> QED BY <1>2, <1>3

\* A row that keeps its operation, its claim and its release, and gains no receipt.
LEMMA TouchedFits ==
    ASSUME NEW r, NEW k, RowFits(r, k), NEW n \in Rows, n.op = r.op, n.state = r.state,
           n.at = "none" <=> r.at = "none", n.token = r.token, n.release = r.release,
           r.receipt = "none" => n.receipt = "none"
    PROVE  RowFits(n, k) /\ Moves(r, n)
BY DEF RowFits, Moves

\* The claim of a row is given up (Unclaimed), its operation ends (Ended).
LEMMA UnclaimedFits ==
    ASSUME NEW r \in Rows
    PROVE  /\ Unclaimed(r) \in Rows /\ Unclaimed(r).token = 0
           /\ Unclaimed(r).op = r.op /\ Unclaimed(r).state = r.state
           /\ Unclaimed(r).at = r.at /\ Unclaimed(r).release = r.release
           /\ Unclaimed(r).receipt = r.receipt /\ Unclaimed(r).retries = r.retries
           /\ Ended(r) \in Rows /\ Ended(r).token = 0 /\ Ended(r).op = 0
           /\ Ended(r).state = "idle" /\ Ended(r).at = "none"
           /\ Ended(r).retries = r.retries
<1> DEFINE u == Unclaimed(r)
           e == Ended(r)
<1>1. /\ u \in Rows /\ u.token = 0 /\ u.op = r.op /\ u.state = r.state /\ u.at = r.at
      /\ u.release = r.release /\ u.receipt = r.receipt /\ u.retries = r.retries
  BY DEF Unclaimed, Rows, PowerIds
<1>2. e = [u EXCEPT !.state = "idle", !.op = 0, !.trigger = "none", !.at = "none"]
  BY DEF Ended
<1>3. 0 \in PowerIds /\ "idle" \in OperationStates /\ "none" \in Triggers
  BY DEF PowerIds, OperationStates, Triggers
<1> HIDE DEF u, e
<1>4. /\ e \in Rows /\ e.token = 0 /\ e.op = 0 /\ e.state = "idle" /\ e.at = "none"
      /\ e.retries = r.retries
  BY <1>1, <1>2, <1>3 DEF Rows
<1> QED BY <1>1, <1>4 DEF u, e

\* An idle row has no operation to wait for, and nobody waits for a stop.
LEMMA NobodyWaits ==
    ASSUME NEW r, NEW k, RowFits(r, k), r.state \in {"idle", "stopping"}
    PROVE  k = {}
BY IdsCount DEF RowFits

\* A new request gives up the claim of a stop (Requested).
LEMMA RequestedFits ==
    ASSUME PowerInv, NEW r \in Rows, r.state \in {"idle", "stopping"},
           NEW t \in Triggers
    PROVE  LET n == Requested(r, t) IN
           /\ RowFits(n, {}) /\ n.state = "requested" /\ n.release = r.release
           /\ n.token = IF r.state = "stopping" THEN 0 ELSE r.token
<1> DEFINE n == Requested(r, t)
           u == IF r.state = "stopping" THEN Unclaimed(r) ELSE r
<1>1. /\ u \in Rows /\ u.release = r.release
      /\ u.token = IF r.state = "stopping" THEN 0 ELSE r.token
  BY UnclaimedFits
<1>2. n = [u EXCEPT !.state = "requested", !.op = FreshOp, !.trigger = t, !.at = "due",
                    !.retries = 0]
  BY DEF Requested
<1>3. FreshOp \in PowerIds /\ FreshOp # 0 /\ 0 \in 0..MaxRetries
  BY LimitsAssumption, FreshIds
<1> HIDE DEF u
<1>4. /\ n \in Rows /\ n.state = "requested" /\ n.op = FreshOp /\ n.at = "due"
      /\ n.token = u.token /\ n.release = u.release
  BY <1>1, <1>2, <1>3 DEF Rows, OperationStates
<1> QED BY <1>1, <1>3, <1>4 DEF RowFits

\* The wake for a prompt (ExecutionWake): a row that goes on stopping has a runtime
\* that is ready.
LEMMA ExecutionWakeFits ==
    ASSUME PowerInv, NEW r, RowFits(r, waking)
    PROVE  LET n == ExecutionWake(r) IN
           /\ RowFits(n, waking) /\ Moves(r, n)
           /\ n.state = "stopping" => r.receipt # "none" /\ n.token = r.token
<1> DEFINE n == ExecutionWake(r)
           kept == [r EXCEPT !.warm = "future"]
<1> SUFFICES /\ RowFits(n, waking) /\ Moves(r, n)
             /\ n.state = "stopping" => r.receipt # "none" /\ n.token = r.token
  OBVIOUS
<1>1. r \in Rows
  BY DEF RowFits
<1>2. /\ kept \in Rows /\ kept.op = r.op /\ kept.state = r.state /\ kept.at = r.at
      /\ kept.token = r.token /\ kept.release = r.release /\ kept.receipt = r.receipt
      /\ kept.trigger = r.trigger
  BY <1>1 DEF Rows
<1>3. /\ IsRuntimeReady(r) => n = kept /\ r.receipt # "none"
      /\ ~IsRuntimeReady(r) /\ r.state \in {"idle", "stopping"} =>
             n = Requested(kept, "execution")
      /\ ~IsRuntimeReady(r) /\ r.state \notin {"idle", "stopping"} =>
             n = IF r.trigger = "execution" THEN kept
                 ELSE [kept EXCEPT !.trigger = "execution", !.at = "due", !.retries = 0]
  BY DEF ExecutionWake, IsRuntimeReady
<1> HIDE DEF kept, n
<1>4. CASE n = kept /\ (IsRuntimeReady(r) \/ r.state # "stopping")
  BY <1>2, <1>3, <1>4, TouchedFits
<1>5. CASE n = Requested(kept, "execution") /\ r.state \in {"idle", "stopping"}
  <2>1. /\ RowFits(n, {}) /\ n.state = "requested" /\ n.release = kept.release
        /\ n.token = IF kept.state = "stopping" THEN 0 ELSE kept.token
    BY <1>2, <1>5, RequestedFits DEF Triggers
  <2>2. waking = {}
    BY <1>5, NobodyWaits
  <2> QED BY <1>2, <2>1, <2>2 DEF Moves
<1>6. CASE n = [kept EXCEPT !.trigger = "execution", !.at = "due", !.retries = 0]
           /\ r.state \notin {"idle", "stopping"}
  <2>1. 0 \in 0..MaxRetries
    BY LimitsAssumption
  <2>2. /\ n \in Rows /\ n.op = r.op /\ n.state = r.state /\ n.at = "due" /\ n.token = r.token
        /\ n.release = r.release /\ n.receipt = r.receipt
    BY <1>2, <1>6, <2>1 DEF Rows, Triggers
  <2>3. r.at # "none"
    BY <1>6 DEF RowFits
  <2> QED BY <1>6, <2>2, <2>3, TouchedFits
<1> QED BY <1>3, <1>4, <1>5, <1>6

\* The wake for a composing intent (IntentWake).
LEMMA IntentWakeFits ==
    ASSUME PowerInv, NEW limited \in BOOLEAN
    PROVE  LET n == IntentWake(row, limited) IN
           /\ RowFits(n, waking) /\ Moves(row, n)
           /\ n.state = "stopping" => IsRuntimeReady(row)
<1> DEFINE n == IntentWake(row, limited)
           kept == [row EXCEPT !.warm = "future"]
<1> SUFFICES /\ RowFits(n, waking) /\ Moves(row, n)
             /\ n.state = "stopping" => IsRuntimeReady(row)
  OBVIOUS
<1>1. RowFits(row, waking) /\ row \in Rows
  BY DEF RowFits, PowerInv
<1>2. /\ kept \in Rows /\ kept.op = row.op /\ kept.state = row.state /\ kept.at = row.at
      /\ kept.token = row.token /\ kept.release = row.release /\ kept.receipt = row.receipt
  BY <1>1 DEF Rows
<1>3. /\ IsRuntimeReady(row) => n = kept
      /\ ~IsRuntimeReady(row) /\ row.state \in {"idle", "stopping"} =>
             n = Requested(kept, "speculative") \/ (n = row /\ row.state = "idle")
      /\ ~IsRuntimeReady(row) /\ row.state \notin {"idle", "stopping"} => n = kept
  BY DEF IntentWake
<1> HIDE DEF kept, n
<1>4. CASE n \in {kept, row} /\ (IsRuntimeReady(row) \/ row.state # "stopping")
  BY <1>1, <1>2, <1>4, TouchedFits
<1>5. CASE n = Requested(kept, "speculative") /\ row.state \in {"idle", "stopping"}
  <2>1. /\ RowFits(n, {}) /\ n.state = "requested" /\ n.release = kept.release
        /\ n.token = IF kept.state = "stopping" THEN 0 ELSE kept.token
    BY <1>2, <1>5, RequestedFits DEF Triggers
  <2>2. waking = {}
    BY <1>1, <1>5, NobodyWaits
  <2> QED BY <1>2, <2>1, <2>2 DEF Moves
<1> QED BY <1>3, <1>4, <1>5

\* The wake for an assignment (OnboardingWake): a row that is idle or stopping is
\* requested anew, any other keeps its operation.
LEMMA OnboardingWakeFits ==
    ASSUME PowerInv, NEW r, RowFits(r, waking)
    PROVE  RowFits(OnboardingWake(r), waking) /\ Moves(r, OnboardingWake(r))
<1> DEFINE n == OnboardingWake(r)
           wiped == [r EXCEPT !.receipt = "none", !.fresh = FALSE, !.warm = "future"]
<1> SUFFICES RowFits(n, waking) /\ Moves(r, n)
  OBVIOUS
<1>1. r \in Rows
  BY DEF RowFits
<1>2. /\ wiped \in Rows /\ wiped.op = r.op /\ wiped.state = r.state /\ wiped.at = r.at
      /\ wiped.token = r.token /\ wiped.release = r.release /\ wiped.receipt = "none"
  BY <1>1 DEF Rows
<1>3. \/ n = Requested(wiped, "onboarding") /\ r.state \in {"idle", "stopping"}
      \/ n \in {wiped, r}
  BY DEF OnboardingWake
<1> HIDE DEF wiped, n
<1>4. CASE n \in {wiped, r}
  BY <1>1, <1>2, <1>4, TouchedFits
<1>5. CASE n = Requested(wiped, "onboarding") /\ r.state \in {"idle", "stopping"}
  <2>1. /\ RowFits(n, {}) /\ n.state = "requested" /\ n.release = wiped.release
        /\ n.token = IF wiped.state = "stopping" THEN 0 ELSE wiped.token
    BY <1>2, <1>5, RequestedFits DEF Triggers
  <2>2. waking = {}
    BY <1>5, NobodyWaits
  <2> QED BY <1>2, <2>1, <2>2 DEF Moves
<1> QED BY <1>3, <1>4, <1>5

\* The epoch advances and takes the receipt with it.
LEMMA EpochFits ==
    ASSUME NEW r, NEW k, RowFits(r, k)
    PROVE  LET n == EpochAdvanced(r) IN
           /\ RowFits(n, k) /\ n \in Rows /\ Moves(r, n) /\ n.receipt = "none" /\ n.op = r.op
           /\ n.token = r.token /\ n.state = r.state /\ n.release = r.release /\ n.at = r.at
           /\ n.phase = r.phase /\ n.retries = r.retries
<1> DEFINE n == EpochAdvanced(r)
<1>1. /\ n \in Rows /\ n.receipt = "none" /\ n.op = r.op /\ n.token = r.token
      /\ n.state = r.state /\ n.release = r.release /\ n.at = r.at /\ n.phase = r.phase
      /\ n.retries = r.retries
  BY DEF EpochAdvanced, RowFits, Rows
<1> HIDE DEF n
<1>2. RowFits(n, k) /\ Moves(r, n)
  BY <1>1, TouchedFits
<1> QED BY <1>1, <1>2 DEF n

\* An operation fails: it is requested again under a new id, or it ends, and either
\* way its claim is given up and nobody waits for it (MarkOperationFailedLocked).
LEMMA FailedFits ==
    ASSUME PowerInv, NEW retry \in BOOLEAN, NEW clear \in BOOLEAN,
           MarkOperationFailedLocked(retry, clear)
    PROVE  /\ RowFits(row', waking') /\ row'.token = 0
           /\ bundle' \in {"none", "parked", "assigned", "failed", "exhausted"}
<1>1. row \in Rows /\ waking \subseteq {row.op}
  BY DEF PowerInv, RowFits
<1>2. waking' = {}
  BY <1>1 DEF MarkOperationFailedLocked
<1>3. bundle' \in {"none", "parked", "assigned", "failed", "exhausted"}
  BY DEF MarkOperationFailedLocked, PowerInv
<1>4. CASE Retries(row, retry)
  <2> DEFINE u == Unclaimed(row)
  <2>1. row' = [u EXCEPT !.state = "requested", !.op = FreshOp, !.at = "later",
                         !.retries = row.retries + 1]
    <3>1. u.retries = row.retries
      BY <1>1, UnclaimedFits
    <3> QED BY <1>4, <3>1 DEF MarkOperationFailedLocked
  <2>2. row.retries + 1 \in 0..MaxRetries
    BY LimitsAssumption, <1>1, <1>4 DEF Retries, Rows
  <2>3. u \in Rows /\ u.token = 0 /\ FreshOp \in PowerIds /\ FreshOp # 0
    BY <1>1, UnclaimedFits, FreshIds
  <2> HIDE DEF u
  <2>4. /\ row' \in Rows /\ row'.state = "requested" /\ row'.op = FreshOp
        /\ row'.at = "later" /\ row'.token = 0
    BY <2>1, <2>2, <2>3 DEF Rows, OperationStates
  <2> QED BY <1>2, <1>3, <2>3, <2>4 DEF RowFits
<1>5. CASE ~Retries(row, retry)
  <2> DEFINE e == Ended(row)
  <2>1. PICK m \in 0..MaxRetries, x \in {"null", "future", "past"} :
          row' = [e EXCEPT !.retries = m, !.warm = x]
    <3> DEFINE m == IF row.trigger = "onboarding" THEN e.retries ELSE 0
               x == IF clear THEN "null" ELSE e.warm
    <3>1. row' = [e EXCEPT !.retries = m, !.warm = x]
      BY <1>5 DEF MarkOperationFailedLocked
    <3>2. e \in Rows /\ 0 \in 0..MaxRetries
      BY LimitsAssumption, <1>1, UnclaimedFits
    <3>3. m \in 0..MaxRetries /\ x \in {"null", "future", "past"}
      BY <3>2 DEF Rows
    <3> HIDE DEF m, x
    <3> QED BY <3>1, <3>3
  <2>2. e \in Rows /\ e.token = 0 /\ e.op = 0 /\ e.state = "idle" /\ e.at = "none"
    BY <1>1, UnclaimedFits
  <2> HIDE DEF e
  <2>3. row' \in Rows /\ row'.token = 0 /\ row'.op = 0 /\ row'.state = "idle" /\ row'.at = "none"
    BY <2>1, <2>2 DEF Rows
  <2> QED BY <1>2, <1>3, <2>3 DEF RowFits
<1> QED BY <1>4, <1>5

\* The handler of a failed call: the claim is compared again (MarkOperationFailed).
LEMMA MarkFailedKept ==
    ASSUME PowerInv, NEW w \in Workers, NEW retry \in BOOLEAN,
           NEW clear \in BOOLEAN, MarkOperationFailed(w, retry, clear),
           UNCHANGED <<queue, turn, prompts>>, machine' \in MachineStates,
           current' \in BOOLEAN
    PROVE  PowerInv'
<1>1. /\ worker' \in [Workers -> Calls]
      /\ \A v \in Workers : Follows(worker[v], worker'[v])
                            \/ Passes(worker'[v], row', HasWork(queue', turn'))
  BY GoesOn DEF MarkOperationFailed
<1>2. /\ RowFits(row', waking') /\ Moves(row, row')
      /\ bundle' \in {"none", "parked", "assigned", "failed", "exhausted"}
  <2>1. CASE MarkOperationFailedLocked(retry, clear)
    BY <2>1, FailedFits DEF Moves
  <2>2. CASE UNCHANGED <<row, waking, bundle>>
    BY <2>2, TouchedFits DEF PowerInv, RowFits
  <2> QED BY <2>1, <2>2 DEF MarkOperationFailed, sameRow
<1>3. WorkFits(row', HasWork(queue', turn'))
  BY DEF WorkFits
<1> QED BY <1>1, <1>2, <1>3, PowerKept DEF PowerInv

\* Prompts, composing intents and assignments.
LEMMA PowerRequestsKept ==
    ASSUME PowerInv
    PROVE  /\ Prompt \/ RepeatedPrompt \/ Assign => PowerInv'
           /\ \A limited \in BOOLEAN : Intent(limited) => PowerInv'
<1>1. /\ RowFits(row, waking) /\ row \in Rows /\ worker \in [Workers -> Calls]
      /\ prompts \in 0..MaxPrompts /\ queue \in 0..prompts /\ MaxPrompts \in Nat
  BY LimitsAssumption DEF PowerInv, RowFits
<1>2. \A w \in Workers : Follows(worker[w], worker[w])
  BY DEF Follows
<1>3. ASSUME Prompt \/ RepeatedPrompt PROVE PowerInv'
  <2>1. /\ row' = ExecutionWake(row)
        /\ UNCHANGED <<bundle, waking, machine, current, worker>>
        /\ prompts' \in 0..MaxPrompts /\ queue' \in 0..prompts'
    <3>1. CASE Prompt
      <4>1. prompts < MaxPrompts /\ prompts' = prompts + 1 /\ queue' = queue + 1
        BY <3>1 DEF Prompt
      <4>2. prompts' \in 0..MaxPrompts /\ queue' \in 0..prompts'
        BY <1>1, <4>1
      <4> QED BY <3>1, <4>2 DEF Prompt, provider
    <3>2. CASE RepeatedPrompt
      BY <1>1, <3>2 DEF RepeatedPrompt, work, provider
    <3> QED BY <1>3, <3>1, <3>2
  <2>2. /\ RowFits(row', waking) /\ Moves(row, row')
        /\ row'.state = "stopping" => row.receipt # "none" /\ row'.token = row.token
    BY <1>1, <2>1, ExecutionWakeFits
  <2>3. WorkFits(row', HasWork(queue', turn'))
    BY <2>2 DEF WorkFits
  <2> QED BY <1>1, <1>2, <2>1, <2>2, <2>3, PowerKept DEF PowerInv
<1>4. ASSUME Assign PROVE PowerInv'
  <2>1. /\ row' = OnboardingWake(row) /\ bundle' = "assigned"
        /\ UNCHANGED <<queue, turn, prompts, waking, machine, current, worker>>
    BY <1>4 DEF Assign, work, provider
  <2>2. RowFits(row', waking) /\ Moves(row, row')
    BY <1>1, <2>1, OnboardingWakeFits
  <2>3. WorkFits(row', HasWork(queue', turn'))
    BY <2>1 DEF WorkFits
  <2> QED BY <1>1, <1>2, <2>1, <2>2, <2>3, PowerKept DEF PowerInv
<1>5. ASSUME NEW limited \in BOOLEAN, Intent(limited) PROVE PowerInv'
  <2>1. /\ row' = IF row.phase = "inflight" THEN row ELSE IntentWake(row, limited)
        /\ waking' = IF ~IsRuntimeReady(row) /\ row.phase # "inflight" /\ row'.op # 0
                     THEN waking \cup {row'.op} ELSE waking
        /\ UNCHANGED <<bundle, queue, turn, prompts, machine, current, worker>>
    BY <1>5 DEF Intent, work, provider
  <2>2. /\ RowFits(row', waking) /\ Moves(row, row')
        /\ row.phase = "inflight" \/ (row'.state = "stopping" => IsRuntimeReady(row))
    <3>1. RowFits(row, waking) /\ Moves(row, row)
      BY <1>1, TouchedFits
    <3> QED BY <2>1, <3>1, IntentWakeFits
  <2>3. RowFits(row', waking')
    <3>1. CASE waking' = waking
      BY <2>2, <3>1
    <3>2. CASE waking' = waking \cup {row'.op} /\ row'.op # 0 /\ row'.state # "stopping"
      <4>1. row'.op \in Ids
        BY <2>2, <3>2 DEF RowFits, Rows, PowerIds
      <4>2. waking' \subseteq Ids \cap {row'.op}
        BY <2>2, <3>2, <4>1 DEF RowFits
      <4> QED BY <2>2, <3>2, <4>2 DEF RowFits
    <3> QED BY <2>1, <2>2, <3>1, <3>2
  <2>4. WorkFits(row', HasWork(queue', turn'))
    BY <2>1 DEF WorkFits
  <2> QED BY <1>1, <1>2, <2>1, <2>2, <2>3, <2>4, PowerKept DEF PowerInv
<1> QED BY <1>3, <1>4, <1>5

\* Only the row moves.
LEMMA RowStepKept ==
    ASSUME PowerInv, RowFits(row', waking'), Moves(row, row'),
           UNCHANGED <<queue, turn, prompts, worker>>,
           bundle' \in {"none", "parked", "assigned", "failed", "exhausted"},
           machine' \in MachineStates, current' \in BOOLEAN
    PROVE  PowerInv'
<1>1. \A w \in Workers : Follows(worker[w], worker'[w])
  BY DEF Follows
<1>2. WorkFits(row', HasWork(queue', turn'))
  BY DEF WorkFits
<1> QED BY <1>1, <1>2, PowerKept DEF PowerInv

\* The row moves and the process w goes on to the step s with its claim, or with
\* what it passes there.
LEMMA GotoKept ==
    ASSUME PowerInv, NEW w \in Workers, NEW s \in PowerSteps, Goto(w, s),
           worker[w].step # "none", s \in ReplaceSteps => worker[w].step \in ReplaceSteps,
           s \in ActivationSteps => worker[w].step \in ActivationSteps,
           s \in PreparedSteps => worker[w].step \in PreparedSteps,
           RowFits(row', waking'), Moves(row, row'), UNCHANGED <<queue, turn, prompts>>,
           bundle' \in {"none", "parked", "assigned", "failed", "exhausted"},
           machine' \in MachineStates, current' \in BOOLEAN
    PROVE  PowerInv'
<1>1. /\ worker' \in [Workers -> Calls] /\ worker'[w].step = s
      /\ worker'[w].op = worker[w].op /\ worker'[w].token = worker[w].token
      /\ \A v \in Workers : v # w => worker'[v] = worker[v]
  BY GoesOn
<1>2. \A v \in Workers : Follows(worker[v], worker'[v])
  BY <1>1 DEF Follows
<1>3. WorkFits(row', HasWork(queue', turn'))
  BY DEF WorkFits
<1> QED BY <1>1, <1>2, <1>3, PowerKept DEF PowerInv

\* The row moves and the process w returns.
LEMMA ReturnKept ==
    ASSUME PowerInv, NEW w \in Workers, Return(w),
           RowFits(row', waking'), Moves(row, row'), UNCHANGED <<queue, turn, prompts>>,
           bundle' \in {"none", "parked", "assigned", "failed", "exhausted"},
           machine' \in MachineStates, current' \in BOOLEAN
    PROVE  PowerInv'
<1>1. /\ worker' \in [Workers -> Calls]
      /\ \A v \in Workers : Follows(worker[v], worker'[v])
                            \/ Passes(worker'[v], row', HasWork(queue', turn'))
  BY GoesOn
<1>2. WorkFits(row', HasWork(queue', turn'))
  BY DEF WorkFits
<1> QED BY <1>1, <1>2, PowerKept DEF PowerInv

\* The process w takes a call c with a claim of its own or, to recover it, with the
\* one of the row.
LEMMA TakeKept ==
    ASSUME PowerInv, NEW w \in Workers, NEW c, worker' = [worker EXCEPT ![w] = c],
           Passes(c, row', HasWork(queue, turn)),
           RowFits(row', waking'), Moves(row, row'), UNCHANGED <<queue, turn, prompts>>,
           bundle' \in {"none", "parked", "assigned", "failed", "exhausted"},
           machine' \in MachineStates, current' \in BOOLEAN
    PROVE  PowerInv'
<1>1. c \in Calls /\ worker \in [Workers -> Calls]
  BY DEF Passes, CallerFits, PowerInv
<1>2. /\ worker' \in [Workers -> Calls] /\ worker'[w] = c
      /\ \A v \in Workers : v # w => worker'[v] = worker[v]
  BY <1>1
<1>3. \A v \in Workers : Follows(worker[v], worker'[v])
                         \/ Passes(worker'[v], row', HasWork(queue', turn'))
  BY <1>2 DEF Follows
<1>4. WorkFits(row', HasWork(queue', turn'))
  BY DEF WorkFits
<1> QED BY <1>2, <1>3, <1>4, PowerKept DEF PowerInv

\* The row stays as it is.
LEMMA SameRowFits ==
    ASSUME PowerInv, UNCHANGED <<row, waking, bundle>>
    PROVE  /\ RowFits(row', waking') /\ Moves(row, row')
           /\ bundle' \in {"none", "parked", "assigned", "failed", "exhausted"}
BY TouchedFits DEF PowerInv, RowFits

\* A start gives up its claim, to await the runtime or to be requested again.
LEMMA AwaitingFits ==
    ASSUME PowerInv, row.state = "starting",
           NEW s \in {"awaiting", "requested"},
           row' = [Unclaimed(row) EXCEPT !.state = s], UNCHANGED waking
    PROVE  RowFits(row', waking') /\ Moves(row, row')
<1> DEFINE u == Unclaimed(row)
<1>1. RowFits(row, waking) /\ row \in Rows
  BY DEF PowerInv, RowFits
<1>2. u \in Rows /\ u.token = 0 /\ u.op = row.op /\ u.at = row.at
  BY <1>1, UnclaimedFits
<1> HIDE DEF u
<1>3. row' = [u EXCEPT !.state = s]
  BY DEF u
<1>4. /\ row' \in Rows /\ row'.token = 0 /\ row'.op = row.op /\ row'.at = row.at
      /\ row'.state = s
  BY <1>2, <1>3 DEF Rows, OperationStates
<1> QED BY <1>1, <1>4 DEF RowFits, Moves

\* The wake of the Machine, from the claim of a request to the runtime that is
\* awaited (services/runtime_power.py).
LEMMA WakeStepKept ==
    ASSUME PowerInv, NEW w \in Workers, WakeStep(w)
    PROVE  PowerInv'
<1> USE DEF work, provider
<1>1. /\ RowFits(row, waking) /\ row \in Rows /\ worker[w] \in Calls
      /\ machine \in MachineStates /\ current \in BOOLEAN
      /\ bundle \in {"none", "parked", "assigned", "failed", "exhausted"}
  BY DEF PowerInv, RowFits
<1>2. CASE ClaimRequestedOperation(w)
  <2>1. /\ row.state = "requested"
        /\ UNCHANGED <<queue, turn, prompts, machine, current>>
    BY <1>2 DEF ClaimRequestedOperation
  <2>2. CASE MarkOperationFailedLocked(FALSE, FALSE) /\ UNCHANGED worker
    <3>1. /\ RowFits(row', waking') /\ row'.token = 0
          /\ bundle' \in {"none", "parked", "assigned", "failed", "exhausted"}
      BY <2>2, FailedFits
    <3> QED BY <1>1, <2>1, <2>2, <3>1, RowStepKept DEF Moves
  <2>3. CASE /\ row' = [row EXCEPT !.state = "starting", !.token = FreshToken,
                                   !.expired = FALSE]
             /\ worker' = [worker EXCEPT ![w] = [NoCall EXCEPT
                             !.step = "inspect wake", !.op = row.op, !.token = FreshToken,
                             !.trigger = row.trigger]]
             /\ UNCHANGED <<waking, bundle>>
    <3> DEFINE c == [NoCall EXCEPT
                       !.step = "inspect wake", !.op = row.op, !.token = FreshToken,
                       !.trigger = row.trigger]
    <3>1. /\ FreshToken \in PowerIds /\ FreshToken # 0
          /\ \A v \in Workers : FreshToken # worker[v].token
      BY FreshIds
    <3>2. /\ row' \in Rows /\ row'.state = "starting" /\ row'.token = FreshToken
          /\ row'.op = row.op /\ row'.at = row.at
      BY <1>1, <2>3, <3>1 DEF Rows, OperationStates
    <3>3. RowFits(row', waking') /\ Moves(row, row')
      BY <1>1, <2>1, <2>3, <3>1, <3>2 DEF RowFits, Moves
    <3>4. c \in Calls /\ c.step = "inspect wake" /\ c.token = FreshToken
      <4>1. "inspect wake" \in PowerSteps /\ row.op \in PowerIds /\ row.trigger \in Triggers
            /\ "idle" \in OperationStates
        BY <1>1 DEF PowerSteps, WakeSteps, Rows, OperationStates
      <4> QED BY <3>1, <4>1 DEF Calls, NoCall
    <3> HIDE DEF c
    <3>5. Passes(c, row', HasWork(queue, turn))
      BY <3>1, <3>4 DEF Passes, CallerFits, Prepared, ReplaceSteps, ActivationSteps, PreparedSteps
    <3>6. worker' = [worker EXCEPT ![w] = c]
      BY <2>3 DEF c
    <3> QED BY <1>1, <2>1, <2>3, <3>3, <3>5, <3>6, TakeKept
  <2> QED BY <1>2, <2>2, <2>3 DEF ClaimRequestedOperation
<1>3. CASE InspectWake(w)
  <2>1. /\ worker[w].step = "inspect wake"
        /\ UNCHANGED <<row, bundle, queue, turn, prompts, waking, machine, current>>
    BY <1>3 DEF InspectWake, At
  <2>2. CASE Goto(w, "claim release")
    BY <1>1, <2>1, <2>2, GotoKept, SameRowFits DEF PowerSteps, WakeSteps, ReplaceSteps,
       ActivationSteps, PreparedSteps
  <2>3. CASE worker' = [worker EXCEPT ![w].step = "prepare start", ![w].seen = Seen]
    <3> DEFINE c == [worker[w] EXCEPT !.step = "prepare start", !.seen = Seen]
    <3>1. worker' = [worker EXCEPT ![w] = c]
      BY <2>3 DEF PowerInv
    <3>2. Seen \in {"none", "started", "stopped", "unknown"} /\ "prepare start" \in PowerSteps
      BY <1>1 DEF Seen, MachineStates, PowerSteps, WakeSteps
    <3>3. c \in Calls /\ c.step = "prepare start" /\ c.token = worker[w].token
      BY <1>1, <3>2 DEF Calls
    <3>4. c.token # 0
      BY <2>1, <3>3 DEF PowerInv, CallerFits
    <3> HIDE DEF c
    <3>5. Passes(c, row', HasWork(queue, turn))
      BY <3>3, <3>4 DEF Passes, CallerFits, Prepared, ReplaceSteps, ActivationSteps, PreparedSteps
    <3> QED BY <1>1, <2>1, <3>1, <3>5, TakeKept, SameRowFits
  <2> QED BY <1>3, <2>2, <2>3 DEF InspectWake
<1>4. CASE PrepareStart(w)
  <2>1. worker[w].step = "prepare start" /\ UNCHANGED <<queue, turn, prompts, machine>>
    BY <1>4 DEF PrepareStart, At
  <2>2. CASE MarkOperationFailed(w, FALSE, FALSE) /\ UNCHANGED current
    BY <1>1, <2>1, <2>2, MarkFailedKept
  <2>3. ASSUME NEW s \in {"mark awaiting", "start", "not startable"}, Goto(w, s),
               row' = EpochAdvanced(row), current' = FALSE, UNCHANGED <<bundle, waking>>
        PROVE  PowerInv'
    <3>1. RowFits(row', waking') /\ Moves(row, row')
      BY <1>1, <2>3, EpochFits
    <3> QED BY <1>1, <2>1, <2>3, <3>1, GotoKept DEF PowerSteps, WakeSteps, ReplaceSteps,
            ActivationSteps, PreparedSteps
  <2> QED BY <1>4, <2>2, <2>3 DEF PrepareStart
<1>5. CASE StartMachine(w)
  <2>1. /\ worker[w].step = "start" /\ Goto(w, "mark awaiting")
        /\ UNCHANGED <<row, bundle, queue, turn, prompts, waking, current>>
        /\ machine' \in MachineStates
    BY <1>1, <1>5 DEF StartMachine, At, StartRequest, MachineStates
  <2> QED BY <1>1, <2>1, GotoKept, SameRowFits DEF PowerSteps, WakeSteps, ReplaceSteps,
          ActivationSteps, PreparedSteps
<1>6. CASE ReinspectStart(w)
  <2>1. UNCHANGED <<queue, turn, prompts, machine, current>>
    BY <1>6 DEF ReinspectStart
  <2>2. CASE At(w, "reinspect start") /\ Goto(w, "mark awaiting") /\ UNCHANGED sameRow
    BY <1>1, <2>1, <2>2, GotoKept, SameRowFits DEF PowerSteps, WakeSteps, ReplaceSteps,
       ActivationSteps, PreparedSteps, At, sameRow
  <2>3. CASE MarkOperationFailed(w, TRUE, FALSE)
    BY <1>1, <2>1, <2>3, MarkFailedKept
  <2> QED BY <1>6, <2>2, <2>3 DEF ReinspectStart
<1>7. CASE MarkAwaitingReadiness(w)
  <2>1. UNCHANGED <<queue, turn, prompts, machine, current>>
    BY <1>7 DEF MarkAwaitingReadiness
  <2>2. CASE /\ OwnsOperation(w, "starting")
             /\ row' = [Unclaimed(row) EXCEPT !.state = "awaiting"]
             /\ Return(w) /\ UNCHANGED <<bundle, waking>>
    <3>1. RowFits(row', waking') /\ Moves(row, row')
      BY <1>1, <2>2, AwaitingFits DEF OwnsOperation
    <3> QED BY <1>1, <2>1, <2>2, <3>1, ReturnKept
  <2>3. CASE MarkOperationFailed(w, FALSE, FALSE)
    BY <1>1, <2>1, <2>3, MarkFailedKept
  <2> QED BY <1>7, <2>2, <2>3 DEF MarkAwaitingReadiness
<1> QED BY <1>2, <1>3, <1>4, <1>5, <1>6, <1>7 DEF WakeStep

\* A stop ends: with it goes the operation, and nobody waited for it.
LEMMA StopEnds ==
    ASSUME NEW r, RowFits(r, waking), r.state = "stopping",
           row' = [Ended(r) EXCEPT !.warm = "null"], UNCHANGED waking
    PROVE  RowFits(row', waking') /\ Moves(row, row')
<1> DEFINE e == Ended(r)
<1>1. waking = {} /\ r \in Rows
  BY NobodyWaits DEF RowFits
<1>2. e \in Rows /\ e.token = 0 /\ e.op = 0 /\ e.state = "idle" /\ e.at = "none"
  BY <1>1, UnclaimedFits
<1> HIDE DEF e
<1>3. row' = [e EXCEPT !.warm = "null"]
  BY DEF e
<1>4. row' \in Rows /\ row'.token = 0 /\ row'.op = 0 /\ row'.state = "idle" /\ row'.at = "none"
  BY <1>2, <1>3 DEF Rows
<1> QED BY <1>1, <1>4 DEF RowFits, Moves

\* The idle stop, from its claim to its end; the locked recheck is what makes a stop
\* prepared (services/runtime_power.py, _prepare_stop).
LEMMA StopStepKept ==
    ASSUME PowerInv, NEW w \in Workers,
           StopStep(w) \/ ClaimIdleOperation(w)
    PROVE  PowerInv'
<1> USE DEF work, provider
<1>1. /\ RowFits(row, waking) /\ row \in Rows /\ worker[w] \in Calls
      /\ machine \in MachineStates /\ current \in BOOLEAN
      /\ bundle \in {"none", "parked", "assigned", "failed", "exhausted"}
  BY DEF PowerInv, RowFits
<1>2. CASE ClaimIdleOperation(w)
  <2> DEFINE c == [NoCall EXCEPT
                     !.step = "inspect stop", !.op = FreshOp, !.token = FreshToken]
  <2>1. /\ row' = [row EXCEPT !.state = "stopping", !.op = FreshOp, !.trigger = "none",
                              !.at = "due", !.token = FreshToken, !.expired = FALSE]
        /\ worker' = [worker EXCEPT ![w] = c] /\ row.state = "idle"
        /\ UNCHANGED <<bundle, queue, turn, prompts, waking, machine, current>>
    BY <1>2 DEF ClaimIdleOperation, IdleCandidate
  <2>2. /\ FreshOp \in PowerIds /\ FreshOp # 0
        /\ FreshToken \in PowerIds /\ FreshToken # 0
        /\ \A v \in Workers : FreshToken # worker[v].token
    BY FreshIds
  <2>3. /\ row' \in Rows /\ row'.state = "stopping" /\ row'.op = FreshOp
        /\ row'.at = "due" /\ row'.token = FreshToken
    BY <1>1, <2>1, <2>2 DEF Rows, OperationStates, Triggers
  <2>4. waking = {}
    BY <1>1, <2>1, NobodyWaits
  <2>5. RowFits(row', waking') /\ Moves(row, row')
    BY <2>1, <2>2, <2>3, <2>4 DEF RowFits, Moves
  <2>6. c \in Calls /\ c.step = "inspect stop" /\ c.token = FreshToken
    <3>1. "inspect stop" \in PowerSteps /\ "idle" \in OperationStates /\ "none" \in Triggers
      BY DEF PowerSteps, StopSteps, OperationStates, Triggers
    <3> QED BY <2>2, <3>1 DEF Calls, NoCall
  <2> HIDE DEF c
  <2>7. Passes(c, row', HasWork(queue, turn))
    BY <2>2, <2>6 DEF Passes, CallerFits, Prepared, ReplaceSteps, ActivationSteps, PreparedSteps
  <2> QED BY <1>1, <2>1, <2>5, <2>7, TakeKept
<1>3. CASE InspectStop(w)
  <2>1. /\ worker[w].step = "inspect stop" /\ UNCHANGED <<queue, turn, prompts, machine, current>>
    BY <1>3 DEF InspectStop, At
  <2>2. CASE MarkOperationFailed(w, FALSE, TRUE)
    BY <1>1, <2>1, <2>2, MarkFailedKept
  <2>3. CASE /\ machine \in {"started", "stopped"}
             /\ worker' = [worker EXCEPT ![w].step = "prepare stop", ![w].seen = machine]
             /\ UNCHANGED sameRow
    <3> DEFINE c == [worker[w] EXCEPT !.step = "prepare stop", !.seen = machine]
    <3>1. worker' = [worker EXCEPT ![w] = c]
      BY <2>3 DEF PowerInv
    <3>2. "prepare stop" \in PowerSteps
      BY DEF PowerSteps, StopSteps
    <3>3. c \in Calls /\ c.step = "prepare stop" /\ c.token = worker[w].token
      BY <1>1, <2>3, <3>2 DEF Calls
    <3>4. c.token # 0
      BY <2>1, <3>3 DEF PowerInv, CallerFits
    <3> HIDE DEF c
    <3>5. Passes(c, row', HasWork(queue, turn))
      BY <3>3, <3>4 DEF Passes, CallerFits, Prepared, ReplaceSteps, ActivationSteps, PreparedSteps
    <3> QED BY <1>1, <2>1, <2>3, <3>1, <3>5, TakeKept, SameRowFits DEF sameRow
  <2> QED BY <1>3, <2>2, <2>3 DEF InspectStop
<1>4. CASE PrepareStop(w)
  <2>1. /\ worker[w].step = "prepare stop" /\ UNCHANGED <<queue, turn, prompts, machine>>
    BY <1>4 DEF PrepareStop, At
  <2>2. CASE MarkOperationFailed(w, FALSE, FALSE) /\ UNCHANGED current
    BY <1>1, <2>1, <2>2, MarkFailedKept
  <2>3. ASSUME NEW s \in {"finalize stop", "stop"}, Goto(w, s), MayPrepareStop(w),
               row' = EpochAdvanced(row), current' = FALSE, UNCHANGED <<bundle, waking>>
        PROVE  PowerInv'
    <3> DEFINE c == [worker[w] EXCEPT !.step = s]
    <3>1. worker' = [worker EXCEPT ![w] = c]
      BY <2>3 DEF Goto
    <3>2. s \in PowerSteps
      BY DEF PowerSteps, StopSteps, PreparedSteps
    <3>3. c \in Calls /\ c.step = s /\ c.token = worker[w].token
      BY <1>1, <3>2 DEF Calls
    <3>4. c.token # 0
      BY <2>1, <3>3 DEF PowerInv, CallerFits
    <3>5. RowFits(row', waking') /\ Moves(row, row') /\ row'.receipt = "none"
      BY <1>1, <2>3, EpochFits
    <3>6. ~HasWork(queue, turn)
      BY <2>3 DEF MayPrepareStop, IdleCandidate, Busy, HasWork
    <3> HIDE DEF c
    <3>7. Passes(c, row', HasWork(queue, turn))
      BY <3>3, <3>4, <3>5, <3>6 DEF Passes, CallerFits, ReplaceSteps, ActivationSteps
    <3> QED BY <1>1, <2>1, <2>3, <3>1, <3>5, <3>7, TakeKept
  <2> QED BY <1>4, <2>2, <2>3 DEF PrepareStop
<1>5. CASE StopMachine(w)
  <2>1. /\ worker[w].step = "stop" /\ Goto(w, "finalize stop")
        /\ UNCHANGED <<row, bundle, queue, turn, prompts, waking, current>>
        /\ machine' \in MachineStates
    BY <1>1, <1>5 DEF StopMachine, At, StopRequest, MachineStates
  <2> QED BY <1>1, <2>1, GotoKept, SameRowFits DEF PowerSteps, StopSteps, ReplaceSteps,
          ActivationSteps, PreparedSteps
<1>6. CASE ReinspectStop(w)
  <2>1. UNCHANGED <<queue, turn, prompts, machine, current>> /\ worker[w].step = "reinspect stop"
    BY <1>6 DEF ReinspectStop, At
  <2>2. CASE Goto(w, "finalize stop") /\ UNCHANGED sameRow
    BY <1>1, <2>1, <2>2, GotoKept, SameRowFits DEF PowerSteps, StopSteps, ReplaceSteps,
       ActivationSteps, PreparedSteps, sameRow
  <2>3. CASE MarkOperationFailed(w, FALSE, TRUE)
    BY <1>1, <2>1, <2>3, MarkFailedKept
  <2> QED BY <1>6, <2>2, <2>3 DEF ReinspectStop
<1>7. CASE FinalizeStop(w)
  <2>1. UNCHANGED <<queue, turn, prompts, machine, current>>
    BY <1>7 DEF FinalizeStop
  <2>2. CASE /\ OwnsOperation(w, "stopping")
             /\ row' = [Ended(row) EXCEPT !.warm = "null"]
             /\ Return(w) /\ UNCHANGED <<bundle, waking>>
    <3>1. RowFits(row', waking') /\ Moves(row, row')
      BY <1>1, <2>2, StopEnds DEF OwnsOperation
    <3> QED BY <1>1, <2>1, <2>2, <3>1, ReturnKept
  <2>3. CASE MarkOperationFailed(w, FALSE, FALSE)
    BY <1>1, <2>1, <2>3, MarkFailedKept
  <2> QED BY <1>7, <2>2, <2>3 DEF FinalizeStop
<1> QED BY <1>2, <1>3, <1>4, <1>5, <1>6, <1>7 DEF StopStep

\* The recovery of a claim whose process died (_recover_expired_operations).
LEMMA RecoveryStepKept ==
    ASSUME PowerInv, NEW w \in Workers, RecoveryStep(w)
    PROVE  PowerInv'
<1> USE DEF work, provider
<1>1. /\ RowFits(row, waking) /\ row \in Rows /\ worker[w] \in Calls
      /\ machine \in MachineStates /\ current \in BOOLEAN
      /\ bundle \in {"none", "parked", "assigned", "failed", "exhausted"}
  BY DEF PowerInv, RowFits
<1>2. CASE RecoverExpiredOperation(w)
  <2> DEFINE c == [NoCall EXCEPT !.step = "recover", !.op = row.op, !.token = row.token,
                                       !.state = row.state, !.seen = Seen]
  <2>1. /\ worker' = [worker EXCEPT ![w] = c] /\ ExpiredOperation
        /\ UNCHANGED <<row, waking, bundle, queue, turn, prompts, machine, current>>
    BY <1>2 DEF RecoverExpiredOperation, sameRow
  <2>2. row.token # 0
    BY <1>1, <2>1 DEF ExpiredOperation, RowFits
  <2>3. /\ row.op \in PowerIds /\ row.token \in PowerIds /\ row.state \in OperationStates
        /\ Seen \in {"none", "started", "stopped", "unknown"} /\ "recover" \in PowerSteps
        /\ "none" \in Triggers
    BY <1>1 DEF Rows, Seen, MachineStates, PowerSteps, Triggers
  <2>4. c \in Calls /\ c.step = "recover" /\ c.token = row.token
    BY <2>3 DEF Calls, NoCall
  <2> HIDE DEF c
  <2>5. Passes(c, row', HasWork(queue, turn))
    BY <2>2, <2>4 DEF Passes, CallerFits, Prepared, ReplaceSteps, ActivationSteps, PreparedSteps
  <2> QED BY <1>1, <2>1, <2>5, TakeKept, SameRowFits
<1>3. CASE Recover(w)
  <2>1. UNCHANGED <<bundle, queue, turn, prompts, waking, machine>>
    BY <1>3 DEF Recover
  <2>2. CASE RecoverStartAsAwaiting(w) \/ RecoverStartAsRequested(w)
    <3>1. PICK s \in {"awaiting", "requested"} : row' = [Unclaimed(row) EXCEPT !.state = s]
      BY <2>2 DEF RecoverStartAsAwaiting, RecoverStartAsRequested
    <3>2. row.state = "starting" /\ Return(w) /\ UNCHANGED current
      BY <2>2 DEF RecoverStartAsAwaiting, RecoverStartAsRequested,
         SameExpiredClaim, OwnsOperation
    <3>3. RowFits(row', waking') /\ Moves(row, row')
      BY <2>1, <3>1, <3>2, AwaitingFits
    <3> QED BY <1>1, <2>1, <3>2, <3>3, ReturnKept
  <2>3. CASE RecoverStopAsFinished(w)
    <3>1. /\ row' = [Ended(EpochAdvanced(row)) EXCEPT !.warm = "null"]
          /\ row.state = "stopping" /\ current' = FALSE /\ Return(w)
      BY <2>3 DEF RecoverStopAsFinished, SameExpiredClaim, OwnsOperation
    <3>2. RowFits(row', waking') /\ Moves(row, row')
      BY <1>1, <2>1, <3>1, StopEnds, EpochFits
    <3> QED BY <1>1, <2>1, <3>1, <3>2, ReturnKept
  <2>4. CASE RecoverStopAsClaimed(w)
    <3> DEFINE c == [NoCall EXCEPT
                       !.step = "inspect stop", !.op = FreshOp, !.token = FreshToken]
    <3>1. /\ row' = [row EXCEPT !.op = FreshOp, !.at = "due", !.token = FreshToken,
                                !.expired = FALSE]
          /\ worker' = [worker EXCEPT ![w] = c] /\ row.state = "stopping" /\ UNCHANGED current
      BY <2>4 DEF RecoverStopAsClaimed, SameExpiredClaim, OwnsOperation
    <3>2. /\ FreshOp \in PowerIds /\ FreshOp # 0
          /\ FreshToken \in PowerIds /\ FreshToken # 0
          /\ \A v \in Workers : FreshToken # worker[v].token
      BY FreshIds
    <3>3. /\ row' \in Rows /\ row'.state = "stopping" /\ row'.op = FreshOp
          /\ row'.at = "due" /\ row'.token = FreshToken
      BY <1>1, <3>1, <3>2 DEF Rows
    <3>4. waking = {}
      BY <1>1, <3>1, NobodyWaits
    <3>5. RowFits(row', waking') /\ Moves(row, row')
      BY <2>1, <3>1, <3>2, <3>3, <3>4 DEF RowFits, Moves
    <3>6. c \in Calls /\ c.step = "inspect stop" /\ c.token = FreshToken
      <4>1. "inspect stop" \in PowerSteps /\ "idle" \in OperationStates /\ "none" \in Triggers
        BY DEF PowerSteps, StopSteps, OperationStates, Triggers
      <4> QED BY <3>2, <4>1 DEF Calls, NoCall
    <3> HIDE DEF c
    <3>7. Passes(c, row', HasWork(queue, turn))
      BY <3>2, <3>6 DEF Passes, CallerFits, Prepared, ReplaceSteps, ActivationSteps, PreparedSteps
    <3> QED BY <1>1, <2>1, <3>1, <3>5, <3>7, TakeKept
  <2>5. CASE Return(w) /\ UNCHANGED <<row, current>>
    BY <1>1, <2>1, <2>5, ReturnKept, SameRowFits
  <2> QED BY <1>3, <2>2, <2>3, <2>4, <2>5 DEF Recover
<1>4. CASE RecoverUnsettled(w)
  <2>1. /\ MarkOperationFailed(w, worker[w].state = "starting", FALSE)
        /\ UNCHANGED <<queue, turn, prompts, machine, current>>
    BY <1>4 DEF RecoverUnsettled
  <2> DEFINE x == (worker[w].state = "starting")
  <2>2. x \in BOOLEAN /\ MarkOperationFailed(w, x, FALSE)
    BY <2>1
  <2> HIDE DEF x
  <2> QED BY <1>1, <2>1, <2>2, MarkFailedKept
<1> QED BY <1>2, <1>3, <1>4 DEF RecoveryStep

\* A replacement is claimed on the row r (Claimed).
LEMMA ReplacementClaimed ==
    ASSUME PowerInv, NEW w \in Workers, NEW r, RowFits(r, waking),
           r.release + 1 \in 0..MaxReleaseAttempts, Claimed(w, r),
           UNCHANGED <<bundle, queue, turn, prompts, waking, machine>>
    PROVE  PowerInv'
<1> DEFINE op == IF r.op = 0 THEN FreshOp ELSE r.op
           c == [NoCall EXCEPT !.step = "replace", !.token = FreshToken]
<1>1. /\ row' = [r EXCEPT !.release = r.release + 1, !.token = FreshToken,
                          !.expired = FALSE, !.op = op, !.state = "starting", !.at = "due"]
      /\ current' = FALSE /\ worker' = [worker EXCEPT ![w] = c]
  BY DEF Claimed
<1>2. /\ FreshOp \in PowerIds /\ FreshOp # 0
      /\ FreshToken \in PowerIds /\ FreshToken # 0
      /\ \A v \in Workers : FreshToken # worker[v].token
  BY FreshIds
<1>3. r \in Rows /\ r.release \in Nat /\ op \in PowerIds /\ op # 0 /\ waking \subseteq Ids \cap {op}
  <2>1. r \in Rows /\ r.release \in Nat /\ r.op \in PowerIds
    BY DEF RowFits, Rows
  <2>2. r.op = 0 => waking = {}
    BY NobodyWaits DEF RowFits
  <2> QED BY <1>2, <2>1, <2>2 DEF RowFits
<1> HIDE DEF op
<1>4. /\ row' \in Rows /\ row'.release = r.release + 1 /\ row'.token = FreshToken
      /\ row'.op = op /\ row'.state = "starting" /\ row'.at = "due"
  BY <1>1, <1>2, <1>3 DEF Rows, OperationStates
<1>5. RowFits(row', waking') /\ Moves(row, row')
  BY <1>2, <1>3, <1>4 DEF RowFits, Moves
<1>6. c \in Calls /\ c.step = "replace" /\ c.token = FreshToken
  <2>1. /\ "replace" \in PowerSteps /\ 0 \in PowerIds /\ "none" \in Triggers
        /\ "idle" \in OperationStates
    BY DEF PowerSteps, ReplaceSteps, PowerIds, Triggers, OperationStates
  <2> QED BY <1>2, <2>1 DEF Calls, NoCall
<1>7. row'.release > 0
  BY <1>3, <1>4
<1> HIDE DEF c
<1>8. Passes(c, row', HasWork(queue, turn))
  BY <1>2, <1>6, <1>7 DEF Passes, CallerFits, Prepared, ActivationSteps, PreparedSteps
<1> QED BY <1>1, <1>5, <1>8, TakeKept DEF PowerInv

\* The replacement of an old image, claimed by a wake, an operator or a resumption
\* (services/runtime_releases.py).
LEMMA ReleaseStepKept ==
    ASSUME PowerInv, NEW w \in Workers,
           \/ ReleaseStep(w) \/ ReconcileRuntimeImage(w)
           \/ \E terminally \in BOOLEAN : ReplacementFails(w, terminally)
    PROVE  PowerInv'
<1> USE DEF work, provider
<1>1. /\ RowFits(row, waking) /\ row \in Rows /\ worker[w] \in Calls
      /\ machine \in MachineStates /\ current \in BOOLEAN
      /\ bundle \in {"none", "parked", "assigned", "failed", "exhausted"}
      /\ row.release \in 0..MaxReleaseAttempts /\ MaxReleaseAttempts \in Nat \ {0}
  BY LimitsAssumption DEF PowerInv, RowFits, Rows
<1>2. CASE ClaimReleaseOnWake(w)
  <2>1. UNCHANGED <<queue, turn, prompts, machine>>
    BY <1>2 DEF ClaimReleaseOnWake
  <2>2. CASE /\ row.release < MaxReleaseAttempts
             /\ Claimed(w, EpochAdvanced(row)) /\ UNCHANGED <<bundle, waking>>
    <3>1. /\ RowFits(EpochAdvanced(row), waking)
          /\ EpochAdvanced(row).release = row.release
      BY <1>1, EpochFits
    <3>2. EpochAdvanced(row).release + 1 \in 0..MaxReleaseAttempts
      BY <1>1, <2>2, <3>1
    <3> QED BY <2>1, <2>2, <3>1, <3>2, ReplacementClaimed
  <2>3. CASE MarkOperationFailed(w, FALSE, FALSE) /\ UNCHANGED current
    BY <1>1, <2>1, <2>3, MarkFailedKept
  <2> QED BY <1>2, <2>2, <2>3 DEF ClaimReleaseOnWake
<1>3. CASE ReconcileRuntimeImage(w)
  <2>1. /\ row.release = 0 /\ Claimed(w, EpochAdvanced(row))
        /\ UNCHANGED <<bundle, queue, turn, prompts, waking, machine>>
    BY <1>3 DEF ReconcileRuntimeImage
  <2>2. /\ RowFits(EpochAdvanced(row), waking)
        /\ EpochAdvanced(row).release = row.release
    BY <1>1, EpochFits
  <2>3. EpochAdvanced(row).release + 1 \in 0..MaxReleaseAttempts
    BY <1>1, <2>1, <2>2
  <2> QED BY <2>1, <2>2, <2>3, ReplacementClaimed
<1>4. CASE ResumeRuntimeRelease(w)
  <2>1. /\ row.release \in 1..(MaxReleaseAttempts - 1) /\ Claimed(w, row)
        /\ UNCHANGED <<bundle, queue, turn, prompts, waking, machine>>
    BY <1>4 DEF ResumeRuntimeRelease
  <2>2. row.release + 1 \in 0..MaxReleaseAttempts
    BY <1>1, <2>1
  <2> QED BY <1>1, <2>1, <2>2, ReplacementClaimed
<1>5. CASE ReplacementBegins(w)
  <2>1. /\ worker[w].step = "replace" /\ Goto(w, "replacing")
        /\ UNCHANGED <<bundle, queue, turn, prompts, waking, machine>>
    BY <1>5 DEF ReplacementBegins, At
  <2>2. RowFits(row', waking') /\ Moves(row, row') /\ current' \in BOOLEAN
    <3>1. CASE UNCHANGED <<row, current>>
      BY <1>1, <2>1, <3>1, SameRowFits
    <3>2. CASE row' = [EpochAdvanced(row) EXCEPT !.phase = "inflight"] /\ current' = FALSE
      <4> DEFINE e == EpochAdvanced(row)
      <4>1. /\ e \in Rows /\ e.receipt = "none" /\ e.op = row.op /\ e.token = row.token
            /\ e.state = row.state /\ e.release = row.release /\ e.at = row.at
        BY <1>1, EpochFits
      <4> HIDE DEF e
      <4>2. row' = [e EXCEPT !.phase = "inflight"]
        BY <3>2 DEF e
      <4>3. /\ row' \in Rows /\ row'.receipt = "none" /\ row'.op = row.op
            /\ row'.token = row.token /\ row'.state = row.state /\ row'.release = row.release
            /\ row'.at = row.at
        BY <4>1, <4>2 DEF Rows
      <4> QED BY <1>1, <2>1, <3>2, <4>3, TouchedFits
    <3> QED BY <1>5, <3>1, <3>2 DEF ReplacementBegins
  <2> QED BY <1>1, <2>1, <2>2, GotoKept DEF PowerSteps, ReplaceSteps, ActivationSteps, PreparedSteps
<1>6. CASE ReplacementEnds(w)
  <2>1. Return(w) /\ UNCHANGED <<bundle, queue, turn, prompts, waking>>
    BY <1>6 DEF ReplacementEnds
  <2>2. CASE UNCHANGED <<row, machine, image, current>>
    BY <1>1, <2>1, <2>2, ReturnKept, SameRowFits
  <2>3. CASE /\ row' = [Unclaimed(row) EXCEPT
                          !.phase = "idle", !.release = 0, !.op = IF @ = 0 THEN FreshOp ELSE @,
                          !.state = "awaiting", !.trigger = "none", !.at = "due"]
             /\ machine' = "started" /\ current' = FALSE
    <3> DEFINE u == Unclaimed(row)
               op == IF row.op = 0 THEN FreshOp ELSE row.op
    <3>1. u \in Rows /\ u.token = 0 /\ u.op = row.op
      BY <1>1, UnclaimedFits
    <3>2. row' = [u EXCEPT !.phase = "idle", !.release = 0, !.op = op,
                           !.state = "awaiting", !.trigger = "none", !.at = "due"]
      BY <2>3, <3>1
    <3>3. FreshOp \in PowerIds /\ FreshOp # 0
      BY FreshIds
    <3>4. op \in PowerIds /\ op # 0 /\ waking \subseteq Ids \cap {op}
      <4>1. row.op \in PowerIds
        BY <1>1 DEF Rows
      <4>2. row.op = 0 => waking = {}
        BY <1>1, NobodyWaits DEF RowFits
      <4> QED BY <1>1, <3>3, <4>1, <4>2 DEF RowFits
    <3> HIDE DEF u, op
    <3>5. 0 \in 0..MaxReleaseAttempts /\ "awaiting" \in OperationStates /\ "none" \in Triggers
      BY <1>1 DEF OperationStates, Triggers
    <3>6. /\ row' \in Rows /\ row'.op = op /\ row'.state = "awaiting" /\ row'.at = "due"
          /\ row'.token = 0
      BY <3>1, <3>2, <3>4, <3>5 DEF Rows
    <3>7. RowFits(row', waking') /\ Moves(row, row')
      BY <2>1, <3>4, <3>6 DEF RowFits, Moves
    <3> QED BY <1>1, <2>1, <2>3, <3>7, ReturnKept DEF MachineStates
  <2> QED BY <1>6, <2>2, <2>3 DEF ReplacementEnds
<1>7. ASSUME NEW terminally \in BOOLEAN, ReplacementFails(w, terminally) PROVE PowerInv'
  <2> DEFINE u == IF row.token = worker[w].token THEN Unclaimed(row) ELSE row
  <2>1. /\ worker[w].step = "replacing" /\ Return(w)
        /\ row' = [u EXCEPT !.phase = IF terminally /\ @ = "inflight" THEN "failed" ELSE @]
        /\ UNCHANGED <<bundle, queue, turn, prompts, waking, machine, current>>
    BY <1>7 DEF ReplacementFails, At
  <2>2. /\ u \in Rows /\ u.op = row.op /\ u.state = row.state /\ u.at = row.at
        /\ u.release = row.release /\ u.receipt = row.receipt
        /\ u.token = 0 \/ u.token = row.token
        /\ u.token # row.token => row.release > 0
    <3>1. CASE row.token = worker[w].token
      <4>1. row.release > 0
        BY <2>1, <3>1 DEF PowerInv, CallerFits, ReplaceSteps
      <4> QED BY <1>1, <3>1, <4>1, UnclaimedFits
    <3>2. CASE row.token # worker[w].token
      BY <1>1, <3>2
    <3> QED BY <3>1, <3>2
  <2> HIDE DEF u
  <2>3. PICK p \in {"idle", "inflight", "failed"} : row' = [u EXCEPT !.phase = p]
    <3> DEFINE p == IF terminally /\ u.phase = "inflight" THEN "failed" ELSE u.phase
    <3>1. p \in {"idle", "inflight", "failed"}
      BY <2>2 DEF Rows
    <3>2. row' = [u EXCEPT !.phase = p]
      BY <2>1
    <3> HIDE DEF p
    <3> QED BY <3>1, <3>2
  <2>4. /\ row' \in Rows /\ row'.op = row.op /\ row'.state = row.state /\ row'.at = row.at
        /\ row'.release = row.release /\ row'.receipt = row.receipt /\ row'.token = u.token
    BY <2>2, <2>3 DEF Rows
  <2>5. RowFits(row', waking') /\ Moves(row, row')
    <3>1. CASE u.token = row.token
      BY <1>1, <2>1, <2>4, <3>1, TouchedFits
    <3>2. CASE u.token # row.token
      BY <1>1, <2>1, <2>2, <2>4, <3>2 DEF RowFits, Moves
    <3> QED BY <3>1, <3>2
  <2> QED BY <1>1, <2>1, <2>5, ReturnKept
<1> QED BY <1>2, <1>3, <1>4, <1>5, <1>6, <1>7 DEF ReleaseStep

\* The activation command's recovery wake (commands/activate_fly_workspace.py).
LEMMA ActivationStepKept ==
    ASSUME PowerInv, NEW w \in Workers,
           ActivationStep(w) \/ ClaimActivation(w)
    PROVE  PowerInv'
<1> USE DEF work, provider
<1>1. /\ RowFits(row, waking) /\ row \in Rows /\ worker[w] \in Calls
      /\ machine \in MachineStates /\ current \in BOOLEAN
      /\ bundle \in {"none", "parked", "assigned", "failed", "exhausted"}
  BY DEF PowerInv, RowFits
<1>2. CASE ClaimActivation(w)
  <2> DEFINE c == [NoCall EXCEPT !.step = "inspect activation", !.token = FreshToken]
  <2>1. /\ row' = [row EXCEPT !.token = FreshToken, !.expired = FALSE]
        /\ worker' = [worker EXCEPT ![w] = c] /\ row.state \notin {"starting", "stopping"}
        /\ UNCHANGED <<bundle, queue, turn, prompts, waking, machine, current>>
    BY <1>2 DEF ClaimActivation
  <2>2. /\ FreshToken \in PowerIds /\ FreshToken # 0
        /\ \A v \in Workers : FreshToken # worker[v].token
    BY FreshIds
  <2>3. /\ row' \in Rows /\ row'.state = row.state /\ row'.op = row.op
        /\ row'.at = row.at /\ row'.token = FreshToken
    BY <1>1, <2>1, <2>2 DEF Rows
  <2>4. RowFits(row', waking') /\ Moves(row, row')
    BY <1>1, <2>1, <2>2, <2>3 DEF RowFits, Moves
  <2>5. c \in Calls /\ c.step = "inspect activation" /\ c.token = FreshToken
    <3>1. /\ "inspect activation" \in PowerSteps /\ 0 \in PowerIds /\ "none" \in Triggers
          /\ "idle" \in OperationStates
      BY DEF PowerSteps, ActivationSteps, PowerIds, Triggers, OperationStates
    <3> QED BY <2>2, <3>1 DEF Calls, NoCall
  <2> HIDE DEF c
  <2>6. Passes(c, row', HasWork(queue, turn))
    BY <2>1, <2>2, <2>3, <2>5 DEF Passes, CallerFits, Prepared, ReplaceSteps, PreparedSteps
  <2> QED BY <1>1, <2>1, <2>4, <2>6, TakeKept
<1>3. CASE InspectActivation(w)
  <2>1. /\ worker[w].step = "inspect activation"
        /\ Goto(w, "recovery wake") \/ Goto(w, "release activation")
        /\ UNCHANGED <<row, bundle, queue, turn, prompts, waking, machine, current>>
    BY <1>3 DEF InspectActivation, At
  <2> QED BY <1>1, <2>1, GotoKept, SameRowFits DEF PowerSteps, ActivationSteps, ReplaceSteps,
          PreparedSteps
<1>4. CASE RequestActivationRecoveryWake(w)
  <2>1. /\ worker[w].step = "recovery wake" /\ Goto(w, "release activation")
        /\ UNCHANGED <<queue, turn, prompts, waking, machine, current>>
    BY <1>4 DEF RequestActivationRecoveryWake, At
  <2>2. /\ RowFits(row', waking') /\ Moves(row, row')
        /\ bundle' \in {"none", "parked", "assigned", "failed", "exhausted"}
    <3>1. CASE UNCHANGED <<row, bundle>>
      BY <2>1, <3>1, SameRowFits
    <3>2. CASE /\ row' \in {OnboardingWake(EpochAdvanced(row)),
                           ExecutionWake(EpochAdvanced(row))}
               /\ bundle' \in {"assigned", bundle}
      <4> DEFINE e == EpochAdvanced(row)
      <4>1. /\ RowFits(e, waking) /\ e.receipt = "none" /\ e.op = row.op
            /\ e.token = row.token /\ e.state = row.state /\ e.release = row.release
        BY <1>1, EpochFits
      <4>2. RowFits(row', waking) /\ Moves(e, row')
        BY <3>2, <4>1, OnboardingWakeFits, ExecutionWakeFits
      <4> HIDE DEF e
      <4>3. Moves(row, row')
        BY <4>1, <4>2 DEF Moves
      <4> QED BY <1>1, <2>1, <3>2, <4>2, <4>3
    <3> QED BY <1>4, <3>1, <3>2 DEF RequestActivationRecoveryWake
  <2> QED BY <1>1, <2>1, <2>2, GotoKept DEF PowerSteps, ActivationSteps, ReplaceSteps, PreparedSteps
<1>5. CASE ReleaseActivationClaim(w)
  <2>1. /\ worker[w].step = "release activation" /\ Return(w)
        /\ row' = IF row.token = worker[w].token THEN Unclaimed(row) ELSE row
        /\ UNCHANGED <<bundle, queue, turn, prompts, waking, machine, current>>
    BY <1>5 DEF ReleaseActivationClaim, At
  <2>2. RowFits(row', waking') /\ Moves(row, row')
    <3>1. CASE row.token = worker[w].token
      <4>1. row.state \notin {"starting", "stopping"}
        BY <2>1, <3>1 DEF PowerInv, CallerFits, ActivationSteps
      <4>2. /\ row' \in Rows /\ row'.token = 0 /\ row'.op = row.op /\ row'.state = row.state
            /\ row'.at = row.at
        BY <1>1, <2>1, <3>1, UnclaimedFits
      <4> QED BY <1>1, <2>1, <4>1, <4>2 DEF RowFits, Moves
    <3>2. CASE row.token # worker[w].token
      BY <2>1, <3>2, SameRowFits
    <3> QED BY <3>1, <3>2
  <2> QED BY <1>1, <2>1, <2>2, ReturnKept
<1> QED BY <1>2, <1>3, <1>4, <1>5 DEF ActivationStep

\* A process dies, or a request of its own is refused or its answer lost.
LEMMA PowerFaultsKept ==
    ASSUME PowerInv, NEW w \in Workers,
           Crash(w) \/ RequestFails(w)
    PROVE  PowerInv'
<1> USE DEF work, provider
<1>1. /\ machine \in MachineStates /\ current \in BOOLEAN
  BY DEF PowerInv
<1>2. CASE Crash(w)
  <2>1. /\ Return(w)
        /\ UNCHANGED <<row, bundle, queue, turn, prompts, waking, machine, current>>
    BY <1>2 DEF Crash
  <2> QED BY <1>1, <2>1, ReturnKept, SameRowFits
<1>3. CASE RequestFails(w)
  <2>1. UNCHANGED <<queue, turn, prompts, current>>
    BY <1>3 DEF RequestFails
  <2>2. machine' \in MachineStates
    BY <1>1, <1>3 DEF RequestFails, StartRequest, StopRequest, MachineStates
  <2>3. ASSUME NEW retry \in BOOLEAN, NEW clear \in BOOLEAN,
               MarkOperationFailed(w, retry, clear)
        PROVE  PowerInv'
    BY <1>1, <2>1, <2>2, <2>3, MarkFailedKept
  <2>4. CASE At(w, "start") /\ Goto(w, "reinspect start") /\ UNCHANGED sameRow
    BY <1>1, <2>1, <2>2, <2>4, GotoKept, SameRowFits DEF PowerSteps, WakeSteps, ReplaceSteps,
       ActivationSteps, PreparedSteps, At, sameRow
  <2>5. CASE At(w, "stop") /\ Goto(w, "reinspect stop") /\ UNCHANGED sameRow
    BY <1>1, <2>1, <2>2, <2>5, GotoKept, SameRowFits DEF PowerSteps, StopSteps, ReplaceSteps,
       ActivationSteps, PreparedSteps, At, sameRow
  <2>6. \/ \E retry \in BOOLEAN, clear \in BOOLEAN : MarkOperationFailed(w, retry, clear)
        \/ At(w, "start") /\ Goto(w, "reinspect start") /\ UNCHANGED sameRow
        \/ At(w, "stop") /\ Goto(w, "reinspect stop") /\ UNCHANGED sameRow
    BY <1>3 DEF RequestFails
  <2> QED BY <2>3, <2>4, <2>5, <2>6
<1> QED BY <1>2, <1>3

\* The runtime reports and works; Machines settle and die; time passes.
LEMMA PowerRestKept ==
    ASSUME PowerInv,
           \/ ExpireUnacknowledgedReadiness \/ RuntimeStep \/ MachineSettles
           \/ TimePasses \/ ClaimExpires \/ MachineDies
    PROVE  PowerInv'
<1> USE DEF work, provider, bounds
<1>1. /\ RowFits(row, waking) /\ row \in Rows /\ worker \in [Workers -> Calls]
      /\ machine \in MachineStates /\ current \in BOOLEAN
      /\ bundle \in {"none", "parked", "assigned", "failed", "exhausted"}
      /\ prompts \in 0..MaxPrompts /\ queue \in 0..prompts
  BY DEF PowerInv, RowFits
<1>2. CASE ExpireUnacknowledgedReadiness
  <2>1. /\ MarkOperationFailedLocked(TRUE, FALSE)
        /\ UNCHANGED <<queue, turn, prompts, machine, current, worker>>
    BY <1>2 DEF ExpireUnacknowledgedReadiness
  <2>2. /\ RowFits(row', waking') /\ row'.token = 0
        /\ bundle' \in {"none", "parked", "assigned", "failed", "exhausted"}
    BY <2>1, FailedFits
  <2> QED BY <1>1, <2>1, <2>2, RowStepKept DEF Moves
<1>3. CASE ReadEpoch
  <2>1. current' = TRUE /\ UNCHANGED <<row, bundle, queue, turn, prompts, waking, machine, worker>>
    BY <1>3 DEF ReadEpoch
  <2> QED BY <1>1, <2>1, RowStepKept, SameRowFits
<1>4. CASE AcceptRuntimeReadiness
  <2>1. /\ UNCHANGED <<queue, turn, prompts, machine, current, worker>>
        /\ bundle' \in {"assigned", bundle} /\ row.state \in {"idle", "awaiting"}
        /\ waking' = IF row.state = "awaiting" THEN waking \ {row.op} ELSE waking
    BY <1>4 DEF AcceptRuntimeReadiness, AcceptsReadiness
  <2>2. CASE row.state = "idle"
    <3>1. row' = [row EXCEPT !.receipt = "live", !.fresh = TRUE] /\ waking' = waking
      BY <1>4, <2>1, <2>2 DEF AcceptRuntimeReadiness
    <3>2. /\ row' \in Rows /\ row'.state = "idle" /\ row'.op = row.op /\ row'.at = row.at
          /\ row'.token = row.token /\ row'.release = row.release
      BY <1>1, <2>2, <3>1 DEF Rows
    <3>3. RowFits(row', waking') /\ Moves(row, row')
      BY <1>1, <2>2, <3>1, <3>2 DEF RowFits, Moves
    <3> QED BY <1>1, <2>1, <3>3, RowStepKept
  <2>3. CASE row.state = "awaiting"
    <3> DEFINE u == [row EXCEPT !.state = "idle", !.op = 0, !.trigger = "none", !.at = "none",
                                !.retries = 0]
    <3>1. row' = [u EXCEPT !.receipt = "live", !.fresh = TRUE] /\ waking' = {}
      BY <1>1, <1>4, <2>1, <2>3 DEF AcceptRuntimeReadiness, RowFits
    <3>2. 0 \in 0..MaxRetries /\ 0 \in PowerIds
      BY LimitsAssumption DEF PowerIds
    <3>3. /\ u \in Rows /\ u.state = "idle" /\ u.op = 0 /\ u.at = "none"
          /\ u.token = row.token /\ u.release = row.release
      BY <1>1, <3>2 DEF Rows, OperationStates, Triggers
    <3> HIDE DEF u
    <3>4. /\ row' \in Rows /\ row'.state = "idle" /\ row'.op = 0 /\ row'.at = "none"
          /\ row'.token = row.token /\ row'.release = row.release
      BY <3>1, <3>3 DEF Rows
    <3>5. RowFits(row', waking') /\ Moves(row, row')
      BY <3>1, <3>4 DEF RowFits, Moves
    <3> QED BY <1>1, <2>1, <3>5, RowStepKept
  <2> QED BY <2>1, <2>2, <2>3
<1>5. ASSUME RowFits(row', waking'), Moves(row, row'), UNCHANGED <<bundle, worker, prompts>>,
             machine' \in MachineStates, current' \in BOOLEAN, queue' \in 0..prompts,
             HasWork(queue', turn') => HasWork(queue, turn)
      PROVE  PowerInv'
  <2>1. \A w \in Workers : Follows(worker[w], worker'[w])
    BY <1>5 DEF Follows
  <2>2. WorkFits(row', HasWork(queue', turn'))
    BY <1>5 DEF WorkFits
  <2> QED BY <1>1, <1>5, <2>1, <2>2, PowerKept
<1>6. CASE ClaimTurn \/ FinishTurn
  <2>1. UNCHANGED <<row, bundle, waking, machine, current, worker, prompts>>
    BY <1>6 DEF ClaimTurn, FinishTurn
  <2>2. queue' \in 0..prompts /\ (HasWork(queue', turn') => HasWork(queue, turn))
    <3>1. CASE ClaimTurn
      <4>1. CASE turn = "none" /\ queue > 0 /\ turn' = "live" /\ queue' = queue - 1
        BY <1>1, <4>1 DEF HasWork
      <4>2. CASE turn = "orphan" /\ turn' = "none" /\ UNCHANGED queue
        BY <1>1, <4>2 DEF HasWork
      <4> QED BY <3>1, <4>1, <4>2 DEF ClaimTurn
    <3>2. CASE FinishTurn
      BY <1>1, <3>2 DEF FinishTurn, HasWork
    <3> QED BY <1>6, <3>1, <3>2
  <2> QED BY <1>1, <1>5, <2>1, <2>2, SameRowFits
<1>7. ASSUME Down, UNCHANGED <<bundle, queue, waking, worker, prompts>> PROVE PowerInv'
  <2>1. /\ machine' = "stopped" /\ current' = FALSE
        /\ row' = [row EXCEPT !.receipt = IF @ = "live" THEN "dead" ELSE @]
        /\ turn' = IF turn = "live" THEN "orphan" ELSE turn
    BY <1>7 DEF Down
  <2>2. /\ row' \in Rows /\ row'.state = row.state /\ row'.op = row.op /\ row'.at = row.at
        /\ row'.token = row.token /\ row'.release = row.release
        /\ row.receipt = "none" => row'.receipt = "none"
    BY <1>1, <2>1 DEF Rows
  <2>3. RowFits(row', waking') /\ Moves(row, row')
    BY <1>1, <1>7, <2>2, TouchedFits
  <2>4. HasWork(queue', turn') => HasWork(queue, turn)
    BY <1>7, <2>1 DEF HasWork
  <2> QED BY <1>1, <1>5, <1>7, <2>1, <2>3, <2>4 DEF MachineStates
<1>8. CASE MachineSettles
  <2>1. UNCHANGED <<bundle, queue, waking, worker, prompts>>
    BY <1>8 DEF MachineSettles
  <2>2. CASE machine' = "started" /\ UNCHANGED <<row, turn, current>>
    BY <1>1, <2>1, <2>2, RowStepKept, SameRowFits DEF MachineStates
  <2> QED BY <1>7, <1>8, <2>1, <2>2 DEF MachineSettles
<1>9. CASE MachineDies
  BY <1>7, <1>9 DEF MachineDies
<1>10. ASSUME NEW n \in Rows, row' = n, n.op = row.op, n.state = row.state,
              n.at = "none" <=> row.at = "none", n.token = row.token,
              n.release = row.release, n.receipt = row.receipt,
              UNCHANGED <<bundle, queue, turn, prompts, waking, machine, current, worker>>
       PROVE  PowerInv'
  <2>1. RowFits(row', waking') /\ Moves(row, row')
    BY <1>1, <1>10, TouchedFits
  <2> QED BY <1>1, <1>10, <2>1, RowStepKept
<1>11. CASE RequestAges
  <2>1. PICK a \in {"due", "overdue"} : row' = [row EXCEPT !.at = a] /\ row.at \in {"later", "due"}
    BY <1>11 DEF RequestAges
  <2>2. /\ row' \in Rows /\ row'.op = row.op /\ row'.state = row.state /\ row'.at = a
        /\ row'.token = row.token /\ row'.release = row.release /\ row'.receipt = row.receipt
    BY <1>1, <2>1 DEF Rows
  <2>3. UNCHANGED <<bundle, queue, turn, prompts, waking, machine, current, worker>>
    BY <1>11 DEF RequestAges
  <2> QED BY <1>10, <2>1, <2>2, <2>3
<1>12. CASE ReceiptGoesStale \/ KeepWarmEnds \/ ClaimExpires
  <2>1. \/ row' = [row EXCEPT !.fresh = FALSE] \/ row' = [row EXCEPT !.warm = "past"]
        \/ row' = [row EXCEPT !.expired = TRUE]
    BY <1>12 DEF ReceiptGoesStale, KeepWarmEnds, ClaimExpires
  <2>2. /\ row' \in Rows /\ row'.op = row.op /\ row'.state = row.state /\ row'.at = row.at
        /\ row'.token = row.token /\ row'.release = row.release /\ row'.receipt = row.receipt
    BY <1>1, <2>1 DEF Rows
  <2>3. UNCHANGED <<bundle, queue, turn, prompts, waking, machine, current, worker>>
    BY <1>12 DEF ReceiptGoesStale, KeepWarmEnds, ClaimExpires
  <2> QED BY <1>10, <2>2, <2>3
<1>13. CASE IntentExpires
  <2>1. waking' = {} /\ UNCHANGED <<row, bundle, queue, turn, prompts, machine, current, worker>>
    BY <1>13 DEF IntentExpires
  <2>2. RowFits(row', waking') /\ Moves(row, row')
    BY <1>1, <2>1 DEF RowFits, Moves
  <2> QED BY <1>1, <2>1, <2>2, RowStepKept
<1> QED BY <1>2, <1>3, <1>4, <1>6, <1>8, <1>9, <1>11, <1>12, <1>13 DEF RuntimeStep,
        TimePasses

\* The first row has no operation, no claim and no receipt.
LEMMA PowerStarts ==
    ASSUME PowerInit
    PROVE  PowerInv
<1> USE DEF PowerInit
<1>1. 0 \in 0..MaxRetries /\ 0 \in 0..MaxReleaseAttempts /\ 0 \in 0..MaxPrompts /\ 0 \in PowerIds
  BY LimitsAssumption DEF PowerIds
<1>2. /\ row \in Rows /\ row.state = "idle" /\ row.op = 0 /\ row.at = "none"
  BY <1>1 DEF Rows, OperationStates, Triggers
<1>3. RowFits(row, waking)
  BY <1>2 DEF RowFits
<1>4. NoCall \in Calls /\ NoCall.step = "none"
  BY <1>1 DEF NoCall, Calls, PowerSteps, Triggers, OperationStates
<1>5. /\ worker \in [Workers -> Calls]
      /\ \A w \in Workers : CallerFits(worker[w], row) /\ ~Prepared(worker[w], row)
  BY <1>4 DEF CallerFits, Prepared, ReplaceSteps, ActivationSteps, PreparedSteps
<1>6. bundle \in {"none", "parked", "assigned", "failed", "exhausted"}
  BY LimitsAssumption, Zenon
<1>7. machine \in MachineStates
  BY DEF MachineStates
<1>8. current \in BOOLEAN
  OBVIOUS
<1>9. prompts \in 0..MaxPrompts /\ queue \in 0..prompts
  <2>1. prompts = 0 /\ queue = 0
    OBVIOUS
  <2> QED BY <1>1, <2>1
<1> QED BY <1>3, <1>5, <1>6, <1>7, <1>8, <1>9 DEF PowerInv

\* The invariant holds in every state of the workspace's power.
LEMMA PowerInvariant == PowerSpec => []PowerInv
<1>1. PowerInit => PowerInv
  BY PowerStarts
<1>2. PowerInv /\ [PowerNext]_powerVars => PowerInv'
  <2> SUFFICES ASSUME PowerInv, [PowerNext]_powerVars PROVE PowerInv'
    OBVIOUS
  <2>1. CASE \/ Prompt \/ RepeatedPrompt \/ Assign
             \/ \E limited \in BOOLEAN : Intent(limited)
    BY <2>1, PowerRequestsKept
  <2>2. ASSUME NEW w \in Workers,
               \/ WakeStep(w) \/ StopStep(w) \/ RecoveryStep(w)
               \/ ReleaseStep(w) \/ ActivationStep(w)
               \/ ClaimIdleOperation(w) \/ ReconcileRuntimeImage(w)
               \/ ClaimActivation(w) \/ Crash(w) \/ RequestFails(w)
               \/ \E terminally \in BOOLEAN : ReplacementFails(w, terminally)
        PROVE  PowerInv'
    BY <2>2, WakeStepKept, StopStepKept, RecoveryStepKept, ReleaseStepKept, ActivationStepKept,
       PowerFaultsKept
  <2>3. CASE \/ ExpireUnacknowledgedReadiness \/ RuntimeStep \/ MachineSettles
             \/ TimePasses \/ ClaimExpires \/ MachineDies
    BY <2>3, PowerRestKept
  <2>4. CASE UNCHANGED powerVars
    BY <2>4 DEF powerVars, PowerInv
  <2> QED BY <2>1, <2>2, <2>3, <2>4 DEF PowerNext
<1> QED BY <1>1, <1>2, PTL DEF PowerSpec

\* A prepared stop that still holds its claim finds a workspace with nothing to do and
\* no runtime that counts as ready, and the Workspace row keeps its constraints: for
\* every set of processes and every number of prompts, intents, commands, retries,
\* release attempts and faults (_prepare_stop, _owns_operation).
THEOREM PreparedStopsAreIdle == PowerSpec => []StopsOnlyIdleWorkspaces
<1>1. PowerInv => StopsOnlyIdleWorkspaces
  <2> SUFFICES ASSUME PowerInv PROVE StopsOnlyIdleWorkspaces
    OBVIOUS
  <2>1. queue \in 0..MaxPrompts
    BY LimitsAssumption DEF PowerInv
  <2>2. PowerTypeOK
    BY <2>1 DEF PowerInv, RowFits, Rows, PowerIds, PowerTypeOK
  <2>3. ASSUME NEW w \in Workers, StopIsPrepared(w)
        PROVE  ~Busy /\ row.receipt = "none"
    <3>1. Prepared(worker[w], row)
      BY <2>3 DEF StopIsPrepared, OwnsOperation, SameClaim, Prepared, PreparedSteps
    <3> QED BY <3>1 DEF PowerInv, HasWork, Busy
  <2> QED BY <2>2, <2>3 DEF StopsOnlyIdleWorkspaces
<1> QED BY <1>1, PowerInvariant, PTL

=============================================================================
