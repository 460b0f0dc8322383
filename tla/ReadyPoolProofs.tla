--------------------------- MODULE ReadyPoolProofs ---------------------------
(***************************************************************************)
(* Theorems about ReadyPool, for any number of maintenance passes, rows,   *)
(* tenants and faults and every positive target.                           *)
(***************************************************************************)
EXTENDS ReadyPool, FiniteSetTheorems, WellFoundedInduction, TLAPS

Row == [state : States, tenant : Tenants \cup {Pool}, release : BOOLEAN,
        fresh : {"fresh", "old", "expired"}, blank : BOOLEAN,
        owned : {"no", "keys", "all"},
        machine : {"none", "started", "stopped", "destroyed"}, receipt : BOOLEAN,
        owner : Procs \cup {None, Nobody}, live : BOOLEAN, attempts : 0..MaxAttempts]

Steps == {"idle", "prepare", "activated", "park", "stop", "parked", "sleep", "slept",
          "health", "checked", "cleanup", "destroy", "destroyed"}
Outcomes == {None, "ok", "invalid", "pending", "pending blank", "retry", "refused", "lost"}
Job == [at : Steps, bundle : Bundles \cup {0}, result : Outcomes]

\* Rows that count against the capacity, and rows that no tenant will get.
Held == {"preparing", "ready", "parking", "sleeping"}
Doomed == {"evicting", "evicted", "failed"}

-----------------------------------------------------------------------------
(* The inductive invariant.                                                *)

\* A row that is ready has all it needs, only a started Machine answers, and
\* no pass holds a claim on a row that a tenant was given.
RowOK(w) ==
    /\ w.live <=> w.owner \in Procs
    /\ w.state = "assigned" <=> w.tenant # Pool
    /\ w.state \in {"ready", "parking", "sleeping", "assigned"} =>
          w.blank /\ w.owned = "all" /\ w.machine \in {"started", "stopped"}
    /\ w.receipt => w.owned = "all" /\ w.machine = "started"
    /\ w.state = "assigned" => w.owner = None

Counted == on \in BOOLEAN /\ faults \in 0..MaxFaults /\ events \in 0..MaxEvents

Rows == bundle \in [Bundles -> Row] /\ \A b \in Bundles : RowOK(bundle[b])

\* A pass that has been allowed to destroy works on a row that no tenant will
\* get, even after it lost its claim.
Jobs ==
    /\ job \in [Procs -> Job]
    /\ \A p \in Procs :
          /\ job[p].at # "idle" => job[p].bundle \in Bundles
          /\ job[p].at \in {"destroy", "destroyed"} =>
                bundle[job[p].bundle].state \in Doomed

Within ==
    /\ Cardinality(In(Held)) <= Target + MaxPreparing
    /\ Cardinality(In({"preparing"})) <= MaxPreparing

PoolInv == Counted /\ Rows /\ Jobs /\ Within

-----------------------------------------------------------------------------
(* What one step may make of a row.  All steps but Create keep to it.      *)

Follows(w, v) ==
    /\ v \in Row /\ RowOK(v)
    /\ v.state \in Held => w.state \in Held
    /\ v.state = "preparing" => w.state = "preparing"
    /\ w.state \in Doomed => v.state \in Doomed
    /\ w.state = "assigned" =>
          v.state = "assigned" /\ v.tenant = w.tenant /\ v.owner = w.owner

Moves ==
    /\ bundle' \in [Bundles -> Row]
    /\ \A b \in Bundles : Follows(bundle[b], bundle'[b])

\* The names of processes and tenants are distinct from the marks.
LEMMA Names ==
    /\ None \notin Procs /\ Nobody \notin Procs /\ Pool \notin Tenants
    /\ MaxPreparing = 1 /\ Target \in Nat /\ MaxAttempts \in Nat /\ MaxAttempts > 0
    /\ MaxFaults \in Nat /\ MaxEvents \in Nat
    BY PoolAssumption, NamesAssumption

\* A row may stay as it is.
LEMMA FollowsSame ==
    ASSUME NEW w \in Row, RowOK(w)
    PROVE  Follows(w, w)
    BY DEF Follows

\* The rows that the claims and the records write.
LEMMA FollowsClaimed ==
    ASSUME NEW w \in Row, NEW v \in Row, Follows(w, v),
           w.state # "assigned", v.state # "assigned", NEW p \in Procs
    PROVE  Follows(w, Claimed(p, v))
    BY Names DEF Follows, RowOK, Row, Claimed

\* The rows that the steps write are copies with some columns replaced.
LEMMA FollowsRetired ==
    ASSUME NEW w \in Row, RowOK(w), w.state # "assigned", NEW s \in {"evicting", "failed"}
    PROVE  Follows(w, Retired(w, s))
    BY Names DEF Follows, RowOK, Row, Retired, States, Held, Doomed

\* Giving the claim up changes nothing else.
LEMMA FollowsFreed ==
    ASSUME NEW w \in Row, NEW v \in Row, Follows(w, v), w.state # "assigned"
    PROVE  Follows(w, Freed(v))
    BY Names DEF Follows, RowOK, Row, Freed

\* An attempt more is counted up to the maximum.
LEMMA FollowsOneMore ==
    ASSUME NEW w \in Row, RowOK(w)
    PROVE  Follows(w, OneMore(w))
    <1> DEFINE n == IF w.attempts < MaxAttempts THEN w.attempts + 1 ELSE w.attempts
    <1>1. n \in 0..MaxAttempts
        BY Names DEF Row
    <1>2. OneMore(w) = [w EXCEPT !.attempts = n]
        BY DEF OneMore
    <1> HIDE DEF n
    <1> QED
        BY <1>1, <1>2 DEF Follows, RowOK, Row

\* A fresh check resets the attempts.
LEMMA FollowsRefreshed ==
    ASSUME NEW w \in Row, RowOK(w)
    PROVE  Follows(w, Refreshed(w))
    <1>1. 0 \in 0..MaxAttempts
        BY Names
    <1> QED
        BY <1>1 DEF Follows, RowOK, Row, Refreshed

\* Two such changes in one transaction are one.
LEMMA FollowsTrans ==
    ASSUME NEW u \in Row, NEW v \in Row, NEW w \in Row, Follows(u, v), Follows(v, w)
    PROVE  Follows(u, w)
    BY DEF Follows

-----------------------------------------------------------------------------
(* How the parts of the invariant survive a write to one row and one job.  *)

Kept == Counted' /\ Moves /\ Jobs'

\* A step that writes one row.
LEMMA SetMoves ==
    ASSUME Rows, NEW b \in Bundles, NEW v, Follows(bundle[b], v), Set(b, v)
    PROVE  Moves
    <1>1. v \in Row
        BY DEF Follows
    <1>2. bundle' \in [Bundles -> Row] /\ bundle'[b] = v
        BY <1>1 DEF Set, Rows
    <1>3. ASSUME NEW c \in Bundles, c # b
          PROVE  Follows(bundle[c], bundle'[c])
        <2>1. bundle'[c] = bundle[c] /\ bundle[c] \in Row /\ RowOK(bundle[c])
            BY <1>3 DEF Set, Rows
        <2> QED
            BY <2>1, FollowsSame
    <1> QED
        BY <1>2, <1>3 DEF Moves

\* A step that writes no row.
LEMMA SameMoves ==
    ASSUME Rows, UNCHANGED bundle
    PROVE  Moves
    BY FollowsSame DEF Rows, Moves

\* A step of another moves no row out of the states a destruction needs.
LEMMA JobsKept ==
    ASSUME Jobs, Moves, UNCHANGED job
    PROVE  Jobs'
    BY DEF Jobs, Moves, Follows

\* A step that gives one process a job.
LEMMA JobsSet ==
    ASSUME Jobs, Moves, NEW p \in Procs, NEW j \in Job,
           job' = [job EXCEPT ![p] = j],
           j.at # "idle" => j.bundle \in Bundles,
           j.at \in {"destroy", "destroyed"} => bundle'[j.bundle].state \in Doomed
    PROVE  Jobs'
    <1>1. job' \in [Procs -> Job] /\ job'[p] = j
        BY DEF Jobs
    <1>2. ASSUME NEW q \in Procs, q # p
          PROVE  job'[q] = job[q]
        BY <1>2 DEF Jobs
    <1>3. ASSUME NEW q \in Procs
          PROVE  /\ job'[q].at # "idle" => job'[q].bundle \in Bundles
                 /\ job'[q].at \in {"destroy", "destroyed"} =>
                       bundle'[job'[q].bundle].state \in Doomed
        <2>1. CASE q = p
            BY <2>1, <1>1
        <2>2. CASE q # p
            BY <2>2, <1>2 DEF Jobs, Moves, Follows
        <2> QED
            BY <2>1, <2>2
    <1> QED
        BY <1>1, <1>3 DEF Jobs

\* A step that ends a job.
LEMMA JobsDone ==
    ASSUME Jobs, Moves, NEW p \in Procs, Done(p)
    PROVE  Jobs'
    <1>1. Idle \in Job /\ Idle.at = "idle"
        BY DEF Idle, Job, Steps, Outcomes, None
    <1> QED
        BY <1>1, JobsSet DEF Done

\* A step that takes a job to its next call or its result.
LEMMA JobsStep ==
    ASSUME Jobs, Moves, NEW p \in Procs, NEW a \in Steps, NEW r \in Outcomes,
           job[p].at # "idle", job' = [job EXCEPT ![p].at = a, ![p].result = r],
           a \in {"destroy", "destroyed"} => bundle'[job[p].bundle].state \in Doomed
    PROVE  Jobs'
    <1> DEFINE j == [job[p] EXCEPT !.at = a, !.result = r]
    <1>1. job[p] \in Job /\ job[p].bundle \in Bundles
        BY DEF Jobs
    <1>2. j \in Job /\ j.at = a /\ j.bundle = job[p].bundle
        BY <1>1 DEF Job
    <1>3. job' = [job EXCEPT ![p] = j]
        BY DEF Jobs
    <1> HIDE DEF j
    <1> QED
        BY <1>1, <1>2, <1>3, JobsSet

\* Steps that use no fault and no event.
LEMMA CountedKept ==
    ASSUME Counted, UNCHANGED <<on, faults, events>>
    PROVE  Counted'
    BY DEF Counted

\* A step that may use a fault.
LEMMA CountedFails ==
    ASSUME Counted, UNCHANGED <<on, events>>,
           \/ faults' = faults
           \/ MayFail /\ faults' = faults + 1
    PROVE  Counted'
    BY Names DEF Counted, MayFail

\* A step that uses an event.
LEMMA CountedDisturbs ==
    ASSUME Counted, UNCHANGED on, Disturbs
    PROVE  Counted'
    BY Names DEF Counted, Disturbs

\* The row of a job; the holder of a live claim never holds an assigned row.
LEMMA MineOK ==
    ASSUME Rows, Jobs, NEW p \in Procs, job[p].at # "idle"
    PROVE  /\ job[p].bundle \in Bundles /\ Mine(p) = bundle[job[p].bundle]
           /\ Mine(p) \in Row /\ RowOK(Mine(p))
           /\ OwnsClaim(p) => Mine(p).state # "assigned"
    <1>1. job[p].bundle \in Bundles /\ Mine(p) = bundle[job[p].bundle]
        BY DEF Jobs, Mine
    <1>2. Mine(p) \in Row /\ RowOK(Mine(p))
        BY <1>1 DEF Rows
    <1>3. OwnsClaim(p) => Mine(p).state # "assigned"
        BY <1>2, Names DEF OwnsClaim, RowOK
    <1> QED
        BY <1>1, <1>2, <1>3

\* A claim, a step that writes the row and ends the job, and one that goes on.
LEMMA TakeKept ==
    ASSUME Counted, Rows, Jobs, NEW p \in Procs, NEW b \in Bundles, NEW v,
           Follows(bundle[b], v), bundle[b].state # "assigned", v.state # "assigned",
           NEW a \in {"prepare", "park", "sleep", "health", "cleanup"}, Take(p, b, v, a)
    PROVE  Kept
    <1>1. bundle[b] \in Row /\ v \in Row
        BY DEF Rows, Follows
    <1>2. Moves
        <2>1. Follows(bundle[b], Claimed(p, v))
            BY <1>1, FollowsClaimed
        <2> QED
            BY <2>1, SetMoves DEF Take
    <1>3. Jobs'
        <2> DEFINE j == [at |-> a, bundle |-> b, result |-> None]
        <2>1. j \in Job /\ j.at = a /\ j.bundle = b
            BY DEF Job, Steps, Outcomes
        <2>2. job' = [job EXCEPT ![p] = j]
            BY DEF Take
        <2> HIDE DEF j
        <2> QED
            BY <1>2, <2>1, <2>2, JobsSet
    <1> QED
        BY <1>2, <1>3, CountedKept DEF Kept, Take

\* A step that writes the row of a job and ends the job.
LEMMA EndKept ==
    ASSUME Counted, Rows, Jobs, NEW p \in Procs, job[p].at # "idle", NEW v,
           Follows(Mine(p), v), Set(job[p].bundle, v), Done(p),
           UNCHANGED <<on, faults, events>>
    PROVE  Kept
    BY MineOK, SetMoves, JobsDone, CountedKept DEF Kept

\* A step that ends a job and writes nothing.
LEMMA DropKept ==
    ASSUME Counted, Rows, Jobs, NEW p \in Procs, Done(p),
           UNCHANGED <<bundle, on, faults, events>>
    PROVE  Kept
    BY SameMoves, JobsDone, CountedKept DEF Kept

-----------------------------------------------------------------------------
(* Claims.                                                                 *)

\* A claim of a row that is available takes it as it is or retires it.
LEMMA AvailableRow ==
    ASSUME Rows, NEW b \in Bundles, NEW busy, Available(b, busy)
    PROVE  /\ bundle[b] \in Row /\ RowOK(bundle[b]) /\ bundle[b].state # "assigned"
           /\ Follows(bundle[b], bundle[b])
           /\ Follows(bundle[b], Evicting(bundle[b]))
           /\ Evicting(bundle[b]).state # "assigned"
    <1>1. bundle[b] \in Row /\ RowOK(bundle[b]) /\ bundle[b].state # "assigned"
        BY DEF Rows, RowOK, Available
    <1>2. Follows(bundle[b], Evicting(bundle[b]))
        BY <1>1, FollowsRetired DEF Evicting
    <1>3. Evicting(bundle[b]).state # "assigned"
        BY <1>1 DEF Evicting, Retired, Row
    <1> QED
        BY <1>1, <1>2, <1>3, FollowsSame

\* The claim of a row that is due.
LEMMA KeptClaimDue ==
    ASSUME Counted, Rows, Jobs, NEW p \in Procs, NEW busy, ClaimDue(p, busy)
    PROVE  Kept
    <1>1. PICK b \in Due(busy) : Take(p, b, bundle[b], ActionOf(bundle[b]))
        BY DEF ClaimDue
    <1>2. b \in Bundles /\ Available(b, busy)
        BY DEF Due, In
    <1>3. ActionOf(bundle[b]) \in {"prepare", "park", "sleep", "health", "cleanup"}
        BY DEF ActionOf
    <1> QED
        BY <1>1, <1>2, <1>3, AvailableRow, TakeKept

\* The claims that send a row to eviction.
LEMMA KeptClaimEvict ==
    ASSUME Counted, Rows, Jobs, NEW p \in Procs, NEW busy, ClaimDrain(p, busy) \/ ClaimStale(p, busy)
    PROVE  Kept
    <1>1. PICK b \in Drainable(busy) \cup StaleReady(busy) : Take(p, b, Evicting(bundle[b]), "cleanup")
        BY DEF ClaimDrain, ClaimStale
    <1>2. b \in Bundles /\ Available(b, busy)
        BY DEF Drainable, StaleReady, In
    <1> QED
        BY <1>1, <1>2, AvailableRow, TakeKept

\* The claim of a ready row that is to sleep.
LEMMA KeptClaimPark ==
    ASSUME Counted, Rows, Jobs, NEW p \in Procs, NEW busy, ClaimPark(p, busy)
    PROVE  Kept
    <1>1. PICK b \in Parkable(busy) : Take(p, b, [bundle[b] EXCEPT !.state = "parking"], "park")
        BY DEF ClaimPark
    <1>2. b \in Bundles /\ Available(b, busy) /\ bundle[b].state = "ready"
        BY DEF Parkable, In
    <1> DEFINE v == [bundle[b] EXCEPT !.state = "parking"]
    <1>3. Follows(bundle[b], v) /\ v.state # "assigned"
        <2>1. bundle[b] \in Row /\ RowOK(bundle[b])
            BY <1>2, AvailableRow
        <2> QED
            BY <1>2, <2>1 DEF Follows, Row, RowOK, States, Held, Doomed
    <1> HIDE DEF v
    <1>4. Take(p, b, v, "park")
        BY <1>1 DEF v
    <1> QED
        BY <1>2, <1>3, <1>4, AvailableRow, TakeKept

\* The claims of a check.
LEMMA KeptClaimCheck ==
    ASSUME Counted, Rows, Jobs, NEW p \in Procs, NEW busy, ClaimSleepCheck(p, busy) \/ ClaimHealthCheck(p, busy)
    PROVE  Kept
    <1>1. PICK b \in SleepChecks(busy) \cup ToCheck("ready", busy), a \in {"sleep", "health"} :
              Take(p, b, bundle[b], a)
        BY DEF ClaimSleepCheck, ClaimHealthCheck
    <1>2. b \in Bundles /\ Available(b, busy)
        BY DEF SleepChecks, ToCheck, In
    <1> QED
        BY <1>1, <1>2, AvailableRow, TakeKept

-----------------------------------------------------------------------------
(* Records.                                                                *)

\* A record by the holder of the claim, or by one who lost it.
LEMMA KeptRecord ==
    ASSUME Counted, Rows, Jobs, NEW p \in Procs, job[p].at # "idle", NEW v,
           OwnsClaim(p) => Follows(Mine(p), v), Record(p, v)
    PROVE  Kept
    <1> DEFINE u == IF OwnsClaim(p) THEN Freed(v) ELSE Mine(p)
    <1>1. Follows(Mine(p), u)
        <2>1. CASE OwnsClaim(p)
            <3>1. v \in Row
                BY <2>1 DEF Follows
            <3> QED
                BY <2>1, <3>1, MineOK, FollowsFreed
        <2>2. CASE ~OwnsClaim(p)
            BY <2>2, MineOK, FollowsSame
        <2> QED
            BY <2>1, <2>2
    <1>2. Set(job[p].bundle, u) /\ Done(p) /\ UNCHANGED <<on, faults, events>>
        BY DEF Record
    <1> HIDE DEF u
    <1> QED
        BY <1>1, <1>2, EndKept

\* A promotion, if the claim and the row still allow it.
LEMMA KeptPromote ==
    ASSUME Counted, Rows, Jobs, NEW p \in Procs, job[p].at # "idle",
           NEW allowed \in BOOLEAN, NEW v,
           OwnsClaim(p) /\ allowed => Follows(Mine(p), v), Promote(p, allowed, v)
    PROVE  Kept
    <1> DEFINE u == IF OwnsClaim(p) /\ allowed THEN Freed(v) ELSE Mine(p)
    <1>1. Follows(Mine(p), u)
        <2>1. CASE OwnsClaim(p) /\ allowed
            <3>1. v \in Row
                BY <2>1 DEF Follows
            <3> QED
                BY <2>1, <3>1, MineOK, FollowsFreed
        <2>2. CASE ~(OwnsClaim(p) /\ allowed)
            BY <2>2, MineOK, FollowsSame
        <2> QED
            BY <2>1, <2>2
    <1>2. Set(job[p].bundle, u) /\ Done(p) /\ UNCHANGED <<on, faults, events>>
        BY DEF Promote
    <1> HIDE DEF u
    <1> QED
        BY <1>1, <1>2, EndKept

\* Nothing has happened yet.
LEMMA KeptRecordPending ==
    ASSUME Counted, Rows, Jobs, NEW p \in Procs, job[p].at # "idle", RecordPending(p)
    PROVE  Kept
    BY MineOK, FollowsSame, KeptRecord DEF RecordPending

\* The row of an attempt that was the last.
LEMMA FollowsFailed ==
    ASSUME NEW w \in Row, RowOK(w), w.state # "assigned"
    PROVE  Follows(w, Retired(OneMore(w), "failed"))
    <1>1. Follows(w, OneMore(w)) /\ OneMore(w) \in Row /\ RowOK(OneMore(w))
        BY FollowsOneMore DEF Follows
    <1>2. OneMore(w).state # "assigned"
        BY DEF OneMore, Row
    <1>3. Follows(OneMore(w), Retired(OneMore(w), "failed"))
        BY <1>1, <1>2, FollowsRetired
    <1>4. Retired(OneMore(w), "failed") \in Row
        BY <1>3 DEF Follows
    <1> QED
        BY <1>1, <1>3, <1>4, FollowsTrans

\* A failed attempt; the last one fails the bundle.
LEMMA KeptRecordRetry ==
    ASSUME Counted, Rows, Jobs, NEW p \in Procs, job[p].at # "idle",
           RecordRetry(p) \/ RecordPhaseRetry(p)
    PROVE  Kept
    <1>1. PICK v \in {OneMore(Mine(p)), Retired(OneMore(Mine(p)), "failed")} : Record(p, v)
        BY DEF RecordRetry, RecordPhaseRetry
    <1>2. OwnsClaim(p) => Follows(Mine(p), v)
        BY MineOK, FollowsOneMore, FollowsFailed
    <1> QED
        BY <1>1, <1>2, KeptRecord

\* A failure for good; an assigned row is left alone.
LEMMA KeptRecordTerminalFailure ==
    ASSUME Counted, Rows, Jobs, NEW p \in Procs, job[p].at # "idle", RecordTerminalFailure(p)
    PROVE  Kept
    <1>1. CASE Mine(p).state = "assigned"
        BY <1>1, DropKept DEF RecordTerminalFailure
    <1>2. CASE Mine(p).state # "assigned"
        BY <1>2, MineOK, FollowsFailed, KeptRecord DEF RecordTerminalFailure
    <1> QED
        BY <1>1, <1>2

\* A step that writes the row and takes the pass to its next step.
LEMMA StepKept ==
    ASSUME Counted, Rows, Jobs, NEW p \in Procs, job[p].at # "idle", NEW v,
           Follows(Mine(p), v), Set(job[p].bundle, v),
           NEW a \in Steps, NEW r \in Outcomes,
           job' = [job EXCEPT ![p].at = a, ![p].result = r],
           a \in {"destroy", "destroyed"} => v.state \in Doomed, Counted'
    PROVE  Kept
    <1>1. Moves
        BY MineOK, SetMoves
    <1>2. bundle'[job[p].bundle] = v
        BY MineOK DEF Set, Rows
    <1>3. Jobs'
        BY <1>1, <1>2, JobsStep
    <1> QED
        BY <1>1, <1>3 DEF Kept

\* The same for a step that leaves the row alone.
LEMMA GoKept ==
    ASSUME Counted, Rows, Jobs, NEW p \in Procs, job[p].at # "idle",
           NEW a \in Steps, NEW r \in Outcomes,
           job' = [job EXCEPT ![p].at = a, ![p].result = r],
           a \in {"destroy", "destroyed"} => Mine(p).state \in Doomed,
           UNCHANGED <<bundle, on, faults, events>>
    PROVE  Kept
    BY MineOK, SameMoves, CountedKept, JobsStep DEF Kept

\* A job that has not called has no outcome.
LEMMA NoneIsOutcome ==
    None \in Outcomes
    BY DEF Outcomes

\* A holder sends its row to eviction, unless it is assigned.
LEMMA KeptTransitionToEvicting ==
    ASSUME Counted, Rows, Jobs, NEW p \in Procs, job[p].at # "idle", TransitionToEvicting(p)
    PROVE  Kept
    <1>1. CASE MayEvict(p)
        <2>1. Follows(Mine(p), Evicting(Mine(p)))
            BY <1>1, MineOK, FollowsRetired DEF MayEvict, Evicting
        <2>2. /\ Set(job[p].bundle, Evicting(Mine(p)))
              /\ job' = [job EXCEPT ![p].at = "cleanup", ![p].result = None]
              /\ UNCHANGED <<on, faults, events>>
            BY <1>1 DEF TransitionToEvicting, Go
        <2>3. "cleanup" \in Steps
            BY DEF Steps
        <2> QED
            BY <2>1, <2>2, <2>3, NoneIsOutcome, CountedKept, StepKept
    <1>2. CASE ~MayEvict(p)
        BY <1>2, DropKept DEF TransitionToEvicting
    <1> QED
        BY <1>1, <1>2

\* A holder wakes a sleeping row to park it again.
LEMMA KeptTransitionToParking ==
    ASSUME Counted, Rows, Jobs, NEW p \in Procs, job[p].at # "idle", TransitionToParking(p)
    PROVE  Kept
    <1>1. CASE OwnsClaim(p) /\ Mine(p).state = "sleeping"
        <2> DEFINE v == [Mine(p) EXCEPT !.state = "parking"]
        <2>1. Follows(Mine(p), v)
            <3>1. Mine(p) \in Row /\ RowOK(Mine(p))
                BY MineOK
            <3> QED
                BY <1>1, <3>1 DEF Follows, Row, RowOK, States, Held, Doomed
        <2>2. /\ Set(job[p].bundle, v)
              /\ job' = [job EXCEPT ![p].at = "park", ![p].result = None]
              /\ UNCHANGED <<on, faults, events>>
            BY <1>1 DEF TransitionToParking, Go
        <2>3. "park" \in Steps
            BY DEF Steps
        <2> HIDE DEF v
        <2> QED
            BY <2>1, <2>2, <2>3, NoneIsOutcome, CountedKept, StepKept
    <1>2. CASE ~(OwnsClaim(p) /\ Mine(p).state = "sleeping")
        BY <1>2, DropKept DEF TransitionToParking
    <1> QED
        BY <1>1, <1>2

-----------------------------------------------------------------------------
(* Promotions.                                                             *)

\* The promotion to ready.
LEMMA KeptMarkReady ==
    ASSUME Counted, Rows, Jobs, NEW p \in Procs, job[p].at # "idle", MarkReady(p)
    PROVE  Kept
    <1> DEFINE allowed == Mine(p).state = "preparing" /\ DbBlankReady(Mine(p), TRUE)
               v == [Refreshed(Mine(p)) EXCEPT !.state = "ready", !.blank = TRUE]
    <1>1. Mine(p) \in Row /\ RowOK(Mine(p))
        BY MineOK
    <1>2. Refreshed(Mine(p)) \in Row /\ RowOK(Refreshed(Mine(p)))
        BY <1>1, FollowsRefreshed DEF Follows
    <1>3. /\ Refreshed(Mine(p)).receipt = Mine(p).receipt
          /\ Refreshed(Mine(p)).tenant = Mine(p).tenant
          /\ Refreshed(Mine(p)).owner = Mine(p).owner
        BY <1>1 DEF Refreshed, Row
    <1>4. allowed => Follows(Mine(p), v)
        BY <1>1, <1>2, <1>3 DEF Follows, Row, RowOK, States, Held, Doomed, DbBlankReady
    <1>5. Promote(p, allowed, v) /\ allowed \in BOOLEAN
        BY DEF MarkReady
    <1> HIDE DEF allowed, v
    <1> QED
        BY <1>4, <1>5, KeptPromote

\* The promotion to sleeping.
LEMMA KeptMarkSleeping ==
    ASSUME Counted, Rows, Jobs, NEW p \in Procs, job[p].at # "idle", MarkSleeping(p)
    PROVE  Kept
    <1> DEFINE allowed == /\ Mine(p).state = "parking" /\ Mine(p).blank
                          /\ DbBlankReady(Mine(p), FALSE)
               v == [Refreshed(Mine(p)) EXCEPT !.state = "sleeping"]
    <1>1. Mine(p) \in Row /\ RowOK(Mine(p))
        BY MineOK
    <1>2. Refreshed(Mine(p)) \in Row /\ RowOK(Refreshed(Mine(p)))
        BY <1>1, FollowsRefreshed DEF Follows
    <1>3. Refreshed(Mine(p)).state = Mine(p).state
        BY <1>1 DEF Refreshed, Row
    <1>4. allowed => Follows(Mine(p), v)
        BY <1>1, <1>2, <1>3 DEF Follows, Row, RowOK, States, Held, Doomed
    <1>5. Promote(p, allowed, v) /\ allowed \in BOOLEAN
        BY DEF MarkSleeping
    <1> HIDE DEF allowed, v
    <1> QED
        BY <1>4, <1>5, KeptPromote

\* A check that found the bundle as it should be.
LEMMA KeptRefresh ==
    ASSUME Counted, Rows, Jobs, NEW p \in Procs, job[p].at # "idle",
           RefreshHealth(p) \/ RefreshSleep(p)
    PROVE  Kept
    <1>1. PICK allowed \in BOOLEAN : Promote(p, allowed, Refreshed(Mine(p)))
        BY DEF RefreshHealth, RefreshSleep
    <1> QED
        BY <1>1, MineOK, FollowsRefreshed, KeptPromote

\* A row is marked as evicted by a pass that was allowed to destroy it.
LEMMA KeptMarkEvicted ==
    ASSUME Counted, Rows, Jobs, NEW p \in Procs, job[p].at = "destroyed", MarkEvicted(p)
    PROVE  Kept
    <1>0. PICK busy \in MayBeBusy(p) :
              Promote(p, Mine(p).state # "assigned" /\ CleanupAllowed(Mine(p), busy),
                      [NoBundle EXCEPT !.state = "evicted"])
        BY DEF MarkEvicted
    <1> DEFINE allowed == Mine(p).state # "assigned" /\ CleanupAllowed(Mine(p), busy)
               v == [NoBundle EXCEPT !.state = "evicted"]
    <1>1. Mine(p).state \in Doomed
        BY MineOK DEF Jobs
    <1>2. 0 \in 0..MaxAttempts
        BY Names
    <1>3. Follows(Mine(p), v)
        BY <1>1, <1>2, Names DEF Follows, Row, RowOK, NoBundle, States, Held, Doomed
    <1>4. Promote(p, allowed, v) /\ allowed \in BOOLEAN
        BY <1>0
    <1> HIDE DEF allowed, v
    <1> QED
        BY <1>3, <1>4, KeptPromote

-----------------------------------------------------------------------------
(* The steps of a pass.                                                    *)

\* Activation may reach a row that is no longer the pass's: it changes what
\* exists of the bundle and never the row's state, tenant or claim.
LEMMA FollowsActivated ==
    ASSUME NEW w \in Row, RowOK(w), w.machine # "destroyed",
           NEW o \in {"no", "keys", "all"}, w.owned = "all" => o = "all", NEW r \in BOOLEAN
    PROVE  /\ Follows(w, [w EXCEPT !.owned = "all", !.machine = "started"])
           /\ Follows(w, [[w EXCEPT !.owned = "all", !.machine = "started"]
                            EXCEPT !.receipt = r])
           /\ Follows(w, [w EXCEPT !.owned = o])
    <1>1. Follows(w, [w EXCEPT !.owned = "all", !.machine = "started"])
        BY DEF Follows, Row, RowOK
    <1>2. Follows(w, [[w EXCEPT !.owned = "all", !.machine = "started"] EXCEPT !.receipt = r])
        BY DEF Follows, Row, RowOK
    <1>3. Follows(w, [w EXCEPT !.owned = o])
        BY DEF Follows, Row, RowOK
    <1> QED
        BY <1>1, <1>2, <1>3

\* A preparation call and what it left behind.
LEMMA KeptActivate ==
    ASSUME Counted, Rows, Jobs, NEW p \in Procs,
           NEW result \in {"ok", "pending", "retry", "invalid", "refused"},
           Activate(p, result)
    PROVE  Kept
    <1> DEFINE w == Mine(p)
               built == [w EXCEPT !.owned = "all", !.machine = "started"]
               proven == w.owned # "all" \/ w.blank
    <1>1. job[p].at = "prepare" /\ w.machine # "destroyed"
        BY DEF Activate, Mine
    <1>2. w \in Row /\ RowOK(w)
        BY <1>1, MineOK
    <1>3. PICK v : Set(job[p].bundle, v) /\ Follows(w, v)
        <2>1. CASE result \in {"ok", "invalid"}
            <3>1. Set(job[p].bundle, [built EXCEPT !.receipt = (result = "ok")])
                BY <2>1 DEF Activate, Mine
            <3> QED
                BY <1>1, <1>2, <3>1, FollowsActivated
        <2>2. CASE result = "pending"
            <3>1. Set(job[p].bundle, built)
                BY <2>2 DEF Activate, Mine
            <3> QED
                BY <1>1, <1>2, <3>1, FollowsActivated
        <2>3. CASE result \in {"retry", "refused"}
            <3>1. PICK o \in {"no", "keys", "all"} :
                      /\ Set(job[p].bundle, [w EXCEPT !.owned = o])
                      /\ w.owned = "all" => o = "all"
                <4>1. w.owned \in {"no", "keys", "all"}
                    BY <1>2 DEF Row
                <4>2. CASE result = "retry"
                    BY <4>1, <4>2 DEF Activate, Mine
                <4>3. CASE result = "refused"
                    BY <4>1, <4>3 DEF Activate, Mine
                <4> QED
                    BY <2>3, <4>2, <4>3
            <3> QED
                BY <1>1, <1>2, <3>1, FollowsActivated
        <2> QED
            BY <2>1, <2>2, <2>3
    <1>4. Counted'
        BY CountedFails DEF Activate, Fails
    <1>5. PICK r \in Outcomes : job' = [job EXCEPT ![p].at = "activated", ![p].result = r]
        <2>1. Validated(result, proven) \in Outcomes
            BY DEF Validated, Outcomes
        <2>2. job' = [job EXCEPT ![p].at = "activated", ![p].result = Validated(result, proven)]
            BY DEF Activate, Mine
        <2> QED
            BY <2>1, <2>2
    <1>6. "activated" \in Steps /\ job[p].at # "idle"
        BY <1>1 DEF Steps
    <1> QED
        BY <1>3, <1>4, <1>5, <1>6, StepKept

\* A preparation call on a Machine that is gone.
LEMMA KeptActivateDestroyed ==
    ASSUME Counted, Rows, Jobs, NEW p \in Procs, ActivateDestroyed(p)
    PROVE  Kept
    <1>1. "activated" \in Steps /\ "invalid" \in Outcomes /\ job[p].at # "idle"
        BY DEF Steps, Outcomes, ActivateDestroyed
    <1> QED
        BY <1>1, GoKept DEF ActivateDestroyed

\* A pending preparation remembers that its volume is blank.
LEMMA KeptRecordPendingVolume ==
    ASSUME Counted, Rows, Jobs, NEW p \in Procs, job[p].at # "idle", RecordPendingVolume(p)
    PROVE  Kept
    <1> DEFINE kept == Mine(p).state = "preparing" /\ Mine(p).tenant = Pool
               v == [Mine(p) EXCEPT !.blank = @ \/ kept]
    <1>1. Mine(p) \in Row /\ RowOK(Mine(p))
        BY MineOK
    <1>2. Follows(Mine(p), v)
        <2>1. PICK x \in BOOLEAN : v = [Mine(p) EXCEPT !.blank = x] /\ (Mine(p).blank => x)
            BY <1>1 DEF Row
        <2> QED
            BY <1>1, <2>1 DEF Follows, Row, RowOK
    <1>3. Record(p, v)
        BY DEF RecordPendingVolume
    <1> HIDE DEF v
    <1> QED
        BY <1>2, <1>3, KeptRecord

\* Every step of a preparation.
LEMMA KeptRunPrepare ==
    ASSUME Counted, Rows, Jobs, NEW p \in Procs, RunPrepare(p)
    PROVE  Kept
    <1>1. CASE \E result \in {"ok", "pending", "retry", "invalid", "refused"} :
                  Activate(p, result)
        BY <1>1, KeptActivate
    <1>2. CASE ActivateDestroyed(p)
        BY <1>2, KeptActivateDestroyed
    <1>3. CASE /\ job[p].at = "activated"
               /\ \/ MarkReady(p) \/ RecordPendingVolume(p) \/ RecordPending(p)
                  \/ RecordRetry(p) \/ TransitionToEvicting(p) \/ RecordTerminalFailure(p)
        BY <1>3, KeptMarkReady, KeptRecordPendingVolume, KeptRecordPending, KeptRecordRetry,
           KeptTransitionToEvicting, KeptRecordTerminalFailure
    <1> QED
        BY <1>1, <1>2, <1>3 DEF RunPrepare

\* A call of the provider.
LEMMA KeptCall ==
    ASSUME Counted, Rows, Jobs, NEW p \in Procs, NEW at, at # "idle", NEW then \in Steps,
           NEW results \in SUBSET {"ok", "retry", "lost", "refused"}, NEW row,
           Call(p, at, then, results, row),
           job[p].at = at => Follows(Mine(p), row),
           then \in {"destroy", "destroyed"} =>
              Mine(p).state \in Doomed
    PROVE  Kept
    <1>1. PICK r \in results :
              /\ Fails(r # "ok")
              /\ Set(job[p].bundle, IF r \in {"ok", "lost"} THEN row ELSE Mine(p))
              /\ job' = [job EXCEPT ![p].at = then, ![p].result = r]
        BY DEF Call
    <1>2. job[p].at = at /\ UNCHANGED on
        BY DEF Call
    <1> DEFINE v == IF r \in {"ok", "lost"} THEN row ELSE Mine(p)
    <1>3. Follows(Mine(p), v)
        BY <1>2, MineOK, FollowsSame
    <1>4. then \in {"destroy", "destroyed"} => v.state \in Doomed
        BY <1>3 DEF Follows
    <1>5. Counted'
        BY <1>1, <1>2, CountedFails DEF Fails
    <1>6. r \in Outcomes
        BY DEF Outcomes
    <1>7. Set(job[p].bundle, v)
        BY <1>1
    <1> HIDE DEF v
    <1> QED
        BY <1>1, <1>2, <1>3, <1>4, <1>5, <1>6, <1>7, StepKept

\* The check before the Machine is stopped.
LEMMA KeptCheckPark ==
    ASSUME Counted, Rows, Jobs, NEW p \in Procs, CheckPark(p)
    PROVE  Kept
    <1>1. "stop" \in Steps /\ job[p].at # "idle"
        BY DEF Steps, CheckPark
    <1>2. CASE Go(p, "stop") /\ UNCHANGED <<bundle, on, faults, events>>
        BY <1>1, <1>2, NoneIsOutcome, GoKept DEF Go
    <1>3. CASE Done(p) /\ UNCHANGED <<bundle, on, faults, events>>
        BY <1>3, DropKept
    <1> QED
        BY <1>2, <1>3 DEF CheckPark

\* Every step of parking.
LEMMA KeptRunPark ==
    ASSUME Counted, Rows, Jobs, NEW p \in Procs, RunPark(p)
    PROVE  Kept
    <1>1. CASE CheckPark(p)
        BY <1>1, KeptCheckPark
    <1>2. CASE Call(p, "stop", "parked", {"ok", "retry", "lost", "refused"}, Stopped(Mine(p)))
        <2>1. "parked" \in Steps
            BY DEF Steps
        <2>2. job[p].at = "stop" => Follows(Mine(p), Stopped(Mine(p)))
            <3>1. ASSUME NEW w \in Row, RowOK(w)
                  PROVE  Follows(w, Stopped(w))
                BY <3>1 DEF Follows, Row, RowOK, Stopped
            <3> QED
                BY <3>1, MineOK
        <2> QED
            BY <1>2, <2>1, <2>2, KeptCall
    <1>3. CASE /\ job[p].at = "parked"
               /\ MarkSleeping(p) \/ RecordPhaseRetry(p) \/ TransitionToEvicting(p)
        BY <1>3, KeptMarkSleeping, KeptRecordRetry, KeptTransitionToEvicting
    <1> QED
        BY <1>1, <1>2, <1>3 DEF RunPark

\* Every step of a check.
LEMMA KeptRunCheck ==
    ASSUME Counted, Rows, Jobs, NEW p \in Procs, RunSleepCheck(p) \/ RunHealthCheck(p)
    PROVE  Kept
    <1>1. CASE \/ Call(p, "sleep", "slept", {"ok", "retry", "refused"}, Mine(p))
               \/ Call(p, "health", "checked", {"ok", "retry", "refused"}, Mine(p))
        <2>1. "slept" \in Steps /\ "checked" \in Steps
            BY DEF Steps
        <2>2. job[p].at # "idle" => Follows(Mine(p), Mine(p))
            BY MineOK, FollowsSame
        <2> QED
            BY <1>1, <2>1, <2>2, KeptCall
    <1>2. CASE /\ job[p].at \in {"slept", "checked"}
               /\ \/ RefreshSleep(p) \/ RefreshHealth(p) \/ TransitionToParking(p)
                  \/ RecordRetry(p) \/ RecordPhaseRetry(p) \/ TransitionToEvicting(p)
        BY <1>2, KeptRefresh, KeptTransitionToParking, KeptRecordRetry,
           KeptTransitionToEvicting
    <1> QED
        BY <1>1, <1>2 DEF RunSleepCheck, RunHealthCheck

\* A pass goes on to destroy only under its claim on an evicting row.
LEMMA KeptCheckCleanup ==
    ASSUME Counted, Rows, Jobs, NEW p \in Procs, CheckCleanup(p)
    PROVE  Kept
    <1>1. "destroy" \in Steps /\ job[p].at # "idle"
        BY DEF Steps, CheckCleanup
    <1>2. CASE RecordTerminalFailure(p)
        BY <1>1, <1>2, KeptRecordTerminalFailure
    <1>3. CASE /\ Mine(p).state = "evicting" /\ Go(p, "destroy")
               /\ UNCHANGED <<bundle, on, faults, events>>
        <2>1. Mine(p).state \in Doomed
            BY <1>3 DEF Doomed
        <2> QED
            BY <1>1, <1>3, <2>1, NoneIsOutcome, GoKept DEF Go
    <1>4. CASE Done(p) /\ UNCHANGED <<bundle, on, faults, events>>
        BY <1>4, DropKept
    <1> QED
        BY <1>2, <1>3, <1>4 DEF CheckCleanup, CleanupSideEffectAllowed

\* Every step of a cleanup.
LEMMA KeptRunCleanup ==
    ASSUME Counted, Rows, Jobs, NEW p \in Procs, RunCleanup(p)
    PROVE  Kept
    <1>1. CASE CheckCleanup(p)
        BY <1>1, KeptCheckCleanup
    <1>2. CASE Call(p, "destroy", "destroyed", {"ok", "retry", "lost"}, Destroyed(Mine(p)))
        <2>1. job[p].at = "destroy"
            BY <1>2 DEF Call
        <2>2. "destroyed" \in Steps /\ job[p].at # "idle"
            BY <2>1 DEF Steps
        <2>3. Mine(p).state \in Doomed
            BY <2>1, <2>2, MineOK DEF Jobs
        <2>4. Follows(Mine(p), Destroyed(Mine(p)))
            <3>1. ASSUME NEW w \in Row, RowOK(w), w.state \in Doomed
                  PROVE  Follows(w, Destroyed(w))
                BY <3>1 DEF Follows, Row, RowOK, Destroyed, Doomed
            <3> QED
                BY <2>2, <2>3, <3>1, MineOK
        <2> QED
            BY <1>2, <2>2, <2>3, <2>4, KeptCall
    <1>3. CASE /\ job[p].at = "destroyed"
               /\ MarkEvicted(p) \/ RecordRetry(p)
        BY <1>3, KeptMarkEvicted, KeptRecordRetry
    <1> QED
        BY <1>1, <1>2, <1>3 DEF RunCleanup

-----------------------------------------------------------------------------
(* Tenants, time, faults and the operator.                                 *)

\* A registration writes several rows: the tenant's, and those it passed over.
LEMMA KeptAssign ==
    ASSUME Counted, Rows, Jobs, NEW t \in Tenants, AssignReadyWorkspace(t)
    PROVE  Kept
    <1>1. PICK tried \in SUBSET {b \in Bundles : Candidate(bundle[b])} :
              LET eligible == {b \in tried : Eligible(bundle[b], TRUE)}
                  stale == {b \in tried :
                              /\ ~Eligible(bundle[b], TRUE)
                              /\ ~(bundle[b].state = "sleeping" /\ Eligible(bundle[b], FALSE))}
              IN  bundle' = [b \in Bundles |->
                     IF b \in eligible
                     THEN [bundle[b] EXCEPT !.state = "assigned", !.tenant = t,
                                            !.attempts = 0, !.fresh = "fresh",
                                            !.release = TRUE, !.receipt = FALSE]
                     ELSE IF b \in stale THEN Evicting(bundle[b]) ELSE bundle[b]]
        BY DEF AssignReadyWorkspace
    <1> DEFINE given(w) == [w EXCEPT !.state = "assigned", !.tenant = t, !.attempts = 0,
                                     !.fresh = "fresh", !.release = TRUE, !.receipt = FALSE]
    <1>2. ASSUME NEW w \in Row, RowOK(w), Candidate(w)
          PROVE  Follows(w, given(w)) /\ Follows(w, Evicting(w))
        <2>1. 0 \in 0..MaxAttempts
            BY Names
        <2>2. Follows(w, given(w))
            BY <1>2, <2>1, Names DEF Follows, Row, RowOK, Candidate, States, Held, Doomed
        <2>3. Follows(w, Evicting(w))
            BY <1>2, FollowsRetired DEF Evicting, Candidate
        <2> QED
            BY <2>2, <2>3
    <1>3. ASSUME NEW b \in Bundles
          PROVE  Follows(bundle[b], bundle'[b])
        <2>1. bundle[b] \in Row /\ RowOK(bundle[b])
            BY DEF Rows
        <2>2. \/ bundle'[b] = bundle[b]
              \/ Candidate(bundle[b]) /\ bundle'[b] = given(bundle[b])
              \/ Candidate(bundle[b]) /\ bundle'[b] = Evicting(bundle[b])
            BY <1>1
        <2> HIDE DEF given
        <2> QED
            BY <2>1, <2>2, <1>2, FollowsSame
    <1>4. Moves
        <2>1. bundle' = [b \in Bundles |-> bundle'[b]]
            BY <1>1
        <2> QED
            BY <1>3, <2>1 DEF Moves, Follows
    <1> QED
        BY <1>4, JobsKept, CountedKept DEF AssignReadyWorkspace, Kept

\* A request that finds only stale rows sends them to eviction.
LEMMA KeptNoneAssigned ==
    ASSUME Counted, Rows, Jobs, NEW t \in Tenants, NoneAssigned(t)
    PROVE  Kept
    <1>1. ASSUME NEW b \in Bundles
          PROVE  Follows(bundle[b], bundle'[b])
        <2>1. bundle[b] \in Row /\ RowOK(bundle[b])
            BY DEF Rows
        <2>2. \/ bundle'[b] = bundle[b]
              \/ Candidate(bundle[b]) /\ bundle'[b] = Evicting(bundle[b])
            BY DEF NoneAssigned
        <2>3. Candidate(bundle[b]) => Follows(bundle[b], Evicting(bundle[b]))
            BY <2>1, FollowsRetired DEF Evicting, Candidate
        <2> QED
            BY <2>1, <2>2, <2>3, FollowsSame
    <1>2. bundle' = [b \in Bundles |-> bundle'[b]]
        BY DEF NoneAssigned
    <1>3. Moves
        BY <1>1, <1>2 DEF Moves, Follows
    <1> QED
        BY <1>3, JobsKept, CountedKept DEF NoneAssigned, Kept

\* One column of a row changes by itself.
LEMMA FollowsChange ==
    ASSUME NEW w \in Row, RowOK(w), NEW f \in {"old", "expired"}
    PROVE  /\ Follows(w, [w EXCEPT !.fresh = f])
           /\ Follows(w, [w EXCEPT !.receipt = FALSE])
           /\ Follows(w, [w EXCEPT !.release = FALSE])
           /\ w.live => Follows(w, [w EXCEPT !.live = FALSE, !.owner = Nobody])
           /\ w.machine = "stopped" => Follows(w, [w EXCEPT !.machine = "started"])
    <1>1. Follows(w, [w EXCEPT !.fresh = f])
        BY DEF Follows, Row, RowOK
    <1>2. Follows(w, [w EXCEPT !.receipt = FALSE])
        BY DEF Follows, Row, RowOK
    <1>3. Follows(w, [w EXCEPT !.release = FALSE])
        BY DEF Follows, Row, RowOK
    <1>4. w.live => Follows(w, [w EXCEPT !.live = FALSE, !.owner = Nobody])
        BY Names DEF Follows, Row, RowOK
    <1>5. w.machine = "stopped" => Follows(w, [w EXCEPT !.machine = "started"])
        BY DEF Follows, Row, RowOK
    <1> QED
        BY <1>1, <1>2, <1>3, <1>4, <1>5

\* What time, the runtime and the provider do to one row.
LEMMA KeptChange ==
    ASSUME Counted, Rows, Jobs, NEW b \in Bundles,
           \/ HealthAges(b) \/ ReadinessExpires(b) \/ ClaimExpires(b)
           \/ RuntimeFallsSilent(b) \/ MachineStartsAgain(b)
    PROVE  Kept
    <1>1. bundle[b] \in Row /\ RowOK(bundle[b])
        BY DEF Rows
    <1>2. PICK v : Set(b, v) /\ Follows(bundle[b], v)
        BY <1>1, FollowsChange
           DEF HealthAges, ReadinessExpires, ClaimExpires, RuntimeFallsSilent,
               MachineStartsAgain
    <1>3. Moves
        BY <1>2, SetMoves
    <1>4. UNCHANGED <<job, on>>
        BY DEF HealthAges, ReadinessExpires, ClaimExpires, RuntimeFallsSilent,
               MachineStartsAgain
    <1>5. Counted'
        <2>1. CASE HealthAges(b)
            BY <2>1, CountedKept DEF HealthAges
        <2>2. CASE ReadinessExpires(b) \/ RuntimeFallsSilent(b) \/ MachineStartsAgain(b)
            BY <2>2, <1>4, CountedDisturbs
               DEF ReadinessExpires, RuntimeFallsSilent, MachineStartsAgain
        <2>3. CASE ClaimExpires(b)
            BY <2>3, <1>4, CountedFails DEF ClaimExpires, Fails
        <2> QED
            BY <2>1, <2>2, <2>3
    <1> QED
        BY <1>3, <1>4, <1>5, JobsKept DEF Kept

\* Another release becomes current.
LEMMA KeptReleaseChanges ==
    ASSUME Counted, Rows, Jobs, ReleaseChanges
    PROVE  Kept
    <1>1. ASSUME NEW b \in Bundles
          PROVE  Follows(bundle[b], bundle'[b])
        <2>1. bundle[b] \in Row /\ RowOK(bundle[b])
            BY DEF Rows
        <2>2. bundle'[b] = bundle[b] \/ bundle'[b] = [bundle[b] EXCEPT !.release = FALSE]
            BY DEF ReleaseChanges
        <2> QED
            BY <2>1, <2>2, FollowsSame, FollowsChange
    <1>2. bundle' = [b \in Bundles |-> bundle'[b]]
        BY DEF ReleaseChanges
    <1>3. Moves
        BY <1>1, <1>2 DEF Moves, Follows
    <1> QED
        BY <1>3, JobsKept, CountedDisturbs DEF ReleaseChanges, Kept

\* The pool is switched off.
LEMMA KeptDisablePool ==
    ASSUME Counted, Rows, Jobs, DisablePool
    PROVE  Kept
    <1>1. on' \in BOOLEAN /\ faults' \in 0..MaxFaults
        BY DEF DisablePool, Disturbs, Counted
    <1>2. events' \in 0..MaxEvents
        BY Names DEF DisablePool, Disturbs, Counted
    <1> QED
        BY <1>1, <1>2, SameMoves, JobsKept DEF DisablePool, Kept, Counted

\* A process dies in the middle of a job.
LEMMA KeptDie ==
    ASSUME Counted, Rows, Jobs, NEW p \in Procs, Die(p)
    PROVE  Kept
    <1>1. Counted'
        BY CountedFails DEF Die, Fails
    <1> QED
        BY <1>1, SameMoves, JobsDone DEF Die, Kept

-----------------------------------------------------------------------------
(* Capacity.                                                               *)

\* Bundles are counted in finite sets.
LEMMA InFinite ==
    ASSUME NEW S
    PROVE  IsFiniteSet(In(S)) /\ Cardinality(In(S)) \in Nat
    <1>1. IsFiniteSet(Bundles) /\ In(S) \in SUBSET Bundles
        BY PoolAssumption DEF In
    <1> QED
        BY <1>1, FS_Subset, FS_CardinalityType

\* A step that keeps to Follows adds no row to those that are counted.
LEMMA MovesWithin ==
    ASSUME Within, Moves
    PROVE  Within'
    <1>1. In(Held)' \in SUBSET In(Held) /\ In({"preparing"})' \in SUBSET In({"preparing"})
        BY DEF Moves, Follows, In
    <1>2. /\ Cardinality(In(Held)') <= Cardinality(In(Held))
          /\ Cardinality(In({"preparing"})') <= Cardinality(In({"preparing"}))
        BY <1>1, InFinite, FS_Subset
    <1>3. /\ Cardinality(In(Held)') \in Nat
          /\ Cardinality(In({"preparing"})') \in Nat
        BY <1>1, InFinite, FS_Subset, FS_CardinalityType
    <1> QED
        BY <1>2, <1>3, InFinite, Names DEF Within

\* The least unused row exists.
LEMMA LeastUnused ==
    ASSUME NEW S \in SUBSET Nat, S # {}
    PROVE  Min(S) \in S
    <1> DEFINE R == {ss \in Nat \X Nat : ss[1] < ss[2]}
    <1>1. IsWellFoundedOn(R, Nat)
        BY NatLessThanWellFounded DEF OpToRel
    <1> HIDE DEF R
    <1>2. PICK x \in S : \A y \in S : <<y, x>> \notin R
        BY <1>1, WFMin
    <1>3. ASSUME NEW y \in S
          PROVE  x <= y
        <2>1. x \in Nat /\ y \in Nat /\ ~(y < x)
            BY <1>2 DEF R
        <2> QED
            BY <2>1
    <1> QED
        BY <1>3 DEF Min

\* A new row is counted only where there is room for it, and no job that may
\* destroy works on a row that does not exist yet.
LEMMA InvCreate ==
    ASSUME PoolInv, NEW p \in Procs, NEW busy, Create(p, busy)
    PROVE  PoolInv'
    <1> DEFINE b == Min(In({"none"}))
               v == Claimed(p, [NoBundle EXCEPT !.state = "preparing"])
    <1>1. b \in Bundles /\ bundle[b].state = "none"
        <2>1. In({"none"}) \in SUBSET Nat /\ In({"none"}) # {}
            BY PoolAssumption DEF In, Create
        <2>2. b \in In({"none"})
            BY <2>1, LeastUnused
        <2> QED
            BY <2>2 DEF In
    <1>2. /\ Set(b, v)
          /\ job' = [job EXCEPT ![p] = [at |-> "prepare", bundle |-> b, result |-> None]]
          /\ UNCHANGED <<on, faults, events>>
        BY DEF Create, Take
    <1>3. v \in Row /\ RowOK(v) /\ v.state = "preparing"
        <2>1. 0 \in 0..MaxAttempts
            BY Names
        <2> QED
            BY <2>1, Names DEF Row, RowOK, Claimed, NoBundle, States
    <1> HIDE DEF b, v
    <1>4. /\ bundle' \in [Bundles -> Row] /\ bundle'[b] = v
          /\ \A c \in Bundles : c # b => bundle'[c] = bundle[c]
        BY <1>1, <1>2, <1>3 DEF Set, PoolInv, Rows
    <1>5. Rows'
        BY <1>3, <1>4 DEF PoolInv, Rows
    <1>6. Jobs'
        <2> DEFINE j == [at |-> "prepare", bundle |-> b, result |-> None]
        <2>1. j \in Job /\ j.at = "prepare" /\ j.bundle = b
            BY <1>1 DEF Job, Steps, Outcomes
        <2>2. job' = [job EXCEPT ![p] = j]
            BY <1>2
        <2> HIDE DEF j
        <2>3. job' \in [Procs -> Job] /\ job'[p] = j
            BY <2>1, <2>2 DEF PoolInv, Jobs
        <2>4. ASSUME NEW q \in Procs
              PROVE  /\ job'[q].at # "idle" => job'[q].bundle \in Bundles
                     /\ job'[q].at \in {"destroy", "destroyed"} =>
                           bundle'[job'[q].bundle].state \in Doomed
            <3>1. CASE q = p
                BY <1>1, <2>1, <2>3, <3>1
            <3>2. CASE q # p
                <4>1. job'[q] = job[q]
                    BY <2>2, <3>2 DEF PoolInv, Jobs
                <4> QED
                    BY <1>1, <1>4, <4>1 DEF PoolInv, Jobs, Doomed
            <3> QED
                BY <3>1, <3>2
        <2> QED
            BY <2>3, <2>4 DEF Jobs
    <1>7. Within'
        <2>1. /\ In(Held)' = In(Held) \cup {b}
              /\ In({"preparing"})' = In({"preparing"}) \cup {b}
            BY <1>1, <1>3, <1>4 DEF In, Held
        <2>2. /\ Cardinality(In(Held)') <= Cardinality(In(Held)) + 1
              /\ Cardinality(In({"preparing"})') <= Cardinality(In({"preparing"})) + 1
            <3>1. ASSUME NEW S, IsFiniteSet(S)
                  PROVE  Cardinality(S \cup {b}) <= Cardinality(S) + 1
                <4>1. Cardinality(S) \in Nat
                    BY <3>1, FS_CardinalityType
                <4>2. \/ Cardinality(S \cup {b}) = Cardinality(S)
                      \/ Cardinality(S \cup {b}) = Cardinality(S) + 1
                    BY <3>1, FS_AddElement
                <4> QED
                    BY <4>1, <4>2
            <3> QED
                BY <2>1, <3>1, InFinite
        <2>3. Cardinality(In(Held)) <= Cardinality(Occupied)
            <3>1. Occupied \in SUBSET Bundles /\ In(Held) \in SUBSET Occupied
                BY DEF Occupied, In, Held
            <3> QED
                BY <3>1, PoolAssumption, FS_Subset
        <2>4. /\ Cardinality(Occupied) < Target + MaxPreparing
              /\ Cardinality(In({"preparing"})) < MaxPreparing
            BY DEF Create, HasRoom
        <2>5. Cardinality(Occupied) \in Nat
            <3>1. Occupied \in SUBSET Bundles
                BY DEF Occupied, In
            <3> QED
                BY <3>1, PoolAssumption, FS_Subset, FS_CardinalityType
        <2>6. /\ Cardinality(In(Held)') \in Nat
              /\ Cardinality(In({"preparing"})') \in Nat
            BY <2>1, InFinite, FS_AddElement, FS_CardinalityType
        <2> QED
            BY <2>2, <2>3, <2>4, <2>5, <2>6, InFinite, Names DEF Within
    <1> QED
        BY <1>2, <1>5, <1>6, <1>7, CountedKept DEF PoolInv

-----------------------------------------------------------------------------
(* The invariant.                                                          *)

\* The empty pool satisfies the invariant.
LEMMA InvInit == Init => PoolInv
    <1> SUFFICES ASSUME Init PROVE PoolInv
        OBVIOUS
    <1>1. Counted
        BY Names DEF Init, Counted
    <1>2. NoBundle \in Row /\ RowOK(NoBundle)
        <2>1. 0 \in 0..MaxAttempts
            BY Names
        <2> QED
            BY <2>1, Names DEF Row, RowOK, NoBundle, States
    <1>3. Rows
        BY <1>2 DEF Init, Rows
    <1>4. Idle \in Job /\ Idle.at = "idle"
        BY DEF Idle, Job, Steps, Outcomes
    <1>5. Jobs
        BY <1>4 DEF Init, Jobs
    <1>6. In(Held) = {} /\ In({"preparing"}) = {}
        BY DEF Init, In, NoBundle, Held
    <1>7. Within
        BY <1>6, FS_EmptySet, Names DEF Within
    <1> QED
        BY <1>1, <1>3, <1>5, <1>7 DEF PoolInv

\* Every step but the creation of a row keeps to Follows.
LEMMA StepsKeep ==
    ASSUME PoolInv, [Next]_vars
    PROVE  Kept \/ \E p \in Procs, busy \in SUBSET Bundles : Create(p, busy)
    <1>0. Counted /\ Rows /\ Jobs
        BY DEF PoolInv
    <1>1. ASSUME NEW p \in Procs, ClaimOrReserve(p)
          PROVE  Kept \/ \E busy \in SUBSET Bundles : Create(p, busy)
        <2>1. PICK busy \in SUBSET Bundles :
                 \/ ClaimDue(p, busy) \/ ClaimDrain(p, busy) \/ ClaimStale(p, busy)
                 \/ ClaimPark(p, busy) \/ ClaimSleepCheck(p, busy)
                 \/ ClaimHealthCheck(p, busy) \/ Create(p, busy)
            BY <1>1 DEF ClaimOrReserve, Activating
        <2> QED
            BY <1>0, <2>1, KeptClaimDue, KeptClaimEvict, KeptClaimPark, KeptClaimCheck
    <1>2. ASSUME NEW p \in Procs, RunClaim(p)
          PROVE  Kept
        BY <1>0, <1>2, KeptRunPrepare, KeptRunPark, KeptRunCheck, KeptRunCleanup
           DEF RunClaim
    <1>3. ASSUME NEW p \in Procs, Die(p)
          PROVE  Kept
        BY <1>0, <1>3, KeptDie
    <1>4. ASSUME NEW t \in Tenants, AssignReadyWorkspace(t) \/ NoneAssigned(t)
          PROVE  Kept
        BY <1>0, <1>4, KeptAssign, KeptNoneAssigned
    <1>5. ASSUME NEW b \in Bundles,
                 \/ HealthAges(b) \/ ReadinessExpires(b) \/ ClaimExpires(b)
                 \/ RuntimeFallsSilent(b) \/ MachineStartsAgain(b)
          PROVE  Kept
        BY <1>0, <1>5, KeptChange
    <1>6. ASSUME ReleaseChanges \/ DisablePool
          PROVE  Kept
        BY <1>0, <1>6, KeptReleaseChanges, KeptDisablePool
    <1>7. ASSUME UNCHANGED vars
          PROVE  Kept
        BY <1>0, <1>7, SameMoves, JobsKept, CountedKept DEF vars, Kept
    <1> QED
        BY <1>1, <1>2, <1>3, <1>4, <1>5, <1>6, <1>7 DEF Next

\* The invariant is inductive.
LEMMA InvNext == PoolInv /\ [Next]_vars => PoolInv'
    <1> SUFFICES ASSUME PoolInv, [Next]_vars PROVE PoolInv'
        OBVIOUS
    <1>1. CASE Kept
        <2>1. Rows'
            BY <1>1 DEF Kept, Moves, Follows, Rows
        <2>2. Within'
            BY <1>1, MovesWithin DEF Kept, PoolInv
        <2> QED
            BY <1>1, <2>1, <2>2 DEF Kept, PoolInv
    <1>2. CASE \E p \in Procs, busy \in SUBSET Bundles : Create(p, busy)
        BY <1>2, InvCreate
    <1> QED
        BY <1>1, <1>2, StepsKeep

(* Every reachable state satisfies the inductive invariant.                *)
THEOREM PoolInvariant == Spec => []PoolInv
    <1> QED
        BY InvInit, InvNext, PTL DEF Spec

(* The columns of every row agree, and however many passes claim, stall,   *)
(* die and record late, no more rows are in preparation or waiting than    *)
(* the target and the one that may be prepared.                            *)
THEOREM PoolStaysWithinCapacity == Spec => []PoolCapacity
    <1>1. PoolInv => PoolCapacity
        <2> SUFFICES ASSUME PoolInv PROVE PoolCapacity
            OBVIOUS
        <2>1. ASSUME NEW b \in Bundles
              PROVE  bundle[b] \in Row /\ RowOK(bundle[b])
            BY DEF PoolInv, Rows
        <2>2. TypeOK
            BY <2>1 DEF PoolInv, Counted, TypeOK, Row, RowOK
        <2> QED
            BY <2>2 DEF PoolInv, Within, PoolCapacity, Held
    <1> QED
        BY <1>1, PoolInvariant, PTL

(* A bundle that a tenant was given stays the tenant's: no pass that       *)
(* claimed it before, whatever step it had reached, changes its state,     *)
(* tenant or claim or destroys its Machine.                                *)
THEOREM AssignedStaysAssigned == Spec => AssignmentIsPermanent
    <1> DEFINE Fixed == \A b \in Bundles : bundle[b].state = "assigned" =>
                  /\ bundle'[b].state = "assigned" /\ bundle'[b].tenant = bundle[b].tenant
                  /\ bundle'[b].machine # "destroyed" /\ bundle'[b].owner = bundle[b].owner
    <1>1. PoolInv /\ [Next]_vars => Fixed
        <2> SUFFICES ASSUME PoolInv, [Next]_vars, NEW b \in Bundles,
                            bundle[b].state = "assigned"
                     PROVE  /\ bundle'[b].state = "assigned"
                            /\ bundle'[b].tenant = bundle[b].tenant
                            /\ bundle'[b].machine # "destroyed"
                            /\ bundle'[b].owner = bundle[b].owner
            OBVIOUS
        <2>1. CASE Kept
            BY <2>1 DEF Kept, Moves, Follows, RowOK
        <2>2. CASE \E p \in Procs, busy \in SUBSET Bundles : Create(p, busy)
            <3>1. PICK p \in Procs, busy \in SUBSET Bundles : Create(p, busy)
                BY <2>2
            <3>2. In({"none"}) \in SUBSET Nat /\ In({"none"}) # {}
                BY <3>1, PoolAssumption DEF In, Create
            <3>3. Min(In({"none"})) \in In({"none"})
                BY <3>2, LeastUnused
            <3>4. b # Min(In({"none"}))
                BY <3>3 DEF In
            <3>5. bundle'[b] = bundle[b]
                BY <3>1, <3>4 DEF Create, Take, Set, PoolInv, Rows
            <3> QED
                BY <3>5 DEF PoolInv, Rows, RowOK
        <2> QED
            BY <2>1, <2>2, StepsKeep
    <1>2. Fixed => [Fixed]_vars
        OBVIOUS
    <1> QED
        BY <1>1, PoolInvariant, PTL DEF Spec, AssignmentIsPermanent
=============================================================================
