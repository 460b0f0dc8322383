------------------------- MODULE ProfileStoreProofs -------------------------
(***************************************************************************)
(* Theorems about ProfileStore, for every number of deletion attempts,     *)
(* Machine generations, model bindings and faults; and, in its last part,  *)
(* about Publications, for every number of attempts, revisions and losses. *)
(***************************************************************************)
EXTENDS ProfileStore, Publications, TLAPS

\* Steps of a pass: while it holds the lock, and once it deletes.
LockedSteps == {"inspect", "publish", "fencing", "cleanup", "remove", "mark"}
DeletionSteps ==
    {"fence", "fencing", "close", "quiesce", "join", "recheck", "cleanup", "remove",
     "mark", "receipt"}
PassSteps ==
    LockedSteps \cup DeletionSteps
        \cup {"down", "idle", "report", "serving", "materialize", "materialized"}

States == {"pending", "active", "cleanup_pending", "repair_required", "deprovisioned",
           "purged"}
Results == {"none", "repair_required", "deprovisioned"}

Profile == [state : States, epoch : 0..MaxEpoch, materialized : 0..MaxGen,
            receipt : Results, binding : 0..MaxBinding]
Workspace == [gen : 1..MaxGen, ready : BOOLEAN, leased : BOOLEAN]
Volume == [dir : {"absent", "complete", "partial"}, temp : SUBSET (1..MaxGen),
           env : 0..MaxBinding, sidecar : 0..MaxBinding]
Tombstone == [status : {"none", "pending", "repair", "deleted"}, epoch : 0..MaxEpoch]
LockFile == [by : {"nobody", "reconciler", "turn", "dead", "taken"}, old : BOOLEAN]
Pass == [at : PassSteps, state : States, epoch : 0..MaxEpoch, gen : 0..MaxGen,
         sameHermes : BOOLEAN, result : Results,
         blocked : BOOLEAN]
Claim == [at : {"none", "start", "bind", "bound", "ready", "running"},
          binding : 0..MaxBinding]

-----------------------------------------------------------------------------
(* The inductive invariant.                                                *)

Typed ==
    /\ fnd \in Profile /\ ws \in Workspace /\ past \subseteq 1..MaxEpoch
    /\ files \in Volume /\ tomb \in Tombstone /\ lock \in LockFile
    /\ rt \in Pass /\ turn \in Claim /\ work \in BOOLEAN /\ faults \in 0..MaxFaults

Shaped ==
    /\ rt.at = "down" => turn = NoTurn /\ ~fenced /\ ~ws.ready
    /\ lock.by = "turn" <=> turn.at \in {"bind", "bound"}
    /\ turn.at = "none" => turn = NoTurn
    /\ tomb.status = "none" => tomb = NoTomb
    /\ rt.at \in {"materialize", "inspect"} => rt.gen > 0
    /\ fnd.state \notin {"pending", "active"} => fnd.epoch > 0

\* The pass holds the lock in these steps and in no other.
LockHeld == lock.by = "reconciler" <=> rt.at \in LockedSteps

\* Only a profile that Foundry deletes, for ever, has a tombstone.
OnlyDeletedFenced ==
    tomb.status # "none" \/ rt.at \in DeletionSteps => fnd.state \notin {"pending", "active"}

\* A profile that is active or has a turn has all its files.
UsedIsComplete ==
    /\ fnd.state = "active" \/ turn.at # "none" => files.dir = "complete"
    /\ rt.at \in {"inspect", "publish"} => tomb = NoTomb
    /\ rt.at = "publish" => files.dir = "absent"
    /\ rt.at = "materialized" => files.dir = "complete"

\* What the pass has established when it comes to a step of a deletion.
Closing ==
    /\ rt.at \in {"close", "quiesce", "join", "recheck", "cleanup"} => tomb.status # "none"
    /\ rt.at \in {"remove", "mark"} => tomb.status = "pending"
    /\ rt.at \in {"join", "recheck", "cleanup", "remove", "mark"} => ~work
    /\ rt.at \in {"recheck", "cleanup", "remove", "mark"} => turn = NoTurn
    /\ rt.at = "mark" => files = NoFiles
    /\ rt.at = "receipt" =>
          /\ rt.result # "none"
          /\ rt.result = "deprovisioned" => tomb.status = "deleted"

\* What a tombstone and a half removed directory mean, whoever wrote them.
Removed ==
    /\ tomb.status = "deleted" => files = NoFiles /\ ~work /\ turn = NoTurn
    /\ files.dir = "partial" => tomb.status \in {"pending", "repair"} /\ ~work /\ turn = NoTurn
    /\ fnd.state \in {"deprovisioned", "purged"} => tomb.status = "deleted"

\* The sidecar is written after the keys it records.
KeysWritten ==
    /\ files.env >= files.sidecar
    /\ turn.at \in {"ready", "running"} => files.sidecar >= turn.binding

StoreInv ==
    /\ Typed /\ Shaped /\ LockHeld /\ OnlyDeletedFenced /\ UsedIsComplete
    /\ Closing /\ Removed /\ KeysWritten

-----------------------------------------------------------------------------
(* The records that steps write.                                           *)

\* What a dead and a fresh process remember is well formed.
LEMMA DownPass == Down \in Pass /\ [Down EXCEPT !.at = "idle"] \in Pass
<1>1. 0 \in 0..MaxEpoch /\ 0 \in 0..MaxGen
  BY StoreAssumption
<1>2. Down \in Pass
  BY <1>1 DEF Down, Pass, PassSteps, States, Results
<1>. QED
  BY <1>2 DEF Pass, PassSteps

\* A pass that only moves on keeps what it read.
LEMMA PassGoes ==
  ASSUME rt \in Pass, NEW a \in PassSteps
  PROVE  LET moved == [rt EXCEPT !.at = a]
         IN  /\ moved \in Pass /\ moved.at = a /\ moved.gen = rt.gen
             /\ moved.result = rt.result
  BY DEF Pass

\* What a pass keeps of the profile it read.
LEMMA SnapshotPass ==
  ASSUME Typed, NEW a \in PassSteps, NEW b \in BOOLEAN,
         \/ rt' = [rt EXCEPT !.at = a, !.state = fnd.state, !.epoch = fnd.epoch,
                             !.gen = ws.gen]
         \/ rt' = [rt EXCEPT !.blocked = b, !.state = fnd.state, !.epoch = fnd.epoch,
                             !.gen = ws.gen, !.at = a]
  PROVE  rt' \in Pass /\ rt'.at = a /\ rt'.gen > 0
<1>1. /\ fnd.state \in States /\ fnd.epoch \in 0..MaxEpoch
      /\ ws.gen \in 0..MaxGen /\ ws.gen > 0
  BY StoreAssumption DEF Typed, Profile, Workspace
<1>2. rt \in Pass
  BY DEF Typed
<1>. QED
  BY <1>1, <1>2 DEF Pass

\* The lock of nobody.
LEMMA UnlockedFile == Unlocked \in LockFile /\ Unlocked.by = "nobody"
  BY DEF Unlocked, LockFile

\* The row of a further deletion attempt is well formed.
LEMMA AttemptTyped == ASSUME fnd \in Profile, fnd.epoch < MaxEpoch PROVE Attempt \in Profile
<1>1. fnd.epoch + 1 \in 0..MaxEpoch
  BY StoreAssumption DEF Profile
<1>. QED
  BY <1>1 DEF Attempt, Profile, States, Results

-----------------------------------------------------------------------------
(* Every step preserves the invariant.                                     *)

\* A fresh process starts a pass with nothing in hand.
LEMMA InvBoot == ASSUME StoreInv, Boot PROVE StoreInv'
<1>1. Typed'
  <2>1. Typed /\ UNCHANGED <<fnd, ws, past, files, tomb, turn, work, faults>>
    BY DEF StoreInv, Boot, foundryVars
  <2>2. rt' \in Pass
    BY DownPass DEF Boot
  <2>3. lock' \in LockFile
    BY <2>1 DEF Boot, Typed, LockFile
  <2>. QED
    BY <2>1, <2>2, <2>3 DEF Typed
<1>2. (Shaped /\ LockHeld /\ OnlyDeletedFenced /\ UsedIsComplete)'
  BY DEF Boot, Down, foundryVars, StoreInv, Typed, Shaped, LockHeld,
     OnlyDeletedFenced, UsedIsComplete, LockFile, LockedSteps, DeletionSteps, NoTurn
<1>3. (Closing /\ Removed /\ KeysWritten)'
  BY DEF Boot, Down, foundryVars, StoreInv, Closing, Removed, KeysWritten
<1>. QED
  BY <1>1, <1>2, <1>3 DEF StoreInv

\* A crash leaves the volume as it is and forgets the turn and the fence.
LEMMA InvCrash == ASSUME StoreInv, Crash PROVE StoreInv'
<1>0. /\ StoreInv /\ Typed /\ UNCHANGED <<fnd, past, files, tomb>>
      /\ rt' = Down /\ ~fenced' /\ turn' = NoTurn /\ work' \in {work, FALSE}
      /\ ws' = [ws EXCEPT !.ready = FALSE] /\ faults < MaxFaults /\ faults' = faults + 1
      /\ lock' = IF lock.by \in {"reconciler", "turn"} THEN [lock EXCEPT !.by = "dead"] ELSE lock
  BY DEF StoreInv, Crash, Exit, Leave, Fault
<1>1. Typed'
  <2>1. ws' \in Workspace /\ ~ws'.ready
    BY <1>0 DEF Typed, Workspace
  <2>2. lock' \in LockFile /\ turn' \in Claim
    BY <1>0, StoreAssumption DEF Typed, LockFile, Claim, NoTurn
  <2>3. rt' \in Pass /\ work' \in BOOLEAN
    BY <1>0, DownPass DEF Typed
  <2>4. faults' \in 0..MaxFaults
    BY <1>0, StoreAssumption DEF Typed
  <2>. QED
    BY <1>0, <2>1, <2>2, <2>3, <2>4 DEF Typed
<1>2. lock'.by \notin {"reconciler", "turn"} /\ ~ws'.ready
  BY <1>0 DEF Typed, Workspace, LockFile
<1>3. (Shaped /\ LockHeld /\ OnlyDeletedFenced /\ UsedIsComplete)'
  BY <1>0, <1>2 DEF StoreInv, Shaped, LockHeld, OnlyDeletedFenced, UsedIsComplete,
     Down, NoTurn, LockedSteps, DeletionSteps
<1>4. (Closing /\ Removed /\ KeysWritten)'
  <2>1. Closing' /\ KeysWritten'
    BY <1>0 DEF StoreInv, Closing, KeysWritten, Down, NoTurn
  <2>2. ~work => ~work'
    BY <1>0
  <2>3. Removed'
    BY <1>0, <2>2 DEF StoreInv, Removed
  <2>. QED
    BY <2>1, <2>3
<1>. QED
  BY <1>1, <1>3, <1>4 DEF StoreInv

\* Hermes restarts: no work runs.
LEMMA InvHermesRestarts == ASSUME StoreInv, HermesRestarts PROVE StoreInv'
<1>1. Typed'
  <2>1. Typed /\ Shaped
    BY DEF StoreInv
  <2>2. rt' \in Pass
    BY <2>1 DEF HermesRestarts, Fault, Typed, Pass
  <2>3. work' \in BOOLEAN
    BY <2>1, StoreAssumption DEF HermesRestarts, Fault, foundryVars, volume, Typed,
       Shaped
  <2>4. faults' \in 0..MaxFaults
    BY <2>1, StoreAssumption DEF HermesRestarts, Fault, foundryVars, volume, Typed,
       Shaped
  <2>5. UNCHANGED <<fnd, ws, past, files, tomb, lock, fenced, turn>>
    BY DEF HermesRestarts, foundryVars, volume
  <2>. QED
    BY <2>1, <2>2, <2>3, <2>4, <2>5 DEF Typed
<1>2. (Shaped /\ LockHeld /\ OnlyDeletedFenced /\ UsedIsComplete)'
  BY DEF HermesRestarts, Fault, foundryVars, volume, StoreInv, Shaped, LockHeld,
     OnlyDeletedFenced, UsedIsComplete
<1>3. (Closing /\ Removed /\ KeysWritten)'
  BY DEF HermesRestarts, Fault, foundryVars, volume, StoreInv, Closing, Removed,
     KeysWritten
<1>. QED
  BY <1>1, <1>2, <1>3 DEF StoreInv

\* The next Machine has the volume and nothing of the old process.
LEMMA InvReplaceMachine == ASSUME StoreInv, ReplaceMachine PROVE StoreInv'
<1>1. Typed'
  <2>1. /\ Typed /\ UNCHANGED <<past, files, tomb>> /\ rt' = Down /\ turn' = NoTurn
        /\ work' = FALSE
    BY DEF StoreInv, ReplaceMachine, Leave
  <2>2. ws' \in Workspace
    <3>1. ws.gen + 1 \in 1..MaxGen /\ ws' = [ws EXCEPT !.gen = ws.gen + 1, !.ready = FALSE]
      BY <2>1, StoreAssumption DEF ReplaceMachine, Typed, Workspace
    <3>. QED
      BY <2>1, <3>1 DEF Typed, Workspace
  <2>3. fnd' \in Profile
    BY <2>1, StoreAssumption DEF ReplaceMachine, Typed, Profile
  <2>4. lock' \in LockFile
    BY <2>1 DEF ReplaceMachine, Leave, Typed, LockFile
  <2>5. turn' \in Claim /\ rt' \in Pass
    BY <2>1, DownPass, StoreAssumption DEF Claim, NoTurn
  <2>6. faults' \in 0..MaxFaults
    BY <2>1, StoreAssumption DEF ReplaceMachine, Fault, Typed
  <2>. QED
    BY <2>1, <2>2, <2>3, <2>4, <2>5, <2>6 DEF Typed
<1>2. (Shaped /\ LockHeld /\ OnlyDeletedFenced /\ UsedIsComplete)'
  BY DEF ReplaceMachine, Fault, Leave, Down, StoreInv, Shaped, LockHeld,
     OnlyDeletedFenced, UsedIsComplete, LockedSteps, DeletionSteps, NoTurn
<1>3. (Closing /\ Removed /\ KeysWritten)'
  BY DEF ReplaceMachine, Fault, Leave, Down, StoreInv, Closing, Removed, KeysWritten,
     NoTurn
<1>. QED
  BY <1>1, <1>2, <1>3 DEF StoreInv

\* A lock file grows old; who holds it does not change.
LEMMA InvLockAges == ASSUME StoreInv, LockAges PROVE StoreInv'
<1>1. Typed'
  <2>1. Typed /\ Shaped
    BY DEF StoreInv
  <2>2. lock' \in LockFile
    BY <2>1, StoreAssumption DEF LockAges, foundryVars, Typed, Shaped, LockFile
  <2>3. UNCHANGED <<fnd, ws, past, files, tomb, rt, fenced, turn, work, faults>>
    BY DEF LockAges, foundryVars
  <2>. QED
    BY <2>1, <2>2, <2>3 DEF Typed
<1>2. (Shaped /\ LockHeld /\ OnlyDeletedFenced /\ UsedIsComplete)'
  BY DEF LockAges, foundryVars, StoreInv, Shaped, LockHeld, OnlyDeletedFenced,
     UsedIsComplete
<1>3. (Closing /\ Removed /\ KeysWritten)'
  BY DEF LockAges, foundryVars, StoreInv, Closing, Removed, KeysWritten
<1>. QED
  BY <1>1, <1>2, <1>3 DEF StoreInv

\* A pass starts from what Foundry says now.
LEMMA InvFetchDesired == ASSUME StoreInv, FetchDesired PROVE StoreInv'
<1>0. /\ StoreInv /\ Typed /\ rt.at = "idle"
      /\ UNCHANGED <<fnd, ws, past, files, tomb, lock, fenced, turn, work, faults>>
  BY DEF StoreInv, FetchDesired, foundryVars, volume
<1>1. PICK a \in {"report", "fence", "materialize"} :
        /\ rt' = [rt EXCEPT !.at = a, !.state = fnd.state, !.epoch = fnd.epoch, !.gen = ws.gen]
        /\ a = "fence" => fnd.state \notin {"pending", "active"}
  <2>1. CASE Deleting(fnd)
    BY <2>1 DEF FetchDesired, Snapshot, Deleting
  <2>2. CASE ~Deleting(fnd)
    BY <2>2 DEF FetchDesired, Snapshot
  <2>. QED
    BY <2>1, <2>2
<1>2. rt' \in Pass /\ rt'.at = a /\ rt'.gen > 0
  BY <1>0, <1>1, SnapshotPass DEF PassSteps, DeletionSteps
<1>. QED
  BY <1>0, <1>1, <1>2 DEF StoreInv, Typed, Shaped, LockHeld, OnlyDeletedFenced,
     UsedIsComplete, Closing, Removed, KeysWritten, LockedSteps, DeletionSteps

\* A pass reports that the workspace is ready.
LEMMA InvReportReadiness == ASSUME StoreInv, ReportReadiness PROVE StoreInv'
<1>1. Typed'
  <2>1. Typed /\ UNCHANGED <<fnd, past, files, tomb, work, faults>>
    BY DEF StoreInv, ReportReadiness
  <2>2. CASE rt.blocked
    <3>1. ws' \in Workspace
      BY <2>1, <2>2 DEF ReportReadiness, Exit, Typed, Workspace
    <3>2. lock' \in LockFile
      BY <2>1, <2>2 DEF ReportReadiness, Exit, Leave, Typed, LockFile
    <3>3. rt' \in Pass
      BY <2>2, DownPass DEF ReportReadiness, Exit, Leave
    <3>4. turn' \in Claim
      BY <2>2, StoreAssumption DEF ReportReadiness, Exit, Leave, Claim, NoTurn
    <3>. QED
      BY <2>1, <3>1, <3>2, <3>3, <3>4 DEF Typed
  <2>3. CASE ~rt.blocked
    <3>1. ws' \in Workspace /\ UNCHANGED <<lock, turn>>
      BY <2>1, <2>3 DEF ReportReadiness, Typed, Workspace
    <3>2. rt' \in Pass
      BY <2>1, <2>3, PassGoes DEF ReportReadiness, Go, Typed, PassSteps
    <3>. QED
      BY <2>1, <3>1, <3>2 DEF Typed
  <2>. QED
    BY <2>2, <2>3
<1>2. (Shaped /\ LockHeld /\ OnlyDeletedFenced /\ UsedIsComplete)'
  BY DEF ReportReadiness, Exit, Go, Leave, Down, StoreInv, Typed, Shaped, LockHeld,
     OnlyDeletedFenced, UsedIsComplete, Profile, Workspace, LockFile, Pass,
     LockedSteps, DeletionSteps, NoTurn
<1>3. (Closing /\ Removed /\ KeysWritten)'
  BY DEF ReportReadiness, Exit, Go, Leave, Down, StoreInv, Typed, Closing, Removed,
     KeysWritten, Pass, NoTurn
<1>. QED
  BY <1>1, <1>2, <1>3 DEF StoreInv

\* The interval is over.
LEMMA InvNextPass == ASSUME StoreInv, NextPass PROVE StoreInv'
<1>1. Typed'
  BY StoreAssumption DEF NextPass, Again, foundryVars, volume, Go, StoreInv, Typed,
     Pass, States, Results, PassSteps
<1>2. (Shaped /\ LockHeld /\ OnlyDeletedFenced /\ UsedIsComplete)'
  BY DEF NextPass, Again, foundryVars, volume, Go, StoreInv, Shaped, LockHeld,
     OnlyDeletedFenced, UsedIsComplete, LockedSteps, DeletionSteps
<1>3. (Closing /\ Removed /\ KeysWritten)'
  BY DEF NextPass, Again, foundryVars, volume, Go, StoreInv, Closing, Removed,
     KeysWritten
<1>. QED
  BY <1>1, <1>2, <1>3 DEF StoreInv

\* A tombstone refuses materialization.
LEMMA InvMaterializeRefused == ASSUME StoreInv, MaterializeRefused PROVE StoreInv'
<1>1. Typed'
  <2>1. Typed /\ UNCHANGED <<fnd, ws, past, files, tomb, turn, work, faults>>
    BY DEF StoreInv, MaterializeRefused, foundryVars
  <2>2. rt' \in Pass
    BY <2>1, DownPass DEF MaterializeRefused, Block, Typed, Pass, PassSteps
  <2>3. lock' \in LockFile
    BY <2>1, UnlockedFile DEF MaterializeRefused, Typed
  <2>. QED
    BY <2>1, <2>2, <2>3 DEF Typed
<1>2. (Shaped /\ LockHeld /\ OnlyDeletedFenced /\ UsedIsComplete)'
  BY DEF MaterializeRefused, TimedOut, Obtainable, Unlocked, Block, foundryVars,
     Stealable, StoreInv, Shaped, LockHeld, OnlyDeletedFenced, UsedIsComplete,
     LockedSteps, DeletionSteps
<1>3. (Closing /\ Removed /\ KeysWritten)'
  BY DEF MaterializeRefused, TimedOut, Obtainable, Unlocked, Block, foundryVars,
     Stealable, StoreInv, Closing, Removed, KeysWritten
<1>. QED
  BY <1>1, <1>2, <1>3 DEF StoreInv

\* Somebody else holds the lock: the pass fails.
LEMMA InvMaterializeLocked == ASSUME StoreInv, MaterializeLocked PROVE StoreInv'
<1>1. Typed'
  BY StoreAssumption DEF MaterializeLocked, Acquire, Go, foundryVars, Obtainable,
     Stealable, StoreInv, Typed, LockFile, Pass, States, Results, PassSteps,
     LockedSteps
<1>2. (Shaped /\ LockHeld /\ OnlyDeletedFenced /\ UsedIsComplete)'
  BY DEF MaterializeLocked, Acquire, Go, foundryVars, Obtainable, Stealable, StoreInv,
     Shaped, LockHeld, OnlyDeletedFenced, UsedIsComplete, LockedSteps, DeletionSteps
<1>3. (Closing /\ Removed /\ KeysWritten)'
  BY DEF MaterializeLocked, Acquire, Go, foundryVars, Obtainable, Stealable, StoreInv,
     Closing, Removed, KeysWritten
<1>. QED
  BY <1>1, <1>2, <1>3 DEF StoreInv

\* A complete directory is kept and its keys refreshed.
LEMMA InvInspectExisting == ASSUME StoreInv, InspectExisting PROVE StoreInv'
<1>0. /\ StoreInv /\ Typed /\ UNCHANGED <<fnd, ws, past, tomb, fenced, turn, work>>
      /\ rt.at = "inspect" /\ files.dir = "complete" /\ files' \in {files, Refreshed}
      /\ tomb = NoTomb /\ lock.by = "reconciler" /\ lock' = Unlocked
  BY DEF StoreInv, InspectExisting, foundryVars, UsedIsComplete, LockHeld, LockedSteps
<1>1. /\ files' \in Volume /\ files'.dir = "complete" /\ files'.env >= files'.sidecar
      /\ files'.sidecar = files.sidecar
  <2>1. files \in Volume /\ files.env >= files.sidecar /\ 0 \in 0..MaxBinding
    BY <1>0, StoreAssumption DEF StoreInv, Typed, KeysWritten
  <2>2. CASE files' = files
    BY <1>0, <2>1, <2>2
  <2>3. CASE files' = [files EXCEPT !.env = 0] /\ files.sidecar = 0
    BY <1>0, <2>1, <2>3 DEF Volume
  <2>. QED
    BY <1>0, <2>2, <2>3 DEF Refreshed
<1>2. lock' \in LockFile /\ lock'.by = "nobody"
  BY <1>0 DEF Unlocked, LockFile
<1>3. /\ rt' \in Pass /\ rt'.at \in {"materialized", "report"}
      /\ faults' \in 0..MaxFaults
  <2>1. CASE Go("materialized") /\ UNCHANGED faults
    BY <1>0, <2>1, PassGoes DEF Go, Typed, PassSteps, LockedSteps
  <2>2. CASE Block /\ Fault
    <3>1. rt' \in Pass /\ rt'.at = "report"
      BY <1>0, <2>2 DEF Block, Typed, Pass, PassSteps
    <3>2. faults' \in 0..MaxFaults
      BY <1>0, <2>2, StoreAssumption DEF Fault, Typed
    <3>. QED
      BY <3>1, <3>2
  <2>. QED
    BY <2>1, <2>2 DEF InspectExisting
<1>. QED
  BY <1>0, <1>1, <1>2, <1>3 DEF StoreInv, Typed, Shaped, LockHeld,
     OnlyDeletedFenced, UsedIsComplete, Closing, Removed, KeysWritten, LockedSteps,
     DeletionSteps, NoTomb

\* Another process's temporary directory is left alone.
LEMMA InvRefuseForeignTemporary == ASSUME StoreInv, RefuseForeignTemporary PROVE StoreInv'
<1>1. Typed'
  <2>1. Typed /\ Shaped
    BY DEF StoreInv
  <2>2. lock' \in LockFile
    BY <2>1 DEF RefuseForeignTemporary, ForeignTemporary, Unlocked, Block, LockFile
  <2>3. rt' \in Pass
    BY <2>1, StoreAssumption DEF RefuseForeignTemporary, ForeignTemporary, Unlocked,
       Block, Typed, Pass, PassSteps, States, Results
  <2>4. UNCHANGED <<fnd, ws, past, files, tomb, fenced, turn, work, faults>>
    BY DEF RefuseForeignTemporary, foundryVars
  <2>. QED
    BY <2>1, <2>2, <2>3, <2>4 DEF Typed
<1>2. (Shaped /\ LockHeld /\ OnlyDeletedFenced /\ UsedIsComplete)'
  BY DEF RefuseForeignTemporary, ForeignTemporary, Unlocked, Block, foundryVars,
     StoreInv, Shaped, LockHeld, OnlyDeletedFenced, UsedIsComplete, LockedSteps,
     DeletionSteps
<1>3. (Closing /\ Removed /\ KeysWritten)'
  BY DEF RefuseForeignTemporary, ForeignTemporary, Unlocked, Block, foundryVars,
     StoreInv, Closing, Removed, KeysWritten
<1>. QED
  BY <1>1, <1>2, <1>3 DEF StoreInv

\* The files are written beside the place they are published in.
LEMMA InvBuildProfile == ASSUME StoreInv, BuildProfile PROVE StoreInv'
<1>0. /\ StoreInv /\ Typed /\ UNCHANGED <<fnd, ws, past, tomb, fenced, turn, work>>
      /\ rt.at = "inspect" /\ files.dir = "absent" /\ rt.gen \in 1..MaxGen
      /\ files' = [files EXCEPT !.temp = {rt.gen}]
  BY StoreAssumption DEF StoreInv, BuildProfile, foundryVars, Shaped, Typed, Pass
<1>1. /\ files' \in Volume /\ files'.dir = "absent" /\ files'.env = files.env
      /\ files'.sidecar = files.sidecar
  BY <1>0 DEF Typed, Volume
<1>2. /\ fnd.state # "active" /\ turn.at = "none" /\ tomb = NoTomb /\ lock.by = "reconciler"
  BY <1>0 DEF StoreInv, UsedIsComplete, LockHeld, LockedSteps, Typed, Claim
<1>3. CASE Go("publish") /\ UNCHANGED <<lock, faults>>
  <2>1. rt' \in Pass /\ rt'.at = "publish" /\ UNCHANGED <<lock, faults>>
    BY <1>0, <1>3, PassGoes DEF Go, Typed, PassSteps, LockedSteps
  <2>. QED
    BY <1>0, <1>1, <1>2, <2>1 DEF StoreInv, Typed, Shaped, LockHeld,
       OnlyDeletedFenced, UsedIsComplete, Closing, Removed, KeysWritten, LockedSteps,
       DeletionSteps, NoTomb
<1>4. CASE Block /\ lock' = Unlocked /\ Fault
  <2>1. rt' \in Pass /\ rt'.at = "report"
    BY <1>0, <1>4 DEF Block, Typed, Pass, PassSteps
  <2>2. lock' \in LockFile /\ lock'.by = "nobody"
    BY <1>4 DEF Unlocked, LockFile
  <2>3. faults' \in 0..MaxFaults
    BY <1>0, <1>4, StoreAssumption DEF Fault, Typed
  <2>. QED
    BY <1>0, <1>1, <1>2, <2>1, <2>2, <2>3 DEF StoreInv, Typed, Shaped, LockHeld,
       OnlyDeletedFenced, UsedIsComplete, Closing, Removed, KeysWritten, LockedSteps,
       DeletionSteps, NoTomb
<1>. QED
  BY <1>3, <1>4 DEF BuildProfile

\* The rename makes a complete directory; no tombstone exists while the lock is held.
LEMMA InvPublishProfile == ASSUME StoreInv, PublishProfile PROVE StoreInv'
<1>1. Typed'
  BY StoreAssumption DEF PublishProfile, Unlocked, Go, foundryVars, StoreInv, Typed,
     Volume, LockFile, Pass, States, Results, PassSteps, NoFiles
<1>2. (Shaped /\ LockHeld /\ OnlyDeletedFenced /\ UsedIsComplete)'
  BY DEF PublishProfile, Unlocked, Go, foundryVars, StoreInv, Shaped, LockHeld,
     OnlyDeletedFenced, UsedIsComplete, LockedSteps, DeletionSteps
<1>3. (Closing /\ Removed /\ KeysWritten)'
  BY DEF PublishProfile, Unlocked, Go, foundryVars, StoreInv, UsedIsComplete, Closing,
     Removed, KeysWritten, NoTomb, NoFiles
<1>. QED
  BY <1>1, <1>2, <1>3 DEF StoreInv

\* Foundry activates only what is complete.
LEMMA InvAcceptMaterialization == ASSUME StoreInv, AcceptMaterialization PROVE StoreInv'
<1>1. Typed'
  <2>1. Typed /\ Shaped
    BY DEF StoreInv
  <2>2. fnd' \in Profile
    BY <2>1, StoreAssumption DEF AcceptMaterialization, ReceiptAcceptable, Go, Again,
       Fault, Typed, Profile, States, Results, Workspace, Pass
  <2>3. rt' \in Pass
    BY <2>1, StoreAssumption DEF AcceptMaterialization, ReceiptAcceptable, Go, Again,
       Fault, Typed, Pass, PassSteps, States, Results
  <2>4. faults' \in 0..MaxFaults
    BY <2>1, StoreAssumption DEF AcceptMaterialization, ReceiptAcceptable, Go, Again,
       Fault, Typed
  <2>5. UNCHANGED <<ws, past, files, tomb, lock, fenced, turn, work>>
    BY DEF AcceptMaterialization, volume
  <2>. QED
    BY <2>1, <2>2, <2>3, <2>4, <2>5 DEF Typed
<1>2. (Shaped /\ LockHeld /\ OnlyDeletedFenced /\ UsedIsComplete)'
  BY DEF AcceptMaterialization, ReceiptAcceptable, Go, Again, Fault, volume, StoreInv,
     Typed, Shaped, LockHeld, OnlyDeletedFenced, UsedIsComplete, Pass, LockedSteps,
     DeletionSteps
<1>3. (Closing /\ Removed /\ KeysWritten)'
  BY DEF AcceptMaterialization, ReceiptAcceptable, Go, Again, Fault, volume, StoreInv,
     Typed, Closing, Removed, KeysWritten, Pass
<1>. QED
  BY <1>1, <1>2, <1>3 DEF StoreInv

\* Foundry refuses the result; the files stay.
LEMMA InvRefuseMaterialization == ASSUME StoreInv, RefuseMaterialization PROVE StoreInv'
<1>0. /\ StoreInv /\ Typed /\ rt.at = "materialized"
      /\ UNCHANGED <<fnd, ws, past, files, tomb, lock, fenced, turn, work, faults>>
  BY DEF StoreInv, RefuseMaterialization, foundryVars, volume
<1>1. PICK a \in {"report", "fence"} :
        /\ rt' = [rt EXCEPT !.blocked = TRUE, !.state = fnd.state, !.epoch = fnd.epoch,
                            !.gen = ws.gen, !.at = a]
        /\ a = "fence" => fnd.state \notin {"pending", "active"}
  BY <1>0 DEF RefuseMaterialization, Deleting
<1>2. rt' \in Pass /\ rt'.at = a
  BY <1>0, <1>1, SnapshotPass DEF PassSteps, DeletionSteps
<1>. QED
  BY <1>0, <1>1, <1>2 DEF StoreInv, Typed, Shaped, LockHeld, OnlyDeletedFenced,
     UsedIsComplete, Closing, Removed, KeysWritten, LockedSteps, DeletionSteps

\* The fence cannot be written: the pass ends.
LEMMA InvFenceUnavailable == ASSUME StoreInv, FenceUnavailable PROVE StoreInv'
<1>1. Typed'
  BY StoreAssumption DEF FenceUnavailable, TimedOut, Postpone, foundryVars, volume,
     Stealable, Go, StoreInv, Typed, Pass, States, Results, PassSteps
<1>2. (Shaped /\ LockHeld /\ OnlyDeletedFenced /\ UsedIsComplete)'
  BY DEF FenceUnavailable, TimedOut, Postpone, foundryVars, volume, Stealable, Go,
     StoreInv, Shaped, LockHeld, OnlyDeletedFenced, UsedIsComplete, LockedSteps,
     DeletionSteps
<1>3. (Closing /\ Removed /\ KeysWritten)'
  BY DEF FenceUnavailable, TimedOut, Postpone, foundryVars, volume, Stealable, Go,
     StoreInv, Closing, Removed, KeysWritten
<1>. QED
  BY <1>1, <1>2, <1>3 DEF StoreInv

\* The pass takes the lock to write the fence.
LEMMA InvFenceDeletion == ASSUME StoreInv, FenceDeletion PROVE StoreInv'
<1>1. Typed'
  BY StoreAssumption DEF FenceDeletion, Acquire, Go, foundryVars, Obtainable,
     Stealable, StoreInv, Typed, LockFile, Pass, States, Results, PassSteps,
     LockedSteps
<1>2. (Shaped /\ LockHeld /\ OnlyDeletedFenced /\ UsedIsComplete)'
  BY DEF FenceDeletion, Acquire, Go, foundryVars, Obtainable, Stealable, StoreInv,
     Shaped, LockHeld, OnlyDeletedFenced, UsedIsComplete, LockedSteps, DeletionSteps
<1>3. (Closing /\ Removed /\ KeysWritten)'
  BY DEF FenceDeletion, Acquire, Go, foundryVars, Obtainable, Stealable, StoreInv,
     Closing, Removed, KeysWritten
<1>. QED
  BY <1>1, <1>2, <1>3 DEF StoreInv

\* The tombstone is on the volume before anything is removed.
LEMMA InvPersistFence == ASSUME StoreInv, PersistFence PROVE StoreInv'
<1>1. Typed'
  BY StoreAssumption DEF PersistFence, Unlocked, Go, Postpone, foundryVars, StoreInv,
     Typed, Tombstone, LockFile, Pass, States, Results, PassSteps, DeletionSteps
<1>2. (Shaped /\ LockHeld /\ OnlyDeletedFenced /\ UsedIsComplete)'
  BY DEF PersistFence, Unlocked, Go, Postpone, foundryVars, StoreInv, Typed, Shaped,
     LockHeld, OnlyDeletedFenced, UsedIsComplete, Pass, LockedSteps, DeletionSteps
<1>3. (Closing /\ Removed /\ KeysWritten)'
  BY DEF PersistFence, Unlocked, Go, Postpone, foundryVars, StoreInv, Typed, Closing,
     Removed, KeysWritten, Pass
<1>. QED
  BY <1>1, <1>2, <1>3 DEF StoreInv

\* The worker claims no further turn of the profile.
LEMMA InvFenceWorker == ASSUME StoreInv, FenceWorker PROVE StoreInv'
<1>1. Typed'
  <2>1. Typed /\ Shaped
    BY DEF StoreInv
  <2>2. rt' \in Pass
    BY <2>1, StoreAssumption DEF FenceWorker, Typed, Pass, PassSteps, DeletionSteps,
       States, Results
  <2>3. UNCHANGED <<fnd, ws, past, files, tomb, lock, turn, work, faults>>
    BY DEF FenceWorker, foundryVars, volume
  <2>. QED
    BY <2>1, <2>2, <2>3 DEF Typed
<1>2. (Shaped /\ LockHeld /\ OnlyDeletedFenced /\ UsedIsComplete)'
  BY DEF FenceWorker, foundryVars, volume, StoreInv, Shaped, LockHeld,
     OnlyDeletedFenced, UsedIsComplete, LockedSteps, DeletionSteps
<1>3. (Closing /\ Removed /\ KeysWritten)'
  BY DEF FenceWorker, foundryVars, volume, StoreInv, Closing, Removed, KeysWritten
<1>. QED
  BY <1>1, <1>2, <1>3 DEF StoreInv

\* Hermes has no work left.
LEMMA InvQuiesceHermes == ASSUME StoreInv, QuiesceHermes PROVE StoreInv'
<1>1. Typed'
  BY StoreAssumption DEF QuiesceHermes, MarkerAdmits, Closed, Go, foundryVars, volume,
     StoreInv, Typed, Pass, States, Results, PassSteps, DeletionSteps
<1>2. (Shaped /\ LockHeld /\ OnlyDeletedFenced /\ UsedIsComplete)'
  BY DEF QuiesceHermes, MarkerAdmits, Closed, Go, foundryVars, volume, StoreInv,
     Shaped, LockHeld, OnlyDeletedFenced, UsedIsComplete, LockedSteps
<1>3. (Closing /\ Removed /\ KeysWritten)'
  BY DEF QuiesceHermes, MarkerAdmits, Closed, Go, foundryVars, volume, StoreInv,
     Closing, Removed, KeysWritten
<1>. QED
  BY <1>1, <1>2, <1>3 DEF StoreInv

\* Hermes still has work: the pass ends and tells Foundry so.
LEMMA InvQuiescePending == ASSUME StoreInv, QuiescePending PROVE StoreInv'
<1>1. Typed'
  BY StoreAssumption DEF QuiescePending, Closed, MarkerAdmits, Fault, Postpone,
     foundryVars, volume, Go, StoreInv, Typed, Pass, States, Results, PassSteps
<1>2. (Shaped /\ LockHeld /\ OnlyDeletedFenced /\ UsedIsComplete)'
  BY DEF QuiescePending, Closed, MarkerAdmits, Fault, Postpone, foundryVars, volume,
     Go, StoreInv, Shaped, LockHeld, OnlyDeletedFenced, UsedIsComplete, LockedSteps,
     DeletionSteps
<1>3. (Closing /\ Removed /\ KeysWritten)'
  BY DEF QuiescePending, Closed, MarkerAdmits, Fault, Postpone, foundryVars, volume,
     Go, StoreInv, Closing, Removed, KeysWritten
<1>. QED
  BY <1>1, <1>2, <1>3 DEF StoreInv

\* The turn is over.
LEMMA InvJoinWorker == ASSUME StoreInv, JoinWorker PROVE StoreInv'
<1>1. Typed'
  BY StoreAssumption DEF JoinWorker, Go, Postpone, foundryVars, volume, StoreInv,
     Typed, Pass, States, Results, PassSteps, DeletionSteps
<1>2. (Shaped /\ LockHeld /\ OnlyDeletedFenced /\ UsedIsComplete)'
  BY DEF JoinWorker, Go, Postpone, foundryVars, volume, StoreInv, Typed, Shaped,
     LockHeld, OnlyDeletedFenced, UsedIsComplete, Pass, LockedSteps, DeletionSteps
<1>3. (Closing /\ Removed /\ KeysWritten)'
  BY DEF JoinWorker, Go, Postpone, foundryVars, volume, StoreInv, Typed, Shaped,
     Closing, Removed, KeysWritten, Pass
<1>. QED
  BY <1>1, <1>2, <1>3 DEF StoreInv

\* Foundry is asked again whether a lease is left, then the lock is taken.
LEMMA InvRecheckLeases == ASSUME StoreInv, RecheckLeases PROVE StoreInv'
<1>0. /\ StoreInv /\ Typed /\ rt.at = "recheck"
      /\ UNCHANGED <<fnd, ws, past, files, tomb, fenced, turn, work, faults>>
  BY DEF StoreInv, RecheckLeases, foundryVars
<1>1. lock.by # "reconciler" /\ tomb.status # "none" /\ ~work /\ turn = NoTurn
  BY <1>0 DEF StoreInv, LockHeld, LockedSteps, Closing
<1>2. CASE Postpone /\ UNCHANGED lock
  <2>1. rt' \in Pass /\ rt'.at = "report"
    BY <1>0, <1>2, PassGoes DEF Postpone, Go, Typed, PassSteps
  <2>. QED
    BY <1>0, <1>1, <1>2, <2>1 DEF StoreInv, Typed, Shaped, LockHeld,
       OnlyDeletedFenced, UsedIsComplete, Closing, Removed, KeysWritten, LockedSteps
<1>3. CASE Acquire("reconciler") /\ Go("cleanup")
  <2>1. rt' \in Pass /\ rt'.at = "cleanup"
    BY <1>0, <1>3, PassGoes DEF Go, Typed, PassSteps, LockedSteps
  <2>2. lock' \in LockFile /\ lock'.by = "reconciler"
    BY <1>3 DEF Acquire, LockFile
  <2>. QED
    BY <1>0, <1>1, <2>1, <2>2 DEF StoreInv, Typed, Shaped, LockHeld,
       OnlyDeletedFenced, UsedIsComplete, Closing, Removed, KeysWritten, LockedSteps,
       NoTurn
<1>4. CASE /\ UNCHANGED lock
           /\ rt' = [rt EXCEPT !.at = "receipt", !.result = "repair_required"]
  <2>1. rt' \in Pass /\ rt'.at = "receipt" /\ rt'.result = "repair_required"
    BY <1>0, <1>4 DEF Typed, Pass, PassSteps, DeletionSteps, Results
  <2>. QED
    BY <1>0, <1>1, <1>4, <2>1 DEF StoreInv, Typed, Shaped, LockHeld,
       OnlyDeletedFenced, UsedIsComplete, Closing, Removed, KeysWritten, LockedSteps
<1>. QED
  BY <1>2, <1>3, <1>4 DEF RecheckLeases

\* The tombstone decides: done already, superseded, too late, or the removal starts.
LEMMA InvStartCleanup == ASSUME StoreInv, StartCleanup PROVE StoreInv'
<1>0. /\ StoreInv /\ Typed /\ rt.at = "cleanup"
      /\ UNCHANGED <<fnd, ws, past, files, fenced, turn, work, faults>>
  BY DEF StoreInv, StartCleanup, foundryVars
<1>1. /\ lock.by = "reconciler" /\ tomb.status # "none" /\ ~work /\ turn = NoTurn
      /\ fnd.state \notin {"pending", "active"} /\ rt.epoch \in 0..MaxEpoch
  BY <1>0 DEF StoreInv, LockHeld, LockedSteps, Closing, OnlyDeletedFenced, Typed, Pass
<1>2. CASE tomb.status = "deleted"
  <2>0. Finish("deprovisioned") /\ UNCHANGED tomb
    BY <1>2 DEF StartCleanup
  <2>1. rt' \in Pass /\ rt'.at = "receipt" /\ rt'.result = "deprovisioned"
    BY <1>0, <2>0 DEF Finish, Typed, Pass, PassSteps, DeletionSteps, Results
  <2>2. lock' \in LockFile /\ lock'.by = "nobody" /\ UNCHANGED tomb
    BY <2>0, UnlockedFile DEF Finish
  <2>. QED
    BY <1>0, <1>1, <1>2, <2>1, <2>2 DEF StoreInv, Typed, Shaped, LockHeld,
       OnlyDeletedFenced, UsedIsComplete, Closing, Removed, KeysWritten, LockedSteps
<1>3. CASE tomb.status # "deleted"
  <2>0. tomb.status \in {"pending", "repair"} /\ fnd.state \notin {"deprovisioned", "purged"}
    BY <1>0, <1>1, <1>3 DEF StoreInv, Typed, Tombstone, Removed
  <2>1. CASE tomb.epoch > rt.epoch
    <3>0. Postpone /\ lock' = Unlocked /\ UNCHANGED tomb
      <4>1. ~(tomb.epoch <= rt.epoch)
        BY <1>0, <1>1, <2>1, StoreAssumption DEF Typed, Tombstone
      <4>. QED
        BY <1>3, <2>0, <2>1, <4>1 DEF StartCleanup
    <3>1. rt' \in Pass /\ rt'.at = "report" /\ UNCHANGED tomb
      BY <1>0, <3>0, PassGoes DEF Postpone, Go, Typed, PassSteps
    <3>2. lock' \in LockFile /\ lock'.by = "nobody"
      BY <3>0, UnlockedFile
    <3>. QED
      BY <1>0, <1>1, <3>1, <3>2 DEF StoreInv, Typed, Shaped, LockHeld,
         OnlyDeletedFenced, UsedIsComplete, Closing, Removed, KeysWritten, LockedSteps
  <2>2. CASE tomb.epoch <= rt.epoch /\ rt.epoch \in past
    <3>0. Finish("repair_required") /\ tomb' = [status |-> "repair", epoch |-> rt.epoch]
      <4>1. ~(tomb.epoch > rt.epoch)
        BY <1>0, <1>1, <2>2, StoreAssumption DEF Typed, Tombstone
      <4>. QED
        BY <1>3, <2>0, <2>2, <4>1 DEF StartCleanup
    <3>1. rt' \in Pass /\ rt'.at = "receipt" /\ rt'.result = "repair_required"
      BY <1>0, <3>0 DEF Finish, Typed, Pass, PassSteps, DeletionSteps, Results
    <3>2. lock' \in LockFile /\ lock'.by = "nobody"
      BY <3>0 DEF Finish, Unlocked, LockFile
    <3>3. tomb' \in Tombstone /\ tomb'.status = "repair"
      BY <1>1, <3>0 DEF Tombstone
    <3>. QED
      BY <1>0, <1>1, <2>0, <3>1, <3>2, <3>3 DEF StoreInv, Typed, Shaped, LockHeld,
         OnlyDeletedFenced, UsedIsComplete, Closing, Removed, KeysWritten, LockedSteps
  <2>3. CASE tomb.epoch <= rt.epoch /\ rt.epoch \notin past
    <3>0. /\ tomb' = [status |-> "pending", epoch |-> rt.epoch]
          /\ Go("remove") /\ UNCHANGED lock
      <4>1. ~(tomb.epoch > rt.epoch)
        BY <1>0, <1>1, <2>3, StoreAssumption DEF Typed, Tombstone
      <4>. QED
        BY <1>3, <2>0, <2>3, <4>1 DEF StartCleanup
    <3>1. rt' \in Pass /\ rt'.at = "remove"
      BY <1>0, <3>0, PassGoes DEF Go, Typed, PassSteps, LockedSteps
    <3>2. tomb' \in Tombstone /\ tomb'.status = "pending"
      BY <1>1, <3>0 DEF Tombstone
    <3>. QED
      BY <1>0, <1>1, <2>0, <3>0, <3>1, <3>2 DEF StoreInv, Typed, Shaped, LockHeld,
         OnlyDeletedFenced, UsedIsComplete, Closing, Removed, KeysWritten, LockedSteps
  <2>4. tomb.epoch > rt.epoch \/ tomb.epoch <= rt.epoch
    BY <1>0, <1>1, StoreAssumption DEF Typed, Tombstone
  <2>. QED
    BY <2>1, <2>2, <2>3, <2>4
<1>. QED
  BY <1>2, <1>3

\* The first entry goes: the directory is partial under a pending tombstone.
LEMMA InvBeginRemoval == ASSUME StoreInv, BeginRemoval PROVE StoreInv'
<1>1. Typed'
  BY DEF BeginRemoval, foundryVars, StoreInv, Typed, Volume
<1>2. (Shaped /\ LockHeld /\ OnlyDeletedFenced /\ UsedIsComplete)'
  BY DEF BeginRemoval, foundryVars, StoreInv, Shaped, LockHeld, OnlyDeletedFenced,
     UsedIsComplete, Closing, NoTurn
<1>3. (Closing /\ Removed /\ KeysWritten)'
  BY DEF BeginRemoval, foundryVars, StoreInv, Closing, Removed, KeysWritten
<1>. QED
  BY <1>1, <1>2, <1>3 DEF StoreInv

\* The removal fails half way; the tombstone says repair.
LEMMA InvRemovalFails == ASSUME StoreInv, RemovalFails PROVE StoreInv'
<1>1. Typed'
  <2>1. Typed /\ Shaped
    BY DEF StoreInv
  <2>2. tomb' \in Tombstone
    BY <2>1 DEF RemovalFails, Fault, Finish, Unlocked, Typed, Tombstone, Pass
  <2>3. lock' \in LockFile
    BY <2>1 DEF RemovalFails, Fault, Finish, Unlocked, LockFile
  <2>4. rt' \in Pass
    BY <2>1, StoreAssumption DEF RemovalFails, Fault, Finish, Unlocked, Typed, Pass,
       PassSteps, DeletionSteps, States, Results
  <2>5. faults' \in 0..MaxFaults
    BY <2>1, StoreAssumption DEF RemovalFails, Fault, Finish, foundryVars, Unlocked,
       Typed, Shaped
  <2>6. UNCHANGED <<fnd, ws, past, files, fenced, turn, work>>
    BY DEF RemovalFails, foundryVars
  <2>. QED
    BY <2>1, <2>2, <2>3, <2>4, <2>5, <2>6 DEF Typed
<1>2. (Shaped /\ LockHeld /\ OnlyDeletedFenced /\ UsedIsComplete)'
  BY DEF RemovalFails, Fault, Finish, foundryVars, Unlocked, StoreInv, Shaped,
     LockHeld, OnlyDeletedFenced, UsedIsComplete, LockedSteps, DeletionSteps
<1>3. (Closing /\ Removed /\ KeysWritten)'
  BY DEF RemovalFails, Fault, Finish, foundryVars, Unlocked, StoreInv, Closing,
     Removed, KeysWritten
<1>. QED
  BY <1>1, <1>2, <1>3 DEF StoreInv

\* The last entry goes.
LEMMA InvFinishRemoval == ASSUME StoreInv, FinishRemoval PROVE StoreInv'
<1>1. Typed'
  BY StoreAssumption DEF FinishRemoval, Go, foundryVars, StoreInv, Typed, Volume,
     Pass, States, Results, PassSteps, LockedSteps, NoFiles
<1>2. (Shaped /\ LockHeld /\ OnlyDeletedFenced /\ UsedIsComplete)'
  BY DEF FinishRemoval, Go, foundryVars, StoreInv, Shaped, LockHeld,
     OnlyDeletedFenced, UsedIsComplete, LockedSteps, DeletionSteps
<1>3. (Closing /\ Removed /\ KeysWritten)'
  BY DEF FinishRemoval, Go, foundryVars, StoreInv, UsedIsComplete, Closing, Removed,
     KeysWritten, NoFiles
<1>. QED
  BY <1>1, <1>2, <1>3 DEF StoreInv

\* The tombstone says deleted when no file is left.
LEMMA InvMarkDeleted == ASSUME StoreInv, MarkDeleted PROVE StoreInv'
<1>1. Typed'
  <2>1. Typed /\ Shaped
    BY DEF StoreInv
  <2>2. tomb' \in Tombstone
    BY <2>1, StoreAssumption DEF MarkDeleted, Finish, Unlocked, Tombstone
  <2>3. lock' \in LockFile
    BY <2>1, StoreAssumption DEF MarkDeleted, Finish, foundryVars, Unlocked, Typed,
       Shaped, LockFile
  <2>4. rt' \in Pass
    BY <2>1, StoreAssumption DEF MarkDeleted, Finish, Unlocked, Typed, Pass,
       PassSteps, DeletionSteps, States, Results
  <2>5. UNCHANGED <<fnd, ws, past, files, fenced, turn, work, faults>>
    BY DEF MarkDeleted, foundryVars
  <2>. QED
    BY <2>1, <2>2, <2>3, <2>4, <2>5 DEF Typed
<1>2. (Shaped /\ LockHeld /\ OnlyDeletedFenced /\ UsedIsComplete)'
  BY DEF MarkDeleted, Finish, foundryVars, Unlocked, StoreInv, Shaped, LockHeld,
     OnlyDeletedFenced, UsedIsComplete, LockedSteps, DeletionSteps
<1>3. (Closing /\ Removed /\ KeysWritten)'
  BY DEF MarkDeleted, Finish, Unlocked, StoreInv, Closing, Removed, KeysWritten,
     NoFiles
<1>. QED
  BY <1>1, <1>2, <1>3 DEF StoreInv

\* Foundry ends the deletion on the receipt of a completed one.
LEMMA InvAcceptCleanup == ASSUME StoreInv, AcceptCleanup PROVE StoreInv'
<1>1. Typed'
  <2>1. Typed /\ UNCHANGED <<ws, past, files, tomb, lock, turn, work>> /\ rt.at = "receipt"
    BY DEF StoreInv, AcceptCleanup, volume
  <2>2. rt.result \in States \ {"none"} /\ rt.result \in Results
    BY <2>1 DEF StoreInv, Closing, Typed, Pass, Results, States
  <2>3. fnd' \in Profile
    <3>1. CASE fnd.receipt # "none"
      BY <2>1, <3>1 DEF AcceptCleanup, Typed
    <3>2. CASE fnd.receipt = "none"
      <4> DEFINE m == IF rt.result = "deprovisioned" THEN 0 ELSE fnd.materialized
      <4>1. fnd' = [fnd EXCEPT !.receipt = rt.result, !.materialized = m, !.state = rt.result]
        BY <3>2 DEF AcceptCleanup
      <4>2. m \in 0..MaxGen
        BY <2>1, StoreAssumption DEF Typed, Profile
      <4> HIDE DEF m
      <4>. QED
        BY <2>1, <2>2, <4>1, <4>2 DEF Typed, Profile
    <3>. QED
      BY <3>1, <3>2
  <2>4. rt' \in Pass
    BY <2>1, PassGoes DEF AcceptCleanup, Go, Again, Typed, PassSteps
  <2>5. faults' \in 0..MaxFaults
    BY <2>1, StoreAssumption DEF AcceptCleanup, Fault, Typed
  <2>. QED
    BY <2>1, <2>3, <2>4, <2>5 DEF Typed
<1>2. (Shaped /\ LockHeld /\ OnlyDeletedFenced /\ UsedIsComplete)'
  BY StoreAssumption DEF AcceptCleanup, CleanupAcceptable, Go, Again, Fault, volume,
     Deleting, StoreInv, Typed, Shaped, LockHeld, OnlyDeletedFenced, UsedIsComplete,
     Pass, States, Results, PassSteps, LockedSteps
<1>3. (Closing /\ Removed /\ KeysWritten)'
  BY StoreAssumption DEF AcceptCleanup, CleanupAcceptable, Go, Again, Fault, volume,
     Deleting, StoreInv, Typed, Closing, Removed, KeysWritten, Pass, States, Results,
     PassSteps
<1>. QED
  BY <1>1, <1>2, <1>3 DEF StoreInv

\* Foundry refuses the receipt of an attempt that is no longer its own.
LEMMA InvRefuseCleanup == ASSUME StoreInv, RefuseCleanup PROVE StoreInv'
<1>1. Typed'
  <2>1. Typed /\ Shaped
    BY DEF StoreInv
  <2>2. ws' \in Workspace
    BY <2>1 DEF RefuseCleanup, CleanupAcceptable, Exit, Deleting, Leave, Down, Typed,
       Workspace
  <2>3. lock' \in LockFile
    BY <2>1 DEF RefuseCleanup, CleanupAcceptable, Exit, Deleting, Leave, Down, Typed,
       LockFile
  <2>4. rt' \in Pass
    BY <2>1, StoreAssumption DEF RefuseCleanup, CleanupAcceptable, Exit, Deleting,
       Leave, Down, Pass, PassSteps, States, Results
  <2>5. turn' \in Claim
    BY <2>1, StoreAssumption DEF RefuseCleanup, CleanupAcceptable, Exit, Deleting,
       Leave, Down, Claim, NoTurn
  <2>6. UNCHANGED <<fnd, past, files, tomb, work, faults>>
    BY DEF RefuseCleanup
  <2>. QED
    BY <2>1, <2>2, <2>3, <2>4, <2>5, <2>6 DEF Typed
<1>2. (Shaped /\ LockHeld /\ OnlyDeletedFenced /\ UsedIsComplete)'
  BY DEF RefuseCleanup, CleanupAcceptable, Exit, Deleting, Leave, Down, StoreInv,
     Shaped, LockHeld, OnlyDeletedFenced, UsedIsComplete, LockedSteps, DeletionSteps,
     NoTurn
<1>3. (Closing /\ Removed /\ KeysWritten)'
  BY DEF RefuseCleanup, CleanupAcceptable, Exit, Deleting, Leave, Down, StoreInv,
     Closing, Removed, KeysWritten, NoTurn
<1>. QED
  BY <1>1, <1>2, <1>3 DEF StoreInv

\* A turn starts on an active, hence complete, profile.
LEMMA InvClaimTurn == ASSUME StoreInv, ClaimTurn PROVE StoreInv'
<1>1. Typed'
  <2>1. Typed /\ Shaped
    BY DEF StoreInv
  <2>2. ws' \in Workspace
    BY <2>1, StoreAssumption DEF ClaimTurn, volume, Typed, Shaped, Workspace
  <2>3. turn' \in Claim
    BY <2>1, StoreAssumption DEF ClaimTurn, volume, Typed, Shaped, Claim, Profile
  <2>4. UNCHANGED <<fnd, past, files, tomb, lock, rt, fenced, work, faults>>
    BY DEF ClaimTurn, volume
  <2>. QED
    BY <2>1, <2>2, <2>3, <2>4 DEF Typed
<1>2. (Shaped /\ LockHeld /\ OnlyDeletedFenced /\ UsedIsComplete)'
  BY DEF ClaimTurn, volume, StoreInv, Shaped, LockHeld, OnlyDeletedFenced,
     UsedIsComplete
<1>3. (Closing /\ Removed /\ KeysWritten)'
  BY DEF ClaimTurn, volume, StoreInv, Typed, OnlyDeletedFenced, Closing, Removed,
     KeysWritten, Volume
<1>. QED
  BY <1>1, <1>2, <1>3 DEF StoreInv

\* Somebody holds the lock: the turn fails.
LEMMA InvBindingLocked == ASSUME StoreInv, BindingLocked PROVE StoreInv'
<1>1. Typed'
  BY DEF BindingLocked, Acquire, foundryVars, Obtainable, Stealable, StoreInv, Typed,
     LockFile, Claim
<1>2. (Shaped /\ LockHeld /\ OnlyDeletedFenced /\ UsedIsComplete)'
  BY DEF BindingLocked, Acquire, foundryVars, Obtainable, Stealable, StoreInv, Shaped,
     LockHeld, OnlyDeletedFenced, UsedIsComplete, NoTurn
<1>3. (Closing /\ Removed /\ KeysWritten)'
  BY DEF BindingLocked, Acquire, foundryVars, Obtainable, Stealable, StoreInv,
     Closing, Removed, KeysWritten, NoTurn
<1>. QED
  BY <1>1, <1>2, <1>3 DEF StoreInv

\* The keys cannot be written: the turn fails.
LEMMA InvBindingFails == ASSUME StoreInv, BindingFails PROVE StoreInv'
<1>1. Typed'
  <2>1. Typed /\ UNCHANGED <<fnd, past, files, tomb, rt, work>> /\ TurnOver
    BY DEF StoreInv, BindingFails
  <2>2. ws' \in Workspace
    BY <2>1 DEF TurnOver, Typed, Workspace
  <2>3. turn' \in Claim
    BY <2>1, StoreAssumption DEF TurnOver, NoTurn, Claim
  <2>4. lock' \in LockFile
    BY <2>1, UnlockedFile DEF BindingFails, Typed
  <2>5. faults' \in 0..MaxFaults
    BY <2>1, StoreAssumption DEF BindingFails, Fault, Typed
  <2>. QED
    BY <2>1, <2>2, <2>3, <2>4, <2>5 DEF Typed
<1>2. (Shaped /\ LockHeld /\ OnlyDeletedFenced /\ UsedIsComplete)'
  BY DEF BindingFails, TimedOut, Fault, Unlocked, TurnOver, Stealable, StoreInv,
     Shaped, LockHeld, OnlyDeletedFenced, UsedIsComplete, NoTurn
<1>3. (Closing /\ Removed /\ KeysWritten)'
  BY DEF BindingFails, TimedOut, Fault, Unlocked, TurnOver, Stealable, StoreInv,
     Closing, Removed, KeysWritten, NoTurn
<1>. QED
  BY <1>1, <1>2, <1>3 DEF StoreInv

\* The sidecar says the keys are current.
LEMMA InvBindingCurrent == ASSUME StoreInv, BindingCurrent PROVE StoreInv'
<1>1. Typed'
  BY DEF BindingCurrent, Unlocked, foundryVars, StoreInv, Typed, LockFile, Claim
<1>2. (Shaped /\ LockHeld /\ OnlyDeletedFenced /\ UsedIsComplete)'
  BY DEF BindingCurrent, Unlocked, foundryVars, StoreInv, Shaped, LockHeld,
     OnlyDeletedFenced, UsedIsComplete, NoTurn
<1>3. (Closing /\ Removed /\ KeysWritten)'
  BY DEF BindingCurrent, Unlocked, foundryVars, StoreInv, Closing, Removed,
     KeysWritten, NoTurn
<1>. QED
  BY <1>1, <1>2, <1>3 DEF StoreInv

\* The keys are written before the sidecar.
LEMMA InvWriteKeys == ASSUME StoreInv, WriteKeys PROVE StoreInv'
<1>1. Typed'
  BY DEF WriteKeys, FirstWrite, foundryVars, StoreInv, Typed, Volume, Claim
<1>2. (Shaped /\ LockHeld /\ OnlyDeletedFenced /\ UsedIsComplete)'
  BY DEF WriteKeys, FirstWrite, foundryVars, StoreInv, Shaped, LockHeld,
     OnlyDeletedFenced, UsedIsComplete, NoTurn
<1>3. (Closing /\ Removed /\ KeysWritten)'
  BY DEF WriteKeys, FirstWrite, foundryVars, StoreInv, Typed, Closing, Removed,
     KeysWritten, Volume, Claim, NoTurn
<1>. QED
  BY <1>1, <1>2, <1>3 DEF StoreInv

\* The sidecar records the keys that are written.
LEMMA InvRecordBinding == ASSUME StoreInv, RecordBinding PROVE StoreInv'
<1>1. Typed'
  <2>1. Typed /\ Shaped
    BY DEF StoreInv
  <2>2. files' \in Volume
    BY <2>1 DEF RecordBinding, SecondWrite, Unlocked, Typed, Volume, Claim
  <2>3. lock' \in LockFile
    BY <2>1, StoreAssumption DEF RecordBinding, SecondWrite, Unlocked, foundryVars,
       Typed, Shaped, LockFile
  <2>4. turn' \in Claim
    BY <2>1 DEF RecordBinding, SecondWrite, Unlocked, Typed, Claim
  <2>5. UNCHANGED <<fnd, ws, past, tomb, rt, fenced, work, faults>>
    BY DEF RecordBinding, foundryVars
  <2>. QED
    BY <2>1, <2>2, <2>3, <2>4, <2>5 DEF Typed
<1>2. (Shaped /\ LockHeld /\ OnlyDeletedFenced /\ UsedIsComplete)'
  BY DEF RecordBinding, SecondWrite, Unlocked, foundryVars, StoreInv, Shaped,
     LockHeld, OnlyDeletedFenced, UsedIsComplete, NoTurn
<1>3. (Closing /\ Removed /\ KeysWritten)'
  BY DEF RecordBinding, SecondWrite, Unlocked, foundryVars, StoreInv, Typed, Closing,
     Removed, KeysWritten, Claim, NoTurn
<1>. QED
  BY <1>1, <1>2, <1>3 DEF StoreInv

\* The run starts with the keys of its binding.
LEMMA InvStartRun == ASSUME StoreInv, StartRun PROVE StoreInv'
<1>1. Typed'
  <2>1. Typed /\ Shaped
    BY DEF StoreInv
  <2>2. ws' \in Workspace
    BY <2>1 DEF StartRun, Admitted, TurnOver, Typed, Workspace
  <2>3. turn' \in Claim
    BY <2>1, StoreAssumption DEF StartRun, Admitted, TurnOver, Typed, Claim, NoTurn
  <2>4. work' \in BOOLEAN
    BY <2>1 DEF StartRun, Admitted, TurnOver, Typed
  <2>5. UNCHANGED <<fnd, past, files, tomb, lock, rt, fenced, faults>>
    BY DEF StartRun, volume
  <2>. QED
    BY <2>1, <2>2, <2>3, <2>4, <2>5 DEF Typed
<1>2. (Shaped /\ LockHeld /\ OnlyDeletedFenced /\ UsedIsComplete)'
  BY DEF StartRun, Admitted, TurnOver, volume, StoreInv, Typed, Shaped, LockHeld,
     OnlyDeletedFenced, UsedIsComplete, Claim, NoTurn
<1>3. (Closing /\ Removed /\ KeysWritten)'
  BY DEF StartRun, Admitted, TurnOver, volume, StoreInv, Typed, Closing, Removed,
     KeysWritten, Claim, NoTurn, NoTomb
<1>. QED
  BY <1>1, <1>2, <1>3 DEF StoreInv

\* Hermes's work ends.
LEMMA InvWorkEnds == ASSUME StoreInv, WorkEnds PROVE StoreInv'
<1>1. Typed'
  <2>1. Typed /\ Shaped
    BY DEF StoreInv
  <2>2. work' \in BOOLEAN
    BY <2>1, StoreAssumption DEF WorkEnds, foundryVars, volume, Typed, Shaped
  <2>3. UNCHANGED <<fnd, ws, past, files, tomb, lock, rt, fenced, turn, faults>>
    BY DEF WorkEnds, foundryVars, volume
  <2>. QED
    BY <2>1, <2>2, <2>3 DEF Typed
<1>2. (Shaped /\ LockHeld /\ OnlyDeletedFenced /\ UsedIsComplete)'
  BY DEF WorkEnds, foundryVars, volume, StoreInv, Shaped, LockHeld, OnlyDeletedFenced,
     UsedIsComplete
<1>3. (Closing /\ Removed /\ KeysWritten)'
  BY DEF WorkEnds, foundryVars, volume, StoreInv, Closing, Removed, KeysWritten
<1>. QED
  BY <1>1, <1>2, <1>3 DEF StoreInv

\* The turn ends.
LEMMA InvEndTurn == ASSUME StoreInv, EndTurn PROVE StoreInv'
<1>1. Typed'
  <2>1. Typed /\ Shaped
    BY DEF StoreInv
  <2>2. ws' \in Workspace
    BY <2>1, StoreAssumption DEF EndTurn, TurnOver, volume, Typed, Shaped, Workspace,
       NoTurn
  <2>3. turn' \in Claim
    BY <2>1, StoreAssumption DEF EndTurn, TurnOver, Claim, NoTurn
  <2>4. UNCHANGED <<fnd, past, files, tomb, lock, rt, fenced, work, faults>>
    BY DEF EndTurn, volume
  <2>. QED
    BY <2>1, <2>2, <2>3, <2>4 DEF Typed
<1>2. (Shaped /\ LockHeld /\ OnlyDeletedFenced /\ UsedIsComplete)'
  BY DEF EndTurn, TurnOver, volume, StoreInv, Shaped, LockHeld, OnlyDeletedFenced,
     UsedIsComplete, NoTurn
<1>3. (Closing /\ Removed /\ KeysWritten)'
  BY DEF EndTurn, TurnOver, volume, StoreInv, Closing, Removed, KeysWritten, NoTurn
<1>. QED
  BY <1>1, <1>2, <1>3 DEF StoreInv

\* The lease of a turn that is over expires.
LEMMA InvLeaseExpires == ASSUME StoreInv, LeaseExpires PROVE StoreInv'
<1>1. Typed'
  <2>1. Typed /\ Shaped
    BY DEF StoreInv
  <2>2. ws' \in Workspace
    BY <2>1, StoreAssumption DEF LeaseExpires, volume, Typed, Shaped, Workspace
  <2>3. UNCHANGED <<fnd, past, files, tomb, lock, rt, fenced, turn, work, faults>>
    BY DEF LeaseExpires, volume
  <2>. QED
    BY <2>1, <2>2, <2>3 DEF Typed
<1>2. (Shaped /\ LockHeld /\ OnlyDeletedFenced /\ UsedIsComplete)'
  BY DEF LeaseExpires, volume, StoreInv, Shaped, LockHeld, OnlyDeletedFenced,
     UsedIsComplete
<1>3. (Closing /\ Removed /\ KeysWritten)'
  BY DEF LeaseExpires, volume, StoreInv, Closing, Removed, KeysWritten
<1>. QED
  BY <1>1, <1>2, <1>3 DEF StoreInv

\* A deletion is asked for.
LEMMA InvRequestDeletion == ASSUME StoreInv, RequestDeletion PROVE StoreInv'
<1>1. Typed'
  <2>1. Typed /\ UNCHANGED <<ws, past, files, tomb, lock, rt, turn, work, faults>>
    BY DEF StoreInv, RequestDeletion, volume
  <2>2. fnd' \in Profile
    BY <2>1, AttemptTyped DEF RequestDeletion, Typed
  <2>. QED
    BY <2>1, <2>2 DEF Typed
<1>2. (Shaped /\ LockHeld /\ OnlyDeletedFenced /\ UsedIsComplete)'
  BY DEF RequestDeletion, Attempt, volume, StoreInv, Typed, Shaped, LockHeld,
     OnlyDeletedFenced, UsedIsComplete, Profile, Workspace
<1>3. (Closing /\ Removed /\ KeysWritten)'
  BY DEF RequestDeletion, Attempt, volume, StoreInv, Closing, Removed, KeysWritten
<1>. QED
  BY <1>1, <1>2, <1>3 DEF StoreInv

\* A deletion that failed is tried again.
LEMMA InvResumeDeletion == ASSUME StoreInv, ResumeDeletion PROVE StoreInv'
<1>1. Typed'
  <2>1. Typed /\ UNCHANGED <<ws, past, files, tomb, lock, rt, turn, work, faults>>
    BY DEF StoreInv, ResumeDeletion, volume
  <2>2. fnd' \in Profile
    BY <2>1, AttemptTyped DEF ResumeDeletion, Typed
  <2>. QED
    BY <2>1, <2>2 DEF Typed
<1>2. (Shaped /\ LockHeld /\ OnlyDeletedFenced /\ UsedIsComplete)'
  BY DEF ResumeDeletion, Attempt, volume, StoreInv, Typed, Shaped, LockHeld,
     OnlyDeletedFenced, UsedIsComplete, Profile, Workspace
<1>3. (Closing /\ Removed /\ KeysWritten)'
  BY DEF ResumeDeletion, Attempt, volume, StoreInv, Closing, Removed, KeysWritten
<1>. QED
  BY <1>1, <1>2, <1>3 DEF StoreInv

\* A deletion attempt runs out of time.
LEMMA InvAttemptExpires == ASSUME StoreInv, AttemptExpires PROVE StoreInv'
<1>1. Typed'
  <2>1. Typed /\ UNCHANGED <<fnd, ws, files, tomb, lock, rt, turn, work, faults>>
    BY DEF StoreInv, AttemptExpires, volume
  <2>2. fnd.epoch \in 1..MaxEpoch
    BY <2>1, StoreAssumption DEF AttemptExpires, StoreInv, Shaped, Deleting, Typed,
       Profile
  <2>3. past' \subseteq 1..MaxEpoch
    BY <2>1, <2>2 DEF AttemptExpires, Typed
  <2>. QED
    BY <2>1, <2>3 DEF Typed
<1>2. (Shaped /\ LockHeld /\ OnlyDeletedFenced /\ UsedIsComplete)'
  BY DEF AttemptExpires, Deleting, volume, StoreInv, Shaped, LockHeld,
     OnlyDeletedFenced, UsedIsComplete
<1>3. (Closing /\ Removed /\ KeysWritten)'
  BY DEF AttemptExpires, Deleting, volume, StoreInv, Closing, Removed, KeysWritten
<1>. QED
  BY <1>1, <1>2, <1>3 DEF StoreInv

\* A deletion attempt that ran out of time goes to repair.
LEMMA InvRepairExpired == ASSUME StoreInv, RepairExpired PROVE StoreInv'
<1>0. /\ StoreInv /\ Typed /\ fnd.state = "cleanup_pending"
      /\ UNCHANGED <<past, files, tomb, lock, rt, fenced, turn, work, faults>>
  BY DEF StoreInv, RepairExpired, volume
<1>1. fnd' \in Profile /\ fnd'.state = "repair_required" /\ fnd'.epoch = fnd.epoch
  <2>1. CASE fnd' = [fnd EXCEPT !.state = "repair_required", !.receipt = "repair_required"]
    BY <1>0, <2>1 DEF Typed, Profile, States, Results
  <2>2. CASE fnd' = [fnd EXCEPT !.state = "repair_required"]
    BY <1>0, <2>2 DEF Typed, Profile, States, Results
  <2>. QED
    BY <2>1, <2>2 DEF RepairExpired
<1>2. ws' \in Workspace /\ ws'.ready = ws.ready
  BY <1>0 DEF RepairExpired, Typed, Workspace
<1>. QED
  BY <1>0, <1>1, <1>2 DEF StoreInv, Typed, Shaped, LockHeld, OnlyDeletedFenced,
     UsedIsComplete, Closing, Removed, KeysWritten

\* Only a deprovisioned profile is purged.
LEMMA InvPurgeProfile == ASSUME StoreInv, PurgeProfile PROVE StoreInv'
<1>1. Typed'
  BY StoreAssumption DEF PurgeProfile, volume, StoreInv, Typed, Profile, Workspace,
     States, Results, PassSteps
<1>2. (Shaped /\ LockHeld /\ OnlyDeletedFenced /\ UsedIsComplete)'
  BY DEF PurgeProfile, volume, StoreInv, Shaped, LockHeld, OnlyDeletedFenced,
     UsedIsComplete
<1>3. (Closing /\ Removed /\ KeysWritten)'
  BY DEF PurgeProfile, volume, StoreInv, Closing, Removed, KeysWritten
<1>. QED
  BY <1>1, <1>2, <1>3 DEF StoreInv

\* Foundry binds another model; the volume is not told.
LEMMA InvSetModelBinding == ASSUME StoreInv, SetModelBinding PROVE StoreInv'
<1>1. Typed'
  BY StoreAssumption DEF SetModelBinding, volume, StoreInv, Typed, Profile, Workspace,
     States, Results, PassSteps
<1>2. (Shaped /\ LockHeld /\ OnlyDeletedFenced /\ UsedIsComplete)'
  BY DEF SetModelBinding, volume, StoreInv, Shaped, LockHeld, OnlyDeletedFenced,
     UsedIsComplete
<1>3. (Closing /\ Removed /\ KeysWritten)'
  BY DEF SetModelBinding, volume, StoreInv, Closing, Removed, KeysWritten
<1>. QED
  BY <1>1, <1>2, <1>3 DEF StoreInv

-----------------------------------------------------------------------------
(* The invariant.                                                          *)

\* An empty volume and a dead process satisfy the invariant.
LEMMA InvInit == Init => StoreInv
<1>. SUFFICES ASSUME Init PROVE StoreInv
  OBVIOUS
<1>1. /\ 0 \in 0..MaxEpoch /\ 0 \in 0..MaxGen /\ 1 \in 1..MaxGen /\ 0 \in 0..MaxBinding
      /\ 0 \in 0..MaxFaults
  BY StoreAssumption
<1>2. fnd \in Profile /\ ws \in Workspace /\ past \subseteq 1..MaxEpoch
  BY <1>1 DEF Init, Profile, Workspace, States, Results
<1>3. files \in Volume /\ tomb \in Tombstone /\ lock \in LockFile
  BY <1>1 DEF Init, Volume, Tombstone, LockFile, NoFiles, NoTomb
<1>4. rt \in Pass /\ turn \in Claim
  BY <1>1, DownPass DEF Init, Claim, NoTurn
<1>5. Typed
  BY <1>1, <1>2, <1>3, <1>4 DEF Init, Typed
<1>6. Shaped /\ LockHeld /\ OnlyDeletedFenced
  BY DEF Init, Shaped, LockHeld, OnlyDeletedFenced, Down, NoTurn, NoTomb, LockedSteps,
     DeletionSteps
<1>7. UsedIsComplete /\ Closing /\ Removed
  BY DEF Init, UsedIsComplete, Closing, Removed, Down, NoTurn, NoTomb, NoFiles
<1>8. KeysWritten
  BY DEF Init, KeysWritten, NoTurn, NoFiles
<1>. QED
  BY <1>5, <1>6, <1>7, <1>8 DEF StoreInv

\* Every step of the pass keeps it.
LEMMA InvReconcile == ASSUME StoreInv, Reconcile PROVE StoreInv'
  BY InvFetchDesired, InvReportReadiness, InvNextPass, InvMaterializeRefused,
     InvMaterializeLocked, InvInspectExisting, InvRefuseForeignTemporary, InvBuildProfile,
     InvPublishProfile, InvAcceptMaterialization, InvRefuseMaterialization,
     InvFenceUnavailable, InvFenceDeletion, InvPersistFence, InvFenceWorker,
     InvQuiesceHermes, InvQuiescePending, InvJoinWorker, InvRecheckLeases,
     InvStartCleanup, InvBeginRemoval, InvRemovalFails, InvFinishRemoval, InvMarkDeleted,
     InvAcceptCleanup, InvRefuseCleanup
  DEF Reconcile

\* Every step of a turn keeps it.
LEMMA InvRunTurn == ASSUME StoreInv, RunTurn PROVE StoreInv'
  BY InvBindingLocked, InvBindingFails, InvBindingCurrent, InvWriteKeys,
     InvRecordBinding, InvStartRun, InvEndTurn
  DEF RunTurn

\* The invariant is inductive.
LEMMA InvNext == StoreInv /\ [Next]_vars => StoreInv'
<1>. SUFFICES ASSUME StoreInv, [Next]_vars PROVE StoreInv'
  OBVIOUS
<1>1. CASE Next
  BY <1>1, InvBoot, InvCrash, InvHermesRestarts, InvReplaceMachine, InvLockAges,
     InvReconcile, InvClaimTurn, InvRunTurn, InvWorkEnds, InvLeaseExpires,
     InvRequestDeletion, InvResumeDeletion, InvAttemptExpires, InvRepairExpired,
     InvPurgeProfile, InvSetModelBinding
  DEF Next
<1>2. CASE UNCHANGED vars
  BY <1>2 DEF vars, StoreInv, Typed, Shaped, LockHeld, OnlyDeletedFenced, UsedIsComplete,
     Closing, Removed, KeysWritten
<1>. QED
  BY <1>1, <1>2

(* Every reachable state satisfies the inductive invariant.                *)
THEOREM StoreInvariant == Spec => []StoreInv
<1>. QED
  BY InvInit, InvNext, PTL DEF Spec

(* What Foundry records as deprovisioned has left no file on the volume,   *)
(* nothing of it runs, and its tombstone refuses to create it again,       *)
(* wherever the runtime, Hermes or the Machine were lost on the way.       *)
THEOREM DeletionIsComplete == Spec => []DeletedStaysDeleted
<1>1. StoreInv => DeletedStaysDeleted
  <2>. SUFFICES ASSUME StoreInv PROVE DeletedStaysDeleted
    OBVIOUS
  <2>1. turn.at \in {"none", "start", "bind", "bound", "ready", "running"}
    BY DEF StoreInv, Typed, Claim
  <2>2. TypeOK
    BY <2>1 DEF StoreInv, Typed, Shaped, TypeOK, Profile, Workspace, Volume, Tombstone,
       LockFile, States, Results
  <2>. QED
    BY <2>2 DEF StoreInv, Removed, DeletedStaysDeleted
<1>. QED
  BY <1>1, StoreInvariant, PTL

(* A directory is incomplete only under a tombstone and while neither a    *)
(* turn nor a Hermes run, of this process or an earlier one, uses it.      *)
THEOREM RemovalIsIdle == Spec => []RemovedOnlyWhenIdle
<1>1. StoreInv => RemovedOnlyWhenIdle
  BY DEF StoreInv, Removed, RemovedOnlyWhenIdle
<1>. QED
  BY <1>1, StoreInvariant, PTL

(* A turn runs with the keys of the binding it was claimed with, whatever  *)
(* a crash left between the key file and the sidecar.                      *)
THEOREM KeysMatchTurn == Spec => []TurnHasItsKeys
<1>1. StoreInv => TurnHasItsKeys
  <2>. SUFFICES ASSUME StoreInv, turn.at \in {"ready", "running"}
                PROVE  files.env >= turn.binding /\ files.sidecar >= turn.binding
    BY DEF TurnHasItsKeys
  <2>1. files.env \in Nat /\ files.sidecar \in Nat /\ turn.binding \in Nat
    BY StoreAssumption DEF StoreInv, Typed, Volume, Claim
  <2>2. files.env >= files.sidecar /\ files.sidecar >= turn.binding
    BY DEF StoreInv, KeysWritten
  <2>. QED
    BY <2>1, <2>2
<1>. QED
  BY <1>1, StoreInvariant, PTL

-----------------------------------------------------------------------------
(***************************************************************************)
(* Publications.  The same volume holds the spool of published files; its  *)
(* specification has constants and variables of its own, and nothing below *)
(* is about ProfileStore.                                                  *)
(*                                                                         *)
(* The invariant follows the snapshot from the copy to the release: what   *)
(* is on the volume at each step of the tool call, that a manifest is only *)
(* recorded, and a "freeze" only reported, for what is kept, and that a    *)
(* release, an answer of "ready" or a "releasing" ledger is only there     *)
(* once Cloud is ready.  The handlers that nobody waits for any more are   *)
(* held to the same as the ones that somebody does.                        *)
(***************************************************************************)
Clouds == [state : {"none", "uploading", "validating", "ready", "failed"}, rev : 0..MaxRev]
Intents == [state : {"none", "preparing", "frozen", "registered", "ready", "failed"},
            manifest : BOOLEAN, attempts : 0..MaxAttempts, due : BOOLEAN,
            rev : 0..MaxRev, retryRev : 0..MaxRev]
Spools == [ledger : {"none", "copying", "frozen", "releasing"}, old : BOOLEAN,
           copy : BOOLEAN, snap : BOOLEAN, journal : BOOLEAN]
Handlers == [op : {"none", "freeze", "register", "upload", "failed", "submitted", "claim", "get"},
             at : {"none", "sent", "answered"}, rev : Nat, ok : BOOLEAN,
             view : {"none", "uploading", "validating", "ready", "failed"}, got : 0..MaxRev]
Memories == [tool : Nat, recover : Nat, has : BOOLEAN]
ToolPlaces == {"none", "reserve", "copy", "journal", "mark", "freeze", "register", "upload",
               "get", "release", "remove", "unlink", "unreserve", "done"}
RecoveryPlaces == {"start", "idle", "freeze", "get", "upload", "claim", "retry", "failed",
                   "submitted", "check", "release", "remove", "unlink", "unreserve"}
Places == [tool : ToolPlaces, recover : RecoveryPlaces]
\* Where the tool call copies, and where each of the callers asks Foundry.
Copying == {"none", "reserve", "copy", "journal", "mark"}
ToolAsking == {"freeze", "register", "upload", "get"}
RecoveryAsking == {"freeze", "get", "upload", "claim", "retry", "failed", "submitted", "check"}

\* The intent r and Cloud's publication k: a manifest exactly while the intent is
\* open or ready, and a revision only with a manifest and from Cloud.
IntentFits(r, k) ==
    /\ r \in Intents
    /\ r.manifest <=> r.state \in {"frozen", "registered", "failed", "ready"}
    /\ r.state = "registered" => r.rev > 0
    /\ r.rev > 0 => r.manifest
    /\ r.rev <= k.rev

\* What the answer that the handler h holds says of Cloud: no revision that Cloud
\* has not given, no receipt that it has not.
HandlerFits(h, k) ==
    /\ h \in Handlers /\ h.got <= k.rev
    /\ h.at # "none" => h.op # "none"
    /\ h.at # "answered" => h.ok = FALSE /\ h.got = 0 /\ h.view = "none"
    /\ h.ok /\ h.op \in {"freeze", "register"} => h.got > 0
    /\ h.view \in {"ready", "failed"} => h.got > 0
    /\ h.view = "ready" => k.state = "ready"

\* The snapshot is on the volume v, or what a ledger that could not be written
\* leaves of it, until Cloud has the file.
KeptOn(v, k) ==
    \/ v.journal /\ v.snap
    \/ v.journal /\ ~v.snap /\ v.ledger \in {"none", "copying"}
    \/ k.state = "ready"

\* What is on the volume while the tool call is at t.
SpoolFits(v, t, k) ==
    /\ v \in Spools
    /\ v.copy => v.ledger = "copying" /\ ~v.snap /\ ~v.journal
    /\ v.snap => v.ledger # "none"
    /\ v.ledger = "frozen" => v.journal /\ v.snap
    /\ v.ledger = "releasing" => k.state = "ready"
    /\ t \in {"none", "reserve"} => v = NoRecord
    /\ t \in {"copy", "journal", "mark"} => v.ledger = "copying" /\ v.old = FALSE
    /\ t \in {"copy", "journal"} => v.journal = FALSE
    /\ t = "copy" => v.snap = FALSE
    /\ t \in {"journal", "mark"} => v.snap = TRUE /\ v.copy = FALSE
    /\ t = "mark" => v.journal = TRUE

\* A caller at p reports as frozen only what is kept, and releases only what Cloud
\* has, never beside a copy of the tool call at t.
CallerFits(p, t, v, k) ==
    /\ p = "freeze" => KeptOn(v, k)
    /\ p \in {"release", "remove", "unlink", "unreserve"} => k.state = "ready"
    /\ p \in {"remove", "unlink", "unreserve"} =>
          v.ledger \in {"none", "releasing"} /\ t \notin Copying
    /\ p \in {"unlink", "unreserve"} => ~v.snap

\* The callers wait only where they ask, and a runtime that is down does nothing.
Waiting(p, a, u) ==
    /\ a["tool"] # NoCall => p.tool \in ToolAsking
    /\ a["recover"] # NoCall => p.recover \in RecoveryAsking
    /\ ~u => p.tool \in {"none", "done"} /\ p.recover = "start"

HandlersFit(a, l, k) ==
    /\ a \in [{"tool", "recover"} -> Handlers]
    /\ \A c \in {"tool", "recover"} : HandlerFits(a[c], k)
    /\ \A h \in l : HandlerFits(h, k)

CloudFits(k) == k \in Clouds /\ (k.state # "none" <=> k.rev > 0)

PublicationInv ==
    /\ CloudFits(cloud) /\ IntentFits(row, cloud)
    /\ pc \in Places /\ mem \in Memories /\ up \in BOOLEAN /\ losses \in 0..MaxLosses
    /\ HandlersFit(call, late, cloud) /\ Waiting(pc, call, up)
    /\ SpoolFits(vol, pc.tool, cloud)
    /\ CallerFits(pc.tool, pc.tool, vol, cloud) /\ CallerFits(pc.recover, pc.tool, vol, cloud)
    /\ row.manifest => KeptOn(vol, cloud)

\* Cloud moves on from k to n: revisions only grow, and what is ready stays ready.
CloudMoves(k, n) ==
    CloudFits(n) /\ k.rev <= n.rev /\ (k.state = "ready" => n.state = "ready")

\* What fits Cloud still fits it when it has moved on.
LEMMA FitsLater ==
    ASSUME NEW k, NEW n, CloudFits(k), CloudMoves(k, n)
    PROVE  /\ \A r : IntentFits(r, k) => IntentFits(r, n)
           /\ \A h : HandlerFits(h, k) => HandlerFits(h, n)
           /\ \A v, t : SpoolFits(v, t, k) => SpoolFits(v, t, n)
           /\ \A v : KeptOn(v, k) => KeptOn(v, n)
           /\ \A p, t, v : CallerFits(p, t, v, k) => CallerFits(p, t, v, n)
<1>1. k.rev \in Nat /\ n.rev \in Nat /\ k.rev <= n.rev /\ (k.state = "ready" => n.state = "ready")
  BY DEF CloudFits, CloudMoves, Clouds
<1>2. ASSUME NEW r, IntentFits(r, k) PROVE IntentFits(r, n)
  <2>1. r.rev \in Nat
    BY <1>2 DEF IntentFits, Intents
  <2> QED BY <1>1, <1>2, <2>1 DEF IntentFits
<1>3. ASSUME NEW h, HandlerFits(h, k) PROVE HandlerFits(h, n)
  <2>1. h.got \in Nat
    BY <1>3 DEF HandlerFits, Handlers
  <2> QED BY <1>1, <1>3, <2>1 DEF HandlerFits
<1>4. \A v, t : SpoolFits(v, t, k) => SpoolFits(v, t, n)
  BY <1>1 DEF SpoolFits
<1>5. \A v : KeptOn(v, k) => KeptOn(v, n)
  BY <1>1 DEF KeptOn
<1>6. \A p, t, v : CallerFits(p, t, v, k) => CallerFits(p, t, v, n)
  BY <1>1, <1>5 DEF CallerFits
<1> QED BY <1>2, <1>3, <1>4, <1>5, <1>6

\* Cloud does what a request asks and moves on (CloudAfter); its answer fits it.
LEMMA CloudAfterFits ==
    ASSUME CloudFits(cloud), NEW h, HandlerFits(h, cloud),
           h.at = "sent"
    PROVE  /\ CloudMoves(cloud, CloudAfter(h))
           /\ HandlerFits(Answer(h), CloudAfter(h))
           /\ HandlerFits(Refused(h), cloud)
<1> DEFINE n == CloudAfter(h)
<1>1. /\ CloudFits(n) /\ cloud.rev <= n.rev /\ (cloud.state = "ready" => n.state = "ready")
      /\ h.op \in {"freeze", "register"} => n.rev > 0
      /\ h.op \in {"get", "claim"} => n = cloud
  <2>1. CASE h.op \in {"freeze", "register"} /\ cloud.state = "none"
    <3>1. n = [state |-> "uploading", rev |-> 1]
      BY <2>1 DEF CloudAfter
    <3>2. 1 \in 0..MaxRev /\ cloud.rev \in 0..MaxRev
      BY PublicationAssumption DEF CloudFits, Clouds
    <3>3. cloud.rev <= 1
      BY <2>1, <3>2 DEF CloudFits
    <3> QED BY <2>1, <3>1, <3>2, <3>3 DEF CloudFits, Clouds
  <2>2. CASE h.op = "upload" /\ CloudOk(h) /\ cloud.state = "uploading"
    <3>1. n = [cloud EXCEPT !.state = "validating"]
      BY <2>2 DEF CloudAfter
    <3>2. n \in Clouds /\ n.state = "validating" /\ n.rev = cloud.rev /\ cloud.rev \in Nat
      BY <3>1 DEF CloudFits, Clouds
    <3> QED BY <2>2, <3>2 DEF CloudFits
  <2>3. CASE h.op = "failed" /\ CloudOk(h) /\ cloud.state = "uploading"
    <3>1. n = [cloud EXCEPT !.state = "failed"]
      BY <2>3 DEF CloudAfter
    <3>2. n \in Clouds /\ n.state = "failed" /\ n.rev = cloud.rev /\ cloud.rev \in Nat
      BY <3>1 DEF CloudFits, Clouds
    <3> QED BY <2>3, <3>2 DEF CloudFits
  <2>4. CASE /\ ~(h.op \in {"freeze", "register"} /\ cloud.state = "none")
             /\ ~(h.op = "upload" /\ CloudOk(h) /\ cloud.state = "uploading")
             /\ ~(h.op = "failed" /\ CloudOk(h) /\ cloud.state = "uploading")
    <3>1. n = cloud
      BY <2>4 DEF CloudAfter
    <3>2. cloud.rev \in Nat
      BY DEF CloudFits, Clouds
    <3> QED BY <2>4, <3>1, <3>2 DEF CloudFits
  <2> QED BY <2>1, <2>2, <2>3, <2>4
<1>2. CloudMoves(cloud, n)
  BY <1>1 DEF CloudMoves
<1>3. HandlerFits(Answer(h), n)
  <2> DEFINE ok == CloudOk(h)
             view == IF h.op = "get" /\ cloud.state # "validating" THEN cloud.state ELSE "none"
             got == CASE h.op = "get" -> IF cloud.state = "validating" THEN 0 ELSE cloud.rev
                      [] h.op \in {"freeze", "register"} -> n.rev
                      [] h.op = "claim" /\ Offered -> cloud.rev
                      [] OTHER -> 0
  <2>1. Answer(h) = [h EXCEPT !.at = "answered", !.ok = ok, !.view = view, !.got = got]
    BY DEF Answer
  <2>2. ok \in BOOLEAN
    BY DEF CloudOk, HandlerFits, Handlers
  <2>3. /\ view \in {"none", "uploading", "ready", "failed"}
        /\ view = "ready" => n.state = "ready"
        /\ view \in {"ready", "failed"} => h.op = "get" /\ view = cloud.state
    BY <1>1 DEF CloudFits, Clouds
  <2>4. /\ got \in 0..MaxRev /\ got <= n.rev
        /\ h.op \in {"freeze", "register"} => got > 0
        /\ view \in {"ready", "failed"} => got > 0
    <3>1. /\ cloud.rev \in 0..MaxRev /\ n.rev \in 0..MaxRev /\ MaxRev \in Nat /\ cloud.rev <= n.rev
      BY PublicationAssumption, <1>1 DEF CloudFits, Clouds
    <3>2. CASE h.op = "get"
      <4>1. view \in {"ready", "failed"} => cloud.rev > 0 /\ cloud.state # "validating"
        BY <2>3 DEF CloudFits
      <4> QED BY <3>1, <3>2, <4>1
    <3>3. CASE h.op \in {"freeze", "register"}
      BY <1>1, <3>1, <3>3
    <3>4. CASE h.op \notin {"freeze", "register", "get"}
      BY <3>1, <3>4
    <3> QED BY <3>2, <3>3, <3>4
  <2> HIDE DEF ok, view, got
  <2>5. /\ Answer(h) \in Handlers /\ Answer(h).op = h.op /\ Answer(h).at = "answered"
        /\ Answer(h).view = view /\ Answer(h).got = got
    BY <2>1, <2>2, <2>3, <2>4 DEF HandlerFits, Handlers
  <2> QED BY <2>3, <2>4, <2>5 DEF HandlerFits
<1>4. HandlerFits(Refused(h), cloud)
  BY DEF HandlerFits, Handlers, Refused
<1> QED BY <1>2, <1>3, <1>4

\* The intent r follows the row with the manifest it has.
Follows(r) == IntentFits(r, cloud) /\ r.manifest = row.manifest

\* What the second transaction of a handler writes (RegisterRecorded, UploadRecorded,
\* RetryRecorded, ClaimRecorded and SetTerminal).
LEMMA RecordedFits ==
    ASSUME CloudFits(cloud), IntentFits(row, cloud),
           NEW h, HandlerFits(h, cloud), h.at = "answered"
    PROVE  Follows(Recorded(h))
<1>1. row \in Intents /\ cloud.rev \in Nat /\ MaxAttempts \in Nat
  BY PublicationAssumption DEF IntentFits, CloudFits, Clouds
<1>2. Follows(row)
  BY DEF Follows
<1>3. ASSUME NEW r \in 1..MaxRev, r <= cloud.rev PROVE Follows(SetRegistered(r))
  <2>1. CASE row.state = "ready" \/ ~row.manifest
    BY <1>2, <2>1 DEF SetRegistered
  <2>2. CASE ~(row.state = "ready" \/ ~row.manifest)
    <3> DEFINE i == SetRegistered(r)
    <3>1. i = [row EXCEPT !.state = "registered", !.rev = r, !.due = TRUE]
      BY <2>2 DEF SetRegistered
    <3>2. r \in 0..MaxRev
      BY <1>3
    <3>3. i \in Intents /\ i.state = "registered" /\ i.rev = r /\ i.manifest = row.manifest
      BY <1>1, <3>1, <3>2 DEF Intents
    <3> QED BY <1>3, <2>2, <3>3 DEF Follows, IntentFits
  <2> QED BY <2>1, <2>2
<1>4. ASSUME NEW r PROVE Follows(SetFailure(r))
  <2>1. SetFailure(r) = row
        \/ (row.manifest /\ row.state # "ready" /\ \E n \in 0..MaxAttempts, d \in BOOLEAN :
              SetFailure(r) = [row EXCEPT !.state = "failed", !.attempts = n, !.due = d])
    <3>1. CASE \/ row.state = "ready" \/ ~row.manifest
               \/ r # 0 /\ row.state = "failed" /\ row.rev = r
      BY <3>1 DEF SetFailure
    <3>2. CASE ~(\/ row.state = "ready" \/ ~row.manifest
                 \/ r # 0 /\ row.state = "failed" /\ row.rev = r)
      <4> DEFINE n == IF row.attempts < MaxAttempts THEN row.attempts + 1 ELSE row.attempts
                 d == row.attempts + 1 >= MaxAttempts
      <4>1. n \in 0..MaxAttempts /\ d \in BOOLEAN
        BY <1>1 DEF Intents
      <4>2. SetFailure(r) = [row EXCEPT !.state = "failed", !.attempts = n, !.due = d]
        BY <3>2 DEF SetFailure
      <4> HIDE DEF n, d
      <4> QED BY <3>2, <4>1, <4>2
    <3> QED BY <3>1, <3>2
  <2>2. ASSUME NEW n \in 0..MaxAttempts, NEW d \in BOOLEAN, row.manifest,
               SetFailure(r) = [row EXCEPT !.state = "failed", !.attempts = n, !.due = d]
        PROVE  Follows(SetFailure(r))
    <3> DEFINE i == SetFailure(r)
    <3>1. i \in Intents /\ i.state = "failed" /\ i.rev = row.rev /\ i.manifest = row.manifest
      BY <1>1, <2>2 DEF Intents
    <3> QED BY <2>2, <3>1 DEF Follows, IntentFits
  <2> QED BY <1>2, <2>1, <2>2
<1>5. ASSUME NEW view, NEW r \in Nat, view \in {"ready", "failed"} => r > 0
      PROVE  Follows(SetTerminal(view, r))
  <2> DEFINE i == SetTerminal(view, r)
  <2>1. CASE r = row.rev /\ view = "ready"
    <3>1. i = [row EXCEPT !.state = "ready"]
      BY <2>1 DEF SetTerminal
    <3>2. i \in Intents /\ i.state = "ready" /\ i.rev = row.rev /\ i.manifest = row.manifest
      BY <1>1, <3>1 DEF Intents
    <3> QED BY <1>5, <2>1, <3>2 DEF Follows, IntentFits
  <2>2. CASE r = row.rev /\ view = "failed" /\ row.state # "ready"
    <3>1. i = [row EXCEPT !.state = "failed", !.attempts = MaxAttempts, !.due = TRUE]
      BY <2>2 DEF SetTerminal
    <3>2. MaxAttempts \in 0..MaxAttempts
      BY <1>1
    <3>3. i \in Intents /\ i.state = "failed" /\ i.rev = row.rev /\ i.manifest = row.manifest
      BY <1>1, <3>1, <3>2 DEF Intents
    <3> QED BY <1>5, <2>2, <3>3 DEF Follows, IntentFits
  <2>3. CASE ~(r = row.rev /\ view = "ready") /\ ~(r = row.rev /\ view = "failed" /\ row.state # "ready")
    BY <1>2, <2>3 DEF SetTerminal
  <2> QED BY <2>1, <2>2, <2>3
<1>6. ASSUME NEW r \in 1..MaxRev, r <= cloud.rev, Admits(r) PROVE Follows(RetryAdmitted(r))
  <2> DEFINE i == RetryAdmitted(r)
  <2>1. CASE r = row.rev /\ row.state = "registered"
    BY <1>2, <2>1 DEF RetryAdmitted
  <2>2. CASE ~(r = row.rev /\ row.state = "registered")
    <3>1. i = [row EXCEPT !.state = "registered", !.rev = r, !.retryRev = r, !.due = TRUE]
      BY <2>2 DEF RetryAdmitted
    <3>2. r \in 0..MaxRev
      BY <1>6
    <3>3. i \in Intents /\ i.state = "registered" /\ i.rev = r /\ i.manifest = row.manifest
      BY <1>1, <3>1, <3>2 DEF Intents
    <3> QED BY <1>6, <3>3 DEF Follows, IntentFits, Admits
  <2> QED BY <2>1, <2>2
<1>7. h \in Handlers /\ h.got <= cloud.rev /\ (h.got > 0 => h.got \in 1..MaxRev) /\ h.got \in Nat
  BY DEF HandlerFits, Handlers
<1>8. CASE h.op \in {"freeze", "register"}
  <2>1. CASE h.ok
    <3>1. h.got \in 1..MaxRev
      BY <1>7, <1>8, <2>1 DEF HandlerFits
    <3> QED BY <1>3, <1>7, <1>8, <2>1, <3>1 DEF Recorded, RegisterRecorded
  <2>2. CASE ~h.ok
    BY <1>4, <1>8, <2>2 DEF Recorded, RegisterRecorded
  <2> QED BY <2>1, <2>2
<1>9. CASE h.op = "upload"
  BY <1>2, <1>4, <1>9 DEF Recorded, UploadRecorded
<1>10. CASE h.op \in {"failed", "submitted"}
  BY <1>2, <1>4, <1>10 DEF Recorded, RetryRecorded
<1>11. CASE h.op = "claim"
  <2>1. h.got # 0 => h.got \in 1..MaxRev
    BY <1>7
  <2> QED BY <1>2, <1>6, <1>7, <1>11, <2>1 DEF Recorded, ClaimRecorded
<1>12. CASE h.op = "get"
  <2>1. Follows(SetTerminal(h.view, h.got))
    BY <1>5, <1>7 DEF HandlerFits
  <2> QED BY <1>2, <1>12, <2>1 DEF Recorded
<1> QED BY <1>7, <1>8, <1>9, <1>10, <1>11, <1>12 DEF HandlerFits, Handlers

\* Where an answer takes the tool call and the recovery pass.
ToolGoes == {"done", "register", "upload", "release", "get"}
RecoveryGoes == {"get", "claim", "release", "upload", "retry", "failed", "submitted", "check",
                 "idle"}

\* A caller goes on with an answer: to its next request, or, with a receipt of Cloud,
\* to a release (Continue).
LEMMA ContinueFits ==
    ASSUME pc \in Places, mem \in Memories, NEW c \in {"tool", "recover"},
           NEW h \in Handlers, Continue(c, h)
    PROVE  /\ pc' \in Places /\ mem' \in Memories
           /\ c = "tool" => pc'.recover = pc.recover /\ pc'.tool \in ToolGoes
           /\ c = "recover" => pc'.tool = pc.tool /\ pc'.recover \in RecoveryGoes
           /\ c = "tool" /\ pc'.tool = "release" => h.view = "ready"
           /\ c = "recover" /\ pc'.recover = "release" => h.view = "ready"
<1>1. h.got \in Nat
  BY DEF Handlers
<1>2. CASE c = "tool"
  <2>1. ToolNext(h) \in ToolGoes /\ (ToolNext(h) = "release" => h.view = "ready")
    BY DEF ToolNext, ToolGoes, Handlers
  <2>2. pc' = [pc EXCEPT !["tool"] = ToolNext(h)]
    BY <1>2 DEF Continue, Goto
  <2>3. pc' \in Places /\ pc'.tool = ToolNext(h) /\ pc'.recover = pc.recover
    BY <2>1, <2>2 DEF Places, ToolPlaces, ToolGoes
  <2>4. mem' \in Memories
    <3>1. \/ mem' = [mem EXCEPT !["tool"] = h.got] \/ mem' = mem
          \/ mem' = [mem EXCEPT !.recover = 0, !.has = FALSE]
          \/ mem' = [mem EXCEPT !.tool = 0]
      BY <1>2 DEF Continue
    <3>2. [mem EXCEPT !["tool"] = h.got] \in Memories
      BY <1>1 DEF Memories
    <3>3. [mem EXCEPT !.recover = 0, !.has = FALSE] \in Memories
      BY DEF Memories
    <3>4. [mem EXCEPT !.tool = 0] \in Memories
      BY DEF Memories
    <3> QED BY <3>1, <3>2, <3>3, <3>4
  <2> QED BY <1>2, <2>1, <2>3, <2>4
<1>3. CASE c = "recover"
  <2>1. RecoveryNext(h) \in RecoveryGoes /\ (RecoveryNext(h) = "release" => h.view = "ready")
    BY DEF RecoveryNext, RecoveryGoes, Handlers
  <2>2. pc' = [pc EXCEPT !["recover"] = RecoveryNext(h)]
    BY <1>3 DEF Continue, Goto
  <2>3. pc' \in Places /\ pc'.recover = RecoveryNext(h) /\ pc'.tool = pc.tool
    BY <2>1, <2>2 DEF Places, RecoveryPlaces, RecoveryGoes
  <2>4. mem' \in Memories
    <3>1. \/ mem' = [mem EXCEPT !["recover"] = h.got] \/ mem' = mem
          \/ mem' = [mem EXCEPT !.recover = 0, !.has = FALSE]
          \/ mem' = [mem EXCEPT !.tool = 0]
      BY <1>3 DEF Continue
    <3>2. [mem EXCEPT !["recover"] = h.got] \in Memories
      BY <1>1 DEF Memories
    <3>3. [mem EXCEPT !.recover = 0, !.has = FALSE] \in Memories
      BY DEF Memories
    <3>4. [mem EXCEPT !.tool = 0] \in Memories
      BY DEF Memories
    <3> QED BY <3>1, <3>2, <3>3, <3>4
  <2> QED BY <1>3, <2>1, <2>3, <2>4
<1> QED BY <1>2, <1>3

\* Cloud is where it was.
LEMMA CloudStays == ASSUME CloudFits(cloud), cloud' = cloud PROVE CloudMoves(cloud, cloud')
BY DEF CloudFits, CloudMoves, Clouds

\* A step that leaves the volume and the runtime alone keeps the invariant when the
\* intent and the handlers fit Cloud after it and the callers go where answers take
\* them.
LEMMA TalkKept ==
    ASSUME PublicationInv, CloudMoves(cloud, cloud'), vol' = vol, up' = up,
           losses' \in 0..MaxLosses, IntentFits(row', cloud'),
           row'.manifest => KeptOn(vol, cloud'), HandlersFit(call', late', cloud'),
           pc' \in Places, mem' \in Memories, Waiting(pc', call', up),
           pc'.tool = pc.tool \/ (pc'.tool \in ToolGoes /\ pc.tool \in ToolAsking),
           pc'.recover = pc.recover \/ (pc'.recover \in RecoveryGoes /\ pc.recover \in RecoveryAsking),
           pc'.tool = pc.tool \/ (pc'.tool = "release" => cloud'.state = "ready"),
           pc'.recover = pc.recover \/ (pc'.recover = "release" => cloud'.state = "ready")
    PROVE  PublicationInv'
<1> USE DEF PublicationInv
<1>1. /\ SpoolFits(vol, pc.tool, cloud') /\ CallerFits(pc.tool, pc.tool, vol, cloud')
      /\ CallerFits(pc.recover, pc.tool, vol, cloud')
  BY FitsLater
<1>2. SpoolFits(vol, pc'.tool, cloud')
  BY <1>1 DEF SpoolFits, ToolGoes
<1>3. CallerFits(pc'.tool, pc'.tool, vol, cloud')
  BY <1>1 DEF CallerFits, ToolGoes, Copying
<1>4. CallerFits(pc'.recover, pc'.tool, vol, cloud')
  BY <1>1 DEF CallerFits, ToolGoes, ToolAsking, RecoveryGoes, Copying
<1> QED BY <1>2, <1>3, <1>4 DEF CloudMoves

AsksAt(c) ==
    /\ c = "tool" => pc.tool \in ToolAsking
    /\ c = "recover" => pc.recover \in RecoveryAsking

\* The same for a caller that goes on with the answer h and waits no longer.
LEMMA ContinueKept ==
    ASSUME PublicationInv, NEW c \in {"tool", "recover"}, AsksAt(c), NEW h \in Handlers,
           Continue(c, h), h.view = "ready" => cloud'.state = "ready",
           CloudMoves(cloud, cloud'), vol' = vol, up' = up, losses' \in 0..MaxLosses,
           IntentFits(row', cloud'), row'.manifest => KeptOn(vol, cloud'),
           HandlersFit(call', late', cloud'), call'[c] = NoCall,
           \A d \in {"tool", "recover"} : d # c => call'[d] = call[d]
    PROVE  PublicationInv'
<1>1. /\ pc' \in Places /\ mem' \in Memories
      /\ c = "tool" => pc'.recover = pc.recover /\ pc'.tool \in ToolGoes
      /\ c = "recover" => pc'.tool = pc.tool /\ pc'.recover \in RecoveryGoes
      /\ c = "tool" /\ pc'.tool = "release" => h.view = "ready"
      /\ c = "recover" /\ pc'.recover = "release" => h.view = "ready"
  BY ContinueFits DEF PublicationInv
<1>2. Waiting(pc', call', up)
  <2>1. CASE c = "tool"
    BY <1>1, <2>1 DEF PublicationInv, Waiting, AsksAt, ToolAsking
  <2>2. CASE c = "recover"
    BY <1>1, <2>2 DEF PublicationInv, Waiting, AsksAt, RecoveryAsking
  <2> QED BY <2>1, <2>2
<1>3. CASE c = "tool"
  BY <1>1, <1>2, <1>3, TalkKept DEF AsksAt
<1>4. CASE c = "recover"
  BY <1>1, <1>2, <1>4, TalkKept DEF AsksAt
<1> QED BY <1>3, <1>4

\* The handler x takes the place of the one that c waits for.
Placed(a, c, x) ==
    /\ a \in [{"tool", "recover"} -> Handlers] /\ a[c] = x
    /\ \A d \in {"tool", "recover"} : d # c => a[d] = call[d]

\* What a caller waits for is replaced.
LEMMA CallPlaced ==
    ASSUME PublicationInv, NEW c \in {"tool", "recover"}, NEW x \in Handlers,
           call' = [call EXCEPT ![c] = x]
    PROVE  Placed(call', c, x)
BY DEF PublicationInv, HandlersFit, Placed

\* Handlers that fit Cloud still do when one is replaced by another that does.
LEMMA CallFits ==
    ASSUME NEW k, NEW l, HandlersFit(call, l, k), NEW c \in {"tool", "recover"}, NEW x,
           HandlerFits(x, k), NEW a, Placed(a, c, x)
    PROVE  HandlersFit(a, l, k)
BY DEF HandlersFit, Placed

\* No call fits any state of Cloud, and a first transaction that records a snapshot
\* keeps the constraints of the intent (acknowledge_frozen_publication).
LEMMA NoCallFits ==
    ASSUME NEW k, CloudFits(k) PROVE HandlerFits(NoCall, k)
BY PublicationAssumption DEF NoCall, HandlerFits, Handlers, CloudFits, Clouds

\* See above.
LEMMA FrozenFits ==
    ASSUME IntentFits(row, cloud), row.manifest \/ row.state = "preparing"
    PROVE  IntentFits(Frozen(row), cloud)
<1>1. CASE row.manifest
  BY <1>1 DEF Frozen
<1>2. CASE ~row.manifest
  <2> DEFINE i == Frozen(row)
  <2>1. i = [row EXCEPT !.manifest = TRUE, !.state = "frozen", !.due = TRUE]
    BY <1>2 DEF Frozen
  <2>2. i \in Intents /\ i.manifest = TRUE /\ i.state = "frozen" /\ i.rev = row.rev
    BY <2>1 DEF IntentFits, Intents
  <2> QED BY <2>2 DEF IntentFits
<1> QED BY <1>1, <1>2

\* A caller asks Foundry; a snapshot is only reported while it is kept (Ask).
LEMMA AskKept ==
    ASSUME PublicationInv, NEW c \in {"tool", "recover"}, AsksAt(c),
           NEW op \in {"freeze", "register", "upload", "failed", "submitted", "claim", "get"},
           NEW r \in Nat, op = "freeze" => KeptOn(vol, cloud), Ask(c, op, r)
    PROVE  PublicationInv'
<1> USE DEF PublicationInv
<1> DEFINE h == [NoCall EXCEPT !.op = op, !.rev = r, !.at = "sent"]
           ok == [h EXCEPT !.ok = TRUE]
<1>1. /\ h \in Handlers /\ h.op = op /\ h.at = "sent" /\ h.ok = FALSE /\ h.view = "none"
      /\ h.got = 0
  <2>1. NoCall \in Handlers
    BY NoCallFits DEF HandlerFits
  <2>2. NoCall.ok = FALSE /\ NoCall.view = "none" /\ NoCall.got = 0
    BY DEF NoCall
  <2> QED BY <2>1, <2>2 DEF Handlers
<1> HIDE DEF h
<1>2. HandlerFits(h, cloud)
  BY <1>1 DEF HandlerFits, CloudFits, Clouds
<1>3. ok \in Handlers /\ ok.view = "none"
  BY <1>1 DEF Handlers
<1>4. /\ UNCHANGED <<cloud, vol, late, up, losses>> /\ call[c] = NoCall
  BY DEF Ask
<1>5. CloudMoves(cloud, cloud')
  BY <1>4, CloudStays
<1>6. IntentFits(row', cloud') /\ (row'.manifest => KeptOn(vol, cloud'))
  <2>1. CASE row' = row
    BY <1>4, <2>1
  <2>2. CASE op = "freeze" /\ Authorized(op, r) /\ row' = Frozen(row)
    <3>1. row.manifest \/ row.state = "preparing"
      BY <2>2 DEF Authorized
    <3> QED BY <1>4, <2>2, <3>1, FrozenFits
  <2> QED BY <2>1, <2>2 DEF Ask
<1>7. CASE call' = [call EXCEPT ![c] = h] /\ UNCHANGED <<pc, mem>>
  <2>0. Placed(call', c, h)
    BY <1>1, <1>7, CallPlaced
  <2>1. HandlersFit(call', late', cloud')
    BY <1>2, <1>4, <2>0, CallFits
  <2>2. Waiting(pc', call', up)
    BY <1>7, <2>0 DEF Waiting, AsksAt, Placed
  <2> QED BY <1>4, <1>5, <1>6, <1>7, <2>1, <2>2, TalkKept
<1>8. ASSUME NEW x \in Handlers, x.view = "none", Continue(c, x), UNCHANGED call
      PROVE  PublicationInv'
  <2>1. HandlersFit(call', late', cloud') /\ call'[c] = NoCall
    BY <1>4, <1>8
  <2> QED BY <1>4, <1>5, <1>6, <1>8, <2>1, ContinueKept
<1> HIDE DEF ok
<1>9. \/ call' = [call EXCEPT ![c] = h] /\ UNCHANGED <<pc, mem>>
      \/ Continue(c, ok) /\ UNCHANGED call
      \/ Continue(c, h) /\ UNCHANGED call
  BY DEF Ask, h, ok
<1> QED BY <1>1, <1>3, <1>7, <1>8, <1>9

\* What a caller is told: the handler's view of Cloud, or none of it.
LEMMA ReplyFits ==
    ASSUME NEW h, HandlerFits(h, cloud)
    PROVE  /\ Reply(h) \in Handlers /\ Reply(h).view = h.view
           /\ NoAnswer(h) \in Handlers /\ NoAnswer(h).view = h.view
<1>1. h \in Handlers /\ 0 \in 0..MaxRev
  BY PublicationAssumption DEF HandlerFits
<1>2. NoAnswer(h) \in Handlers /\ NoAnswer(h).view = h.view
  BY <1>1 DEF NoAnswer, Handlers
<1>3. PICK ok \in BOOLEAN, g \in 0..MaxRev : Reply(h) = [h EXCEPT !.ok = ok, !.got = g]
  <2> DEFINE ok == h.ok \/ h.op = "freeze"
             g == IF h.op = "claim" /\ h.got # 0 /\ ~Admits(h.got) THEN 0 ELSE h.got
  <2>1. ok \in BOOLEAN /\ g \in 0..MaxRev
    BY <1>1 DEF Handlers
  <2>2. Reply(h) = [h EXCEPT !.ok = ok, !.got = g]
    BY DEF Reply
  <2> HIDE DEF ok, g
  <2> QED BY <2>1, <2>2
<1>4. Reply(h) \in Handlers /\ Reply(h).view = h.view
  BY <1>1, <1>3 DEF Handlers
<1> QED BY <1>2, <1>4

\* Where the caller of a handler is.
LEMMA WaiterAsks ==
    ASSUME PublicationInv, NEW c \in {"tool", "recover"}, call[c] # NoCall
    PROVE  AsksAt(c) /\ HandlerFits(call[c], cloud)
BY DEF PublicationInv, Waiting, AsksAt, HandlersFit

\* Handlers fit a Cloud that has moved on.
LEMMA HandlersLater ==
    ASSUME PublicationInv, NEW n, CloudMoves(cloud, n)
    PROVE  HandlersFit(call, late, n) /\ IntentFits(row, n) /\ (row.manifest => KeptOn(vol, n))
BY FitsLater DEF PublicationInv, HandlersFit

\* Cloud answers a request that the caller waits for, or one it gave up.
LEMMA CloudAnswersKept ==
    ASSUME PublicationInv
    PROVE  /\ \A c \in Callers : CloudAnswers(c) => PublicationInv'
           /\ CloudAnswersLate => PublicationInv'
<1>1. ASSUME NEW c \in Callers, CloudAnswers(c) PROVE PublicationInv'
  <2>1. c \in {"tool", "recover"}
    BY DEF Callers
  <2>2. /\ call[c].at = "sent" /\ cloud' = CloudAfter(call[c])
        /\ call' = [call EXCEPT ![c] = Answer(call[c])]
        /\ UNCHANGED <<row, vol, pc, mem, late, up, losses>>
    BY <1>1 DEF CloudAnswers
  <2>3. AsksAt(c) /\ HandlerFits(call[c], cloud)
    BY <2>1, <2>2, WaiterAsks DEF NoCall
  <2>4. CloudMoves(cloud, cloud') /\ HandlerFits(Answer(call[c]), cloud')
    BY <2>2, <2>3, CloudAfterFits DEF PublicationInv
  <2>5. HandlersFit(call, late, cloud') /\ IntentFits(row, cloud') /\ (row.manifest => KeptOn(vol, cloud'))
    BY <2>4, HandlersLater
  <2>6. HandlersFit(call', late', cloud') /\ Waiting(pc', call', up)
    <3>1. Answer(call[c]) \in Handlers
      BY <2>4 DEF HandlerFits
    <3>2. Placed(call', c, Answer(call[c]))
      BY <2>1, <2>2, <3>1, CallPlaced
    <3>3. HandlersFit(call', late, cloud')
      BY <2>1, <2>4, <2>5, <3>2, CallFits
    <3> QED BY <2>1, <2>2, <2>3, <3>2, <3>3 DEF Waiting, PublicationInv, AsksAt, Placed
  <2> QED BY <2>2, <2>4, <2>5, <2>6, TalkKept DEF PublicationInv
<1>2. ASSUME CloudAnswersLate PROVE PublicationInv'
  <2>1. PICK h \in late : /\ h.at = "sent" /\ cloud' = CloudAfter(h)
                         /\ late' = (late \ {h}) \union {Answer(h)}
    BY <1>2 DEF CloudAnswersLate
  <2>2. UNCHANGED <<row, vol, pc, mem, call, up, losses>>
    BY <1>2 DEF CloudAnswersLate
  <2>3. CloudMoves(cloud, cloud') /\ HandlerFits(Answer(h), cloud')
    BY <2>1, CloudAfterFits DEF PublicationInv, HandlersFit
  <2>4. HandlersFit(call, late, cloud') /\ IntentFits(row, cloud') /\ (row.manifest => KeptOn(vol, cloud'))
    BY <2>3, HandlersLater
  <2>5. HandlersFit(call', late', cloud')
    BY <2>1, <2>2, <2>3, <2>4 DEF HandlersFit
  <2> QED BY <2>2, <2>3, <2>4, <2>5, TalkKept DEF PublicationInv
<1> QED BY <1>1, <1>2

\* The second transaction of a handler, for its caller or for nobody.
LEMMA RecordKept ==
    ASSUME PublicationInv
    PROVE  /\ \A c \in Callers : RecordAnswer(c) => PublicationInv'
           /\ RecordLate => PublicationInv'
<1>1. ASSUME NEW c \in Callers, RecordAnswer(c) PROVE PublicationInv'
  <2>1. c \in {"tool", "recover"}
    BY DEF Callers
  <2>2. /\ call[c].at = "answered" /\ row' = Recorded(call[c])
        /\ Continue(c, Reply(call[c])) /\ call' = [call EXCEPT ![c] = NoCall]
        /\ UNCHANGED <<cloud, vol, late, up, losses>>
    BY <1>1 DEF RecordAnswer
  <2>3. AsksAt(c) /\ HandlerFits(call[c], cloud)
    BY <2>1, <2>2, WaiterAsks DEF NoCall
  <2>4. Follows(row')
    BY <2>2, <2>3, RecordedFits DEF PublicationInv
  <2>5. Reply(call[c]) \in Handlers /\ Reply(call[c]).view = call[c].view
    BY <2>3, ReplyFits
  <2>6. HandlersFit(call', late', cloud') /\ call'[c] = NoCall
        /\ \A d \in {"tool", "recover"} : d # c => call'[d] = call[d]
    <3>1. HandlersFit(call, late, cloud) /\ HandlerFits(NoCall, cloud)
      BY NoCallFits DEF PublicationInv
    <3>2. Placed(call', c, NoCall)
      BY <2>1, <2>2, <3>1, CallPlaced DEF HandlerFits
    <3>3. HandlersFit(call', late, cloud)
      BY <2>1, <3>1, <3>2, CallFits
    <3> QED BY <2>2, <3>2, <3>3 DEF Placed
  <2>7. CloudMoves(cloud, cloud')
    BY <2>2, CloudStays DEF PublicationInv
  <2>8. Reply(call[c]).view = "ready" => cloud'.state = "ready"
    BY <2>2, <2>3, <2>5 DEF HandlerFits
  <2>9. IntentFits(row', cloud') /\ (row'.manifest => KeptOn(vol, cloud')) /\ losses' \in 0..MaxLosses
    BY <2>2, <2>4 DEF Follows, PublicationInv
  <2> QED BY <2>1, <2>2, <2>3, <2>5, <2>6, <2>7, <2>8, <2>9, ContinueKept
<1>2. ASSUME RecordLate PROVE PublicationInv'
  <2>1. PICK h \in late : h.at = "answered" /\ row' = Recorded(h) /\ late' = late \ {h}
    BY <1>2 DEF RecordLate
  <2>2. UNCHANGED <<cloud, vol, pc, mem, call, up, losses>>
    BY <1>2 DEF RecordLate
  <2>3. Follows(row')
    BY <2>1, RecordedFits DEF PublicationInv, HandlersFit
  <2>4. HandlersFit(call', late', cloud')
    BY <2>1, <2>2 DEF HandlersFit, PublicationInv
  <2>5. CloudMoves(cloud, cloud')
    BY <2>2, CloudStays DEF PublicationInv
  <2> QED BY <2>2, <2>3, <2>4, <2>5, TalkKept DEF PublicationInv, Follows
<1> QED BY <1>1, <1>2

\* Cloud refuses or its answer is lost; or the caller gives up and its handler goes
\* on without it.
LEMMA LostKept ==
    ASSUME PublicationInv, CloudFails \/ CloudFailsLate \/ GiveUp
    PROVE  PublicationInv'
<1>1. ASSUME NEW c \in {"tool", "recover"}, call[c] # NoCall,
             Continue(c, NoAnswer(call[c])), call' = [call EXCEPT ![c] = NoCall],
             late' \in {late, late \union {call[c]}}, CloudMoves(cloud, cloud'),
             UNCHANGED <<row, vol, up>>, losses' \in 0..MaxLosses
      PROVE  PublicationInv'
  <2>1. AsksAt(c) /\ HandlerFits(call[c], cloud)
    BY <1>1, WaiterAsks
  <2>2. NoAnswer(call[c]) \in Handlers /\ NoAnswer(call[c]).view = call[c].view
    BY <2>1, ReplyFits
  <2>3. call[c].view = "ready" => cloud'.state = "ready"
    BY <1>1, <2>1 DEF HandlerFits, CloudMoves
  <2>4. HandlersFit(call, late', cloud') /\ IntentFits(row, cloud') /\ (row.manifest => KeptOn(vol, cloud'))
    BY <1>1, HandlersLater DEF HandlersFit
  <2>5. HandlersFit(call', late', cloud') /\ call'[c] = NoCall
        /\ \A d \in {"tool", "recover"} : d # c => call'[d] = call[d]
    <3>1. CloudFits(cloud')
      BY <1>1 DEF CloudMoves
    <3>2. HandlerFits(NoCall, cloud')
      BY <3>1, NoCallFits
    <3>3. Placed(call', c, NoCall)
      BY <1>1, <3>2, CallPlaced DEF HandlerFits
    <3>4. HandlersFit(call', late', cloud')
      BY <1>1, <2>4, <3>2, <3>3, CallFits
    <3> QED BY <3>3, <3>4 DEF Placed
  <2> QED BY <1>1, <2>1, <2>2, <2>3, <2>4, <2>5, ContinueKept
<1>2. losses' \in 0..MaxLosses
  BY PublicationAssumption DEF CloudFails, CloudFailsLate, GiveUp, Loss, PublicationInv
<1>3. ASSUME GiveUp PROVE PublicationInv'
  <2>1. PICK c \in Callers :
          /\ call[c] # NoCall /\ Continue(c, NoAnswer(call[c]))
          /\ late' = late \union {call[c]} /\ call' = [call EXCEPT ![c] = NoCall]
    BY <1>3 DEF GiveUp
  <2>2. UNCHANGED <<row, cloud, vol, up>> /\ c \in {"tool", "recover"}
    BY <1>3 DEF GiveUp, Callers
  <2>3. CloudMoves(cloud, cloud')
    BY <2>2, CloudStays DEF PublicationInv
  <2> QED BY <1>1, <1>2, <2>1, <2>2, <2>3
<1>4. ASSUME CloudFails PROVE PublicationInv'
  <2>1. PICK c \in Callers :
          /\ call[c].at = "sent"
          /\ \/ call' = [call EXCEPT ![c] = Refused(call[c])] /\ UNCHANGED <<cloud, pc, mem>>
             \/ /\ call' = [call EXCEPT ![c] = NoCall] /\ Continue(c, NoAnswer(call[c]))
                /\ cloud' \in {cloud, CloudAfter(call[c])}
    BY <1>4 DEF CloudFails
  <2>2. UNCHANGED <<row, vol, late, up>> /\ c \in {"tool", "recover"} /\ call[c] # NoCall
    BY <1>4, <2>1 DEF CloudFails, Callers, NoCall
  <2>3. AsksAt(c) /\ HandlerFits(call[c], cloud)
    BY <2>2, WaiterAsks
  <2>4. /\ CloudMoves(cloud, CloudAfter(call[c]))
        /\ HandlerFits(Refused(call[c]), cloud)
    BY <2>1, <2>3, CloudAfterFits DEF PublicationInv
  <2>5. cloud' = cloud => CloudMoves(cloud, cloud')
    BY CloudStays DEF PublicationInv
  <2>6. CASE call' = [call EXCEPT ![c] = NoCall] /\ Continue(c, NoAnswer(call[c]))
             /\ cloud' \in {cloud, CloudAfter(call[c])}
    <3>1. CloudMoves(cloud, cloud')
      BY <2>4, <2>5, <2>6
    <3> QED BY <1>1, <1>2, <2>2, <2>6, <3>1
  <2>7. CASE call' = [call EXCEPT ![c] = Refused(call[c])] /\ UNCHANGED <<cloud, pc, mem>>
    <3>0. HandlersFit(call, late, cloud) /\ Refused(call[c]) \in Handlers
      BY <2>4 DEF PublicationInv, HandlerFits
    <3>1. Placed(call', c, Refused(call[c]))
      BY <2>2, <2>7, <3>0, CallPlaced
    <3>2. Waiting(pc', call', up)
      BY <2>2, <2>3, <2>7, <3>1 DEF Waiting, PublicationInv, AsksAt, Placed
    <3>3. HandlersFit(call', late, cloud)
      BY <2>2, <2>4, <3>0, <3>1, CallFits
    <3>4. HandlersFit(call', late', cloud')
      BY <2>2, <2>7, <3>3
    <3> QED BY <1>2, <2>2, <2>5, <2>7, <3>2, <3>4, TalkKept DEF PublicationInv
  <2> QED BY <2>1, <2>6, <2>7
<1>5. ASSUME CloudFailsLate PROVE PublicationInv'
  <2>1. PICK h \in late :
          /\ h.at = "sent"
          /\ \/ late' = (late \ {h}) \union {Refused(h)} /\ UNCHANGED cloud
             \/ late' = late \ {h} /\ cloud' \in {cloud, CloudAfter(h)}
    BY <1>5 DEF CloudFailsLate
  <2>2. UNCHANGED <<row, vol, pc, mem, call, up, losses>>
    BY <1>5 DEF CloudFailsLate
  <2>3. CloudMoves(cloud, CloudAfter(h)) /\ HandlerFits(Refused(h), cloud)
    BY <2>1, CloudAfterFits DEF PublicationInv, HandlersFit
  <2>4. CloudMoves(cloud, cloud')
    BY <2>1, <2>3, CloudStays DEF PublicationInv
  <2>5. HandlersFit(call, late, cloud') /\ IntentFits(row, cloud') /\ (row.manifest => KeptOn(vol, cloud'))
    BY <2>4, HandlersLater
  <2>6. HandlersFit(call', late', cloud')
    BY <2>1, <2>2, <2>3, <2>5 DEF HandlersFit
  <2> QED BY <1>2, <2>2, <2>4, <2>5, <2>6, TalkKept DEF PublicationInv
<1> QED BY <1>3, <1>4, <1>5

\* The requests of the tool call and of the recovery pass.
LEMMA AsksKept ==
    ASSUME PublicationInv, ToolAsks \/ RecoveryAsks
    PROVE  PublicationInv'
<1>1. mem.tool \in Nat /\ mem.recover \in Nat /\ 0 \in Nat /\ 1 \in Nat
  BY DEF PublicationInv, Memories
<1>2. /\ pc.tool = "freeze" => KeptOn(vol, cloud)
      /\ pc.recover = "freeze" => KeptOn(vol, cloud)
  BY DEF PublicationInv, CallerFits
<1>3. CASE ToolAsks
  <2>1. CASE pc.tool \in {"freeze", "register", "get"} /\ Ask("tool", pc.tool, 0)
    BY <1>1, <1>2, <2>1, AskKept DEF AsksAt, ToolAsking
  <2>2. CASE pc.tool = "upload" /\ Ask("tool", "upload", mem.tool)
    BY <1>1, <2>2, AskKept DEF AsksAt, ToolAsking
  <2> QED BY <1>3, <2>1, <2>2 DEF ToolAsks
<1>4. CASE RecoveryAsks
  <2>1. CASE pc.recover \in {"freeze", "get", "claim"} /\ Ask("recover", pc.recover, 0)
    BY <1>1, <1>2, <2>1, AskKept DEF AsksAt, RecoveryAsking
  <2>2. CASE pc.recover = "check" /\ Ask("recover", "get", 0)
    BY <1>1, <2>2, AskKept DEF AsksAt, RecoveryAsking
  <2>3. CASE pc.recover = "upload" /\ Ask("recover", "upload", 1)
    BY <1>1, <2>3, AskKept DEF AsksAt, RecoveryAsking
  <2>4. CASE pc.recover = "retry" /\ Ask("recover", "upload", mem.recover)
    BY <1>1, <2>4, AskKept DEF AsksAt, RecoveryAsking
  <2>5. CASE pc.recover \in {"failed", "submitted"} /\ Ask("recover", pc.recover, mem.recover)
    BY <1>1, <2>5, AskKept DEF AsksAt, RecoveryAsking
  <2> QED BY <1>4, <2>1, <2>2, <2>3, <2>4, <2>5 DEF RecoveryAsks
<1> QED BY <1>3, <1>4

\* A step of the runtime that asks nobody: what it must leave on the volume v with
\* the tool call at t and the recovery pass at p.
LocalFits(v, t, p) ==
    /\ SpoolFits(v, t, cloud)
    /\ CallerFits(t, t, v, cloud) /\ CallerFits(p, t, v, cloud)
    /\ row.manifest => KeptOn(v, cloud)

\* Such a step keeps the invariant.
LEMMA LocalKept ==
    ASSUME PublicationInv, UNCHANGED <<row, cloud, call, late>>, pc' \in Places,
           mem' \in Memories, up' \in BOOLEAN, losses' \in 0..MaxLosses,
           Waiting(pc', call, up'), LocalFits(vol', pc'.tool, pc'.recover)
    PROVE  PublicationInv'
BY DEF PublicationInv, LocalFits

\* A fault stays within its bound.
LEMMA FaultCounted ==
    ASSUME losses \in 0..MaxLosses, Loss \/ UNCHANGED losses
    PROVE  losses' \in 0..MaxLosses
BY PublicationAssumption DEF Loss

\* A caller goes to a place of its own.
LEMMA GotoFits ==
    ASSUME pc \in Places
    PROVE  /\ \A t \in ToolPlaces : Goto("tool", t) =>
                 pc' \in Places /\ pc'.tool = t /\ pc'.recover = pc.recover
           /\ \A p \in RecoveryPlaces : Goto("recover", p) =>
                 pc' \in Places /\ pc'.recover = p /\ pc'.tool = pc.tool
BY DEF Goto, Places

\* Intents are recorded before anything is copied (CreateIntent).
LEMMA CreateIntentKept ==
    ASSUME PublicationInv, CreateIntent
    PROVE  PublicationInv'
<1> USE DEF PublicationInv
<1>1. /\ pc' \in Places /\ pc'.tool \in {"reserve", "done"} /\ pc'.recover = pc.recover
      /\ pc.tool = "none" /\ up
  BY GotoFits DEF CreateIntent, ToolPlaces
<1>2. UNCHANGED <<cloud, vol, mem, call, late, up>> /\ losses' \in 0..MaxLosses
  BY FaultCounted DEF CreateIntent
<1>3. row' = [NoIntent EXCEPT !.state = "preparing", !.due = TRUE]
  BY DEF CreateIntent
<1>4. IntentFits(row', cloud) /\ ~row'.manifest
  <2>1. /\ row'.state = "preparing" /\ row'.manifest = FALSE /\ row'.rev = 0
        /\ row' = [state |-> "preparing", manifest |-> FALSE, attempts |-> 0, due |-> TRUE,
                   rev |-> 0, retryRev |-> 0]
    BY <1>3 DEF NoIntent
  <2>2. 0 \in 0..MaxRev /\ 0 \in 0..MaxAttempts /\ 0 <= cloud.rev
    BY PublicationAssumption DEF CloudFits, Clouds
  <2>3. row' \in Intents
    BY <2>1, <2>2 DEF Intents
  <2> QED BY <2>1, <2>2, <2>3 DEF IntentFits
<1>5. SpoolFits(vol, pc'.tool, cloud)
  BY <1>1 DEF SpoolFits
<1>6. /\ CallerFits(pc'.tool, pc'.tool, vol, cloud)
      /\ CallerFits(pc'.recover, pc'.tool, vol, cloud)
  BY <1>1 DEF CallerFits, Copying
<1>7. Waiting(pc', call, up)
  BY <1>1 DEF Waiting, ToolAsking
<1> QED BY <1>1, <1>2, <1>4, <1>5, <1>6, <1>7

\* The copy of the tool call, step by step, and its error path (freeze_publication).
LEMMA CopyKept ==
    ASSUME PublicationInv,
           Reserve \/ CommitCopy \/ WriteJournal \/ MarkFrozen
    PROVE  PublicationInv'
<1> USE DEF PublicationInv
<1>1. ASSUME NEW t \in ToolPlaces, Goto("tool", t), pc.tool \in Copying, pc.tool # "none",
             UNCHANGED <<row, cloud, mem, call, late, up>>, Loss \/ UNCHANGED losses,
             LocalFits(vol', t, pc.recover)
      PROVE  PublicationInv'
  <2>1. pc' \in Places /\ pc'.tool = t /\ pc'.recover = pc.recover
    BY <1>1, GotoFits
  <2>2. losses' \in 0..MaxLosses
    BY <1>1, FaultCounted
  <2>3. Waiting(pc', call, up)
    BY <1>1, <2>1 DEF Waiting, Copying, ToolAsking
  <2> QED BY <1>1, <2>1, <2>2, <2>3, LocalKept
<1>2. CASE Reserve
  <2>1. vol = NoRecord /\ pc.tool = "reserve"
    BY <1>2 DEF Reserve, SpoolFits
  <2>2. Reconciled(vol) = NoRecord
    BY <2>1 DEF Reconciled, NoRecord, HasSnapshot
  <2>3. CASE vol' = [Reconciled(vol) EXCEPT !.ledger = "copying", !.copy = TRUE]
             /\ Goto("tool", "copy")
    <3>1. LocalFits(vol', "copy", pc.recover)
      BY <2>1, <2>2, <2>3 DEF LocalFits, SpoolFits, CallerFits, KeptOn, Copying, Spools, NoRecord
    <3> QED BY <1>1, <1>2, <2>1, <2>3, <3>1 DEF Reserve, ToolPlaces, Copying
  <2>4. CASE UNCHANGED vol /\ Goto("tool", "done")
    <3>1. LocalFits(vol', "done", pc.recover)
      BY <2>1, <2>4 DEF LocalFits, SpoolFits, CallerFits, Copying
    <3> QED BY <1>1, <1>2, <2>1, <2>4, <3>1 DEF Reserve, ToolPlaces, Copying
  <2> QED BY <1>2, <2>3, <2>4 DEF Reserve
<1>3. ASSUME pc.tool \in {"copy", "journal", "mark"}, NEW l \in {"none", "copying"},
             vol' = [NoRecord EXCEPT !.journal = vol.journal, !.ledger = l]
      PROVE  LocalFits(vol', "done", pc.recover)
  BY <1>3 DEF LocalFits, SpoolFits, CallerFits, KeptOn, Copying, Spools, NoRecord
<1>4. ASSUME NEW t \in ToolPlaces, NEW v, FreezeStep(pc.tool, t, v),
             pc.tool \in {"copy", "journal", "mark"}, LocalFits(v, t, pc.recover)
      PROVE  PublicationInv'
  <2>1. CASE vol' = v /\ Goto("tool", t) /\ UNCHANGED losses
    BY <1>1, <1>4, <2>1 DEF FreezeStep, Copying
  <2>2. CASE /\ Loss /\ Goto("tool", "done")
             /\ \E l \in {"none", "copying"} :
                   vol' = [NoRecord EXCEPT !.journal = vol.journal, !.ledger = l]
    <3>1. LocalFits(vol', "done", pc.recover)
      BY <1>3, <1>4, <2>2
    <3> QED BY <1>1, <1>4, <2>2, <3>1 DEF FreezeStep, Copying, ToolPlaces
  <2> QED BY <1>4, <2>1, <2>2 DEF FreezeStep
<1>5. CASE CommitCopy
  <2> DEFINE v == [vol EXCEPT !.copy = FALSE, !.snap = TRUE]
  <2>1. pc.tool = "copy" /\ FreezeStep(pc.tool, "journal", v)
    BY <1>5 DEF CommitCopy, FreezeStep
  <2>2. /\ v \in Spools /\ v.ledger = vol.ledger /\ v.old = vol.old /\ v.copy = FALSE
        /\ v.snap = TRUE /\ v.journal = vol.journal
    BY DEF SpoolFits, Spools
  <2> HIDE DEF v
  <2>3. LocalFits(v, "journal", pc.recover)
    BY <2>1, <2>2 DEF LocalFits, SpoolFits, CallerFits, KeptOn, Copying
  <2> QED BY <1>4, <2>1, <2>3 DEF ToolPlaces
<1>6. CASE WriteJournal
  <2> DEFINE v == [vol EXCEPT !.journal = TRUE]
  <2>1. pc.tool = "journal" /\ FreezeStep(pc.tool, "mark", v)
    BY <1>6 DEF WriteJournal, FreezeStep
  <2>2. LocalFits(v, "mark", pc.recover)
    BY <2>1 DEF LocalFits, SpoolFits, CallerFits, KeptOn, Copying, Spools, NoRecord
  <2> QED BY <1>4, <2>1, <2>2 DEF ToolPlaces
<1>7. CASE MarkFrozen
  <2> DEFINE v == [vol EXCEPT !.ledger = "frozen"]
  <2>1. pc.tool = "mark" /\ FreezeStep(pc.tool, "freeze", v)
    BY <1>7 DEF MarkFrozen, FreezeStep
  <2>2. LocalFits(v, "freeze", pc.recover)
    BY <2>1 DEF LocalFits, SpoolFits, CallerFits, KeptOn, Copying, Spools, NoRecord
  <2> QED BY <1>4, <2>1, <2>2 DEF ToolPlaces
<1> QED BY <1>2, <1>5, <1>6, <1>7

\* The tool call stops, the snapshot of the recovery pass is gone.
LEMMA StopsKept ==
    ASSUME PublicationInv, ToolStops \/ SnapshotGone
    PROVE  PublicationInv'
<1> USE DEF PublicationInv
<1>1. CASE ToolStops
  <2>1. /\ pc' \in Places /\ pc'.tool = "done" /\ pc'.recover = pc.recover
        /\ call["tool"] = NoCall
        /\ UNCHANGED <<row, cloud, vol, call, late, up, losses>>
    BY <1>1, GotoFits DEF ToolStops, ToolPlaces
  <2>2. mem' \in Memories
    BY <1>1 DEF ToolStops, Memories
  <2>3. Waiting(pc', call, up)
    BY <2>1 DEF Waiting
  <2>4. LocalFits(vol', "done", pc.recover)
    BY <2>1 DEF LocalFits, SpoolFits, CallerFits, Copying
  <2> QED BY <2>1, <2>2, <2>3, <2>4, LocalKept
<1>2. CASE SnapshotGone
  <2>1. /\ pc' \in Places /\ pc'.recover \in {"claim", "failed"} /\ pc'.tool = pc.tool
        /\ pc.recover \in {"upload", "retry"}
        /\ UNCHANGED <<row, cloud, vol, mem, call, late, up, losses>>
    BY <1>2, GotoFits DEF SnapshotGone, RecoveryPlaces
  <2>2. Waiting(pc', call, up)
    BY <2>1 DEF Waiting, RecoveryAsking
  <2>3. LocalFits(vol', pc'.tool, pc'.recover)
    BY <2>1 DEF LocalFits, CallerFits
  <2> QED BY <2>1, <2>2, <2>3, LocalKept
<1> QED BY <1>1, <1>2

\* While the tool call copies, the ledger holds its reservation at most.
LEMMA CopyingIsReserved ==
    ASSUME NEW v, NEW t \in Copying, NEW k, SpoolFits(v, t, k)
    PROVE  v.ledger \in {"none", "copying"}
<1>1. CASE t \in {"none", "reserve"}
  BY <1>1 DEF SpoolFits, NoRecord
<1>2. CASE t = "copy"
  BY <1>2 DEF SpoolFits, NoRecord
<1>3. CASE t = "journal"
  BY <1>3 DEF SpoolFits, NoRecord
<1>4. CASE t = "mark"
  BY <1>4 DEF SpoolFits, NoRecord
<1> QED BY <1>1, <1>2, <1>3, <1>4 DEF Copying

\* The release of a snapshot, step by step, by either caller
\* (release_publication_spool, _complete_publication_release).
LEMMA ReleaseKept ==
    ASSUME PublicationInv, Release
    PROVE  PublicationInv'
<1> USE DEF PublicationInv
<1>1. PICK c \in {"tool", "recover"} :
        MarkReleasing(c) \/ RemoveSnapshot(c) \/ RemoveJournal(c) \/ Unreserve(c)
  BY DEF Release, Callers
<1> DEFINE Step == {"release", "remove", "unlink", "unreserve"}
<1>2. ASSUME NEW p, Goto(c, p), pc[c] \in Step, UNCHANGED <<row, cloud, call, late, up, losses>>,
             mem' \in Memories, p \in {"remove", "unlink", "unreserve"}
                               \/ p = IF c = "tool" THEN "done" ELSE "idle",
             SpoolFits(vol', pc.tool, cloud),
             pc.tool \notin Copying \/ vol' = vol, vol' # vol => vol'.ledger \in {"none", "releasing"},
             vol'.snap => vol.snap,
             p \in {"remove", "unlink", "unreserve"} =>
                  vol'.ledger \in {"none", "releasing"} /\ pc.tool \notin Copying,
             p \in {"unlink", "unreserve"} => ~vol'.snap
      PROVE  PublicationInv'
  <2>1. cloud.state = "ready"
    BY <1>2 DEF CallerFits
  <2>2. CASE c = "tool"
    <3>1. pc' \in Places /\ pc'.tool = p /\ pc'.recover = pc.recover
      BY <1>2, <2>2, GotoFits DEF ToolPlaces
    <3>2. Waiting(pc', call, up)
      BY <1>2, <2>2, <3>1 DEF Waiting, ToolAsking
    <3>3. LocalFits(vol', p, pc.recover)
      BY <1>2, <2>1, <2>2 DEF LocalFits, SpoolFits, CallerFits, KeptOn, Copying
    <3> QED BY <1>2, <3>1, <3>2, <3>3, LocalKept
  <2>3. CASE c = "recover"
    <3>1. pc' \in Places /\ pc'.recover = p /\ pc'.tool = pc.tool
      BY <1>2, <2>3, GotoFits DEF RecoveryPlaces
    <3>2. Waiting(pc', call, up)
      BY <1>2, <2>3, <3>1 DEF Waiting, RecoveryAsking
    <3>3. LocalFits(vol', pc.tool, p)
      BY <1>2, <2>1, <2>3 DEF LocalFits, SpoolFits, CallerFits, KeptOn, Copying
    <3> QED BY <1>2, <3>1, <3>2, <3>3, LocalKept
  <2> QED BY <2>2, <2>3
<1>3. ASSUME Released(c) PROVE mem' \in Memories
  BY <1>3 DEF Released, Memories
<1>5. CASE MarkReleasing(c)
  <2>1. CASE vol.ledger \in {"frozen", "releasing"}
    <3>1. /\ Goto(c, "remove") /\ vol' = [vol EXCEPT !.ledger = "releasing"] /\ UNCHANGED mem
          /\ pc[c] = "release" /\ UNCHANGED <<row, cloud, call, late, up, losses>>
      BY <1>5, <2>1 DEF MarkReleasing
    <3>2. pc.tool \notin Copying /\ cloud.state = "ready"
      <4>1. pc.tool \notin Copying
        BY <2>1, CopyingIsReserved
      <4> QED BY <3>1, <4>1 DEF CallerFits
    <3>3. /\ vol' \in Spools /\ vol'.ledger = "releasing" /\ vol'.snap = vol.snap
          /\ vol'.copy = vol.copy
      BY <3>1 DEF SpoolFits, Spools
    <3>4. SpoolFits(vol', pc.tool, cloud)
      BY <2>1, <3>2, <3>3 DEF SpoolFits, Copying
    <3> QED BY <1>2, <3>1, <3>2, <3>3, <3>4
  <2>2. CASE vol.ledger \notin {"frozen", "releasing"}
    <3>1. /\ Released(c) /\ vol' = vol /\ pc[c] = "release"
          /\ UNCHANGED <<row, cloud, call, late, up, losses>>
      BY <1>5, <2>2 DEF MarkReleasing
    <3>2. Goto(c, IF c = "tool" THEN "done" ELSE "idle")
      BY <3>1 DEF Released
    <3> QED BY <1>2, <1>3, <3>1, <3>2
  <2> QED BY <2>1, <2>2
<1>6. ASSUME pc[c] \in {"remove", "unlink", "unreserve"}
      PROVE  /\ vol.ledger \in {"none", "releasing"} /\ pc.tool \notin Copying
             /\ pc[c] \in {"unlink", "unreserve"} => ~vol.snap
             /\ vol \in Spools /\ ~vol.copy
  BY <1>6 DEF CallerFits, SpoolFits
<1>7. CASE RemoveSnapshot(c)
  <2>1. /\ pc[c] = "remove" /\ Goto(c, "unlink") /\ vol' = [vol EXCEPT !.snap = FALSE]
        /\ UNCHANGED <<row, cloud, mem, call, late, up, losses>>
    BY <1>7 DEF RemoveSnapshot
  <2>2. /\ vol' \in Spools /\ vol'.ledger = vol.ledger /\ vol'.snap = FALSE
        /\ vol'.copy = vol.copy
    BY <2>1 DEF SpoolFits, Spools
  <2>3. SpoolFits(vol', pc.tool, cloud)
    BY <1>6, <2>1, <2>2 DEF SpoolFits, Copying
  <2> QED BY <1>2, <1>6, <2>1, <2>2, <2>3
<1>8. CASE RemoveJournal(c)
  <2>1. /\ pc[c] = "unlink" /\ Goto(c, "unreserve") /\ vol' = [vol EXCEPT !.journal = FALSE]
        /\ UNCHANGED <<row, cloud, mem, call, late, up, losses>>
    BY <1>8 DEF RemoveJournal
  <2>2. /\ vol' \in Spools /\ vol'.ledger = vol.ledger /\ vol'.snap = vol.snap
        /\ vol'.copy = vol.copy
    BY <2>1 DEF SpoolFits, Spools
  <2>3. SpoolFits(vol', pc.tool, cloud)
    BY <1>6, <2>1, <2>2 DEF SpoolFits, Copying
  <2> QED BY <1>2, <1>6, <2>1, <2>2, <2>3
<1>9. CASE Unreserve(c)
  <2>1. /\ pc[c] = "unreserve" /\ Released(c) /\ vol' = [vol EXCEPT !.ledger = "none"]
        /\ UNCHANGED <<row, cloud, call, late, up, losses>>
    BY <1>9 DEF Unreserve
  <2>2. /\ vol' \in Spools /\ vol'.ledger = "none" /\ vol'.snap = vol.snap
        /\ vol'.copy = vol.copy
    BY <2>1 DEF SpoolFits, Spools
  <2>3. SpoolFits(vol', pc.tool, cloud)
    BY <1>6, <2>1, <2>2 DEF SpoolFits, Copying
  <2>4. Goto(c, IF c = "tool" THEN "done" ELSE "idle")
    BY <2>1 DEF Released
  <2> QED BY <1>2, <1>3, <1>6, <2>1, <2>2, <2>3, <2>4
<1> QED BY <1>1, <1>5, <1>7, <1>8, <1>9

\* What the cleanup and the reconciliation of the spools leave: both remove only what
\* Cloud has, or what was never committed (cleanup_stale_publication_copies,
\* reconcile_publication_spools).
LEMMA SweptFits ==
    ASSUME NEW v, NEW t, NEW p, LocalFits(v, t, p)
    PROVE  /\ LocalFits(Cleaned(v), t, p)
           /\ t \in {"none", "done"} /\ p = "start" => LocalFits(Reconciled(v), t, p)
<1>1. /\ NoRecord \in Spools /\ NoRecord.ledger = "none" /\ NoRecord.copy = FALSE
      /\ NoRecord.snap = FALSE /\ NoRecord.journal = FALSE /\ NoRecord.old = FALSE
  BY DEF NoRecord, Spools
<1>2. ASSUME t \notin {"copy", "journal", "mark"}, row.manifest => cloud.state = "ready",
             t = "freeze" => cloud.state = "ready", p = "freeze" => cloud.state = "ready"
      PROVE  LocalFits(NoRecord, t, p)
  BY <1>1, <1>2 DEF LocalFits, SpoolFits, CallerFits, KeptOn
<1>3. LocalFits(Cleaned(v), t, p)
  <2>1. CASE v.ledger = "copying" /\ v.old /\ ~v.journal
    <3>1. t \notin {"copy", "journal", "mark"}
      <4>1. t \in {"copy", "journal"} => v.old = FALSE
        BY DEF LocalFits, SpoolFits, NoRecord
      <4>2. t = "mark" => v.journal = TRUE
        BY DEF LocalFits, SpoolFits, NoRecord
      <4> QED BY <2>1, <4>1, <4>2
    <3>2. /\ row.manifest => cloud.state = "ready"
          /\ t = "freeze" => cloud.state = "ready"
          /\ p = "freeze" => cloud.state = "ready"
      BY <2>1 DEF LocalFits, CallerFits, KeptOn
    <3> QED BY <1>2, <2>1, <3>1, <3>2 DEF Cleaned
  <2>2. CASE ~(v.ledger = "copying" /\ v.old /\ ~v.journal)
    BY <2>2 DEF Cleaned
  <2> QED BY <2>1, <2>2
<1>4. ASSUME t \in {"none", "done"}, p = "start" PROVE LocalFits(Reconciled(v), t, p)
  <2>1. CASE v.ledger = "releasing"
    <3>1. cloud.state = "ready" /\ Reconciled(v) = NoRecord
      BY <2>1 DEF LocalFits, SpoolFits, Reconciled
    <3> QED BY <1>2, <1>4, <3>1
  <2>2. CASE v.ledger # "releasing" /\ HasSnapshot(v)
    <3> DEFINE w == [v EXCEPT !.ledger = "frozen"]
    <3>1. Reconciled(v) = w
      BY <2>2 DEF Reconciled
    <3>2. /\ w \in Spools /\ w.ledger = "frozen" /\ w.snap = v.snap /\ w.journal = v.journal
          /\ w.copy = v.copy
      BY DEF LocalFits, SpoolFits, Spools
    <3>3. v.snap /\ v.journal /\ ~v.copy /\ t = "done"
      BY <1>1, <1>4, <2>2 DEF HasSnapshot, LocalFits, SpoolFits
    <3> HIDE DEF w
    <3> QED BY <1>4, <3>1, <3>2, <3>3 DEF LocalFits, SpoolFits, CallerFits, KeptOn
  <2>3. CASE v.ledger # "releasing" /\ ~HasSnapshot(v)
    BY <2>3 DEF Reconciled
  <2> QED BY <2>1, <2>2, <2>3
<1> QED BY <1>3, <1>4

\* The recovery pass starts, a reservation ages.
LEMMA SweepKept ==
    ASSUME PublicationInv, StartRecovery \/ ReservationAges
    PROVE  PublicationInv'
<1> USE DEF PublicationInv
<1>1. LocalFits(vol, pc.tool, pc.recover)
  BY DEF LocalFits
<1>2. CASE StartRecovery
  <2>1. /\ up /\ pc.recover \in {"start", "idle"} /\ vol' = Cleaned(vol)
        /\ mem' = [mem EXCEPT !.has = HasSnapshot(vol')]
        /\ Goto("recover", IF HasSnapshot(vol') THEN "freeze" ELSE "claim")
        /\ UNCHANGED <<row, cloud, call, late, up, losses>>
    BY <1>2 DEF StartRecovery
  <2>2. LocalFits(vol', pc.tool, pc.recover)
    BY <1>1, <2>1, SweptFits
  <2>3. vol'.journal \in BOOLEAN /\ vol'.snap \in BOOLEAN
    BY <2>2 DEF LocalFits, SpoolFits, Spools
  <2>4. mem' \in Memories
    BY <2>1, <2>3 DEF Memories, HasSnapshot
  <2>5. /\ pc' \in Places /\ pc'.tool = pc.tool /\ pc'.recover \in {"freeze", "claim"}
        /\ pc'.recover = "freeze" => HasSnapshot(vol')
    BY <2>1, GotoFits DEF RecoveryPlaces
  <2>6. Waiting(pc', call, up)
    BY <2>1, <2>5 DEF Waiting, RecoveryAsking
  <2>7. LocalFits(vol', pc'.tool, pc'.recover)
    BY <2>2, <2>5 DEF LocalFits, CallerFits, KeptOn, HasSnapshot
  <2> QED BY <2>1, <2>4, <2>5, <2>6, <2>7, LocalKept
<1>3. CASE ReservationAges
  <2>1. /\ vol.ledger = "copying" /\ pc.tool \notin {"copy", "commit", "journal", "mark"}
        /\ vol' = [vol EXCEPT !.old = TRUE]
        /\ UNCHANGED <<row, cloud, pc, mem, call, late, up, losses>>
    BY <1>3 DEF ReservationAges
  <2>2. /\ vol' \in Spools /\ vol'.ledger = "copying" /\ vol'.snap = vol.snap
        /\ vol'.copy = vol.copy /\ vol'.journal = vol.journal
    BY <2>1 DEF SpoolFits, Spools
  <2>3. pc.tool \notin {"none", "reserve"}
    BY <2>1 DEF SpoolFits, NoRecord
  <2>4. LocalFits(vol', pc.tool, pc.recover)
    BY <1>1, <2>1, <2>2, <2>3 DEF LocalFits, SpoolFits, CallerFits, KeptOn
  <2> QED BY <2>1, <2>4, LocalKept
<1> QED BY <1>2, <1>3

\* The runtime crashes, stops when idle, and starts again.
LEMMA RuntimeKept ==
    ASSUME PublicationInv, RuntimeCrash \/ IdleStop \/ Start
    PROVE  PublicationInv'
<1> USE DEF PublicationInv
<1>1. CASE RuntimeCrash
  <2>1. /\ up' = FALSE /\ Loss
        /\ late' = late \union {h \in {call[c] : c \in Callers} : h.at \in {"sent", "answered"}}
        /\ call' = [c \in Callers |-> NoCall] /\ pc' = Ended /\ mem' = NoMemory
        /\ UNCHANGED <<row, cloud, vol>>
    BY <1>1 DEF RuntimeCrash
  <2>2. /\ pc' \in Places /\ pc'.recover = "start"
        /\ pc'.tool = IF pc.tool = "none" THEN "none" ELSE "done"
    BY <2>1 DEF Ended, Places, ToolPlaces, RecoveryPlaces
  <2>3. mem' \in Memories
    BY <2>1 DEF NoMemory, Memories
  <2>4. losses' \in 0..MaxLosses
    BY <2>1, FaultCounted
  <2>5. HandlersFit(call', late', cloud')
    <3>1. HandlerFits(NoCall, cloud)
      BY NoCallFits
    <3>2. NoCall \in Handlers
      BY <3>1 DEF HandlerFits
    <3> QED BY <2>1, <3>1, <3>2 DEF HandlersFit, Callers
  <2>6. Waiting(pc', call', up')
    BY <2>1, <2>2 DEF Waiting, Callers
  <2>7. SpoolFits(vol', pc'.tool, cloud')
    BY <2>1, <2>2 DEF SpoolFits
  <2>8. CallerFits(pc'.tool, pc'.tool, vol', cloud') /\ CallerFits(pc'.recover, pc'.tool, vol', cloud')
    BY <2>2 DEF CallerFits
  <2> QED BY <2>1, <2>2, <2>3, <2>4, <2>5, <2>6, <2>7, <2>8
<1>2. CASE IdleStop
  <2>1. /\ up' = FALSE /\ pc.recover = "idle" /\ pc.tool \in {"none", "done"}
        /\ mem' = NoMemory /\ Goto("recover", "start")
        /\ UNCHANGED <<row, cloud, vol, call, late, losses>>
    BY <1>2 DEF IdleStop
  <2>2. pc' \in Places /\ pc'.recover = "start" /\ pc'.tool = pc.tool
    BY <2>1, GotoFits DEF RecoveryPlaces
  <2>3. mem' \in Memories
    BY <2>1 DEF NoMemory, Memories
  <2>4. Waiting(pc', call, up')
    BY <2>1, <2>2 DEF Waiting, RecoveryAsking
  <2>5. LocalFits(vol', pc'.tool, pc'.recover)
    BY <2>1, <2>2 DEF LocalFits, CallerFits
  <2> QED BY <2>1, <2>2, <2>3, <2>4, <2>5, LocalKept
<1>3. CASE Start
  <2>1. /\ ~up /\ up' = TRUE /\ vol' = Cleaned(Reconciled(vol))
        /\ UNCHANGED <<row, cloud, pc, mem, call, late, losses>>
    BY <1>3 DEF Start
  <2>2. pc.tool \in {"none", "done"} /\ pc.recover = "start"
    BY <2>1 DEF Waiting
  <2>3. LocalFits(vol, pc.tool, pc.recover)
    BY DEF LocalFits
  <2>4. LocalFits(Reconciled(vol), pc.tool, pc.recover)
    BY <2>2, <2>3, SweptFits
  <2>5. LocalFits(vol', pc'.tool, pc'.recover)
    BY <2>1, <2>4, SweptFits
  <2>6. Waiting(pc', call, up')
    BY <2>1 DEF Waiting
  <2> QED BY <2>1, <2>5, <2>6, LocalKept
<1> QED BY <1>1, <1>2, <1>3

\* Cloud validates, the user tries again, the backoff of a registration ends.
LEMMA OthersKept ==
    ASSUME PublicationInv,
           CloudValidates \/ UserRetries \/ DueAgain
    PROVE  PublicationInv'
<1>1. ASSUME CloudMoves(cloud, cloud'), UNCHANGED <<vol, pc, mem, call, late, up, losses>>,
             IntentFits(row', cloud'), row'.manifest = row.manifest
      PROVE  PublicationInv'
  <2>1. HandlersFit(call, late, cloud') /\ (row.manifest => KeptOn(vol, cloud'))
    BY <1>1, HandlersLater
  <2> QED BY <1>1, <2>1, TalkKept DEF PublicationInv
<1>2. CASE CloudValidates
  <2>1. PICK s \in {"ready", "failed"} : cloud' = [cloud EXCEPT !.state = s]
    BY <1>2 DEF CloudValidates
  <2>2. /\ cloud' \in Clouds /\ cloud'.state = s /\ cloud'.rev = cloud.rev
        /\ cloud.rev \in Nat /\ cloud.state = "validating"
        /\ UNCHANGED <<row, vol, pc, mem, call, late, up, losses>>
    BY <1>2, <2>1 DEF CloudValidates, PublicationInv, CloudFits, Clouds
  <2>3. CloudMoves(cloud, cloud')
    BY <2>2 DEF CloudMoves, CloudFits, PublicationInv
  <2> QED BY <1>1, <2>2, <2>3, HandlersLater
<1>3. CASE UserRetries
  <2>1. /\ cloud.state = "failed" /\ cloud.rev < MaxRev
        /\ cloud' = [state |-> "uploading", rev |-> cloud.rev + 1]
        /\ UNCHANGED <<row, vol, pc, mem, call, late, up, losses>>
    BY <1>3 DEF UserRetries
  <2>2. cloud.rev \in 0..MaxRev /\ MaxRev \in Nat
    BY PublicationAssumption DEF PublicationInv, CloudFits, Clouds
  <2>3. cloud.rev + 1 \in 0..MaxRev /\ cloud.rev + 1 > 0 /\ cloud.rev <= cloud.rev + 1
    BY <2>1, <2>2
  <2>4. CloudMoves(cloud, cloud')
    BY <2>1, <2>3 DEF CloudMoves, CloudFits, Clouds
  <2> QED BY <1>1, <2>1, <2>4, HandlersLater
<1>4. CASE DueAgain
  <2>1. /\ row' = [row EXCEPT !.due = TRUE]
        /\ UNCHANGED <<cloud, vol, pc, mem, call, late, up, losses>>
    BY <1>4 DEF DueAgain
  <2>2. /\ row' \in Intents /\ row'.state = row.state /\ row'.rev = row.rev
        /\ row'.manifest = row.manifest
    BY <2>1 DEF PublicationInv, IntentFits, Intents
  <2>3. IntentFits(row', cloud')
    BY <2>1, <2>2 DEF PublicationInv, IntentFits
  <2>4. CloudMoves(cloud, cloud')
    BY <2>1, CloudStays DEF PublicationInv
  <2> QED BY <1>1, <2>1, <2>2, <2>3, <2>4
<1> QED BY <1>2, <1>3, <1>4

\* Nothing is there before the first intent.
LEMMA PublicationStarts ==
    ASSUME PublicationInit
    PROVE  PublicationInv
<1> USE DEF PublicationInit
<1>1. CloudFits(cloud)
  BY PublicationAssumption DEF CloudFits, Clouds
<1>2. IntentFits(row, cloud) /\ ~row.manifest
  BY PublicationAssumption DEF IntentFits, Intents, NoIntent
<1>3. /\ pc \in Places /\ mem \in Memories /\ up \in BOOLEAN /\ losses \in 0..MaxLosses
      /\ pc.tool = "none" /\ pc.recover = "start"
  BY PublicationAssumption DEF Places, ToolPlaces, RecoveryPlaces, Memories, NoMemory
<1>4. HandlersFit(call, late, cloud)
  <2>1. HandlerFits(NoCall, cloud)
    BY <1>1, NoCallFits
  <2>2. NoCall \in Handlers
    BY <2>1 DEF HandlerFits
  <2> QED BY <2>1, <2>2 DEF HandlersFit, Callers
<1>5. Waiting(pc, call, up)
  BY DEF Waiting, Callers
<1>6. SpoolFits(vol, pc.tool, cloud)
  BY <1>3 DEF SpoolFits, Spools, NoRecord
<1>7. CallerFits(pc.tool, pc.tool, vol, cloud) /\ CallerFits(pc.recover, pc.tool, vol, cloud)
  BY <1>3 DEF CallerFits
<1> QED BY <1>1, <1>2, <1>3, <1>4, <1>5, <1>6, <1>7 DEF PublicationInv

\* The invariant holds in every state of a publication.
LEMMA PublicationInvariant == PublicationSpec => []PublicationInv
<1>1. PublicationInit => PublicationInv
  BY PublicationStarts
<1>2. PublicationInv /\ [PublicationNext]_pubVars => PublicationInv'
  <2> SUFFICES ASSUME PublicationInv, [PublicationNext]_pubVars PROVE PublicationInv'
    OBVIOUS
  <2>1. CASE CreateIntent
    BY <2>1, CreateIntentKept
  <2>2. CASE Publish
    BY <2>2, CopyKept, AsksKept, StopsKept DEF Publish
  <2>3. CASE Recover
    BY <2>3, SweepKept, AsksKept, StopsKept DEF Recover
  <2>4. CASE Release
    BY <2>4, ReleaseKept
  <2>5. CASE \E c \in Callers : Answered(c)
    BY <2>5, CloudAnswersKept, RecordKept DEF Answered
  <2>6. CASE Late
    BY <2>6, CloudAnswersKept, RecordKept DEF Late
  <2>7. CASE CloudFails \/ CloudFailsLate \/ GiveUp
    BY <2>7, LostKept
  <2>8. CASE ReservationAges
    BY <2>8, SweepKept
  <2>9. CASE RuntimeCrash \/ IdleStop \/ Start
    BY <2>9, RuntimeKept
  <2>10. CASE DueAgain \/ CloudValidates \/ UserRetries
    BY <2>10, OthersKept
  <2>11. CASE UNCHANGED pubVars
    BY <2>11 DEF pubVars, PublicationInv
  <2> QED BY <2>1, <2>2, <2>3, <2>4, <2>5, <2>6, <2>7, <2>8, <2>9, <2>10, <2>11 DEF PublicationNext
<1> QED BY <1>1, <1>2, PTL DEF PublicationSpec

\* What Foundry was told is frozen stays on the volume until Cloud has it, its disk is
\* charged and the intent keeps its constraints, for every number of attempts,
\* revisions and losses: whatever is crashed, lost, late or asked twice
\* (release_publication_spool, reconcile_publication_spools).
THEOREM SnapshotKeptUntilUploaded == PublicationSpec => []SnapshotOutlivesUpload
<1>1. PublicationInv => SnapshotOutlivesUpload
  <2> SUFFICES ASSUME PublicationInv PROVE SnapshotOutlivesUpload
    OBVIOUS
  <2>1. ~up => call = [c \in Callers |-> NoCall]
    BY DEF PublicationInv, HandlersFit, Waiting, Callers, ToolAsking, RecoveryAsking
  <2>2. ~up => pc = Ended
    BY DEF PublicationInv, Waiting, Places, Ended
  <2>3. cloud.state \in {"none", "uploading", "validating", "ready", "failed"}
        /\ cloud.rev \in 0..MaxRev
    BY DEF PublicationInv, CloudFits, Clouds
  <2>4. PublicationTypeOK
    BY <2>1, <2>2, <2>3 DEF PublicationInv, IntentFits, SpoolFits, Intents, Spools, PublicationTypeOK,
       Open
  <2>5. DiskIsCharged
    BY DEF PublicationInv, SpoolFits, DiskIsCharged
  <2>6. row.manifest /\ cloud.state # "ready" => HasSnapshot(vol) \/ JournalWithoutSnapshot
    BY DEF PublicationInv, KeptOn, HasSnapshot, JournalWithoutSnapshot
  <2> QED BY <2>4, <2>5, <2>6 DEF SnapshotOutlivesUpload
<1> QED BY <1>1, PublicationInvariant, PTL
=============================================================================
