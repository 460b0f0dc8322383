---------------------- MODULE WorkspaceLifecycleProofs ----------------------
(***************************************************************************)
(* Theorems about WorkspaceLifecycle, for every set of processes, every    *)
(* number of generations, attempts and faults, and every deadline that     *)
(* ClaimAssumption allows.                                                 *)
(***************************************************************************)
EXTENDS WorkspaceLifecycle, TLAPS

WorkerRow == [step : Steps, kind : {"ensure", "replace"}, source : Refs,
              op : Refs, phase : InFlight \cup {"idle"}, previous : Refs,
              ref : Refs, attempts : 0..MaxAttempts]

-----------------------------------------------------------------------------
(* The inductive invariant: what the row says of the operation and of the  *)
(* Machines, and what each process knows of both.                          *)

\* Every Machine's predecessor is destroyed and fenced.
Successors ==
    \A g \in Generations : g > 1 /\ machine[g] # "none" =>
        g - 1 \in fenced /\ machine[g - 1] = "destroyed"

\* What the columns of the row say of the operation.
RowMatchesPhase ==
    /\ row.gen = 0 => row.phase = "idle"
    /\ row.phase \in InFlight =>
          /\ row.kind # "none" /\ row.gen = row.source + 1 /\ row.previous = row.source
          /\ row.kind = "ensure" => row.source = 0 /\ row.phase \notin RetirePhases
          /\ row.kind = "replace" => row.source > 0 /\ row.phase \notin EnsurePhases
    /\ row.phase \in {"machine_started", "healthy", "idle"} => row.ref = row.gen
    /\ row.gen > 0 /\ row.phase \notin EnsurePhases \cup {"failed"} => row.volume

\* How far the Machines of the generations are.
MachinesMatchPhase ==
    /\ \A g \in Generations : g < row.gen => machine[g] # "none"
    /\ \A g \in Generations : g > row.gen => machine[g] = "none"
    /\ row.phase \in EnsurePhases \cup RetirePhases => machine[row.gen] = "none"
    /\ row.phase \in {"machine_started", "healthy", "idle"} /\ row.gen > 0 =>
          machine[row.gen] # "none"
    /\ row.gen > 1 /\ row.phase \notin {"old_machine_stopped", "failed"} =>
          row.gen - 1 \in fenced
    /\ row.gen > 1 /\ row.phase \notin RetirePhases \cup {"failed"} =>
          machine[row.gen - 1] = "destroyed"

StoreOK == Successors /\ RowMatchesPhase /\ MachinesMatchPhase

\* Where a process can be in the phase it claimed.
FitsPhase(step, phase) ==
    /\ step = "ensure app" => phase = "app_ready"
    /\ step = "ensure volume" => phase = "volume_ready"
    /\ step \in {"inspect old", "stop", "wait stopped", "fence"} =>
          phase = "old_machine_stopped"
    /\ step \in {"inspect retired", "destroy", "check detached"} =>
          phase = "old_machine_destroyed"
    /\ step \in {"check volume", "create"} => phase = "machine_created"
    /\ step \in {"inspect new", "start", "wait started"} => phase = "machine_started"
    /\ step = "wait healthy" => phase = "healthy"

Works(w) == worker[w].step \notin {"idle", "claim"}

\* The call of a process: an ensure has no source, and who has claimed a phase
\* works on the generation after its source.
CallMatches(w) ==
    /\ worker[w].kind = "ensure" => worker[w].source = 0
    /\ worker[w].kind = "replace" => worker[w].source \in 1..(MaxGeneration - 1)
    /\ worker[w].op # 0 => worker[w].op = worker[w].source + 1
    /\ worker[w].phase \in RetirePhases => worker[w].kind = "replace"
    /\ Works(w) => /\ worker[w].op # 0 /\ worker[w].previous = worker[w].op - 1
                   /\ worker[w].phase \in InFlight
                   /\ FitsPhase(worker[w].step, worker[w].phase)

\* A process that used up its attempts goes on only after it recorded its phase,
\* and finds a later one.
Passed(w) ==
    \/ row.gen > worker[w].op
    \/ row.gen = worker[w].op /\ Rank[row.phase] > Rank[worker[w].phase]
TriesLeft(w) ==
    worker[w].step = "claim" /\ worker[w].attempts = MaxAttempts =>
        worker[w].op # 0 /\ worker[w].phase \in InFlight /\ Passed(w)

\* If the row has the claim of w, then w works on what is recorded.
OwnerInPhase(w) ==
    Works(w) /\ row.token = w =>
        /\ row.gen = worker[w].op /\ row.phase = worker[w].phase
        /\ row.ref = worker[w].ref

\* Steps after which a process still has its claim: no polling step before them.
BoundedPhases == {"app_ready", "volume_ready", "old_machine_destroyed", "machine_created"}
BoundedSteps ==
    {"ensure app", "ensure volume", "inspect old", "stop", "inspect retired", "destroy",
     "check detached", "check volume", "create"}
Bounded(step, phase) ==
    \/ step \in BoundedSteps
    \/ step = "advance" /\ phase \in BoundedPhases
HoldsClaim(w) ==
    Bounded(worker[w].step, worker[w].phase) => row.token = w /\ ~row.expired

\* What a process has done before it records its phase.
WorkDone(w) ==
    /\ worker[w].step = "advance" /\ worker[w].phase = "old_machine_stopped" =>
          worker[w].op - 1 \in fenced
    /\ /\ worker[w].step \in {"check detached", "advance"}
       /\ worker[w].phase = "old_machine_destroyed"
       => machine[worker[w].op - 1] = "destroyed"
    /\ worker[w].step = "advance" /\ worker[w].phase = "machine_created" =>
          machine[worker[w].op] # "none"

CallOK(w) ==
    CallMatches(w) /\ TriesLeft(w) /\ OwnerInPhase(w) /\ HoldsClaim(w) /\ WorkDone(w)

LifecycleInv == TypeOK /\ StoreOK /\ \A w \in Workers : CallOK(w)

-----------------------------------------------------------------------------
(* The tables.                                                             *)

\* A claim of a phase begins with a request, before any polling unless the phase
\* only waits for the new Machine.
LEMMA FirstSteps ==
  ASSUME NEW p \in InFlight
  PROVE  /\ FirstStep[p] \in ProviderSteps
         /\ FirstStep[p] \notin {"idle", "claim", "advance", "check detached", "fence"}
         /\ FitsPhase(FirstStep[p], p)
<1>1. /\ FirstStep["app_ready"] = "ensure app"
      /\ FirstStep["volume_ready"] = "ensure volume"
      /\ FirstStep["old_machine_stopped"] = "inspect old"
      /\ FirstStep["old_machine_destroyed"] = "inspect retired"
      /\ FirstStep["machine_created"] = "check volume"
      /\ FirstStep["machine_started"] = "inspect new"
      /\ FirstStep["healthy"] = "wait healthy"
  BY DEF FirstStep
<1>2. FirstStep[p] \in ProviderSteps
  BY DEF ProviderSteps
<1>3. p \in {"app_ready", "volume_ready", "old_machine_stopped", "old_machine_destroyed",
             "machine_created", "machine_started", "healthy"}
  BY DEF InFlight, EnsurePhases, RetirePhases
<1>4. FitsPhase(FirstStep[p], p)
  BY <1>1, <1>3 DEF FitsPhase
<1>. QED
  BY <1>1, <1>2, <1>3, <1>4

\* Recording a phase moves the operation forward.
LEMMA NextPhases ==
  ASSUME NEW p \in InFlight
  PROVE  /\ NextPhase[p] \in InFlight \cup {"idle"}
         /\ Rank[NextPhase[p]] > Rank[p] /\ Rank[p] < 6 /\ Rank[p] \in Nat
         /\ Rank[NextPhase[p]] \in Nat
  BY DEF NextPhase, InFlight, EnsurePhases, RetirePhases, Rank

\* Only a polling step outlasts a claim.
LEMMA OnlyPollingOutlasts ==
  ASSUME NEW w, MayOutlastClaim(w), row.phase \in InFlight
  PROVE  worker[w].step \in PollingSteps
<1>1. Requests[row.phase] \in Nat
  BY DEF Requests, InFlight, EnsurePhases, RetirePhases
<1>2. Requests[row.phase] * RequestTimeoutSeconds \in Nat
  BY <1>1, LimitsAssumption
<1>3. Requests[row.phase] * RequestTimeoutSeconds <= ClaimSeconds
  BY ClaimAssumption
<1>. QED
  BY <1>2, <1>3, LimitsAssumption DEF MayOutlastClaim

-----------------------------------------------------------------------------
(* What most steps leave alone.                                            *)

\* Machines may start, stop and be destroyed, but none is created.
MachinesKept ==
    \A g \in Generations :
        /\ machine'[g] = "none" <=> machine[g] = "none"
        /\ machine[g] = "destroyed" => machine'[g] = "destroyed"

\* The row of a generation is one of the Machines'.
LEMMA GenerationsOfRow ==
  ASSUME TypeOK
  PROVE  /\ row.gen \in Nat /\ row.gen <= MaxGeneration
         /\ row.gen > 0 => row.gen \in Generations
         /\ row.gen > 1 => row.gen - 1 \in Generations
         /\ \A g \in Generations : g \in Nat /\ (g > 1 => g - 1 \in Generations)
  BY LimitsAssumption DEF TypeOK, Refs, Generations

\* The columns of the row have their types.
LEMMA RowTypes ==
  ASSUME TypeOK
  PROVE  /\ row.phase \in InFlight \cup {"idle", "failed"}
         /\ row.token \in Workers \cup {NoWorker} /\ row.ref \in Refs /\ row.gen \in Refs
         /\ row.source \in Refs /\ row.previous \in Refs
         /\ row.kind \in {"none", "ensure", "replace"}
  BY DEF TypeOK

\* The call of a process has its types.
LEMMA CallTypes ==
  ASSUME TypeOK, NEW w \in Workers
  PROVE  /\ worker \in [Workers -> WorkerRow] /\ worker[w] \in WorkerRow
         /\ worker[w].step \in Steps /\ worker[w].kind \in {"ensure", "replace"}
         /\ worker[w].source \in Refs /\ worker[w].op \in Refs
         /\ worker[w].previous \in Refs /\ worker[w].ref \in Refs
         /\ worker[w].phase \in InFlight \cup {"idle"}
         /\ worker[w].attempts \in 0..MaxAttempts
<1>1. worker \in [Workers -> WorkerRow]
  BY DEF TypeOK, WorkerRow
<1>2. worker[w] \in WorkerRow
  BY <1>1
<1>. QED
  BY <1>1, <1>2 DEF WorkerRow

\* A process that works on a phase works on a generation; one that retires a
\* Machine, on the generation after another.
LEMMA WorkedGeneration ==
  ASSUME TypeOK, NEW w \in Workers, CallMatches(w), Works(w)
  PROVE  /\ worker[w].op \in Generations /\ worker[w].previous = worker[w].op - 1
         /\ worker[w].phase \in RetirePhases =>
               worker[w].op - 1 \in Generations /\ worker[w].op > 1
<1>1. /\ worker[w].op \in Refs /\ worker[w].source \in Refs
      /\ worker[w].kind \in {"ensure", "replace"}
  BY CallTypes
<1>2. /\ worker[w].op # 0 /\ worker[w].op = worker[w].source + 1
      /\ worker[w].previous = worker[w].op - 1
      /\ worker[w].phase \in RetirePhases => worker[w].source \in 1..(MaxGeneration - 1)
  BY DEF CallMatches
<1>. QED
  BY <1>1, <1>2, LimitsAssumption DEF Refs, Generations

\* The row and the Machines, when the row stays and no Machine is created.
LEMMA StoreKept ==
  ASSUME LifecycleInv, row' = row, fenced \subseteq fenced', MachinesKept
  PROVE  StoreOK'
<1>1. TypeOK /\ Successors /\ RowMatchesPhase /\ MachinesMatchPhase
  BY DEF LifecycleInv, StoreOK
<1>2. Successors'
  BY <1>1, GenerationsOfRow DEF Successors, MachinesKept
<1>3. RowMatchesPhase'
  BY <1>1 DEF RowMatchesPhase
<1>4. row.phase \in EnsurePhases \cup RetirePhases => row.gen > 0
  BY <1>1, GenerationsOfRow DEF RowMatchesPhase, EnsurePhases, RetirePhases
<1>5. MachinesMatchPhase'
  BY <1>1, <1>4, GenerationsOfRow DEF MachinesMatchPhase, MachinesKept
<1>. QED
  BY <1>2, <1>3, <1>5 DEF StoreOK

\* What a process knows, when its call and the row stay and no Machine is created.
LEMMA CallKept ==
  ASSUME TypeOK, NEW w \in Workers, CallOK(w), worker'[w] = worker[w], row' = row,
         fenced \subseteq fenced', MachinesKept
  PROVE  CallOK(w)'
<1>1. CallMatches(w)'
  BY DEF CallOK, CallMatches, Works
<1>2. TriesLeft(w)' /\ OwnerInPhase(w)' /\ HoldsClaim(w)'
  BY DEF CallOK, TriesLeft, Passed, OwnerInPhase, Works, HoldsClaim
<1>3. WorkDone(w)'
  <2>1. Works(w) => /\ worker[w].op \in Generations
                    /\ worker[w].phase \in RetirePhases => worker[w].op - 1 \in Generations
    BY WorkedGeneration DEF CallOK
  <2>. QED
    BY <2>1 DEF CallOK, WorkDone, MachinesKept, Works, RetirePhases
<1>. QED
  BY <1>1, <1>2, <1>3 DEF CallOK

\* The types of the rest, for a step that leaves the row alone.
Provider ==
    /\ fenced \subseteq fenced' /\ fenced' \subseteq Generations
    /\ machine' \in [Generations -> MachineStates] /\ MachinesKept
    /\ attached' \in Refs /\ faults' \in 0..MaxFaults

\* A step of a process within the phase it claimed.
LEMMA PhaseMoves ==
  ASSUME LifecycleInv, row' = row, Provider, NEW w \in Workers,
         NEW s \in Steps \ {"idle", "claim"}, Goto(w, s), Works(w),
         FitsPhase(s, worker[w].phase),
         Bounded(s, worker[w].phase) => worker[w].step \in BoundedSteps,
         s = "advance" /\ worker[w].phase = "old_machine_stopped" =>
            worker[w].op - 1 \in fenced',
         s \in {"check detached", "advance"} /\ worker[w].phase = "old_machine_destroyed" =>
            machine'[worker[w].op - 1] = "destroyed",
         s = "advance" /\ worker[w].phase = "machine_created" =>
            machine'[worker[w].op] # "none"
  PROVE  LifecycleInv'
<1>1. TypeOK /\ \A u \in Workers : CallOK(u)
  BY DEF LifecycleInv
<1>2. /\ worker \in [Workers -> WorkerRow] /\ worker[w] \in WorkerRow
      /\ worker' = [worker EXCEPT ![w].step = s]
  BY <1>1, CallTypes DEF Goto
<1>3. /\ worker'[w] = [worker[w] EXCEPT !.step = s]
      /\ \A u \in Workers \ {w} : worker'[u] = worker[u]
  BY <1>2
<1>4. /\ worker'[w].step = s /\ worker'[w].kind = worker[w].kind
      /\ worker'[w].source = worker[w].source /\ worker'[w].op = worker[w].op
      /\ worker'[w].phase = worker[w].phase /\ worker'[w].previous = worker[w].previous
      /\ worker'[w].ref = worker[w].ref
  BY <1>2, <1>3 DEF WorkerRow
<1>5. worker' \in [Workers -> WorkerRow]
  <2>1. [worker[w] EXCEPT !.step = s] \in WorkerRow
    BY <1>2 DEF WorkerRow
  <2>. QED
    BY <1>2, <2>1
<1>6. TypeOK'
  BY <1>1, <1>5 DEF TypeOK, Provider, WorkerRow
<1>7. StoreOK'
  BY StoreKept DEF Provider
<1>8. CallOK(w)'
  <2>1. CallMatches(w)'
    BY <1>1, <1>4 DEF CallOK, CallMatches, Works
  <2>2. TriesLeft(w)' /\ OwnerInPhase(w)'
    BY <1>1, <1>4 DEF CallOK, TriesLeft, OwnerInPhase, Works
  <2>3. HoldsClaim(w)'
    BY <1>1, <1>4 DEF CallOK, HoldsClaim, Bounded
  <2>4. WorkDone(w)'
    BY <1>4 DEF WorkDone
  <2>. QED
    BY <2>1, <2>2, <2>3, <2>4 DEF CallOK
<1>9. \A u \in Workers \ {w} : CallOK(u)'
  BY <1>1, <1>3, CallKept DEF Provider
<1>. QED
  BY <1>6, <1>7, <1>8, <1>9 DEF LifecycleInv

\* A call begins or ends; the row stays.
LEMMA CallBegins ==
  ASSUME LifecycleInv, row' = row, Provider, NEW w \in Workers, NEW c \in WorkerRow,
         worker' = [worker EXCEPT ![w] = c],
         c.step \in {"idle", "claim"}, c.op = 0, c.attempts = 0, c.phase = "idle",
         c.kind = "ensure" => c.source = 0,
         c.kind = "replace" => c.source \in 1..(MaxGeneration - 1)
  PROVE  LifecycleInv'
<1>1. TypeOK /\ \A u \in Workers : CallOK(u)
  BY DEF LifecycleInv
<1>2. /\ worker \in [Workers -> WorkerRow] /\ worker'[w] = c
      /\ \A u \in Workers \ {w} : worker'[u] = worker[u]
      /\ worker' \in [Workers -> WorkerRow]
  BY <1>1, CallTypes
<1>3. TypeOK'
  BY <1>1, <1>2 DEF TypeOK, Provider, WorkerRow
<1>4. StoreOK'
  BY StoreKept DEF Provider
<1>5. CallOK(w)'
  <2>1. CallMatches(w)'
    BY <1>2 DEF CallMatches, Works, RetirePhases
  <2>2. TriesLeft(w)' /\ OwnerInPhase(w)'
    BY <1>2, LimitsAssumption DEF TriesLeft, OwnerInPhase, Works
  <2>3. HoldsClaim(w)' /\ WorkDone(w)'
    BY <1>2 DEF HoldsClaim, Bounded, BoundedSteps, WorkDone
  <2>. QED
    BY <2>1, <2>2, <2>3 DEF CallOK
<1>6. \A u \in Workers \ {w} : CallOK(u)'
  BY <1>1, <1>2, CallKept DEF Provider
<1>. QED
  BY <1>3, <1>4, <1>5, <1>6 DEF LifecycleInv

\* The Machines alone.
LEMMA ProviderMoves ==
  ASSUME LifecycleInv, row' = row, Provider, worker' = worker
  PROVE  LifecycleInv'
<1>1. TypeOK /\ \A u \in Workers : CallOK(u)
  BY DEF LifecycleInv
<1>2. TypeOK'
  BY <1>1 DEF TypeOK, Provider
<1>. QED
  BY <1>1, <1>2, StoreKept, CallKept DEF LifecycleInv, Provider

\* The requests of a process and the life of a Machine create none.
LEMMA RequestsKeep ==
  ASSUME TypeOK, NEW g,
         \/ StartRequest(g) \/ StopRequest(g) \/ machine' = machine
         \/ machine[g] # "none" /\ machine' = [machine EXCEPT ![g] = "destroyed"]
         \/ machine[g] = "starting" /\ machine' = [machine EXCEPT ![g] = "started"]
         \/ /\ machine[g] \in {"starting", "started", "stopping"}
            /\ machine' = [machine EXCEPT ![g] = "stopped"]
  PROVE  machine' \in [Generations -> MachineStates] /\ MachinesKept
<1>1. machine \in [Generations -> MachineStates]
  BY DEF TypeOK
<1>2. machine' \in [Generations -> MachineStates]
  BY <1>1 DEF StartRequest, StopRequest, MachineStates, Running, Gone
<1>3. MachinesKept
  BY <1>1 DEF StartRequest, StopRequest, MachinesKept
<1>. QED
  BY <1>2, <1>3

-----------------------------------------------------------------------------
(* The steps of a process that leave the row alone.                        *)

\* The steps a process goes to inside a transition.
LEMMA StepNames ==
  {"advance", "fence", "terminal", "retryable", "stop", "wait stopped", "destroy",
   "check detached", "create", "start", "wait started", "inspect new"}
     \subseteq Steps \ {"idle", "claim"}
<1>1. FirstStep["machine_started"] = "inspect new"
  BY DEF FirstStep
<1>2. "machine_started" \in InFlight
  BY DEF InFlight
<1>3. "inspect new" \in ProviderSteps
  BY <1>1, <1>2 DEF ProviderSteps
<1>. QED
  BY <1>3 DEF Steps, ProviderSteps

\* A step that does not reach the provider.
LEMMA Quiet ==
  ASSUME TypeOK, UNCHANGED <<fenced, machine, attached>>, faults' \in 0..MaxFaults
  PROVE  Provider
  BY DEF TypeOK, Provider, MachinesKept

\* A step of a phase that only looks.
LEMMA InvLook ==
  ASSUME LifecycleInv, NEW w \in Workers,
         \/ EnsureApp(w) \/ EnsureVolume(w) \/ InspectOld(w) \/ WaitMachineStopped(w)
         \/ InspectRetired(w) \/ CheckDetached(w) \/ CheckVolume(w)
         \/ InspectNew(w) \/ WaitMachineStarted(w) \/ WaitHealthy(w)
  PROVE  LifecycleInv'
<1>0. TypeOK /\ CallOK(w) /\ CallMatches(w) /\ WorkDone(w)
  BY DEF LifecycleInv, CallOK
<1>1. row' = row /\ Works(w) /\ Provider
  <2>1. row' = row /\ UNCHANGED <<fenced, machine, attached, faults>>
    BY DEF EnsureApp, EnsureVolume, InspectOld, WaitMachineStopped, InspectRetired,
           CheckDetached, CheckVolume, InspectNew, WaitMachineStarted, WaitHealthy
  <2>2. Works(w)
    BY DEF EnsureApp, EnsureVolume, InspectOld, WaitMachineStopped, InspectRetired,
           CheckDetached, CheckVolume, InspectNew, WaitMachineStarted, WaitHealthy, At, Works
  <2>3. faults' \in 0..MaxFaults
    BY <1>0, <2>1 DEF TypeOK
  <2>. QED
    BY <1>0, <2>1, <2>2, <2>3, Quiet
<1>2. /\ worker[w].op \in Generations /\ worker[w].previous = worker[w].op - 1
      /\ worker[w].phase \in RetirePhases =>
            worker[w].op - 1 \in Generations /\ worker[w].op > 1
      /\ FitsPhase(worker[w].step, worker[w].phase)
  BY <1>0, <1>1, WorkedGeneration DEF CallMatches
<1>3. CASE EnsureApp(w) \/ EnsureVolume(w)
  <2>1. /\ Goto(w, "advance") /\ worker[w].step \in {"ensure app", "ensure volume"}
        /\ worker[w].phase \in {"app_ready", "volume_ready"}
    BY <1>2, <1>3 DEF EnsureApp, EnsureVolume, At, FitsPhase
  <2>2. FitsPhase("advance", worker[w].phase) /\ worker[w].step \in BoundedSteps
    BY <2>1 DEF FitsPhase, BoundedSteps
  <2>. QED
    BY <1>1, <2>1, <2>2, StepNames, PhaseMoves
<1>4. CASE InspectOld(w)
  <2>1. /\ worker[w].step = "inspect old" /\ worker[w].phase = "old_machine_stopped"
    BY <1>2, <1>4 DEF InspectOld, At, FitsPhase
  <2>2. PICK s \in {"fence", "terminal", "stop"} : Goto(w, s)
    BY <1>4 DEF InspectOld
  <2>3. FitsPhase(s, worker[w].phase) /\ worker[w].step \in BoundedSteps
    BY <2>1 DEF FitsPhase, BoundedSteps
  <2>. QED
    BY <1>1, <2>1, <2>2, <2>3, StepNames, PhaseMoves
<1>5. CASE WaitMachineStopped(w)
  <2>1. Goto(w, "fence") /\ worker[w].phase = "old_machine_stopped"
    BY <1>2, <1>5 DEF WaitMachineStopped, At, FitsPhase
  <2>2. FitsPhase("fence", worker[w].phase) /\ ~Bounded("fence", worker[w].phase)
    BY <2>1 DEF FitsPhase, Bounded, BoundedSteps
  <2>. QED
    BY <1>1, <2>1, <2>2, StepNames, PhaseMoves
<1>6. CASE InspectRetired(w)
  <2>1. worker[w].step = "inspect retired" /\ worker[w].phase = "old_machine_destroyed"
    BY <1>2, <1>6 DEF InspectRetired, At, FitsPhase
  <2>2. StateOf(worker[w].previous) # "none"
    <3>1. row.token = w /\ row.gen = worker[w].op
      BY <1>0, <1>1, <2>1 DEF CallOK, HoldsClaim, Bounded, BoundedSteps, OwnerInPhase
    <3>2. worker[w].op - 1 \in Generations /\ worker[w].op - 1 < row.gen
      <4>1. worker[w].phase \in RetirePhases
        BY <2>1 DEF RetirePhases
      <4>. QED
        BY <1>2, <3>1, <4>1 DEF Generations
    <3>3. machine[worker[w].op - 1] # "none"
      BY <3>1, <3>2 DEF LifecycleInv, StoreOK, MachinesMatchPhase
    <3>4. worker[w].op - 1 # 0
      BY <3>2 DEF Generations
    <3>. QED
      BY <1>2, <3>3, <3>4 DEF StateOf
  <2>3. PICK s \in {"destroy", "terminal"} : Goto(w, s)
    BY <1>6, <2>2 DEF InspectRetired
  <2>4. FitsPhase(s, worker[w].phase) /\ worker[w].step \in BoundedSteps
    BY <2>1 DEF FitsPhase, BoundedSteps
  <2>. QED
    BY <1>1, <2>1, <2>3, <2>4, StepNames, PhaseMoves
<1>7. CASE CheckDetached(w)
  <2>1. worker[w].step = "check detached" /\ worker[w].phase = "old_machine_destroyed"
    BY <1>2, <1>7 DEF CheckDetached, At, FitsPhase
  <2>2. PICK s \in {"advance", "retryable", "terminal"} : Goto(w, s)
    BY <1>7 DEF CheckDetached
  <2>3. FitsPhase(s, worker[w].phase) /\ worker[w].step \in BoundedSteps
    BY <2>1 DEF FitsPhase, BoundedSteps
  <2>4. machine'[worker[w].op - 1] = "destroyed"
    BY <1>0, <1>7, <2>1 DEF WorkDone, CheckDetached
  <2>. QED
    BY <1>1, <2>1, <2>2, <2>3, <2>4, StepNames, PhaseMoves
<1>8. CASE CheckVolume(w)
  <2>1. worker[w].step = "check volume" /\ worker[w].phase = "machine_created"
    BY <1>2, <1>8 DEF CheckVolume, At, FitsPhase
  <2>2. PICK s \in {"create", "terminal"} : Goto(w, s)
    BY <1>8 DEF CheckVolume
  <2>3. FitsPhase(s, worker[w].phase) /\ worker[w].step \in BoundedSteps
    BY <2>1 DEF FitsPhase, BoundedSteps
  <2>. QED
    BY <1>1, <2>1, <2>2, <2>3, StepNames, PhaseMoves
<1>9. CASE InspectNew(w) \/ WaitMachineStarted(w) \/ WaitHealthy(w)
  <2>1. worker[w].phase \in {"machine_started", "healthy"}
    BY <1>2, <1>9 DEF InspectNew, WaitMachineStarted, WaitHealthy, At, FitsPhase
  <2>2. PICK s \in {"terminal", "advance", "start", "retryable"} :
          Goto(w, s) /\ (s = "start" => worker[w].phase = "machine_started")
    <3>1. CASE InspectNew(w)
      BY <1>2, <3>1 DEF InspectNew, At, FitsPhase
    <3>2. CASE WaitMachineStarted(w) \/ WaitHealthy(w)
      BY <3>2 DEF WaitMachineStarted, WaitHealthy, WaitOutcomes
    <3>. QED
      BY <1>9, <3>1, <3>2
  <2>3. FitsPhase(s, worker[w].phase) /\ ~Bounded(s, worker[w].phase)
    BY <2>1, <2>2 DEF FitsPhase, Bounded, BoundedSteps, BoundedPhases
  <2>. QED
    BY <1>1, <2>1, <2>2, <2>3, StepNames, PhaseMoves
<1>. QED
  BY <1>3, <1>4, <1>5, <1>6, <1>7, <1>8, <1>9

\* A step of a phase that asks the provider to stop, start or destroy a Machine,
\* whether the answer comes or is lost.
LEMMA InvRequest ==
  ASSUME LifecycleInv, NEW w \in Workers,
         StopOld(w) \/ DestroyOld(w) \/ StartNew(w) \/ LostAnswer(w)
  PROVE  LifecycleInv'
<1>0. TypeOK /\ CallOK(w) /\ CallMatches(w)
  BY DEF LifecycleInv, CallOK
<1>1. Works(w) /\ worker[w].step \in {"stop", "destroy", "start"}
  BY DEF StopOld, DestroyOld, StartNew, LostAnswer, At, Works
<1>2. /\ worker[w].op \in Generations /\ worker[w].previous = worker[w].op - 1
      /\ worker[w].phase \in RetirePhases => worker[w].op - 1 \in Generations
      /\ FitsPhase(worker[w].step, worker[w].phase)
  BY <1>0, <1>1, WorkedGeneration DEF CallMatches
<1>3. row' = row /\ fenced' = fenced /\ attached' = attached /\ faults' \in 0..MaxFaults
  <2>1. row' = row /\ fenced' = fenced /\ attached' = attached
    BY DEF StopOld, DestroyOld, StartNew, LostAnswer
  <2>2. faults' = faults \/ (faults < MaxFaults /\ faults' = faults + 1)
    BY DEF StopOld, DestroyOld, StartNew, LostAnswer
  <2>3. faults \in 0..MaxFaults
    BY <1>0 DEF TypeOK
  <2>. QED
    BY <2>1, <2>2, <2>3, LimitsAssumption
<1>4. ASSUME machine' \in [Generations -> MachineStates], MachinesKept PROVE Provider
  BY <1>0, <1>3, <1>4 DEF Provider, TypeOK
<1>5. CASE worker[w].step = "stop"
  <2>1. StopRequest(worker[w].previous) /\ worker[w].phase = "old_machine_stopped"
    BY <1>2, <1>5 DEF StopOld, DestroyOld, StartNew, LostAnswer, At, FitsPhase
  <2>2. PICK s \in {"wait stopped", "retryable"} : Goto(w, s)
    BY <1>5 DEF StopOld, DestroyOld, StartNew, LostAnswer, At
  <2>3. FitsPhase(s, worker[w].phase) /\ ~Bounded(s, worker[w].phase)
    BY <2>1 DEF FitsPhase, Bounded, BoundedSteps
  <2>4. Provider
    BY <1>0, <1>4, <2>1, RequestsKeep
  <2>. QED
    BY <1>1, <1>3, <2>1, <2>2, <2>3, <2>4, StepNames, PhaseMoves
<1>6. CASE worker[w].step = "start"
  <2>1. StartRequest(worker[w].ref) /\ worker[w].phase = "machine_started"
    BY <1>2, <1>6 DEF StopOld, DestroyOld, StartNew, LostAnswer, At, FitsPhase
  <2>2. PICK s \in {"terminal", "inspect new", "wait started"} : Goto(w, s)
    BY <1>6 DEF StopOld, DestroyOld, StartNew, LostAnswer, At
  <2>3. FitsPhase(s, worker[w].phase) /\ ~Bounded(s, worker[w].phase)
    BY <2>1 DEF FitsPhase, Bounded, BoundedSteps
  <2>4. Provider
    BY <1>0, <1>4, <2>1, RequestsKeep
  <2>. QED
    BY <1>1, <1>3, <2>1, <2>2, <2>3, <2>4, StepNames, PhaseMoves
<1>7. CASE worker[w].step = "destroy"
  <2>1. worker[w].phase = "old_machine_destroyed" /\ worker[w].previous \in Generations
    BY <1>2, <1>7 DEF FitsPhase, RetirePhases
  <2>2. \/ machine' = machine /\ Goto(w, "terminal")
        \/ /\ machine' = [machine EXCEPT ![worker[w].previous] = "destroyed"]
           /\ Goto(w, "check detached") \/ Goto(w, "retryable")
    BY <1>7 DEF StopOld, DestroyOld, StartNew, LostAnswer, At
  <2>3. machine[worker[w].previous] # "none"
    <3>1. row.token = w /\ row.gen = worker[w].op
      BY <1>0, <1>1, <1>7 DEF CallOK, HoldsClaim, Bounded, BoundedSteps, OwnerInPhase
    <3>2. worker[w].previous < row.gen
      BY <1>2, <2>1, <3>1 DEF Generations
    <3>. QED
      BY <2>1, <3>1, <3>2 DEF LifecycleInv, StoreOK, MachinesMatchPhase
  <2>4. Provider
    BY <1>0, <1>4, <2>2, <2>3, RequestsKeep
  <2>5. PICK s \in {"terminal", "check detached", "retryable"} :
          /\ Goto(w, s)
          /\ s = "check detached" => machine'[worker[w].op - 1] = "destroyed"
    <3>1. machine' = [machine EXCEPT ![worker[w].previous] = "destroyed"] =>
            machine'[worker[w].op - 1] = "destroyed"
      BY <1>0, <1>2, <2>1 DEF TypeOK
    <3>. QED
      BY <2>2, <3>1, Zenon
  <2>6. FitsPhase(s, worker[w].phase) /\ worker[w].step \in BoundedSteps
    BY <1>7, <2>1 DEF FitsPhase, BoundedSteps
  <2>. QED
    BY <1>1, <1>3, <2>1, <2>4, <2>5, <2>6, StepNames, PhaseMoves
<1>. QED
  BY <1>1, <1>5, <1>6, <1>7

\* A request fails, or a polling loop meets its deadline.
LEMMA InvFailure ==
  ASSUME LifecycleInv, NEW w \in Workers, RequestFails(w) \/ DeadlinePasses(w)
  PROVE  LifecycleInv'
<1>0. TypeOK /\ CallOK(w) /\ CallMatches(w)
  BY DEF LifecycleInv, CallOK
<1>1. Works(w)
  <2>1. \A p \in InFlight : FirstStep[p] \notin {"idle", "claim"}
    BY FirstSteps
  <2>2. RequestFails(w) => Works(w)
    BY <2>1 DEF RequestFails, ProviderSteps, Works
  <2>. QED
    BY <2>2 DEF DeadlinePasses, At, Works
<1>2. FitsPhase(worker[w].step, worker[w].phase)
  BY <1>0, <1>1 DEF CallMatches
<1>3. row' = row /\ Provider
  <2>1. row' = row /\ UNCHANGED <<fenced, machine, attached>>
    BY DEF RequestFails, DeadlinePasses
  <2>2. faults' = faults \/ (faults < MaxFaults /\ faults' = faults + 1)
    BY DEF RequestFails, DeadlinePasses
  <2>3. faults' \in 0..MaxFaults
    BY <1>0, <2>2, LimitsAssumption DEF TypeOK
  <2>. QED
    BY <1>0, <2>1, <2>3, Quiet
<1>4. PICK s \in {"inspect new", "retryable", "terminal"} :
        Goto(w, s) /\ (s = "inspect new" => worker[w].step = "start")
  BY DEF RequestFails, DeadlinePasses, RetriesInPlace, At
<1>5. FitsPhase(s, worker[w].phase) /\ ~Bounded(s, worker[w].phase)
  BY <1>2, <1>4 DEF FitsPhase, Bounded, BoundedSteps
<1>. QED
  BY <1>1, <1>3, <1>4, <1>5, StepNames, PhaseMoves

\* A call begins, ends, raises or dies.
LEMMA InvCalls ==
  ASSUME LifecycleInv, NEW w \in Workers,
         \/ EnsureWorkspace(w) \/ ReturnOrRaise(w) \/ Crash(w)
         \/ \E source \in Generations : ReplaceMachine(w, source)
  PROVE  LifecycleInv'
<1>0. TypeOK
  BY DEF LifecycleInv
<1>1. row' = row /\ Provider
  <2>1. row' = row /\ UNCHANGED <<fenced, machine, attached>>
    BY DEF EnsureWorkspace, ReturnOrRaise, Crash, ReplaceMachine
  <2>2. faults' = faults \/ (faults < MaxFaults /\ faults' = faults + 1)
    BY DEF EnsureWorkspace, ReturnOrRaise, Crash, ReplaceMachine
  <2>3. faults' \in 0..MaxFaults
    BY <1>0, <2>2, LimitsAssumption DEF TypeOK
  <2>. QED
    BY <1>0, <2>1, <2>3, Quiet
<1>2. NoCall \in WorkerRow
  BY LimitsAssumption DEF NoCall, WorkerRow, Steps, Refs
<1>3. CASE ReturnOrRaise(w) \/ Crash(w)
  <2>1. worker' = [worker EXCEPT ![w] = NoCall]
    BY <1>3 DEF ReturnOrRaise, Crash, Return
  <2>2. /\ NoCall.step \in {"idle", "claim"} /\ NoCall.op = 0 /\ NoCall.attempts = 0
        /\ NoCall.phase = "idle" /\ NoCall.kind = "ensure" /\ NoCall.source = 0
    BY DEF NoCall
  <2>. QED
    BY <1>1, <1>2, <2>1, <2>2, CallBegins
<1>4. CASE EnsureWorkspace(w)
  <2> DEFINE c == [NoCall EXCEPT !.step = "claim"]
  <2>1. worker' = [worker EXCEPT ![w] = c]
    BY <1>4 DEF EnsureWorkspace
  <2>2. /\ c.step = "claim" /\ c.op = 0 /\ c.attempts = 0
        /\ c.phase = "idle" /\ c.kind = "ensure" /\ c.source = 0
    BY DEF NoCall
  <2>3. c \in WorkerRow
    BY <1>2 DEF WorkerRow, Steps
  <2>. HIDE DEF c
  <2>. QED
    BY <1>1, <2>1, <2>2, <2>3, CallBegins
<1>5. ASSUME NEW source \in Generations, ReplaceMachine(w, source)
      PROVE  LifecycleInv'
  <2> DEFINE c == [NoCall EXCEPT !.step = "claim", !.kind = "replace", !.source = source]
  <2>1. worker' = [worker EXCEPT ![w] = c] /\ source < MaxGeneration
    BY <1>5 DEF ReplaceMachine
  <2>2. /\ c.step = "claim" /\ c.op = 0 /\ c.attempts = 0
        /\ c.phase = "idle" /\ c.kind = "replace" /\ c.source = source
    BY DEF NoCall
  <2>3. source \in Refs /\ source \in 1..(MaxGeneration - 1)
    BY <2>1, LimitsAssumption DEF Generations, Refs
  <2>4. c \in WorkerRow
    BY <1>2, <2>3 DEF WorkerRow, Steps
  <2>. HIDE DEF c
  <2>. QED
    BY <1>1, <2>1, <2>2, <2>3, <2>4, CallBegins
<1>. QED
  BY <1>3, <1>4, <1>5

\* The fence: a generation is retired, or the call ends.
LEMMA InvFence ==
  ASSUME LifecycleInv, NEW w \in Workers, ConfirmStoppedAndFence(w)
  PROVE  LifecycleInv'
<1>0. TypeOK /\ CallOK(w) /\ CallMatches(w)
  BY DEF LifecycleInv, CallOK
<1>1. /\ Works(w) /\ worker[w].step = "fence"
      /\ row' = row /\ UNCHANGED <<machine, attached, faults>>
  BY DEF ConfirmStoppedAndFence, At, Works
<1>2. /\ worker[w].phase = "old_machine_stopped"
      /\ worker[w].op - 1 \in Generations
  BY <1>0, <1>1, WorkedGeneration DEF CallMatches, FitsPhase, RetirePhases
<1>3. Provider
  BY <1>0, <1>1, <1>2 DEF ConfirmStoppedAndFence, Provider, MachinesKept, TypeOK
<1>4. CASE FenceMatches(w)
  <2>1. Goto(w, "advance") /\ worker[w].op - 1 \in fenced'
    BY <1>4 DEF ConfirmStoppedAndFence
  <2>2. FitsPhase("advance", worker[w].phase) /\ ~Bounded("advance", worker[w].phase)
    BY <1>2 DEF FitsPhase, Bounded, BoundedSteps, BoundedPhases
  <2>. QED
    BY <1>1, <1>2, <1>3, <2>1, <2>2, StepNames, PhaseMoves
<1>5. CASE ~FenceMatches(w)
  <2>1. worker' = [worker EXCEPT ![w] = NoCall]
    BY <1>5 DEF ConfirmStoppedAndFence, Return
  <2>2. /\ NoCall.step \in {"idle", "claim"} /\ NoCall.op = 0 /\ NoCall.attempts = 0
        /\ NoCall.phase = "idle" /\ NoCall.kind = "ensure" /\ NoCall.source = 0
    BY DEF NoCall
  <2>3. NoCall \in WorkerRow
    BY LimitsAssumption DEF NoCall, WorkerRow, Steps, Refs
  <2>. QED
    BY <1>1, <1>3, <2>1, <2>2, <2>3, CallBegins
<1>. QED
  BY <1>4, <1>5

\* The provider and the power service.
LEMMA InvProvider ==
  ASSUME LifecycleInv,
         \/ \E g \in Generations : MachineSettles(g) \/ MachineLost(g)
         \/ VolumeDetaches \/ PowerOperation
  PROVE  LifecycleInv'
<1>0. TypeOK
  BY DEF LifecycleInv
<1>1. row' = row /\ fenced' = fenced /\ worker' = worker /\ attached' \in {attached, 0}
  BY DEF MachineSettles, MachineLost, VolumeDetaches, PowerOperation
<1>2. faults' \in 0..MaxFaults
  <2>1. faults' = faults \/ (faults < MaxFaults /\ faults' = faults + 1)
    BY DEF MachineSettles, MachineLost, VolumeDetaches, PowerOperation
  <2>. QED
    BY <1>0, <2>1, LimitsAssumption DEF TypeOK
<1>3. machine' \in [Generations -> MachineStates] /\ MachinesKept
  <2>1. ASSUME NEW g \in Generations, MachineSettles(g) \/ MachineLost(g)
        PROVE  \/ machine' = machine
               \/ machine[g] # "none" /\ machine' = [machine EXCEPT ![g] = "destroyed"]
               \/ machine[g] = "starting" /\ machine' = [machine EXCEPT ![g] = "started"]
               \/ /\ machine[g] \in {"starting", "started", "stopping"}
                  /\ machine' = [machine EXCEPT ![g] = "stopped"]
    BY <2>1 DEF MachineSettles, MachineLost, Gone
  <2>2. VolumeDetaches => machine' = machine
    BY DEF VolumeDetaches
  <2>3. PowerOperation => StartRequest(row.ref) \/ StopRequest(row.ref)
    BY DEF PowerOperation
  <2>. QED
    BY <1>0, <2>1, <2>2, <2>3, RequestsKeep
<1>4. Provider
  <2>1. attached' \in Refs
    BY <1>0, <1>1, LimitsAssumption DEF TypeOK, Refs
  <2>. QED
    BY <1>0, <1>1, <1>2, <1>3, <2>1 DEF Provider, TypeOK
<1>. QED
  BY <1>1, <1>4, ProviderMoves

\* The Machine of the target is found, made or refused.  Whoever makes it holds
\* the claim of the phase: no other process retires that generation meanwhile.
LEMMA InvEnsureMachine ==
  ASSUME LifecycleInv, NEW w \in Workers, EnsureMachine(w)
  PROVE  LifecycleInv'
<1>0. /\ TypeOK /\ CallOK(w) /\ CallMatches(w) /\ HoldsClaim(w) /\ OwnerInPhase(w)
      /\ Successors /\ RowMatchesPhase /\ MachinesMatchPhase
      /\ \A u \in Workers : CallOK(u)
  BY DEF LifecycleInv, StoreOK, CallOK
<1>1. /\ Works(w) /\ worker[w].step = "create"
      /\ row' = row /\ fenced' = fenced /\ faults' = faults
  BY DEF EnsureMachine, At, Works
<1>2. /\ worker[w].phase = "machine_created" /\ worker[w].op \in Generations
      /\ worker[w].step \in BoundedSteps
  BY <1>0, <1>1, WorkedGeneration DEF CallMatches, FitsPhase, BoundedSteps
<1>3. row.token = w /\ row.gen = worker[w].op /\ row.phase = "machine_created"
  BY <1>0, <1>1, <1>2 DEF HoldsClaim, Bounded, OwnerInPhase
<1> DEFINE g == worker[w].op
<1>4. ASSUME UNCHANGED <<machine, attached>>, NEW s \in {"advance", "terminal"}, Goto(w, s),
             s = "advance" => machine[g] # "none"
      PROVE  LifecycleInv'
  <2>1. Provider
    BY <1>0, <1>1, <1>4, Quiet DEF TypeOK
  <2>2. FitsPhase(s, worker[w].phase)
    BY <1>2 DEF FitsPhase
  <2>3. s = "advance" => machine'[g] # "none"
    BY <1>4
  <2>. QED
    BY <1>1, <1>2, <1>4, <2>1, <2>2, <2>3, StepNames, PhaseMoves
<1>5. ASSUME machine[g] \in Gone, machine' = [machine EXCEPT ![g] = "created"],
             attached' = g, Goto(w, "advance")
      PROVE  LifecycleInv'
  <2>1. /\ machine \in [Generations -> MachineStates] /\ machine'[g] = "created"
        /\ \A h \in Generations \ {g} : machine'[h] = machine[h]
        /\ machine' \in [Generations -> MachineStates]
    BY <1>0, <1>2, <1>5 DEF TypeOK, MachineStates
  <2>2. /\ worker \in [Workers -> WorkerRow] /\ worker[w] \in WorkerRow
        /\ worker' = [worker EXCEPT ![w].step = "advance"]
    BY <1>0, <1>5, CallTypes DEF Goto
  <2>3. /\ worker'[w] = [worker[w] EXCEPT !.step = "advance"]
        /\ \A u \in Workers \ {w} : worker'[u] = worker[u]
    BY <2>2
  <2>4. /\ worker'[w].step = "advance" /\ worker'[w].kind = worker[w].kind
        /\ worker'[w].source = worker[w].source /\ worker'[w].op = worker[w].op
        /\ worker'[w].phase = worker[w].phase /\ worker'[w].previous = worker[w].previous
        /\ worker'[w].ref = worker[w].ref
    BY <2>2, <2>3 DEF WorkerRow
  <2>5. TypeOK'
    <3>1. [worker[w] EXCEPT !.step = "advance"] \in WorkerRow
      BY <2>2, StepNames DEF WorkerRow
    <3>2. worker' \in [Workers -> WorkerRow]
      BY <2>2, <3>1
    <3>3. g \in Refs
      BY <1>2 DEF Generations, Refs
    <3>. QED
      BY <1>0, <1>1, <1>5, <2>1, <3>2, <3>3 DEF TypeOK, WorkerRow
  <2>6. Successors'
    <3>1. ASSUME NEW h \in Generations, h > 1, machine'[h] # "none"
          PROVE  h - 1 \in fenced /\ machine'[h - 1] = "destroyed"
      <4>1. h - 1 \in Generations /\ h \in Nat /\ g \in Nat
        BY <1>0, <1>2, <3>1, GenerationsOfRow
      <4>2. CASE h = g
        <5>1. g - 1 \in fenced /\ machine[g - 1] = "destroyed"
          BY <1>0, <1>3, <3>1, <4>2 DEF MachinesMatchPhase, RetirePhases
        <5>. QED
          BY <2>1, <4>1, <4>2, <5>1
      <4>3. CASE h # g
        <5>1. machine[h] # "none"
          BY <2>1, <3>1, <4>3
        <5>2. h <= g
          BY <1>0, <1>3, <4>1, <5>1 DEF MachinesMatchPhase
        <5>3. h - 1 # g
          BY <4>1, <5>2
        <5>. QED
          BY <1>0, <2>1, <3>1, <4>1, <5>1, <5>3 DEF Successors
      <4>. QED
        BY <4>2, <4>3
    <3>. QED
      BY <1>1, <3>1 DEF Successors
  <2>7. RowMatchesPhase'
    BY <1>0, <1>1 DEF RowMatchesPhase
  <2>8. MachinesMatchPhase'
    <3>1. /\ \A h \in Generations : h < row.gen => machine'[h] # "none"
          /\ \A h \in Generations : h > row.gen => machine'[h] = "none"
      BY <1>0, <1>2, <1>3, <2>1, GenerationsOfRow DEF MachinesMatchPhase
    <3>2. row.gen > 1 => row.gen - 1 \in fenced /\ machine'[row.gen - 1] = "destroyed"
      BY <1>0, <1>2, <1>3, <2>1, GenerationsOfRow DEF MachinesMatchPhase, RetirePhases
    <3>. QED
      BY <1>1, <1>3, <2>1, <3>1, <3>2 DEF MachinesMatchPhase, EnsurePhases, RetirePhases
  <2>9. CallOK(w)'
    <3>1. CallMatches(w)'
      BY <1>0, <1>1, <2>4 DEF CallMatches, Works, FitsPhase
    <3>2. TriesLeft(w)' /\ OwnerInPhase(w)'
      BY <1>0, <1>1, <2>4 DEF TriesLeft, OwnerInPhase, Works
    <3>3. HoldsClaim(w)'
      BY <1>0, <1>1, <1>2, <2>4 DEF HoldsClaim, Bounded
    <3>4. WorkDone(w)'
      BY <1>2, <2>1, <2>4 DEF WorkDone
    <3>. QED
      BY <3>1, <3>2, <3>3, <3>4 DEF CallOK
  <2>10. ASSUME NEW u \in Workers \ {w} PROVE CallOK(u)'
    <3>1. CallOK(u) /\ worker'[u] = worker[u]
      BY <1>0, <2>3
    <3>2. ~Bounded(worker[u].step, worker[u].phase)
      BY <1>3, <3>1 DEF CallOK, HoldsClaim
    <3>3. WorkDone(u)'
      BY <1>1, <3>1, <3>2 DEF CallOK, WorkDone, Bounded, BoundedSteps, BoundedPhases
    <3>4. CallMatches(u)'
      BY <3>1 DEF CallOK, CallMatches, Works
    <3>5. TriesLeft(u)' /\ OwnerInPhase(u)' /\ HoldsClaim(u)'
      BY <1>1, <3>1 DEF CallOK, TriesLeft, Passed, OwnerInPhase, Works, HoldsClaim
    <3>. QED
      BY <3>3, <3>4, <3>5 DEF CallOK
  <2>. QED
    BY <2>5, <2>6, <2>7, <2>8, <2>9, <2>10 DEF LifecycleInv, StoreOK
<1>6. CASE machine[g] \notin Gone
  <2>1. Goto(w, "advance") /\ UNCHANGED <<machine, attached>> /\ machine[g] # "none"
    BY <1>6 DEF EnsureMachine, Gone
  <2>. QED
    BY <1>4, <2>1
<1>7. CASE machine[g] \in Gone /\ attached = 0
  <2>1. /\ machine' = [machine EXCEPT ![g] = "created"]
        /\ attached' = g /\ Goto(w, "advance")
    BY <1>7 DEF EnsureMachine
  <2>. QED
    BY <1>5, <1>7, <2>1
<1>8. CASE machine[g] \in Gone /\ attached # 0
  <2>1. Goto(w, "terminal") /\ UNCHANGED <<machine, attached>>
    BY <1>8 DEF EnsureMachine
  <2>. QED
    BY <1>4, <2>1
<1>. QED
  BY <1>6, <1>7, <1>8

-----------------------------------------------------------------------------
(* The steps that change the row.                                          *)

RowType == [gen : Refs, ref : Refs, volume : BOOLEAN,
            phase : InFlight \cup {"idle", "failed"},
            kind : {"none", "ensure", "replace"}, source : Refs, previous : Refs,
            token : Workers \cup {NoWorker}, expired : BOOLEAN]

\* The recorded operation never goes back.
Advances ==
    \/ /\ row'.gen = row.gen /\ Rank[row'.phase] >= Rank[row.phase]
       /\ Rank[row.phase] = 6 => row'.phase = row.phase
    \/ row.phase = "idle" /\ row'.gen = row.gen + 1

\* Phases in flight have the ranks below the last.
LEMMA Ranks ==
  ASSUME NEW p \in InFlight \cup {"idle", "failed"}
  PROVE  Rank[p] \in Nat /\ Rank[p] <= 6 /\ (Rank[p] = 6 <=> p \notin InFlight)
  BY DEF Rank, InFlight, EnsurePhases, RetirePhases

\* The types, for a step of the row and of one call.
LEMMA RowStepTypes ==
  ASSUME TypeOK, NEW w \in Workers, NEW c \in WorkerRow, row' \in RowType,
         worker' = [worker EXCEPT ![w] = c], UNCHANGED <<fenced, machine, attached, faults>>
  PROVE  /\ TypeOK' /\ worker'[w] = c /\ worker[w] \in WorkerRow
         /\ \A u \in Workers \ {w} : worker'[u] = worker[u]
<1>1. worker \in [Workers -> WorkerRow]
  BY CallTypes
<1>2. worker' \in [Workers -> WorkerRow]
  BY <1>1
<1>. QED
  BY <1>1, <1>2 DEF TypeOK, WorkerRow, RowType

\* A process, while another changes the row or its claim runs out.
LEMMA OthersKept ==
  ASSUME TypeOK, NEW u \in Workers, CallOK(u), worker'[u] = worker[u],
         row' \in RowType, UNCHANGED <<fenced, machine>>, Advances,
         row'.token = u => /\ row.token = u /\ row'.gen = row.gen
                           /\ row'.phase = row.phase /\ row'.ref = row.ref,
         Bounded(worker[u].step, worker[u].phase) => row'.token = u /\ ~row'.expired
  PROVE  CallOK(u)'
<1>1. CallMatches(u)'
  BY DEF CallOK, CallMatches, Works
<1>2. TriesLeft(u)'
  <2>1. Passed(u) /\ worker[u].phase \in InFlight => Passed(u)'
    <3>1. row.gen \in Int /\ row'.gen \in Int /\ worker[u].op \in Int
      BY CallTypes, RowTypes DEF RowType, Refs
    <3>2. row.phase \in InFlight \cup {"idle", "failed"}
          /\ row'.phase \in InFlight \cup {"idle", "failed"}
      BY RowTypes DEF RowType
    <3>3. Rank[row.phase] \in Nat /\ Rank[row'.phase] \in Nat
      BY <3>2, Ranks
    <3>4. worker[u].phase \in InFlight => Rank[worker[u].phase] \in Nat
      BY Ranks
    <3>. QED
      BY <3>1, <3>3, <3>4 DEF Advances, Passed
  <2>. QED
    BY <2>1 DEF CallOK, TriesLeft
<1>3. OwnerInPhase(u)' /\ HoldsClaim(u)'
  BY DEF CallOK, OwnerInPhase, HoldsClaim, Works
<1>4. WorkDone(u)'
  BY DEF CallOK, WorkDone
<1>. QED
  BY <1>1, <1>2, <1>3, <1>4 DEF CallOK

\* Only the claim of the row changes.
LEMMA StoreSame ==
  ASSUME StoreOK, UNCHANGED <<fenced, machine>>, row'.gen = row.gen, row'.ref = row.ref,
         row'.phase = row.phase, row'.kind = row.kind, row'.source = row.source,
         row'.previous = row.previous, row'.volume = row.volume
  PROVE  StoreOK'
<1>1. Successors' /\ RowMatchesPhase'
  BY DEF StoreOK, Successors, RowMatchesPhase
<1>2. MachinesMatchPhase'
  BY DEF StoreOK, MachinesMatchPhase
<1>. QED
  BY <1>1, <1>2 DEF StoreOK

\* Two processes never hold a claim, and the owner of the row's token has it.
LEMMA OneClaim ==
  ASSUME NEW u \in Workers, NEW w \in Workers, u # w, CallOK(u), row.token = w
  PROVE  ~Bounded(worker[u].step, worker[u].phase)
  BY DEF CallOK, HoldsClaim

\* A claim runs out: of a process that left its phase, or that polls.
LEMMA InvExpires ==
  ASSUME LifecycleInv, AbandonedClaimExpires \/ ClaimOutlasted
  PROVE  LifecycleInv' /\ Advances
<1>0. TypeOK /\ StoreOK /\ \A u \in Workers : CallOK(u)
  BY DEF LifecycleInv
<1>1. /\ row.token # NoWorker /\ row' = [row EXCEPT !.expired = TRUE]
      /\ UNCHANGED <<fenced, machine, attached, worker>>
  BY DEF AbandonedClaimExpires, ClaimOutlasted
<1>2. row \in RowType /\ row.token \in Workers
  BY <1>0, <1>1 DEF TypeOK, RowType
<1>3. /\ row' \in RowType /\ row'.gen = row.gen /\ row'.ref = row.ref
      /\ row'.phase = row.phase /\ row'.kind = row.kind /\ row'.source = row.source
      /\ row'.previous = row.previous /\ row'.volume = row.volume
      /\ row'.token = row.token
  BY <1>1, <1>2 DEF RowType
<1>4. TypeOK'
  <2>1. faults' \in 0..MaxFaults
    <3>1. faults' = faults \/ (faults < MaxFaults /\ faults' = faults + 1)
      BY DEF AbandonedClaimExpires, ClaimOutlasted
    <3>. QED
      BY <1>0, <3>1, LimitsAssumption DEF TypeOK
  <2>. QED
    BY <1>0, <1>1, <1>3, <2>1 DEF TypeOK, RowType
<1>5. Advances
  <2>1. Rank[row.phase] \in Nat
    BY <1>2, Ranks DEF RowType
  <2>. QED
    BY <1>3, <2>1 DEF Advances
<1>6. StoreOK'
  BY <1>0, <1>1, <1>3, StoreSame
<1>7. ASSUME NEW u \in Workers, Bounded(worker[u].step, worker[u].phase)
      PROVE  FALSE
  <2>1. row.token = u /\ Works(u)
    BY <1>0, <1>7 DEF CallOK, HoldsClaim, Bounded, BoundedSteps, Works
  <2>2. row.phase \in InFlight
    BY <1>0, <2>1 DEF CallOK, OwnerInPhase, CallMatches
  <2>3. CASE AbandonedClaimExpires
    BY <2>1, <2>3 DEF AbandonedClaimExpires, Works
  <2>4. CASE ClaimOutlasted
    <3>1. worker[u].step \in PollingSteps
      BY <2>1, <2>2, <2>4, OnlyPollingOutlasts DEF ClaimOutlasted
    <3>. QED
      BY <1>7, <3>1 DEF PollingSteps, Bounded, BoundedSteps
  <2>. QED
    BY <2>3, <2>4
<1>8. ASSUME NEW u \in Workers PROVE CallOK(u)'
  BY <1>0, <1>1, <1>3, <1>5, <1>7, OthersKept
<1>. QED
  BY <1>4, <1>5, <1>6, <1>8 DEF LifecycleInv

\* A process that ends its phase, to claim the next or to return.
LEMMA CallerBack ==
  ASSUME TypeOK, NEW w \in Workers, CallOK(w), Works(w),
         NEW c, worker'[w] = c,
         \/ c = NoCall
         \/ /\ c = [worker[w] EXCEPT !.step = "claim"]
            /\ \/ worker[w].attempts < MaxAttempts
               \/ row'.gen = worker[w].op /\ Rank[row'.phase] > Rank[worker[w].phase]
  PROVE  c \in WorkerRow /\ CallOK(w)'
<1>1. worker[w] \in WorkerRow /\ worker[w].attempts \in 0..MaxAttempts
  BY CallTypes
<1>2. CASE c = NoCall
  <2>1. /\ NoCall.step = "idle" /\ NoCall.op = 0 /\ NoCall.phase = "idle"
        /\ NoCall.kind = "ensure" /\ NoCall.source = 0
    BY DEF NoCall
  <2>2. NoCall \in WorkerRow
    BY LimitsAssumption DEF NoCall, WorkerRow, Steps, Refs
  <2>3. CallMatches(w)' /\ TriesLeft(w)' /\ OwnerInPhase(w)'
    BY <1>2, <2>1 DEF CallMatches, Works, RetirePhases, TriesLeft, OwnerInPhase
  <2>4. HoldsClaim(w)' /\ WorkDone(w)'
    BY <1>2, <2>1 DEF HoldsClaim, Bounded, BoundedSteps, WorkDone
  <2>. QED
    BY <1>2, <2>2, <2>3, <2>4 DEF CallOK
<1>3. CASE /\ c = [worker[w] EXCEPT !.step = "claim"]
           /\ \/ worker[w].attempts < MaxAttempts
              \/ row'.gen = worker[w].op /\ Rank[row'.phase] > Rank[worker[w].phase]
  <2>1. /\ c \in WorkerRow /\ c.step = "claim" /\ c.kind = worker[w].kind
        /\ c.source = worker[w].source /\ c.op = worker[w].op /\ c.phase = worker[w].phase
        /\ c.attempts = worker[w].attempts
    BY <1>1, <1>3 DEF WorkerRow, Steps
  <2>2. CallMatches(w)'
    BY <2>1 DEF CallOK, CallMatches, Works
  <2>3. TriesLeft(w)'
    <3>1. worker[w].op # 0 /\ worker[w].phase \in InFlight
      BY DEF CallOK, CallMatches
    <3>2. worker[w].attempts = MaxAttempts =>
            row'.gen = worker[w].op /\ Rank[row'.phase] > Rank[worker[w].phase]
      BY <1>1, <1>3, LimitsAssumption
    <3>. QED
      BY <2>1, <3>1, <3>2 DEF TriesLeft, Passed
  <2>4. OwnerInPhase(w)' /\ HoldsClaim(w)' /\ WorkDone(w)'
    BY <2>1 DEF OwnerInPhase, Works, HoldsClaim, Bounded, BoundedSteps, WorkDone
  <2>. QED
    BY <2>1, <2>2, <2>3, <2>4 DEF CallOK
<1>. QED
  BY <1>2, <1>3

\* A phase is retried, or the operation given up; a process that lost its claim
\* changes nothing.
LEMMA InvGivesUp ==
  ASSUME LifecycleInv, NEW w \in Workers, RetryPhase(w) \/ FailOperation(w)
  PROVE  LifecycleInv' /\ Advances
<1>0. TypeOK /\ StoreOK /\ CallOK(w) /\ \A u \in Workers : CallOK(u)
  BY DEF LifecycleInv
<1>1. Works(w) /\ UNCHANGED <<fenced, machine, attached, faults>>
  BY DEF RetryPhase, FailOperation, At, Works
<1>2. row \in RowType /\ worker \in [Workers -> WorkerRow]
  BY <1>0, CallTypes DEF TypeOK, RowType
<1>3. PICK c : /\ worker' = [worker EXCEPT ![w] = c]
               /\ \/ c = NoCall
                  \/ /\ c = [worker[w] EXCEPT !.step = "claim"]
                     /\ worker[w].attempts < MaxAttempts
  <2>1. Return(w) \/ (Goto(w, "claim") /\ worker[w].attempts < MaxAttempts)
    BY DEF RetryPhase, FailOperation
  <2>2. Goto(w, "claim") =>
          worker' = [worker EXCEPT ![w] = [worker[w] EXCEPT !.step = "claim"]]
    BY DEF Goto
  <2>. QED
    BY <2>1, <2>2 DEF Return
<1>4. worker'[w] = c
  BY <1>2, <1>3
<1>5. c \in WorkerRow /\ CallOK(w)'
  BY <1>0, <1>1, <1>3, <1>4, CallerBack
<1>6. CASE ~Owns(w)
  <2>1. row' = row
    BY <1>6 DEF RetryPhase, FailOperation
  <2>2. TypeOK' /\ \A u \in Workers \ {w} : worker'[u] = worker[u]
    BY <1>0, <1>1, <1>2, <1>3, <1>5, <2>1, RowStepTypes
  <2>3. MachinesKept
    BY <1>1 DEF MachinesKept
  <2>4. Rank[row.phase] \in Nat
    BY <1>2, Ranks DEF RowType
  <2>5. Advances
    BY <2>1, <2>4 DEF Advances
  <2>6. \A u \in Workers \ {w} : CallOK(u)'
    BY <1>0, <1>1, <2>1, <2>2, <2>3, CallKept
  <2>7. StoreOK'
    BY <1>1, <2>1, <2>3, StoreKept
  <2>. QED
    BY <1>5, <2>2, <2>5, <2>6, <2>7 DEF LifecycleInv
<1>7. CASE Owns(w)
  <2>1. /\ row.token = w /\ row.gen = worker[w].op /\ row.phase \in InFlight
        /\ row.gen # 0
    BY <1>0, <1>1, <1>7 DEF Owns, CallOK, OwnerInPhase, CallMatches
  <2>2. row' = Released(row) \/ row' = [Released(row) EXCEPT !.phase = "failed"]
    BY <1>7 DEF RetryPhase, FailOperation
  <2>3. /\ row' \in RowType /\ row'.gen = row.gen /\ row'.ref = row.ref
        /\ row'.phase \in {row.phase, "failed"} /\ row'.kind = row.kind
        /\ row'.source = row.source /\ row'.previous = row.previous
        /\ row'.volume = row.volume /\ row'.token = NoWorker
    <3>1. /\ Released(row) \in RowType /\ Released(row).gen = row.gen
          /\ Released(row).ref = row.ref /\ Released(row).phase = row.phase
          /\ Released(row).kind = row.kind /\ Released(row).source = row.source
          /\ Released(row).previous = row.previous /\ Released(row).volume = row.volume
          /\ Released(row).token = NoWorker
      BY <1>2 DEF Released, RowType
    <3>. QED
      BY <2>2, <3>1 DEF RowType
  <2>4. TypeOK' /\ \A u \in Workers \ {w} : worker'[u] = worker[u]
    BY <1>0, <1>1, <1>2, <1>3, <1>5, <2>3, RowStepTypes
  <2>5. Rank[row.phase] \in Nat /\ Rank[row.phase] # 6 /\ Rank[row.phase] <= 6
        /\ Rank["failed"] = 6
    BY <2>1, Ranks DEF Rank
  <2>6. Advances
    BY <2>3, <2>5 DEF Advances
  <2>7. ASSUME NEW u \in Workers \ {w} PROVE CallOK(u)'
    <3>1. ~Bounded(worker[u].step, worker[u].phase)
      BY <1>0, <2>1, OneClaim
    <3>2. row'.token # u
      BY <2>3, WorkersAssumption
    <3>. QED
      BY <1>0, <1>1, <2>3, <2>4, <2>6, <3>1, <3>2, OthersKept
  <2>8. StoreOK'
    <3>1. CASE row'.phase = row.phase
      BY <1>0, <1>1, <2>3, <3>1, StoreSame
    <3>2. CASE row'.phase = "failed"
      <4>1. "failed" \notin InFlight \cup {"idle"}
        BY DEF InFlight, EnsurePhases, RetirePhases
      <4>2. Successors'
        BY <1>0, <1>1 DEF StoreOK, Successors
      <4>3. RowMatchesPhase'
        BY <2>1, <2>3, <3>2, <4>1 DEF RowMatchesPhase
      <4>4. MachinesMatchPhase'
        BY <1>0, <1>1, <2>3, <3>2 DEF StoreOK, MachinesMatchPhase, EnsurePhases, RetirePhases
      <4>. QED
        BY <4>2, <4>3, <4>4 DEF StoreOK
    <3>. QED
      BY <2>3, <3>1, <3>2
  <2>. QED
    BY <1>5, <2>4, <2>6, <2>7, <2>8 DEF LifecycleInv
<1>. QED
  BY <1>6, <1>7

\* A phase is recorded by the process that has its claim.
LEMMA InvRecords ==
  ASSUME LifecycleInv, NEW w \in Workers, CasPhase(w)
  PROVE  LifecycleInv' /\ Advances
<1>0. /\ TypeOK /\ StoreOK /\ CallOK(w) /\ WorkDone(w) /\ \A u \in Workers : CallOK(u)
      /\ Successors /\ RowMatchesPhase /\ MachinesMatchPhase
  BY DEF LifecycleInv, CallOK, StoreOK
<1>1. /\ Works(w) /\ worker[w].step = "advance"
      /\ UNCHANGED <<fenced, machine, attached, faults>>
  BY DEF CasPhase, At, Works
<1>2. row \in RowType /\ worker \in [Workers -> WorkerRow]
  BY <1>0, CallTypes DEF TypeOK, RowType
<1> DEFINE back == [worker[w] EXCEPT !.step = "claim"]
<1>3. CASE ~Owns(w)
  <2>1. row' = row /\ worker' = [worker EXCEPT ![w] = NoCall]
    BY <1>3 DEF CasPhase, Return
  <2>2. worker'[w] = NoCall
    BY <1>2, <2>1
  <2>3. NoCall \in WorkerRow /\ CallOK(w)'
    BY <1>0, <1>1, <2>2, CallerBack
  <2>4. TypeOK' /\ \A u \in Workers \ {w} : worker'[u] = worker[u]
    BY <1>0, <1>1, <1>2, <2>1, <2>3, RowStepTypes
  <2>5. MachinesKept
    BY <1>1 DEF MachinesKept
  <2>6. Rank[row.phase] \in Nat
    BY <1>2, Ranks DEF RowType
  <2>7. Advances
    BY <2>1, <2>6 DEF Advances
  <2>8. \A u \in Workers \ {w} : CallOK(u)'
    BY <1>0, <1>1, <2>1, <2>4, <2>5, CallKept
  <2>9. StoreOK'
    BY <1>1, <2>1, <2>5, StoreKept
  <2>. QED
    BY <2>3, <2>4, <2>7, <2>8, <2>9 DEF LifecycleInv
<1>4. CASE Owns(w)
  <2> DEFINE p == worker[w].phase
  <2>1. /\ row.token = w /\ row.gen = worker[w].op /\ row.phase = p /\ p \in InFlight
        /\ row.gen # 0 /\ row.ref = worker[w].ref
    BY <1>0, <1>1, <1>4 DEF Owns, CallOK, OwnerInPhase, CallMatches
  <2>2. row' = Recorded(w)
    BY <1>4 DEF CasPhase
  <2>3. /\ Released(row) \in RowType /\ Released(row).gen = row.gen
        /\ Released(row).ref = row.ref /\ Released(row).volume = row.volume
        /\ Released(row).kind = row.kind /\ Released(row).source = row.source
        /\ Released(row).previous = row.previous /\ Released(row).token = NoWorker
    BY <1>2 DEF Released, RowType
  <2> DEFINE ref == IF p = "machine_created" THEN worker[w].op
                    ELSE IF p = "healthy" THEN worker[w].ref ELSE row.ref
             vol == row.volume \/ p = "volume_ready"
  <2>4. row' = [Released(row) EXCEPT !.phase = NextPhase[p], !.volume = vol, !.ref = ref]
    BY <2>2, <2>3 DEF Recorded
  <2>5. ref \in Refs /\ vol \in BOOLEAN /\ NextPhase[p] \in InFlight \cup {"idle"}
    BY <1>0, <1>2, <2>1, CallTypes, NextPhases DEF RowType
  <2> HIDE DEF p, ref, vol
  <2>6. /\ row' \in RowType /\ row'.gen = row.gen /\ row'.ref = ref
        /\ row'.phase = NextPhase[p] /\ row'.kind = row.kind /\ row'.source = row.source
        /\ row'.previous = row.previous /\ row'.volume = vol /\ row'.token = NoWorker
    BY <2>3, <2>4, <2>5 DEF RowType
  <2>7. /\ Rank[p] \in Nat /\ Rank[row'.phase] \in Nat /\ Rank[row'.phase] > Rank[p]
        /\ Rank[p] < 6
    BY <2>1, <2>6, NextPhases
  <2>8. Advances
    BY <2>1, <2>6, <2>7 DEF Advances
  <2>9. PICK c : worker' = [worker EXCEPT ![w] = c] /\ (c = NoCall \/ c = back)
    BY <1>4 DEF CasPhase, Goto, Return
  <2>10. worker'[w] = c
    BY <1>2, <2>9
  <2>11. c \in WorkerRow /\ CallOK(w)'
    <3>1. row'.gen = worker[w].op /\ Rank[row'.phase] > Rank[worker[w].phase]
      BY <2>1, <2>6, <2>7 DEF p
    <3>. QED
      BY <1>0, <1>1, <2>9, <2>10, <3>1, CallerBack
  <2>12. TypeOK' /\ \A u \in Workers \ {w} : worker'[u] = worker[u]
    BY <1>0, <1>1, <1>2, <2>6, <2>9, <2>11, RowStepTypes
  <2>13. ASSUME NEW u \in Workers \ {w} PROVE CallOK(u)'
    <3>1. ~Bounded(worker[u].step, worker[u].phase)
      BY <1>0, <2>1, OneClaim
    <3>2. row'.token # u
      BY <2>6, WorkersAssumption
    <3>. QED
      BY <1>0, <1>1, <2>6, <2>8, <2>12, <3>1, <3>2, OthersKept
  <2>14. Successors'
    BY <1>0, <1>1 DEF Successors
  <2>15. /\ p = "app_ready" => NextPhase[p] = "volume_ready"
         /\ p = "volume_ready" => NextPhase[p] = "machine_created"
         /\ p = "old_machine_stopped" => NextPhase[p] = "old_machine_destroyed"
         /\ p = "old_machine_destroyed" => NextPhase[p] = "machine_created"
         /\ p = "machine_created" => NextPhase[p] = "machine_started"
         /\ p = "machine_started" => NextPhase[p] = "healthy"
         /\ p = "healthy" => NextPhase[p] = "idle"
         /\ p \in {"app_ready", "volume_ready", "old_machine_stopped", "machine_created",
                   "old_machine_destroyed", "machine_started", "healthy"}
    BY <2>1 DEF NextPhase, InFlight, EnsurePhases, RetirePhases
  <2>16. /\ row.gen \in Nat /\ row.source \in Nat /\ row.gen = row.source + 1
         /\ row.kind \in {"ensure", "replace"}
         /\ row.kind = "ensure" => row.source = 0 /\ row.phase \notin RetirePhases
         /\ row.kind = "replace" => row.source > 0 /\ row.phase \notin EnsurePhases
         /\ row.previous = row.source
    BY <1>0, <1>2, <2>1 DEF RowMatchesPhase, RowType, Refs
  <2>17. RowMatchesPhase'
    <3>1. /\ row'.phase \in RetirePhases => p = "old_machine_stopped"
          /\ row'.phase \in EnsurePhases => p \in EnsurePhases
      BY <2>6, <2>15 DEF RetirePhases, EnsurePhases
    <3>2. row'.phase \in {"machine_started", "healthy", "idle"} => ref = row.gen
      BY <1>0, <2>1, <2>6, <2>15 DEF ref, p, RowMatchesPhase
    <3>3. row'.phase \notin EnsurePhases \cup {"failed"} => vol
      BY <1>0, <2>1, <2>6, <2>15, <2>16 DEF vol, RowMatchesPhase, EnsurePhases
    <3>. QED
      BY <2>1, <2>6, <2>16, <3>1, <3>2, <3>3
         DEF RowMatchesPhase, RetirePhases, EnsurePhases
  <2>18. MachinesMatchPhase'
    <3>1. row'.phase \in EnsurePhases \cup RetirePhases => machine[row.gen] = "none"
      BY <1>0, <2>1, <2>6, <2>15 DEF MachinesMatchPhase, EnsurePhases, RetirePhases
    <3>2. row'.phase \in {"machine_started", "healthy", "idle"} => machine[row.gen] # "none"
      BY <1>0, <1>1, <2>1, <2>6, <2>15, <2>16 DEF MachinesMatchPhase, WorkDone, p
    <3>3. row.gen > 1 /\ row'.phase \notin {"old_machine_stopped", "failed"} =>
            row.gen - 1 \in fenced
      BY <1>0, <1>1, <2>1, <2>6, <2>15, <2>16
         DEF MachinesMatchPhase, WorkDone, p, EnsurePhases, RetirePhases
    <3>4. row.gen > 1 /\ row'.phase \notin RetirePhases \cup {"failed"} =>
            machine[row.gen - 1] = "destroyed"
      BY <1>0, <1>1, <2>1, <2>6, <2>15, <2>16
         DEF MachinesMatchPhase, WorkDone, p, EnsurePhases, RetirePhases
    <3>. QED
      BY <1>0, <1>1, <2>6, <3>1, <3>2, <3>3, <3>4 DEF MachinesMatchPhase
  <2>. QED
    BY <2>8, <2>11, <2>12, <2>13, <2>14, <2>17, <2>18 DEF LifecycleInv, StoreOK
<1>. QED
  BY <1>3, <1>4

\* A process claims a phase: it opens an operation on an idle row, or joins the
\* one in flight whose claim is free or ran out.
LEMMA InvClaims ==
  ASSUME LifecycleInv, NEW w \in Workers, ClaimOrWait(w)
  PROVE  LifecycleInv' /\ Advances
<1>0. /\ TypeOK /\ StoreOK /\ CallOK(w) /\ CallMatches(w) /\ TriesLeft(w)
      /\ \A u \in Workers : CallOK(u)
      /\ Successors /\ RowMatchesPhase /\ MachinesMatchPhase
  BY DEF LifecycleInv, CallOK, StoreOK
<1>1. /\ worker[w].step = "claim"
      /\ Opens(w) \/ Joins(w)
      /\ UNCHANGED <<fenced, machine, attached, faults>>
  BY DEF ClaimOrWait, At
<1>2. /\ row \in RowType /\ worker[w] \in WorkerRow /\ worker[w].source \in Refs
      /\ worker[w].op \in Refs /\ worker[w].kind \in {"ensure", "replace"}
      /\ worker[w].attempts \in 0..MaxAttempts /\ row.gen \in Nat /\ row.source \in Nat
  BY <1>0, CallTypes DEF TypeOK, RowType, Refs
<1> DEFINE r == IF Opens(w) THEN Opened(row, worker[w].kind) ELSE row
           tries == IF r.phase = worker[w].phase THEN worker[w].attempts ELSE 0
           c == [worker[w] EXCEPT !.step = FirstStep[r.phase], !.op = r.gen,
                                  !.phase = r.phase, !.previous = r.previous,
                                  !.ref = r.ref, !.attempts = tries + 1]
<1>3. /\ row' = [r EXCEPT !.token = w, !.expired = FALSE]
      /\ worker' = [worker EXCEPT ![w] = c]
  BY DEF ClaimOrWait
\* The operation that is claimed.
<1>4. /\ r \in RowType /\ r.phase \in InFlight /\ r.gen = worker[w].source + 1
      /\ r.kind = worker[w].kind /\ r.source = worker[w].source
      /\ r.previous = r.gen - 1
      /\ r.phase \in RetirePhases => worker[w].kind = "replace"
      /\ r.phase \in EnsurePhases => worker[w].kind = "ensure"
  <2>1. CASE Opens(w) /\ worker[w].kind = "ensure"
    <3>1. row.gen = 0 /\ worker[w].source = 0
      BY <1>0, <2>1 DEF Opens, CallMatches
    <3>2. r = [row EXCEPT !.gen = 1, !.kind = "ensure", !.phase = "app_ready",
                          !.source = 0, !.previous = 0]
      BY <2>1 DEF Opened
    <3>3. "app_ready" \in InFlight \ RetirePhases /\ 0 \in Refs /\ 1 \in Refs
      BY LimitsAssumption DEF InFlight, EnsurePhases, RetirePhases, Refs
    <3>4. /\ r \in RowType /\ r.phase = "app_ready" /\ r.gen = 1 /\ r.kind = "ensure"
          /\ r.source = 0 /\ r.previous = 0
      BY <1>2, <3>2, <3>3 DEF RowType
    <3>. QED
      BY <2>1, <3>1, <3>3, <3>4
  <2>2. CASE Opens(w) /\ worker[w].kind = "replace"
    <3>1. /\ row.phase = "idle" /\ row.gen = worker[w].source /\ row.ref = row.gen
          /\ worker[w].source \in 1..(MaxGeneration - 1)
      BY <1>0, <2>2 DEF Opens, CallMatches, RowMatchesPhase
    <3>2. r = [row EXCEPT !.gen = row.gen + 1, !.ref = 0, !.kind = "replace",
                          !.phase = "old_machine_stopped",
                          !.source = row.gen, !.previous = row.ref]
      BY <2>2 DEF Opened
    <3>3. /\ "old_machine_stopped" \in InFlight \ EnsurePhases
          /\ 0 \in Refs /\ row.gen + 1 \in Refs /\ row.gen \in Refs
      BY <3>1, LimitsAssumption DEF InFlight, EnsurePhases, RetirePhases, Refs
    <3>4. /\ r \in RowType /\ r.phase = "old_machine_stopped" /\ r.gen = row.gen + 1
          /\ r.kind = "replace" /\ r.source = row.gen /\ r.previous = row.ref
      BY <1>2, <3>1, <3>2, <3>3 DEF RowType
    <3>5. r.previous = r.gen - 1
      BY <1>2, <3>1, <3>4
    <3>. QED
      BY <2>2, <3>1, <3>3, <3>4, <3>5
  <2>3. CASE ~Opens(w)
    <3>1. r = row /\ Joins(w)
      BY <1>1, <2>3
    <3>2. /\ row.phase \in InFlight /\ row.kind = worker[w].kind
          /\ row.source = worker[w].source
      BY <3>1 DEF Joins
    <3>3. /\ row.gen = row.source + 1 /\ row.previous = row.source
          /\ row.phase \in RetirePhases => row.kind = "replace"
          /\ row.phase \in EnsurePhases => row.kind = "ensure"
      BY <1>0, <1>2, <3>2 DEF RowMatchesPhase
    <3>4. row.previous = row.gen - 1
      BY <1>2, <3>3
    <3>. QED
      BY <1>2, <3>1, <3>2, <3>3, <3>4
  <2>. QED
    BY <1>2, <2>1, <2>2, <2>3
<1>5. /\ row' \in RowType /\ row'.gen = r.gen /\ row'.ref = r.ref /\ row'.phase = r.phase
      /\ row'.kind = r.kind /\ row'.source = r.source /\ row'.previous = r.previous
      /\ row'.volume = r.volume /\ row'.token = w /\ row'.expired = FALSE
  <2> HIDE DEF r
  <2>. QED
    BY <1>3, <1>4 DEF RowType
\* The attempts stay within MaxAttempts.
<1>6. tries + 1 \in 0..MaxAttempts
  <2>1. CASE worker[w].attempts < MaxAttempts
    BY <1>2, <2>1, LimitsAssumption
  <2>2. CASE worker[w].attempts = MaxAttempts
    <3>1. worker[w].op # 0 /\ worker[w].phase \in InFlight /\ Passed(w)
      BY <1>0, <1>1, <2>2 DEF TriesLeft
    <3>2. worker[w].op = worker[w].source + 1
      BY <1>0, <3>1 DEF CallMatches
    <3>3. ~Opens(w)
      BY <1>2, <3>1, <3>2 DEF Opens, Passed, Refs
    <3>4. r = row /\ row.gen = worker[w].op
      BY <1>4, <3>2, <3>3
    <3>5. Rank[row.phase] > Rank[worker[w].phase]
      BY <1>2, <3>1, <3>4 DEF Passed
    <3>6. Rank[row.phase] \in Nat
      BY <1>2, Ranks DEF RowType
    <3>7. tries = 0
      BY <3>4, <3>5, <3>6
    <3>. QED
      BY <3>7, LimitsAssumption
  <2>. QED
    BY <1>2, <2>1, <2>2, LimitsAssumption
<1>7. /\ c \in WorkerRow /\ c.step = FirstStep[r.phase] /\ c.op = r.gen /\ c.phase = r.phase
      /\ c.previous = r.previous /\ c.ref = r.ref /\ c.kind = worker[w].kind
      /\ c.source = worker[w].source
  <2>1. FirstStep[r.phase] \in Steps
    BY <1>4, FirstSteps DEF Steps
  <2> HIDE DEF r, tries
  <2>. QED
    BY <1>2, <1>4, <1>6, <2>1 DEF WorkerRow, RowType
<1>8. /\ TypeOK' /\ worker'[w] = c
      /\ \A u \in Workers \ {w} : worker'[u] = worker[u]
  BY <1>0, <1>1, <1>3, <1>5, <1>7, RowStepTypes
<1> HIDE DEF c, tries
<1>9. Advances
  <2>1. Rank[row.phase] \in Nat
    BY <1>2, Ranks DEF RowType
  <2>2. CASE Opens(w)
    BY <1>4, <1>5, <2>2 DEF Advances, Opens
  <2>3. CASE ~Opens(w)
    BY <1>5, <2>1, <2>3 DEF Advances
  <2>. QED
    BY <2>2, <2>3
<1>10. CallOK(w)'
  <2>1. /\ FirstStep[r.phase] \notin {"idle", "claim", "advance", "check detached", "fence"}
        /\ FitsPhase(FirstStep[r.phase], r.phase)
    BY <1>4, FirstSteps
  <2>2. CallMatches(w)'
    <3>1. r.gen # 0
      BY <1>2, <1>4 DEF Refs
    <3>. QED
      BY <1>0, <1>4, <1>7, <1>8, <2>1, <3>1 DEF CallMatches, Works
  <2>3. TriesLeft(w)' /\ OwnerInPhase(w)' /\ HoldsClaim(w)'
    BY <1>5, <1>7, <1>8, <2>1 DEF TriesLeft, OwnerInPhase, HoldsClaim
  <2>4. WorkDone(w)'
    BY <1>7, <1>8, <2>1 DEF WorkDone
  <2>. QED
    BY <2>2, <2>3, <2>4 DEF CallOK
<1>11. ASSUME NEW u \in Workers \ {w} PROVE CallOK(u)'
  <2>1. ~Bounded(worker[u].step, worker[u].phase)
    <3>1. ASSUME Bounded(worker[u].step, worker[u].phase) PROVE FALSE
      <4>1. row.token = u /\ ~row.expired /\ Works(u)
        BY <1>0, <3>1 DEF CallOK, HoldsClaim, Bounded, BoundedSteps, Works
      <4>2. row.phase \in InFlight
        BY <1>0, <4>1 DEF CallOK, OwnerInPhase, CallMatches
      <4>3. ~Opens(w) /\ ~Joins(w)
        BY <4>1, <4>2, WorkersAssumption
           DEF Opens, Joins, Unclaimed, InFlight, EnsurePhases, RetirePhases
      <4>. QED
        BY <1>1, <4>3
    <3>. QED
      BY <3>1
  <2>. QED
    BY <1>0, <1>1, <1>5, <1>8, <1>9, <2>1, OthersKept
<1>12. StoreOK'
  <2>1. CASE ~Opens(w)
    BY <1>0, <1>1, <1>5, <2>1, StoreSame
  <2>2. CASE Opens(w)
    <3>1. /\ row.phase = "idle" /\ row.gen = worker[w].source /\ r.gen = row.gen + 1
          /\ row.ref = row.gen
      BY <1>0, <1>4, <2>2 DEF Opens, RowMatchesPhase
    <3>2. /\ r.phase \in {"app_ready", "old_machine_stopped"} /\ r.volume = row.volume
          /\ r.phase = "app_ready" => row.gen = 0
          /\ r.phase = "old_machine_stopped" => row.gen > 0
      <4>1. CASE worker[w].kind = "ensure"
        <5>1. row.gen = 0
          BY <1>0, <2>2, <4>1 DEF Opens, CallMatches
        <5>. QED
          BY <1>2, <2>2, <4>1, <5>1 DEF Opened, RowType
      <4>2. CASE worker[w].kind = "replace"
        <5>1. row.gen > 0
          BY <1>0, <2>2, <4>2 DEF Opens, CallMatches
        <5>. QED
          BY <1>2, <2>2, <4>2, <5>1 DEF Opened, RowType
      <4>. QED
        BY <1>2, <4>1, <4>2
    <3> HIDE DEF r
    <3>3. Successors'
      BY <1>0, <1>1 DEF Successors
    <3>4. RowMatchesPhase'
      <4>1. r.kind = "ensure" => r.source = 0
        BY <1>0, <1>4 DEF CallMatches
      <4>2. r.kind = "replace" => r.source > 0
        BY <1>0, <1>4 DEF CallMatches
      <4>3. r.previous = r.source /\ r.gen # 0
        BY <1>2, <1>4 DEF Refs
      <4>4. r.gen > 0 /\ r.phase \notin EnsurePhases \cup {"failed"} => row.volume
        BY <1>0, <3>1, <3>2 DEF RowMatchesPhase, EnsurePhases
      <4>. QED
        BY <1>2, <1>4, <1>5, <3>2, <4>1, <4>2, <4>3, <4>4 DEF RowMatchesPhase
    <3>5. MachinesMatchPhase'
      <4>1. row.gen > 0 => machine[row.gen] # "none"
        BY <1>0, <3>1 DEF MachinesMatchPhase
      <4>2. \A g \in Generations : g < r.gen => machine[g] # "none"
        <5>1. ASSUME NEW g \in Generations, g < r.gen PROVE machine[g] # "none"
          <6>1. g \in Nat /\ g > 0
            BY LimitsAssumption DEF Generations
          <6>2. g < row.gen \/ (g = row.gen /\ row.gen > 0)
            BY <1>2, <3>1, <5>1, <6>1
          <6>. QED
            BY <1>0, <4>1, <6>2 DEF MachinesMatchPhase
        <5>. QED
          BY <5>1
      <4>3. \A g \in Generations : g > r.gen => machine[g] = "none"
        BY <1>0, <1>2, <3>1, GenerationsOfRow DEF MachinesMatchPhase
      <4>4. machine[r.gen] = "none"
        <5>1. r.gen \in Generations /\ r.gen > row.gen
          BY <1>2, <1>4, <3>1 DEF RowType, Refs, Generations
        <5>. QED
          BY <1>0, <5>1 DEF MachinesMatchPhase
      <4>5. r.gen > 1 => r.phase = "old_machine_stopped"
        BY <1>2, <3>1, <3>2
      <4>. QED
        BY <1>1, <1>5, <3>2, <4>2, <4>3, <4>4, <4>5 DEF MachinesMatchPhase, RetirePhases
    <3>. QED
      BY <3>3, <3>4, <3>5 DEF StoreOK
  <2>. QED
    BY <2>1, <2>2
<1>. QED
  BY <1>8, <1>9, <1>10, <1>11, <1>12 DEF LifecycleInv

-----------------------------------------------------------------------------
(* The theorems.                                                           *)

\* A workspace that was never ensured satisfies the invariant.
LEMMA InvInit == ASSUME Init PROVE LifecycleInv
<1>1. TypeOK
  <2>1. row \in RowType
    BY LimitsAssumption DEF Init, RowType, Refs
  <2>2. NoCall \in WorkerRow
    BY LimitsAssumption DEF NoCall, WorkerRow, Steps, Refs
  <2>3. worker \in [Workers -> WorkerRow]
    BY <2>2 DEF Init
  <2>4. /\ fenced \subseteq Generations /\ attached \in Refs /\ faults \in 0..MaxFaults
        /\ machine \in [Generations -> MachineStates]
    BY LimitsAssumption DEF Init, Refs, MachineStates, Gone
  <2>. QED
    BY <2>1, <2>3, <2>4 DEF TypeOK, RowType, WorkerRow
<1>2. StoreOK
  BY DEF Init, StoreOK, Successors, RowMatchesPhase, MachinesMatchPhase, InFlight,
         EnsurePhases, RetirePhases, Generations
<1>3. ASSUME NEW w \in Workers PROVE CallOK(w)
  <2>1. worker[w] = NoCall /\ row.token # w
    BY WorkersAssumption DEF Init
  <2>2. CallMatches(w) /\ TriesLeft(w)
    BY <2>1 DEF NoCall, CallMatches, TriesLeft, Works, RetirePhases
  <2>3. OwnerInPhase(w) /\ HoldsClaim(w) /\ WorkDone(w)
    BY <2>1 DEF NoCall, OwnerInPhase, HoldsClaim, Bounded, BoundedSteps, WorkDone, Works
  <2>. QED
    BY <2>2, <2>3 DEF CallOK
<1>. QED
  BY <1>1, <1>2, <1>3 DEF LifecycleInv

\* A step that leaves the row alone advances nothing and takes nothing back.
LEMMA RowSame == ASSUME TypeOK, row' = row PROVE Advances
<1>1. Rank[row.phase] \in Nat
  BY RowTypes, Ranks
<1>. QED
  BY <1>1 DEF Advances

\* The invariant is inductive, and every step goes forward.
LEMMA InvNext == ASSUME LifecycleInv, [Next]_vars PROVE LifecycleInv' /\ Advances
<1>0. TypeOK
  BY DEF LifecycleInv
<1>1. CASE UNCHANGED vars
  <2>1. row' = row /\ worker' = worker /\ UNCHANGED <<fenced, machine, attached, faults>>
    BY <1>1 DEF vars
  <2>2. Provider
    BY <1>0, <2>1, Quiet DEF TypeOK
  <2>. QED
    BY <1>0, <2>1, <2>2, ProviderMoves, RowSame
<1>2. ASSUME NEW w \in Workers,
             EnsureWorkspace(w) \/ \E source \in Generations : ReplaceMachine(w, source)
      PROVE  LifecycleInv' /\ Advances
  <2>1. row' = row
    BY <1>2 DEF EnsureWorkspace, ReplaceMachine
  <2>. QED
    BY <1>0, <1>2, <2>1, InvCalls, RowSame
<1>3. ASSUME NEW w \in Workers, ClaimOrWait(w) PROVE LifecycleInv' /\ Advances
  BY <1>3, InvClaims
<1>4. ASSUME NEW w \in Workers, ReturnOrRaise(w) \/ Crash(w) PROVE LifecycleInv' /\ Advances
  <2>1. row' = row
    BY <1>4 DEF ReturnOrRaise, Crash
  <2>. QED
    BY <1>0, <1>4, <2>1, InvCalls, RowSame
<1>5. ASSUME NEW w \in Workers, PhaseStep(w) PROVE LifecycleInv' /\ Advances
  <2>1. CASE \/ EnsureApp(w) \/ EnsureVolume(w) \/ InspectOld(w) \/ WaitMachineStopped(w)
             \/ InspectRetired(w) \/ CheckDetached(w) \/ CheckVolume(w)
             \/ InspectNew(w) \/ WaitMachineStarted(w) \/ WaitHealthy(w)
    <3>1. row' = row
      BY <2>1 DEF EnsureApp, EnsureVolume, InspectOld, WaitMachineStopped, InspectRetired,
                  CheckDetached, CheckVolume, InspectNew, WaitMachineStarted, WaitHealthy
    <3>. QED
      BY <1>0, <2>1, <3>1, InvLook, RowSame
  <2>2. CASE StopOld(w) \/ DestroyOld(w) \/ StartNew(w)
    <3>1. row' = row
      BY <2>2 DEF StopOld, DestroyOld, StartNew
    <3>. QED
      BY <1>0, <2>2, <3>1, InvRequest, RowSame
  <2>3. CASE ConfirmStoppedAndFence(w)
    <3>1. row' = row
      BY <2>3 DEF ConfirmStoppedAndFence
    <3>. QED
      BY <1>0, <2>3, <3>1, InvFence, RowSame
  <2>4. CASE EnsureMachine(w)
    <3>1. row' = row
      BY <2>4 DEF EnsureMachine
    <3>. QED
      BY <1>0, <2>4, <3>1, InvEnsureMachine, RowSame
  <2>5. CASE CasPhase(w)
    BY <2>5, InvRecords
  <2>6. CASE RetryPhase(w) \/ FailOperation(w)
    BY <2>6, InvGivesUp
  <2>. QED
    BY <1>5, <2>1, <2>2, <2>3, <2>4, <2>5, <2>6 DEF PhaseStep
<1>6. ASSUME NEW w \in Workers, DeadlinePasses(w) \/ RequestFails(w)
      PROVE  LifecycleInv' /\ Advances
  <2>1. row' = row
    BY <1>6 DEF DeadlinePasses, RequestFails
  <2>. QED
    BY <1>0, <1>6, <2>1, InvFailure, RowSame
<1>7. ASSUME NEW w \in Workers, LostAnswer(w) PROVE LifecycleInv' /\ Advances
  <2>1. row' = row
    BY <1>7 DEF LostAnswer
  <2>. QED
    BY <1>0, <1>7, <2>1, InvRequest, RowSame
<1>8. CASE AbandonedClaimExpires \/ ClaimOutlasted
  BY <1>8, InvExpires
<1>9. CASE \/ \E g \in Generations : MachineSettles(g) \/ MachineLost(g)
           \/ VolumeDetaches \/ PowerOperation
  <2>1. row' = row
    BY <1>9 DEF MachineSettles, MachineLost, VolumeDetaches, PowerOperation
  <2>. QED
    BY <1>0, <1>9, <2>1, InvProvider, RowSame
<1>. QED
  BY <1>1, <1>2, <1>3, <1>4, <1>5, <1>6, <1>7, <1>8, <1>9 DEF Next

\* The invariant holds of every behaviour: the row, the Machines and the calls
\* agree, whatever takes over, comes late, fails or dies (workspaces.py
\* ensure_workspace, replace_machine).
THEOREM LifecycleInvariant == Spec => []LifecycleInv
<1>1. Init => LifecycleInv
  BY InvInit
<1>2. LifecycleInv /\ [Next]_vars => LifecycleInv'
  BY InvNext
<1>. QED
  BY <1>1, <1>2, PTL DEF Spec

\* A replacement Machine is never created before the one it replaces is
\* destroyed and its leases are retired, for any number of processes that run
\* the same operation (_run_replace_phase, confirm_machine_stopped_and_fence).
THEOREM RetiredBeforeSuccessor == Spec => []SuccessorNeedsRetirement
<1>1. LifecycleInv => SuccessorNeedsRetirement
  BY DEF LifecycleInv, StoreOK, Successors, SuccessorNeedsRetirement
<1>. QED
  BY <1>1, LifecycleInvariant, PTL

\* An idle row names the Machine of its generation, and every other one is gone
\* (_bind_idle).
THEOREM IdleIsBound == Spec => []IdleBindsOnlyCurrent
<1>1. ASSUME LifecycleInv PROVE IdleBindsOnlyCurrent
  <2>. SUFFICES ASSUME row.phase = "idle", row.gen > 0
                PROVE  /\ row.ref = row.gen /\ row.volume
                       /\ machine[row.gen] # "none"
                       /\ \A g \in Generations : g # row.gen => machine[g] \in Gone
    BY DEF IdleBindsOnlyCurrent
  <2>0. TypeOK /\ Successors /\ RowMatchesPhase /\ MachinesMatchPhase
    BY <1>1 DEF LifecycleInv, StoreOK
  <2>1. row.ref = row.gen /\ row.volume
    BY <2>0 DEF RowMatchesPhase, EnsurePhases
  <2>2. machine[row.gen] # "none"
    BY <2>0 DEF MachinesMatchPhase
  <2>3. ASSUME NEW g \in Generations, g # row.gen PROVE machine[g] \in Gone
    <3>1. CASE g > row.gen
      BY <2>0, <3>1 DEF MachinesMatchPhase, Gone
    <3>2. CASE g < row.gen
      <4>1. PICK h \in Generations : h - 1 = g /\ h > 1 /\ h <= row.gen
        <5>1. g + 1 \in Generations /\ (g + 1) - 1 = g /\ g + 1 > 1 /\ g + 1 <= row.gen
          BY <2>0, <3>2, GenerationsOfRow, LimitsAssumption DEF Generations
        <5>. QED
          BY <5>1
      <4>2. h < row.gen \/ h = row.gen
        BY <2>0, <4>1, GenerationsOfRow DEF Generations
      <4>3. machine[h] # "none"
        BY <2>0, <2>2, <4>2 DEF MachinesMatchPhase
      <4>4. machine[g] = "destroyed"
        BY <2>0, <4>1, <4>3 DEF Successors
      <4>. QED
        BY <4>4 DEF Gone
    <3>. QED
      BY <2>0, <2>3, <3>1, <3>2, GenerationsOfRow DEF Generations
  <2>. QED
    BY <2>1, <2>2, <2>3
<1>. QED
  BY <1>1, LifecycleInvariant, PTL

\* No step takes a recorded phase back, reopens a finished operation or skips a
\* generation (_cas_phase, _claim_or_wait).
THEOREM PhasesOnlyAdvance == Spec => OperationsOnlyAdvance
<1>1. LifecycleInv /\ [Next]_vars =>
        [\/ row'.gen = row.gen /\ Rank[row'.phase] >= Rank[row.phase]
            /\ (Rank[row.phase] = 6 => row'.phase = row.phase)
         \/ row.phase = "idle" /\ row'.gen = row.gen + 1]_vars
  BY InvNext DEF Advances
<1>. QED
  BY <1>1, LifecycleInvariant, PTL DEF Spec, OperationsOnlyAdvance
=============================================================================
