\* An ensure and two replacements by two processes, with any two faults.
SPECIFICATION LiveSpec
CONSTANTS
    Workers = {w1, w2}
    NoWorker = NoWorker
    MaxGeneration = 3
    MaxAttempts = 2
    MaxFaults = 2
    ClaimSeconds = 60
    RequestTimeoutSeconds = 10
    PhaseDeadlineSeconds = 120
INVARIANTS
    SuccessorNeedsRetirement
    IdleBindsOnlyCurrent
PROPERTIES
    OperationsOnlyAdvance
    OperationsEnd
