CONSTANTS
    Runs = {1, 2}
    RoutineOf <- OneRoutine
    MaxApprovals = 2
    MaxClaims = 3
    MaxSequence = 2
    MaxGeneration = 2
    MaxSwitches = 1
SPECIFICATION LiveSpec
INVARIANT OneOutcomePerRun
PROPERTIES ResumesOnlyApprovedWork RunsEnd
CHECK_DEADLOCK FALSE
