CONSTANTS
    w1 = w1
    w2 = w2
    Workers = {w1, w2}
    MaxRetries = 1
    MaxReleaseAttempts = 2
    MaxPrompts = 1
    MaxCalls = 1
    MaxFaults = 1
    Images = {"old"}
    Bundles = {"parked"}
SPECIFICATION PowerLiveSpec
INVARIANT StopsOnlyIdleWorkspaces
PROPERTY OperationsEnd
CHECK_DEADLOCK FALSE
