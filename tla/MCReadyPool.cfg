CONSTANTS
    Procs = {p, q}
    Bundles = {1, 2, 3}
    Tenants = {t}
    Target = 1
    MaxPreparing = 1
    MaxAttempts = 1
    SleepEnabled = TRUE
    MaxFaults = 1
    MaxEvents = 1
SPECIFICATION LiveSpec
INVARIANT PoolCapacity
PROPERTIES AssignmentIsPermanent PoolRefills
CHECK_DEADLOCK FALSE
