\* Two attempts to delete, one replacement, one change of the binding.
SPECIFICATION Spec
CONSTANTS
    MaxEpoch = 2
    MaxGen = 2
    MaxBinding = 1
    MaxFaults = 2
INVARIANTS
    DeletedStaysDeleted
    RemovedOnlyWhenIdle
    TurnHasItsKeys
PROPERTIES
    MaterializationSettles
