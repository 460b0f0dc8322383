\* One attempt to delete and no fault: one wake is enough.
SPECIFICATION Spec
CONSTANTS
    MaxEpoch = 1
    MaxGen = 1
    MaxBinding = 0
    MaxFaults = 0
PROPERTIES
    RuntimeKeepsServing
