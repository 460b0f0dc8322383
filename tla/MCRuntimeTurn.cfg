\* Sixty seconds of lease, twenty between renewals, ten for a request.
SPECIFICATION Spec
CONSTANTS
    LeaseTicks = 6
    RenewTicks = 2
    RequestTicks = 1
    MaxFaults = 2
INVARIANTS
    HermesStopsBeforeExpiry
    ApprovalOutcomeIsTrue
PROPERTIES
    TurnSettles
