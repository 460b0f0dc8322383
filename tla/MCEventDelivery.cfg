\* Two publishers race on two events.  Two attempts per cycle and one repair
\* cycle stand for eight and three; a row parked in its first cycle may be
\* redriven.
SPECIFICATION Spec
CONSTANTS
    Publishers = {w1, w2}
    MaxEvents = 2
    MaxDeliveryAttempts = 2
    MaxRepairCycles = 1
    MaxCycle = 1
    MaxFaults = 2
INVARIANTS
    FenceIsUnambiguous
PROPERTIES
    EventsImplementOutbox
    EventsSettle
    TransientFaultsLoseNothing
CHECK_DEADLOCK FALSE
