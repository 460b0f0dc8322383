SPECIFICATION Spec
CONSTANTS
    Hints = {h1, h2}
    Publishers = {p1, p2}
    MaxAttempts = 2
    MaxFaults = 3
PROPERTIES
    HintsImplementOutbox
    HintsSettle
CHECK_DEADLOCK FALSE
