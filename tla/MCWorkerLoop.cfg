SPECIFICATION LoopSpec
CONSTANTS
    Msgs = {m1, m2}
    Slots = 2
    FastPolls = 1
    NoClaim = NoClaim
    Unanswered = Unanswered
    MaxFaults = 1
INVARIANT NoSleepThroughWork
PROPERTY QueuedWorkIsRun
