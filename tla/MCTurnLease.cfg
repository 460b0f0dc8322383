\* One profile with two messages, two attempts, two sessions, deletion and two
\* Machine generations; one event number besides the terminal one, and one
\* stale lease per claim.
SPECIFICATION FairSpec
CONSTANTS
    Profiles = {p1}
    Attempts = {a1, a2}
    Sessions = {s1, s2}
    NoProfile = NoProfile
    NoSession = NoSession
    MaxExecutions = 2
    MaxGeneration = 2
    MaxRuntimeSequence = 1
    MaxSlots = 1
    LeaseTerm = 1
CHECK_DEADLOCK FALSE
INVARIANTS
    TypeOK
    OneLiveLeasePerProfile
    RunningTurnHasLease
    NoReplayAfterCheckpoint
    TurnsRunInOrder
    OneTruthfulOutcomeEvent
    TurnOwnsSession
    LiveLeasesAreEntitled
PROPERTIES
    EndedTurnsAreQuiet
    ExpiredLeaseUnblocksProfile
