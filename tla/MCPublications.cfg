SPECIFICATION PublicationSpec
CONSTANTS
    MaxAttempts = 2
    MaxRev = 2
    MaxLosses = 1
INVARIANTS
    SnapshotOutlivesUpload
PROPERTIES
    WakesEnd
    RetriesAreAnswered
