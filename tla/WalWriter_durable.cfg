SPECIFICATION Spec
CONSTANTS
    Values = {v1, v2}
    RecordSize = 2
    FlushThreshold = 3
    MaxSequence = 4
    MaxCrashes = 2
CHECK_DEADLOCK FALSE
INVARIANT SyncedIsReadable
