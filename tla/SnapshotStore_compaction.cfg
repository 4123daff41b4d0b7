SPECIFICATION Spec
CONSTANTS
  Sizes = {1, 3, 6}
  Options <- LimitsAndNone
  PowerLoss = TRUE
  MaxPersists = 4
  MaxCrashes = 2
  NoFile = NoFile
INVARIANT TypeOK
INVARIANT LatestIsPersisted
INVARIANT WithinLimits
PROPERTY SnapshotKept
CHECK_DEADLOCK FALSE
