SPECIFICATION RecoverySpec
CONSTANTS
  Values = {1, 2, 3, 4, 5}
  RecordSize = 1
  FlushThreshold = 2
  MaxSequence = 4
  MaxCrashes = 2
  SnapshotInterval = 2
  MaxLabel = 3
  SnapshotOptions <- OneRecord
  SnapshotSize = 1
  MaxPersists = 3
  NoFile = NoFile
  MaxFills = 3
  express_feed_capacity = 2
  trade_metadata_capacity = 2
INVARIANTS
  Contiguous
  DamageStopsWriter
  RecoveryTypeOK
  ReplayRebuilds
  FeedMatchesLog
  MetadataComplete
CHECK_DEADLOCK FALSE
