SPECIFICATION FairSpec
CONSTANTS
    Accounts = {1, 2}
    Nonces = {1, 2}
    SessionIds = 1
    LocalIds = 2
    Prices = {1, 2}
    Quantities = {1, 2}
    Orders <- SomeOrders
    Replaces <- SomeReplaces
    FirstOffset = 2
    SnapshotInterval = 2
    MaxLabel = 2
    MaxFrames = 3
    NoOrder = NoOrder
    NoContext = NoContext
    NoFrame = NoFrame
    DrainOrder <- SourceOrder
CHECK_DEADLOCK FALSE
INVARIANTS
    TypeOK
    ContextsMatchBook
    FillsBooked
    FramesAccounted
    SnapshotCoversLog
PROPERTY AcceptedIsLogged
