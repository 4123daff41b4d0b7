SPECIFICATION Spec
CONSTANTS
    Accounts = {a1}
    Payloads = {p1}
    Times = {0, 1, 2, 3}
    Second = 2
    MaxPerSecond <- Limits
    Depth <- Depths
    MaxFrames = 5
VIEW StatsUnread
CHECK_DEADLOCK FALSE
INVARIANTS
    TypeOK
    RateBounded
    BudgetBounded
