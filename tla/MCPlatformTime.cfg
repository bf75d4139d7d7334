SPECIFICATION MCSpec
CONSTANTS
    TickLength = 2
    ReqTimeout = 2
    RoundMax = 3
    MaxAttempts = 2
    Enough = 2
    GoodRtt = 0
    Consistent = 1
    JumpMax = 2
    HoldMax = 2
    SlewMax = 1
    Delay = 1
    TokenMax = 2
    FloorMin = 3
    ErrorMax = 3
    Drift = 1
    Floors = {1}
    BiasMax = 3
    MaxRevision = 3
    MaxConnection = 2
    JumpSizes = {3}
    MaxFaults = 2
INVARIANTS TokenIsCurrent SendIsEarned FloorHolds ReadingIsWithinError
CHECK_DEADLOCK FALSE
