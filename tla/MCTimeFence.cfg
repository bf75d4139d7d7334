SPECIFICATION MCSpec
CONSTANTS
    TickLength = 1
    ReqTimeout = 2
    RoundMax = 3
    MaxAttempts = 2
    Enough = 2
    GoodRtt = 0
    Consistent = 1
    JumpMax = 1
    HoldMax = 2
    SlewMax = 0
    Delay = 1
    TokenMax = 2
    FloorMin = 2
    ErrorMax = 1
    Drift = 0
    Floors = {1}
    BiasMax = 2
    MaxRevision = 4
    MaxConnection = 2
    JumpSizes = {2}
    MaxFaults = 1
INVARIANT FenceHolds
CHECK_DEADLOCK FALSE
