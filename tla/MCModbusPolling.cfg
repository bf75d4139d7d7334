SPECIFICATION PollingSpec
CONSTANTS
    Runners <- MCRunners
    EndpointOf <- MCEndpointOf
    PoolCapacity = 2
    BudgetCapacity = 1
    RetryCount = 1
    FallbackMax = 1
    BlockPoints = 2
INVARIANTS CleanSocket NothingLeaks
PROPERTY PollsEnd
