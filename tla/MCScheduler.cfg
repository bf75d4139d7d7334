SPECIFICATION PacedSpec
CONSTANTS
    Batches = {b1, b2, b3}
    TimeRefs = {"no basis"}
    PayloadSize <- AllSmall
    Charge <- FlatCharge
    MaxBatches = 3
    MaxBytes = 3
    MaxRecords = 3
    MaxMetadata = 3
    MaxDead = 1
    ActiveMax = 2
    ClassMax = 1
    FirstWait = 1
    RetryWait = 1
    AttemptCap = 1
    MaxOrder = 4
    CounterCap = 1
PROPERTY BothClassesProgress
