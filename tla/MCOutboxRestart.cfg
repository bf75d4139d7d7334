SPECIFICATION Spec
CONSTANTS
    b1 = b1
    b2 = b2
    b3 = b3
    Batches = {b1, b2, b3}
    TimeRefs = {"hub"}
    PayloadSize <- OneLarge
    Charge <- GrowingCharge
    MaxBatches = 3
    MaxBytes = 3
    MaxRecords = 3
    MaxMetadata = 8
    MaxDead = 1
    ActiveMax = 2
    ClassMax = 1
    FirstWait = 1
    RetryWait = 1
    AttemptCap = 1
    MaxOrder = 4
    CounterCap = 1
INVARIANT RestartReopens
