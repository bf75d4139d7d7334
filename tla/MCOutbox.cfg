SPECIFICATION Spec
CONSTANTS
    b1 = b1
    b2 = b2
    b3 = b3
    Batches = {b1, b2, b3}
    TimeRefs = {"hub", "hub2", "no basis"}
    PayloadSize <- OneTooLarge
    Charge <- FlatCharge
    MaxBatches = 2
    MaxBytes = 2
    MaxRecords = 2
    MaxMetadata = 2
    MaxDead = 1
    ActiveMax = 2
    ClassMax = 1
    FirstWait = 1
    RetryWait = 1
    AttemptCap = 1
    MaxOrder = 3
    CounterCap = 1
SYMMETRY Symmetry
INVARIANTS SessionMirrorsRows OrderIsIdentity
PROPERTY OneBasis
