SPECIFICATION FairSpec
CONSTANTS
    p1 = p1
    p2 = p2
    Points <- MCPoints
    Readings <- MCReadings
    Mode <- MCMode
    Version <- MCVersion
    Deadband = 0
    IngressCap = 1
    DecisionMax = 2
    OwnedCap = 2
    MaxBytes = 6
    Reserve = 2
    MaxFrozen = 2
    ClassMax = 1
    BatchMax = 2
    MaxJobs = 2
    MaxSeq = 3
    MaxGen = 2
    Limits <- MCLimits
INVARIANTS DecidedOnce LossIsReal OneOwner ReferenceIsNewest HeldOnce ChargedIsHeld GateAgrees
PROPERTIES OneWriter CloseSettles
CHECK_DEADLOCK FALSE
