SPECIFICATION MCSpec
CONSTANTS
    Devices <- MCDevices
    Defs <- MCDefs
    ExecKey <- MCExecKey
    Commands <- MCCommands
    MaxVersion = 3
    MaxSnapshots = 3
    MaxRequests = 4
    MaxTokens = 3
    QueueCapacity = 2
    Stop = Stop
    NoJob = NoJob
INVARIANTS
    PointersAreCommitted OneCandidate ReceiptsAreTrue AppliedPatchIsItsEdit
    SteadyIsConsistent RunnersAreOwned VersionIsHonest CandidateCanBeRetried
PROPERTIES HistoryIsImmutable CommandsAreAnswered CloseEnds
