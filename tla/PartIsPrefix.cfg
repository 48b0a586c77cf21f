SPECIFICATION TransferSpec
CONSTANTS
    ParallelChunks = 2
    Files = {"a"}
    Ids = {"doc"}
    IdOf <- OneFile
    Targets = {"inbox"}
    TargetOf <- OneTarget
    FileUnits = 2
    InterruptedAt = {}
    MaxAllowedFailures = 1
    MaxRequests = 5
    FailingSends = {}
    Unreadable = {}
    BrainAnswers = {"Known"}
    Contacts = {"target"}
    OddAnswers = {}
    EarlyAnswered = {"Chunk"}
    MaxFailures = 1
    MaxUpdates = 1
    MaxReceived = 1
INVARIANT PartIsPrefix
CHECK_DEADLOCK FALSE
