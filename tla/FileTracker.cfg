SPECIFICATION Spec
SYMMETRY EntrySymmetry
CONSTANTS
    ParallelChunks = 2
    Files = {a, b}
    Ids = {"doc"}
    IdOf <- SameFile
    Targets = {"inbox"}
    TargetOf <- OneTarget
    FileUnits = 1
    InterruptedAt = {1}
    MaxAllowedFailures = 1
    MaxRequests = 3
    FailingSends = {"NewTransfer", "ContinueTransfer", "AbortTransfer", "Chunk", "Done", "ProtocolViolation"}
    Unreadable = {a, b}
    BrainAnswers = {"Known", "Unknown", "Err"}
    Contacts = {"target", "other"}
    OddAnswers = {"RejectContinueTransfer", "RejectChunk", "RejectDone"}
    EarlyAnswered = {"Chunk", "NewTransfer"}
INVARIANTS OneFate SlotNeverStranded
PROPERTY NoFileVanishes
CHECK_DEADLOCK FALSE
