SPECIFICATION Spec
CONSTANTS
    Requests = {"chunk", "invite"}
    Kinds = {"file", "invite"}
    Kind <- KindOf
    Idempotent = {"chunk"}
    MaxAttempts = 2
    MaxSessions = 2
INVARIANTS NotProcessedTwice RetriedOnce
PROPERTY EveryRequestReported
CHECK_DEADLOCK FALSE
