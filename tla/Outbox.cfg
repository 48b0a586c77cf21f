\* The files to send, and every database some release can have written.
SPECIFICATION MCSpec
CONSTANTS
    Files = {"a", "b"}
    Targets = {"inbox"}
    Paths = {"photo"}
    TargetOf <- OneTarget
    PathOf <- OneSource
    Size = 1
    MaxAllowedFailures = 0
    MaxOffers = 2
    MaxLate = 2
    MaxTroubles = 2
    Contents <- SmallContents
    MaxCrashes = 1
INVARIANTS
    NotForgotten
    SourceKept
    UpdatesRespectTheTable
    UsableSchema
    NoOrphans
    Upgradable
    RowsKept
CHECK_DEADLOCK FALSE
