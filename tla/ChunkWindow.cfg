\* A resumed transfer of a file whose length is no multiple of the window.
CONSTANTS
    ParallelChunks = 4
    FileUnits = 11
    StartAt = 2
SPECIFICATION FairSpec
INVARIANTS
    TypeOK
    NoPanicInMarkDone
    NoProtocolViolation
    FileIsPrefix
    ProgressIsHonest
    DoneMeansComplete
PROPERTIES
    CopySpec
    EventuallyConfirmed
