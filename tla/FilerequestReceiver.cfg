\* Any request of any peer at any time: two transfers, two contacts.
SPECIFICATION Spec
SYMMETRY ContactSymmetry
CONSTANTS
    ParallelChunks = 2
    Transfers = {1, 2}
    DeclaredUnits = 2
    Payloads = {0}
    Requesters = {owner, other}
    OldTransfers = {2}
    Elsewhere = {1}
    MaxUpdates = 1
    MaxReceived = 2
INVARIANTS BooksMatchDisk
PROPERTY ReceivedFilesAreFinal
