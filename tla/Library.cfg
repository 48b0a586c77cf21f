SPECIFICATION LibrarySpec
CONSTANTS
    r1 = r1
    r2 = r2
    t1 = t1
    t2 = t2
    Requests = {r1, r2}
    Titles <- MCTitles
    Sanitized <- MCSanitized
    NoName = ""
    Transfers = {t1, t2}
    NUMBER_OF_VARIATIONS_TO_TRY = 1
    MaxUpdates = 2
INVARIANTS FilesKept NoOrphanRows
SYMMETRY Symmetry
CONSTRAINT UntilRaced
