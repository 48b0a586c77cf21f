\* Two nodes that establish sessions with each other, and one direction of an
\* established session: the whole of a small nonce space, several turns of the
\* window.
SPECIFICATION MCSpec
CONSTANTS
    Nodes = {"a", "b"}
    Callers = {"a1", "a2", "b1"}
    NodeOf <- CallerAt
    Knows <- Contacts
    Renamed = {"a"}
    MaxTroubles = 1
    WindowSize = 4
    NonceSpace = 12
INVARIANTS
    AttributedToSigner
    KeyAgreement
    PeerCanRead
    TypeOK
    NoReplay
    WindowIsExact
PROPERTY EveryCallerReturns
CHECK_DEADLOCK FALSE
