SPECIFICATION Spec
CONSTANTS
    Identities = {"mine", "other"}
    KeyPairs = {"k1", "k2"}
    Clients = {"c1", "c2"}
    Invites = {"i1"}
    Shares = {"s1"}
    Updates = {1, 2}
    MaxWaiting = 1
    NoOne = NoOne
INVARIANTS InviteAnsweredOnce OnePeerId IdentityAgrees
PROPERTY QueuedCallAnswered
