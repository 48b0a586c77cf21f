------------------------------ MODULE Session ------------------------------
(***************************************************************************)
(* How two peers establish a session (send_receive_traits/get_session.rs   *)
(* and crypto.rs): the callers that need one, the exchange of keys, the    *)
(* store of sessions in use, the cache of the ones they replaced, and the  *)
(* change of a node's identity.                                            *)
(*                                                                         *)
(* A caller that finds neither a session nor a build in progress starts a  *)
(* build of its own, so a build is named after its caller.  The secret of  *)
(* a session comes from two shares: the one of the initiator's build and   *)
(* the one the responder made for the request it answered.  Both sides     *)
(* have the same secret only if these belong together; `init` and `share`  *)
(* name the build each of them comes from.                                 *)
(*                                                                         *)
(* An identity is a number; contact id and signing keys of one identity    *)
(* carry the same one.                                                     *)
(***************************************************************************)
EXTENDS Naturals, FiniteSets

CONSTANTS
    Nodes, Callers,
    NodeOf,         \* where each caller runs
    Knows,          \* the <<node, identity>> such that node has this contact of its peer
    Renamed,        \* the nodes whose identity may change
    MaxTroubles     \* bound: sessions that expire or are cleared, and changes of identity

None == "none"

ASSUME SessionAssumption ==
    /\ Cardinality(Nodes) = 2
    /\ NodeOf \in [Callers -> Nodes]
    /\ Knows \subseteq Nodes \X {1, 2}
    /\ Renamed \subseteq Nodes
    /\ MaxTroubles \in Nat
    /\ None \notin Callers

VARIABLES
    contactId,  \* self_contact_id of each node
    keys,       \* its keys
    rename,     \* what update_identity writes next
    caller,     \* per caller: what get_or_establish_session does next
    lock,       \* who holds the lock of the build store over several steps
    build,      \* session_build_store: the build in progress
    store,      \* session_store: the session in use
    cache,      \* expired_session_cache
    open,       \* builds whose request libp2p has not ended
    net,        \* messages under way
    tasks,      \* handlers that wait between two steps
    stray,      \* history: nodes that dropped a build whose request was open
    forgotten,  \* history: secrets a node has dropped altogether
    troubles

identity == <<contactId, keys, rename>>
sessions == <<store, cache, forgotten, troubles>>
vars     == <<contactId, keys, rename, caller, lock, build, store, cache, open, net, tasks, stray,
              forgotten, troubles>>

Peer(n) == CHOOSE p \in Nodes : p # n

Caller(do, attempt, on) == [do |-> do, attempt |-> attempt, on |-> on]

\* It has returned, with a session or with an error.
Returned == Caller("Returned", 1, None)

Init ==
    /\ contactId = [n \in Nodes |-> 1] /\ keys = [n \in Nodes |-> 1]
    /\ rename = [n \in Nodes |-> None]
    /\ caller = [c \in Callers |-> Caller("Check", 1, None)]
    /\ lock = [n \in Nodes |-> None]
    /\ build = [n \in Nodes |-> None]
    /\ store = [n \in Nodes |-> {}] /\ cache = [n \in Nodes |-> {}]
    /\ open = {} /\ net = {} /\ tasks = {}
    /\ stray = {} /\ forgotten = [n \in Nodes |-> {}] /\ troubles = 0

\* The keys of the sender are asked for by the contact id it claims.
HasKeys(n, m) == <<n, m.sender>> \in Knows

\* A session: where its secret comes from, the identity it is attributed to,
\* if any, and the one that signed.
NewSession(init, share, contact, signer) ==
    [init |-> init, share |-> share, contact |-> contact, signer |-> signer]

ResponderSession(n, m) ==
    NewSession(m.build, m.build, IF HasKeys(n, m) THEN m.sender ELSE 0, m.signer)

InitiatorSession(n, b, m) ==
    NewSession(b, m.build, IF HasKeys(n, m) THEN m.sender ELSE 0, m.signer)

\* Slip: the keys of the contact are not used.
TrustsSender(n, m) == TRUE

\* A signature is verified only if the contact is known.
Verified(n, m) == HasKeys(n, m) => m.signer = m.sender

\* to_session: unpacked unverified if the keys are missing.
Unpacks(n, m) == Verified(n, m)

\* get_recent_receive_sessions: what a message from the peer is decrypted with.
ReceiveSessions(n) == store[n] \cup cache[n]

\* Slip: the session that is replaced is lost.
StoresOnly(n, s) ==
    /\ store' = [store EXCEPT ![n] = {s}]
    /\ UNCHANGED cache

\* A session comes into use; the one it replaces can still be received with.
Stores(n, s) ==
    /\ store' = [store EXCEPT ![n] = {s}]
    /\ cache' = [cache EXCEPT ![n] = @ \cup store[n]]

-----------------------------------------------------------------------------
(***************************************************************************)
(* The broadcast of a build reaches everyone who waits for it: its caller, *)
(* which returns, and those that joined, which try a second time after an  *)
(* error.  A build that is dropped sends an error as well.                 *)
(***************************************************************************)
AfterError(c) ==
    IF caller[c].do = "Await" THEN Returned
    ELSE IF caller[c].attempt = 1 THEN Caller("Check", 2, None)
    ELSE Caller("Impossible", 2, None)

Waits(c, b) == caller[c].do \in {"Await", "Join"} /\ caller[c].on = b

\* Slip: a build goes without a word.
DroppedSilently(b) == caller' = caller

BroadcastError(b) ==
    caller' = [c \in Callers |-> IF b # None /\ Waits(c, b) THEN AfterError(c) ELSE caller[c]]

BroadcastSession(b) ==
    caller' = [c \in Callers |-> IF Waits(c, b) THEN Returned ELSE caller[c]]

\* The build in progress is removed and cancelled, whichever it is.
CancelBuild(n) ==
    /\ lock[n] = None
    /\ build' = [build EXCEPT ![n] = None]
    /\ BroadcastError(build[n])

\* Slip: a build in progress is not noticed.
NothingInProgress(n) == FALSE

InProgress(n) == build[n] # None

-----------------------------------------------------------------------------
(***************************************************************************)
(* get_or_establish_session.  The store is read before the build store is  *)
(* locked; the lock is held until the request is signed and sent.          *)
(***************************************************************************)
CheckStore(c) ==
    /\ caller[c].do = "Check"
    /\ caller' = [caller EXCEPT ![c] = IF store[NodeOf[c]] # {} THEN Returned ELSE [@ EXCEPT !.do = "Lock"]]
    /\ UNCHANGED <<identity, lock, build, sessions, open, net, tasks, stray>>

JoinBuild(c) ==
    /\ caller[c].do = "Lock" /\ lock[NodeOf[c]] = None
    /\ InProgress(NodeOf[c])
    /\ caller' = [caller EXCEPT ![c].do = "Join", ![c].on = build[NodeOf[c]]]
    /\ UNCHANGED <<identity, lock, build, sessions, open, net, tasks, stray>>

\* The contact id is read now, the keys are locked in a later step.
StartBuild(c) ==
    /\ caller[c].do = "Lock" /\ lock[NodeOf[c]] = None
    /\ ~InProgress(NodeOf[c])
    /\ lock' = [lock EXCEPT ![NodeOf[c]] = c]
    /\ caller' = [caller EXCEPT ![c].do = IF contactId[NodeOf[c]] = 1 THEN "Sign1" ELSE "Sign2"]
    /\ UNCHANGED <<identity, build, sessions, open, net, tasks, stray>>

Request(c, sender, signer) ==
    [type |-> "request", from |-> NodeOf[c], build |-> c, sender |-> sender, signer |-> signer]

SendEstablishmentRequest(c) ==
    LET n == NodeOf[c] IN
    /\ caller[c].do \in {"Sign1", "Sign2"}
    /\ net' = net \cup {Request(c, IF caller[c].do = "Sign1" THEN 1 ELSE 2, keys[n])}
    /\ build' = [build EXCEPT ![n] = c]
    /\ open' = open \cup {c}
    /\ lock' = [lock EXCEPT ![n] = None]
    /\ caller' = [caller EXCEPT ![c] = Caller("Await", 1, c)]
    /\ UNCHANGED <<identity, sessions, tasks, stray>>

\* SESSION_ESTABLISHMENT_TIMEOUT: the caller leaves, its build stays.
EstablishmentTimeout(c) ==
    /\ caller[c].do = "Await"
    /\ caller' = [caller EXCEPT ![c] = Returned]
    /\ UNCHANGED <<identity, lock, build, sessions, open, net, tasks, stray>>

-----------------------------------------------------------------------------
(***************************************************************************)
(* handle_session_establishment_request.  The responder uses its session   *)
(* before the initiator has the answer.                                    *)
(***************************************************************************)
Answer(n, m, ok, sender, signer) ==
    [type |-> "response", from |-> n, build |-> m.build, ok |-> ok, sender |-> sender,
     signer |-> signer]

VerifyRequest(m) ==
    LET n == Peer(m.from) IN
    /\ m.type = "request"
    /\ IF Verified(n, m)
       THEN /\ tasks' = tasks \cup {[do |-> "Respond", node |-> n, message |-> m, id |-> contactId[n]]}
            /\ net' = net \ {m}
       ELSE /\ net' = (net \ {m}) \cup {Answer(n, m, FALSE, 0, 0)}
            /\ UNCHANGED tasks
    /\ UNCHANGED <<identity, caller, lock, build, sessions, open, stray>>

RespondToRequest(t) ==
    /\ t.do = "Respond"
    /\ Stores(t.node, ResponderSession(t.node, t.message))
    /\ net' = net \cup {Answer(t.node, t.message, TRUE, t.id, keys[t.node])}
    /\ tasks' = tasks \ {t}
    /\ UNCHANGED <<identity, caller, lock, build, open, stray, forgotten, troubles>>

-----------------------------------------------------------------------------
(***************************************************************************)
(* handle_session_establishment_response.  The response is paired with     *)
(* whatever build is in progress: it does not say which one it answers.    *)
(***************************************************************************)
Arrives(m) ==
    /\ m.type = "response" /\ m.build \in open
    /\ net' = net \ {m}
    /\ open' = open \ {m.build}

ReceiveErrorResponse(m) ==
    /\ Arrives(m) /\ ~m.ok
    /\ CancelBuild(NodeOf[m.build])
    /\ UNCHANGED <<identity, lock, sessions, tasks, stray>>

TakeBuild(m) ==
    LET n == NodeOf[m.build] IN
    /\ Arrives(m) /\ m.ok
    /\ lock[n] = None
    /\ build' = [build EXCEPT ![n] = None]
    /\ tasks' = IF build[n] = None THEN tasks
                ELSE tasks \cup {[do |-> "Create", node |-> n, message |-> m, build |-> build[n]]}
    /\ UNCHANGED <<identity, caller, lock, sessions, stray>>

\* to_session: those who wait get the session before it is in the store.
CreateSession(t) ==
    /\ t.do = "Create"
    /\ IF Unpacks(t.node, t.message)
       THEN /\ BroadcastSession(t.build)
            /\ tasks' = (tasks \ {t}) \cup {[t EXCEPT !.do = "Insert"]}
       ELSE /\ BroadcastError(t.build)
            /\ tasks' = tasks \ {t}
    /\ UNCHANGED <<identity, lock, build, sessions, open, net, stray>>

InsertSession(t) ==
    /\ t.do = "Insert"
    /\ Stores(t.node, InitiatorSession(t.node, t.build, t.message))
    /\ tasks' = tasks \ {t}
    /\ UNCHANGED <<identity, caller, lock, build, open, net, stray, forgotten, troubles>>

\* libp2p ends every request, by the response or by a failure.
OutboundFailure(b) ==
    /\ b \in open
    /\ open' = open \ {b}
    /\ CancelBuild(NodeOf[b])
    /\ UNCHANGED <<identity, lock, sessions, net, tasks, stray>>

\* An answer that nobody waits for any more: the failure of the peer's request
\* cancels the build that this node has in progress itself.
InboundFailure(m) ==
    /\ m.type = "response" /\ m.build \notin open
    /\ net' = net \ {m}
    /\ CancelBuild(m.from)
    /\ stray' = IF build[m.from] \in open THEN stray \cup {m.from} ELSE stray
    /\ UNCHANGED <<identity, lock, sessions, open, tasks>>

-----------------------------------------------------------------------------
\* clear_session, after an error about a session.
ClearSession(n) ==
    /\ store[n] # {} /\ troubles < MaxTroubles
    /\ cache' = [cache EXCEPT ![n] = @ \cup store[n]]
    /\ store' = [store EXCEPT ![n] = {}]
    /\ troubles' = troubles + 1
    /\ UNCHANGED <<identity, caller, lock, build, open, net, tasks, stray, forgotten>>

\* A session is past accept_expiry, or has been in the cache for 15 seconds.
ExpireSession(n, s) ==
    /\ s \in ReceiveSessions(n) /\ troubles < MaxTroubles
    /\ store' = [store EXCEPT ![n] = @ \ {s}]
    /\ cache' = [cache EXCEPT ![n] = @ \ {s}]
    /\ forgotten' = [forgotten EXCEPT ![n] = @ \cup {s.init}]
    /\ troubles' = troubles + 1
    /\ UNCHANGED <<identity, caller, lock, build, open, net, tasks, stray>>

(***************************************************************************)
(* update_identity: four writes, one after the other.                      *)
(***************************************************************************)
RenameContactId(n) ==
    /\ n \in Renamed /\ contactId[n] = 1 /\ troubles < MaxTroubles
    /\ troubles' = troubles + 1
    /\ contactId' = [contactId EXCEPT ![n] = 2]
    /\ rename' = [rename EXCEPT ![n] = "keys"]
    /\ UNCHANGED <<keys, caller, lock, build, store, cache, forgotten, open, net, tasks, stray>>

RenameKeys(n) ==
    /\ rename[n] = "keys"
    /\ keys' = [keys EXCEPT ![n] = 2]
    /\ rename' = [rename EXCEPT ![n] = "builds"]
    /\ UNCHANGED <<contactId, caller, lock, build, sessions, open, net, tasks, stray>>

ClearBuilds(n) ==
    /\ rename[n] = "builds"
    /\ CancelBuild(n)
    /\ rename' = [rename EXCEPT ![n] = "store"]
    /\ stray' = IF build[n] \in open THEN stray \cup {n} ELSE stray
    /\ UNCHANGED <<contactId, keys, lock, sessions, open, net, tasks>>

ClearStore(n) ==
    /\ rename[n] = "store"
    /\ store' = [store EXCEPT ![n] = {}]
    /\ forgotten' = [forgotten EXCEPT ![n] = @ \cup {s.init : s \in store[n]}]
    /\ rename' = [rename EXCEPT ![n] = None]
    /\ UNCHANGED <<contactId, keys, caller, lock, build, cache, open, net, tasks, stray, troubles>>

-----------------------------------------------------------------------------
Next ==
    \/ \E c \in Callers :
        \/ CheckStore(c)
        \/ JoinBuild(c)
        \/ StartBuild(c)
        \/ SendEstablishmentRequest(c)
        \/ EstablishmentTimeout(c)
        \/ OutboundFailure(c)
    \/ \E m \in net :
        \/ VerifyRequest(m)
        \/ ReceiveErrorResponse(m)
        \/ TakeBuild(m)
        \/ InboundFailure(m)
    \/ \E t \in tasks :
        \/ RespondToRequest(t)
        \/ CreateSession(t)
        \/ InsertSession(t)
    \/ \E n \in Nodes :
        \/ ClearSession(n)
        \/ \E s \in ReceiveSessions(n) : ExpireSession(n, s)
        \/ RenameContactId(n)
        \/ RenameKeys(n)
        \/ ClearBuilds(n)
        \/ ClearStore(n)

\* Tasks run on, and libp2p ends every request.  No answer is relied on, and
\* those that joined a build have no timeout of their own.
Fairness ==
    /\ \A c \in Callers :
        /\ WF_vars(CheckStore(c)) /\ WF_vars(JoinBuild(c)) /\ WF_vars(StartBuild(c))
        /\ WF_vars(SendEstablishmentRequest(c)) /\ WF_vars(EstablishmentTimeout(c))
        /\ WF_vars(OutboundFailure(c))
    /\ WF_vars(\E t \in tasks : CreateSession(t))

Spec == Init /\ [][Next]_vars /\ Fairness

-----------------------------------------------------------------------------
\* to_session, to_session_and_response: a session is attributed to a contact
\* only if that contact signed for it, also while the identity changes between
\* the reading of the contact id and the signing.
AttributedToSigner ==
    \A n \in Nodes : \A s \in ReceiveSessions(n) : s.contact # 0 => s.contact = s.signer

\* get_or_establish_session: what the initiator takes for a session has the
\* secret the responder derived, as long as no build was dropped while its
\* request was open (a late answer is paired with the next build then).
KeyAgreement ==
    \A n \in Nodes \ stray : \A s \in ReceiveSessions(n) : s.init = s.share

\* expired_session_cache: the peer can read what is sent with a session that
\* was negotiated from here, also when both sides negotiated at once and each
\* replaced what the other had just stored.
PeerCanRead ==
    \A n \in Nodes : \A s \in store[n] :
        LET p == Peer(n) IN
        NodeOf[s.init] = n /\ s.init = s.share =>
            \/ s.init \in forgotten[p]
            \/ \E q \in ReceiveSessions(p) : q.init = s.init

\* Everyone who asks for a session gets an answer, also those who only joined
\* a build and wait without a timeout.
EveryCallerReturns ==
    \A c \in Callers : <>(caller[c].do \in {"Returned", "Impossible"})
=============================================================================
