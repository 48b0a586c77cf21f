--------------------------- MODULE Session_proofs ---------------------------
(***************************************************************************)
(* Proofs about the establishment of sessions, for any number of callers   *)
(* at the two nodes, any contacts and any number of expiries and changes   *)
(* of identity: whom a session is attributed to, that both sides have the  *)
(* same secret, and that the peer can read what is sent.  And about the    *)
(* nonces of one session.                                                  *)
(***************************************************************************)
EXTENDS Session, NonceWindow, Integers, FiniteSetTheorems, WellFoundedInduction, TLAPS

USE SessionAssumption

\* There is a peer, and it is the other node.
LEMMA PeerIsOther == \A n \in Nodes : Peer(n) \in Nodes /\ Peer(n) # n
<1> SUFFICES ASSUME NEW n \in Nodes PROVE \E p \in Nodes : p # n
    BY DEF Peer
<1> SUFFICES ASSUME Nodes = {n} PROVE FALSE
    OBVIOUS
<1>1. Cardinality({n}) = 1
    BY FS_Singleton, Zenon
<1> QED
    BY <1>1

-----------------------------------------------------------------------------
Builds == Callers \cup {None}

CallerSteps == {"Check", "Lock", "Sign1", "Sign2", "Await", "Join", "Returned", "Impossible"}

CallerStates == [do : CallerSteps, attempt : Nat, on : Builds]

SessionsOf == [init : Callers, share : Callers, contact : {0, 1, 2}, signer : {0, 1, 2}]

EstablishmentRequests ==
    [type : {"request"}, from : Nodes, build : Callers, sender : {1, 2}, signer : {1, 2}]

EstablishmentResponses ==
    [type : {"response"}, from : Nodes, build : Callers, ok : BOOLEAN,
     sender : {0, 1, 2}, signer : {0, 1, 2}]

RespondTasks ==
    [do : {"Respond"}, node : Nodes, message : EstablishmentRequests, id : {1, 2}]

BuildTasks ==
    [do : {"Create", "Insert"}, node : Nodes, message : EstablishmentResponses, build : Callers]

\* The types, and who sends what to whom: a request comes from the node of its
\* build, which also handles the response.
TypesOK ==
    /\ contactId \in [Nodes -> {1, 2}] /\ keys \in [Nodes -> {1, 2}]
    /\ caller \in [Callers -> CallerStates]
    /\ lock \in [Nodes -> Builds] /\ build \in [Nodes -> Builds]
    /\ store \in [Nodes -> SUBSET SessionsOf] /\ cache \in [Nodes -> SUBSET SessionsOf]
    /\ forgotten \in [Nodes -> SUBSET Callers]
    /\ open \subseteq Callers
    /\ \A m \in net :
          \/ m \in EstablishmentRequests /\ m.from = NodeOf[m.build]
          \/ m \in EstablishmentResponses
    /\ \A t \in tasks :
          \/ t \in RespondTasks /\ t.node = Peer(NodeOf[t.message.build])
          \/ t \in BuildTasks /\ t.node = NodeOf[t.message.build]

\* A handler goes on only with a message whose signature fits.
AttributionInv ==
    /\ AttributedToSigner
    /\ \A t \in tasks : t.do \in {"Respond", "Insert"} => Verified(t.node, t.message)

\* The lock of the build store is held by the caller that signs, and only while
\* there is no build.  A node that is not stray has the build in progress whose
\* request is open, so the response is paired with the build it answers.
KeyInv ==
    /\ KeyAgreement
    /\ \A c \in Callers : caller[c].do \in {"Sign1", "Sign2"} => lock[NodeOf[c]] = c
    /\ \A n \in Nodes : lock[n] # None => build[n] = None
    /\ \A b \in open : NodeOf[b] \notin stray => build[NodeOf[b]] = b
    /\ \A t \in tasks :
          t.do \in {"Create", "Insert"} /\ t.node \notin stray => t.build = t.message.build

\* Node p has the secret of build b, or had it and dropped it.
Readable(p, b) == b \in forgotten[p] \/ \E q \in ReceiveSessions(p) : q.init = b

\* The responder has its session before it answers.
ReadInv ==
    /\ PeerCanRead
    /\ \A m \in net : m.type = "response" /\ m.ok => Readable(Peer(NodeOf[m.build]), m.build)
    /\ \A t \in tasks :
          t.do \in {"Create", "Insert"} =>
              Readable(Peer(NodeOf[t.message.build]), t.message.build)

IInv == TypesOK /\ AttributionInv /\ KeyInv /\ ReadInv

LEMMA InitIInv == Init => IInv
<1> SUFFICES ASSUME Init PROVE IInv
    OBVIOUS
<1>1. TypesOK
    BY DEF Init, TypesOK, Caller, CallerStates, CallerSteps, Builds
<1>2. \A n \in Nodes : ReceiveSessions(n) = {} /\ store[n] = {}
    BY DEF Init, ReceiveSessions
<1>3. AttributionInv
    BY <1>2 DEF Init, AttributionInv, AttributedToSigner
<1>4. KeyInv
    BY <1>2 DEF Init, KeyInv, KeyAgreement, Caller
<1>5. ReadInv
    BY <1>2 DEF Init, ReadInv, PeerCanRead
<1> QED
    BY <1>1, <1>3, <1>4, <1>5 DEF IInv

-----------------------------------------------------------------------------
(* What the sessions a node has mean for the invariants. *)

LEMMA PeerCanReadIs ==
    PeerCanRead <=> \A n \in Nodes : \A s \in store[n] :
        NodeOf[s.init] = n /\ s.init = s.share => Readable(Peer(n), s.init)
BY DEF PeerCanRead, Readable

\* A session that goes is remembered as forgotten.
LEMMA StaysReadable ==
    ASSUME NEW p \in Nodes, NEW b, Readable(p, b),
           forgotten[p] \subseteq forgotten'[p],
           \A q \in ReceiveSessions(p) : q \in ReceiveSessions(p)' \/ q.init \in forgotten'[p]
    PROVE  Readable(p, b)'
BY DEF Readable

\* Nothing new comes: sessions, messages and tasks only go.
LEMMA FewerSessions ==
    ASSUME IInv, stray \subseteq stray', tasks' \subseteq tasks, net' \subseteq net,
           \A n \in Nodes : /\ store'[n] \subseteq store[n]
                            /\ ReceiveSessions(n)' \subseteq ReceiveSessions(n)
                            /\ forgotten[n] \subseteq forgotten'[n]
                            /\ \A q \in ReceiveSessions(n) :
                                  q \in ReceiveSessions(n)' \/ q.init \in forgotten'[n]
    PROVE  /\ AttributionInv' /\ KeyAgreement' /\ ReadInv'
           /\ \A t \in tasks' : t.do \in {"Create", "Insert"} /\ t.node \notin stray'
                                  => t.build = t.message.build
<1>1. AttributionInv'
    BY DEF IInv, AttributionInv, AttributedToSigner, Verified, HasKeys
<1>2. KeyAgreement'
    BY DEF IInv, KeyInv, KeyAgreement
<1>3. \A p \in Nodes : \A b : Readable(p, b) => Readable(p, b)'
    BY StaysReadable
<1>4. \A m \in net : NodeOf[m.build] \in Nodes
    BY DEF IInv, TypesOK, EstablishmentRequests, EstablishmentResponses
<1>5. \A t \in tasks : t.do \in {"Create", "Insert"} => NodeOf[t.message.build] \in Nodes
    BY DEF IInv, TypesOK, RespondTasks, BuildTasks, EstablishmentResponses
<1>6. PeerCanRead'
    <2>1. \A n \in Nodes : \A s \in store'[n] :
             NodeOf[s.init] = n /\ s.init = s.share => Readable(Peer(n), s.init)'
        BY <1>3, PeerCanReadIs, PeerIsOther DEF IInv, ReadInv
    <2> QED
        BY <2>1 DEF PeerCanRead, Readable
<1>7. ReadInv'
    BY <1>3, <1>4, <1>5, <1>6, PeerIsOther DEF IInv, ReadInv
<1> QED
    BY <1>1, <1>2, <1>7 DEF IInv, KeyInv

\* A session comes into use: it is added to those a node can receive with.
LEMMA StoresAdds ==
    ASSUME TypesOK, NEW n \in Nodes, NEW s \in SessionsOf, Stores(n, s)
    PROVE  /\ store' \in [Nodes -> SUBSET SessionsOf]
           /\ cache' \in [Nodes -> SUBSET SessionsOf]
           /\ ReceiveSessions(n)' = ReceiveSessions(n) \cup {s} /\ store'[n] = {s}
           /\ \A k \in Nodes \ {n} :
                 ReceiveSessions(k)' = ReceiveSessions(k) /\ store'[k] = store[k]
BY DEF TypesOK, Stores, ReceiveSessions

-----------------------------------------------------------------------------
(* The callers. *)

\* The steps of a caller that leave builds, sessions and messages alone.
LEMMA CallerMoves ==
    ASSUME IInv, UNCHANGED <<contactId, keys, build, sessions, open, net, tasks, stray>>,
           caller' \in [Callers -> CallerStates], lock' \in [Nodes -> Builds],
           \A c \in Callers : caller'[c].do \in {"Sign1", "Sign2"} => lock'[NodeOf[c]] = c,
           \A n \in Nodes : lock'[n] # None => build[n] = None
    PROVE  IInv'
<1> USE DEF sessions
<1>1. TypesOK'
    BY DEF IInv, TypesOK
<1>2. \A n \in Nodes : ReceiveSessions(n)' = ReceiveSessions(n)
    BY DEF ReceiveSessions
<1>3. /\ AttributionInv' /\ KeyAgreement' /\ ReadInv'
      /\ \A t \in tasks' : t.do \in {"Create", "Insert"} /\ t.node \notin stray'
                             => t.build = t.message.build
    BY <1>2, FewerSessions
<1>4. KeyInv'
    BY <1>3 DEF IInv, KeyInv
<1> QED
    BY <1>1, <1>3, <1>4 DEF IInv

LEMMA CallerStepsKeep ==
    ASSUME IInv, NEW c \in Callers,
           CheckStore(c) \/ JoinBuild(c) \/ StartBuild(c) \/ EstablishmentTimeout(c)
    PROVE  IInv'
<1> DEFINE n == NodeOf[c]
<1> USE DEF identity
<1>1. caller[c] \in CallerStates /\ n \in Nodes /\ caller \in [Callers -> CallerStates]
      /\ lock \in [Nodes -> Builds] /\ build \in [Nodes -> Builds]
    BY DEF IInv, TypesOK
<1>2. Returned \in CallerStates /\ Returned.do \notin {"Sign1", "Sign2"}
    BY DEF Returned, Caller, CallerStates, CallerSteps, Builds
<1>3. CASE CheckStore(c)
    <2>1. PICK x \in CallerStates : x.do \notin {"Sign1", "Sign2"}
                                    /\ caller' = [caller EXCEPT ![c] = x]
        <3>1. [caller[c] EXCEPT !.do = "Lock"] \in CallerStates
              /\ [caller[c] EXCEPT !.do = "Lock"].do = "Lock"
            BY <1>1 DEF CallerStates, CallerSteps
        <3> QED
            BY <1>2, <1>3, <3>1 DEF CheckStore
    <2>2. UNCHANGED <<contactId, keys, lock, build, sessions, open, net, tasks, stray>>
        BY <1>3 DEF CheckStore
    <2>3. \A d \in Callers : caller'[d].do \in {"Sign1", "Sign2"} => lock'[NodeOf[d]] = d
        BY <1>1, <2>1, <2>2 DEF IInv, KeyInv
    <2> QED
        BY <1>1, <2>1, <2>2, <2>3, CallerMoves DEF IInv, KeyInv
<1>4. CASE JoinBuild(c)
    <2>1. PICK x \in CallerStates : x.do \notin {"Sign1", "Sign2"}
                                    /\ caller' = [caller EXCEPT ![c] = x]
        <3> DEFINE x == [[caller[c] EXCEPT !.do = "Join"] EXCEPT !.on = build[n]]
        <3>1. x \in CallerStates /\ x.do = "Join"
            BY <1>1 DEF CallerStates, CallerSteps
        <3>2. caller' = [caller EXCEPT ![c] = x]
            BY <1>1, <1>4 DEF JoinBuild
        <3> HIDE DEF x
        <3> QED
            BY <3>1, <3>2
    <2>2. UNCHANGED <<contactId, keys, lock, build, sessions, open, net, tasks, stray>>
        BY <1>4 DEF JoinBuild
    <2>3. \A d \in Callers : caller'[d].do \in {"Sign1", "Sign2"} => lock'[NodeOf[d]] = d
        BY <1>1, <2>1, <2>2 DEF IInv, KeyInv
    <2> QED
        BY <1>1, <2>1, <2>2, <2>3, CallerMoves DEF IInv, KeyInv
<1>5. CASE StartBuild(c)
    <2>1. /\ caller' \in [Callers -> CallerStates]
          /\ \A d \in Callers \ {c} : caller'[d] = caller[d]
        BY <1>1, <1>5 DEF StartBuild, CallerStates, CallerSteps
    <2>2. /\ lock[n] = None /\ build[n] = None /\ lock' = [lock EXCEPT ![n] = c]
          /\ UNCHANGED <<contactId, keys, build, sessions, open, net, tasks, stray>>
        BY <1>5 DEF StartBuild, InProgress
    <2>3. c \in Builds /\ c # None
        BY DEF Builds
    <2>4. lock' \in [Nodes -> Builds] /\ lock'[n] = c
          /\ \A k \in Nodes \ {n} : lock'[k] = lock[k]
        BY <1>1, <2>2, <2>3
    <2>5. \A d \in Callers : caller'[d].do \in {"Sign1", "Sign2"} => lock'[NodeOf[d]] = d
        <3> SUFFICES ASSUME NEW d \in Callers, caller'[d].do \in {"Sign1", "Sign2"}
                     PROVE  lock'[NodeOf[d]] = d
            OBVIOUS
        <3>1. CASE d = c
            BY <2>4, <3>1
        <3>2. CASE d # c
            <4>1. lock[NodeOf[d]] = d /\ d # None /\ NodeOf[d] \in Nodes
                BY <2>1, <3>2 DEF IInv, KeyInv
            <4> QED
                BY <2>2, <2>4, <4>1
        <3> QED
            BY <3>1, <3>2
    <2>6. \A k \in Nodes : lock'[k] # None => build[k] = None
        BY <2>2, <2>4 DEF IInv, KeyInv
    <2> QED
        BY <2>1, <2>2, <2>4, <2>5, <2>6, CallerMoves
<1>6. CASE EstablishmentTimeout(c)
    <2>1. caller' = [caller EXCEPT ![c] = Returned]
          /\ UNCHANGED <<contactId, keys, lock, build, sessions, open, net, tasks, stray>>
        BY <1>6 DEF EstablishmentTimeout
    <2>2. \A d \in Callers : caller'[d].do \in {"Sign1", "Sign2"} => lock'[NodeOf[d]] = d
        BY <1>1, <1>2, <2>1 DEF IInv, KeyInv
    <2> QED
        BY <1>1, <1>2, <2>1, <2>2, CallerMoves DEF IInv, KeyInv
<1> QED
    BY <1>3, <1>4, <1>5, <1>6

LEMMA SendEstablishmentRequestKeeps ==
    ASSUME IInv, NEW c \in Callers, SendEstablishmentRequest(c)
    PROVE  IInv'
<1> DEFINE n == NodeOf[c]
           m == Request(c, IF caller[c].do = "Sign1" THEN 1 ELSE 2, keys[n])
<1>1. /\ n \in Nodes /\ caller[c].do \in {"Sign1", "Sign2"}
      /\ lock[n] = c /\ build[n] = None
    BY DEF IInv, TypesOK, SendEstablishmentRequest, KeyInv
<1>2. /\ net' = net \cup {m} /\ build' = [build EXCEPT ![n] = c]
      /\ open' = open \cup {c} /\ lock' = [lock EXCEPT ![n] = None]
      /\ caller' = [caller EXCEPT ![c] = Caller("Await", 1, c)]
      /\ UNCHANGED <<contactId, keys, sessions, tasks, stray>>
    BY DEF SendEstablishmentRequest, identity
<1>3. m \in EstablishmentRequests /\ m.from = NodeOf[m.build] /\ m.type = "request"
    BY <1>1 DEF IInv, TypesOK, Request, EstablishmentRequests
<1> HIDE DEF m
<1>4. Caller("Await", 1, c) \in CallerStates /\ Caller("Await", 1, c).do = "Await"
    BY DEF Caller, CallerStates, CallerSteps, Builds
<1>5. /\ caller' \in [Callers -> CallerStates] /\ caller'[c].do = "Await"
      /\ \A d \in Callers \ {c} : caller'[d] = caller[d]
    BY <1>2, <1>4 DEF IInv, TypesOK
<1>6. /\ lock' \in [Nodes -> Builds] /\ build' \in [Nodes -> Builds]
      /\ lock'[n] = None /\ build'[n] = c
      /\ \A k \in Nodes \ {n} : lock'[k] = lock[k] /\ build'[k] = build[k]
    BY <1>1, <1>2 DEF IInv, TypesOK, Builds
<1>7. TypesOK'
    BY <1>2, <1>3, <1>5, <1>6 DEF IInv, TypesOK, sessions
<1>8. \A k \in Nodes : ReceiveSessions(k)' = ReceiveSessions(k)
    BY <1>2 DEF ReceiveSessions, sessions
<1>9. AttributionInv'
    BY <1>2, <1>8 DEF IInv, AttributionInv, AttributedToSigner, Verified, HasKeys
<1>10. KeyInv'
    <2>1. KeyAgreement'
        BY <1>2, <1>8 DEF IInv, KeyInv, KeyAgreement
    <2>2. \A d \in Callers : caller'[d].do \in {"Sign1", "Sign2"} => lock'[NodeOf[d]] = d
        <3> SUFFICES ASSUME NEW d \in Callers \ {c}, caller[d].do \in {"Sign1", "Sign2"}
                     PROVE  lock'[NodeOf[d]] = d
            BY <1>5
        <3>1. lock[NodeOf[d]] = d /\ NodeOf[d] \in Nodes
            BY DEF IInv, KeyInv
        <3> QED
            BY <1>1, <1>6, <3>1
    <2>3. \A k \in Nodes : lock'[k] # None => build'[k] = None
        BY <1>6 DEF IInv, KeyInv
    <2>4. \A b \in open' : NodeOf[b] \notin stray' => build'[NodeOf[b]] = b
        <3> SUFFICES ASSUME NEW b \in open, b # c, NodeOf[b] \notin stray
                     PROVE  build'[NodeOf[b]] = b
            BY <1>2, <1>6
        <3>1. build[NodeOf[b]] = b /\ b \in Callers /\ NodeOf[b] \in Nodes
            BY DEF IInv, KeyInv, TypesOK
        <3> QED
            BY <1>1, <1>6, <3>1
    <2>5. \A t \in tasks' : t.do \in {"Create", "Insert"} /\ t.node \notin stray'
                              => t.build = t.message.build
        BY <1>2 DEF IInv, KeyInv
    <2> QED
        BY <2>1, <2>2, <2>3, <2>4, <2>5 DEF KeyInv
<1>11. ReadInv'
    <2>1. PeerCanRead'
        BY <1>2, <1>8, PeerIsOther DEF IInv, ReadInv, PeerCanRead, sessions
    <2>2. \A p \in Nodes : \A b : Readable(p, b) => Readable(p, b)'
        BY <1>2, <1>8 DEF Readable, sessions
    <2>3. \A x \in net : NodeOf[x.build] \in Nodes
        BY DEF IInv, TypesOK, EstablishmentRequests, EstablishmentResponses
    <2>4. \A t \in tasks : t.do \in {"Create", "Insert"} => NodeOf[t.message.build] \in Nodes
        BY DEF IInv, TypesOK, RespondTasks, BuildTasks, EstablishmentResponses
    <2> QED
        BY <1>2, <1>3, <2>1, <2>2, <2>3, <2>4, PeerIsOther DEF IInv, ReadInv
<1> QED
    BY <1>7, <1>9, <1>10, <1>11 DEF IInv

-----------------------------------------------------------------------------
(* The broadcast of a build. *)

\* It puts no caller before its signature.
LEMMA BroadcastSpares ==
    ASSUME IInv, NEW b, BroadcastError(b) \/ BroadcastSession(b)
    PROVE  /\ caller' \in [Callers -> CallerStates]
           /\ \A c \in Callers : caller'[c].do \in {"Sign1", "Sign2"}
                                   => caller[c].do \in {"Sign1", "Sign2"}
<1>1. \A c \in Callers : AfterError(c) \in CallerStates
                         /\ AfterError(c).do \notin {"Sign1", "Sign2"}
    BY DEF AfterError, Returned, Caller, CallerStates, CallerSteps, Builds
<1>2. Returned \in CallerStates /\ Returned.do \notin {"Sign1", "Sign2"}
    BY DEF Returned, Caller, CallerStates, CallerSteps, Builds
<1> QED
    BY <1>1, <1>2 DEF BroadcastError, BroadcastSession, IInv, TypesOK

\* A build may be cancelled when its node has no open request left, or is stray.
LEMMA CancelKeeps ==
    ASSUME IInv, NEW n \in Nodes, CancelBuild(n),
           UNCHANGED <<contactId, keys, lock, sessions, tasks>>,
           net' \subseteq net, open' \subseteq open, stray \subseteq stray',
           \A b \in open' : NodeOf[b] = n => n \in stray'
    PROVE  IInv'
<1>1. /\ build' = [build EXCEPT ![n] = None] /\ lock[n] = None
      /\ BroadcastError(build[n])
    BY DEF CancelBuild
<1>2. /\ build' \in [Nodes -> Builds] /\ build'[n] = None
      /\ \A k \in Nodes \ {n} : build'[k] = build[k]
    BY <1>1 DEF IInv, TypesOK, Builds
<1>3. TypesOK'
    BY <1>1, <1>2, BroadcastSpares DEF IInv, TypesOK, sessions
<1>4. \A k \in Nodes : ReceiveSessions(k)' = ReceiveSessions(k)
    BY DEF ReceiveSessions, sessions
<1>5. /\ AttributionInv' /\ KeyAgreement' /\ ReadInv'
      /\ \A t \in tasks' : t.do \in {"Create", "Insert"} /\ t.node \notin stray'
                             => t.build = t.message.build
    BY <1>4, FewerSessions DEF sessions
<1>6. \A c \in Callers : caller'[c].do \in {"Sign1", "Sign2"} => lock'[NodeOf[c]] = c
    BY <1>1, BroadcastSpares DEF IInv, KeyInv
<1>7. \A k \in Nodes : lock'[k] # None => build'[k] = None
    BY <1>2 DEF IInv, KeyInv
<1>8. \A b \in open' : NodeOf[b] \notin stray' => build'[NodeOf[b]] = b
    BY <1>2 DEF IInv, KeyInv, TypesOK
<1> QED
    BY <1>3, <1>5, <1>6, <1>7, <1>8 DEF IInv, KeyInv

\* The node of an open build that is not stray has no other open request.
LEMMA OneOpen ==
    ASSUME IInv, NEW a \in open, NEW b \in open, NodeOf[a] = NodeOf[b], NodeOf[a] \notin stray
    PROVE  a = b
BY DEF IInv, KeyInv

LEMMA EndedRequestKeeps ==
    ASSUME IInv, NEW b \in open, open' = open \ {b}, CancelBuild(NodeOf[b]), net' \subseteq net,
           UNCHANGED <<contactId, keys, lock, sessions, tasks, stray>>
    PROVE  IInv'
<1>1. NodeOf[b] \in Nodes
    BY DEF IInv, TypesOK
<1>2. \A x \in open' : NodeOf[x] = NodeOf[b] => NodeOf[b] \in stray'
    BY OneOpen
<1> QED
    BY <1>1, <1>2, CancelKeeps

\* A node that cancels a build of an open request becomes stray.
LEMMA StrayCancelKeeps ==
    ASSUME IInv, NEW n \in Nodes, CancelBuild(n), net' \subseteq net,
           stray' = IF build[n] \in open THEN stray \cup {n} ELSE stray,
           UNCHANGED <<contactId, keys, lock, sessions, open, tasks>>
    PROVE  IInv'
<1>1. \A b \in open' : NodeOf[b] = n => n \in stray'
    BY DEF IInv, KeyInv
<1> QED
    BY <1>1, CancelKeeps

LEMMA CancellingStepsKeep ==
    ASSUME IInv
    PROVE  /\ \A b \in Callers : OutboundFailure(b) => IInv'
           /\ \A m \in net : ReceiveErrorResponse(m) \/ InboundFailure(m) => IInv'
           /\ \A n \in Nodes : ClearBuilds(n) => IInv'
<1>1. ASSUME NEW b \in Callers, OutboundFailure(b) PROVE IInv'
    BY <1>1, EndedRequestKeeps DEF OutboundFailure, identity
<1>2. ASSUME NEW m \in net, ReceiveErrorResponse(m) PROVE IInv'
    <2>1. m.build \in open /\ open' = open \ {m.build} /\ net' \subseteq net
        BY <1>2 DEF ReceiveErrorResponse, Arrives
    <2> QED
        BY <1>2, <2>1, EndedRequestKeeps DEF ReceiveErrorResponse, identity
<1>3. ASSUME NEW m \in net, InboundFailure(m) PROVE IInv'
    <2>1. m.from \in Nodes
        BY DEF IInv, TypesOK, EstablishmentRequests, EstablishmentResponses
    <2>2. net' \subseteq net
        BY <1>3 DEF InboundFailure
    <2> QED
        BY <1>3, <2>1, <2>2, StrayCancelKeeps DEF InboundFailure, identity
<1>4. ASSUME NEW n \in Nodes, ClearBuilds(n) PROVE IInv'
    BY <1>4, StrayCancelKeeps DEF ClearBuilds
<1> QED
    BY <1>1, <1>2, <1>3, <1>4

-----------------------------------------------------------------------------
(* The responder. *)

LEMMA VerifyRequestKeeps ==
    ASSUME IInv, NEW m \in net, VerifyRequest(m)
    PROVE  IInv'
<1> DEFINE n == Peer(m.from)
           t == [do |-> "Respond", node |-> n, message |-> m, id |-> contactId[n]]
           a == Answer(n, m, FALSE, 0, 0)
<1>1. m \in EstablishmentRequests /\ m.from = NodeOf[m.build] /\ n \in Nodes
    <2>1. m \in EstablishmentRequests /\ m.from = NodeOf[m.build]
        BY DEF IInv, TypesOK, VerifyRequest, EstablishmentResponses
    <2>2. m.from \in Nodes
        BY <2>1 DEF EstablishmentRequests
    <2> QED
        BY <2>1, <2>2, PeerIsOther
<1>2. UNCHANGED <<contactId, keys, caller, lock, build, sessions, open, stray>>
    BY DEF VerifyRequest, identity
<1>3. \A k \in Nodes : ReceiveSessions(k)' = ReceiveSessions(k) /\ store'[k] = store[k]
                       /\ forgotten'[k] = forgotten[k]
    BY <1>2 DEF ReceiveSessions, sessions
<1>4. CASE Verified(n, m) /\ tasks' = tasks \cup {t} /\ net' = net \ {m}
    <2>1. /\ t \in RespondTasks /\ t.node = Peer(NodeOf[t.message.build])
          /\ t.do = "Respond" /\ Verified(t.node, t.message)
        BY <1>1, <1>4 DEF RespondTasks, IInv, TypesOK
    <2> HIDE DEF t
    <2>2. TypesOK'
        BY <1>2, <1>4, <2>1 DEF IInv, TypesOK, sessions
    <2>3. AttributionInv'
        BY <1>3, <1>4, <2>1 DEF IInv, AttributionInv, AttributedToSigner, Verified, HasKeys
    <2>4. KeyInv'
        BY <1>2, <1>3, <1>4, <2>1 DEF IInv, KeyInv, KeyAgreement
    <2>5. ReadInv'
        BY <1>2, <1>3, <1>4, <2>1, PeerIsOther
           DEF IInv, TypesOK, ReadInv, PeerCanRead, Readable, ReceiveSessions, sessions
    <2> QED
        BY <2>2, <2>3, <2>4, <2>5 DEF IInv
<1>5. CASE net' = (net \ {m}) \cup {a} /\ UNCHANGED tasks
    <2>1. a \in EstablishmentResponses /\ a.ok = FALSE
        BY <1>1 DEF Answer, EstablishmentRequests, EstablishmentResponses
    <2> HIDE DEF a
    <2>2. TypesOK'
        BY <1>2, <1>5, <2>1 DEF IInv, TypesOK, sessions
    <2>3. AttributionInv'
        BY <1>3, <1>5 DEF IInv, AttributionInv, AttributedToSigner, Verified, HasKeys
    <2>4. KeyInv'
        BY <1>2, <1>3, <1>5 DEF IInv, KeyInv, KeyAgreement
    <2>5. ReadInv'
        BY <1>2, <1>3, <1>5, <2>1, PeerIsOther
           DEF IInv, TypesOK, ReadInv, PeerCanRead, Readable, ReceiveSessions, sessions
    <2> QED
        BY <2>2, <2>3, <2>4, <2>5 DEF IInv
<1> QED
    BY <1>4, <1>5 DEF VerifyRequest

\* Sessions come into use and tasks end; what was readable remains so.
LEMMA StoresKeepsReadable ==
    ASSUME IInv, NEW n \in Nodes, NEW s \in SessionsOf, Stores(n, s), UNCHANGED forgotten,
           NodeOf[s.init] = n /\ s.init = s.share => Readable(Peer(n), s.init)
    PROVE  /\ PeerCanRead'
           /\ \A p \in Nodes : \A b : Readable(p, b) => Readable(p, b)'
           /\ Readable(n, s.init)'
<1>1. \A p \in Nodes : \A b : Readable(p, b) => Readable(p, b)'
    BY StoresAdds DEF IInv, Readable
<1>2. Readable(n, s.init)'
    BY StoresAdds DEF IInv, Readable
<1>3. \A k \in Nodes : \A x \in store'[k] :
         NodeOf[x.init] = k /\ x.init = x.share => Readable(Peer(k), x.init)'
    <2> SUFFICES ASSUME NEW k \in Nodes, NEW x \in store'[k], NodeOf[x.init] = k, x.init = x.share
                 PROVE  Readable(Peer(k), x.init)
        BY <1>1, PeerIsOther
    <2>1. CASE k = n
        BY <2>1, StoresAdds DEF IInv
    <2>2. CASE k # n
        <3>1. x \in store[k]
            BY <2>2, StoresAdds DEF IInv
        <3> QED
            BY <3>1, PeerCanReadIs DEF IInv, ReadInv
    <2> QED
        BY <2>1, <2>2
<1>4. PeerCanRead'
    BY <1>3 DEF PeerCanRead, Readable
<1> QED
    BY <1>1, <1>2, <1>4

LEMMA RespondToRequestKeeps ==
    ASSUME IInv, NEW t \in tasks, RespondToRequest(t)
    PROVE  IInv'
<1> DEFINE n == t.node
           m == t.message
           s == ResponderSession(n, m)
           a == Answer(n, m, TRUE, t.id, keys[n])
<1>1. t \in RespondTasks /\ n = Peer(NodeOf[m.build]) /\ Verified(n, m)
    BY DEF IInv, TypesOK, AttributionInv, RespondToRequest, BuildTasks
<1>2. n \in Nodes /\ m \in EstablishmentRequests /\ NodeOf[m.build] \in Nodes
      /\ m.build \in Callers /\ NodeOf[m.build] # n /\ t.id \in {1, 2} /\ keys[n] \in {1, 2}
    BY <1>1, PeerIsOther DEF RespondTasks, EstablishmentRequests, IInv, TypesOK
<1>3. /\ s \in SessionsOf /\ s.init = m.build /\ s.share = m.build
      /\ s.contact # 0 => s.contact = s.signer
    BY <1>1, <1>2 DEF ResponderSession, NewSession, SessionsOf, EstablishmentRequests, Verified
<1>4. a \in EstablishmentResponses /\ a.build = m.build
    BY <1>2 DEF Answer, EstablishmentResponses
<1>5. /\ Stores(n, s) /\ net' = net \cup {a} /\ tasks' = tasks \ {t}
      /\ UNCHANGED <<contactId, keys, caller, lock, build, open, stray, forgotten>>
    BY DEF RespondToRequest, identity
<1> HIDE DEF s, a, n, m
<1>6. TypesOK'
    BY <1>2, <1>3, <1>4, <1>5, StoresAdds DEF IInv, TypesOK
<1>7. AttributionInv'
    <2>1. AttributedToSigner'
        BY <1>2, <1>3, <1>5, StoresAdds DEF IInv, AttributionInv, AttributedToSigner
    <2> QED
        BY <1>5, <2>1 DEF IInv, AttributionInv, Verified, HasKeys
<1>8. KeyInv'
    <2>1. KeyAgreement'
        BY <1>2, <1>3, <1>5, StoresAdds DEF IInv, KeyInv, KeyAgreement
    <2> QED
        BY <1>5, <2>1 DEF IInv, KeyInv
<1>9. ReadInv'
    <2>1. /\ PeerCanRead'
          /\ \A p \in Nodes : \A b : Readable(p, b) => Readable(p, b)'
          /\ Readable(n, s.init)'
        BY <1>2, <1>3, <1>5, StoresKeepsReadable
    <2>2. \A x \in net : NodeOf[x.build] \in Nodes
        BY DEF IInv, TypesOK, EstablishmentRequests, EstablishmentResponses
    <2>3. \A x \in tasks : x.do \in {"Create", "Insert"} => NodeOf[x.message.build] \in Nodes
        BY DEF IInv, TypesOK, RespondTasks, BuildTasks, EstablishmentResponses
    <2>4. Readable(Peer(NodeOf[m.build]), m.build)'
        BY <1>1, <1>3, <2>1
    <2>5. \A x \in net' : x \in net \/ x.build = m.build
        BY <1>4, <1>5
    <2>6. \A x \in net' :
             x.type = "response" /\ x.ok => Readable(Peer(NodeOf[x.build]), x.build)'
        BY <2>1, <2>2, <2>4, <2>5, PeerIsOther DEF IInv, ReadInv
    <2> QED
        BY <1>5, <2>1, <2>3, <2>6, PeerIsOther DEF IInv, ReadInv
<1> QED
    BY <1>6, <1>7, <1>8, <1>9 DEF IInv

-----------------------------------------------------------------------------
(* The initiator. *)

LEMMA TakeBuildKeeps ==
    ASSUME IInv, NEW m \in net, TakeBuild(m)
    PROVE  IInv'
<1> DEFINE n == NodeOf[m.build]
           t == [do |-> "Create", node |-> n, message |-> m, build |-> build[n]]
<1>1. /\ m.type = "response" /\ m.ok /\ m.build \in open /\ lock[n] = None
      /\ net' = net \ {m} /\ open' = open \ {m.build}
      /\ build' = [build EXCEPT ![n] = None]
      /\ tasks' = IF build[n] = None THEN tasks ELSE tasks \cup {t}
      /\ UNCHANGED <<contactId, keys, caller, lock, sessions, stray>>
    BY DEF TakeBuild, Arrives, identity
<1>2. m \in EstablishmentResponses /\ n \in Nodes
    BY <1>1 DEF IInv, TypesOK, EstablishmentRequests, EstablishmentResponses
<1>3. build[n] # None => /\ t \in BuildTasks /\ t.node = n /\ t.message = m
                         /\ t.build = build[n] /\ t.do = "Create"
    BY <1>2 DEF BuildTasks, IInv, TypesOK, Builds
<1>4. /\ build' \in [Nodes -> Builds] /\ build'[n] = None
      /\ \A k \in Nodes \ {n} : build'[k] = build[k]
    BY <1>1, <1>2 DEF IInv, TypesOK, Builds
<1> HIDE DEF t
<1>5. \A x \in tasks' : x \in tasks \/ (x = t /\ build[n] # None)
    BY <1>1
<1>6. TypesOK'
    BY <1>1, <1>3, <1>4, <1>5 DEF IInv, TypesOK, sessions
<1>7. \A k \in Nodes : ReceiveSessions(k)' = ReceiveSessions(k) /\ store'[k] = store[k]
                       /\ forgotten'[k] = forgotten[k]
    BY <1>1 DEF ReceiveSessions, sessions
<1>8. AttributionInv'
    BY <1>3, <1>5, <1>7 DEF IInv, AttributionInv, AttributedToSigner, Verified, HasKeys
<1>9. KeyInv'
    <2>1. KeyAgreement'
        BY <1>1, <1>7 DEF IInv, KeyInv, KeyAgreement
    <2>2. \A k \in Nodes : lock'[k] # None => build'[k] = None
        BY <1>1, <1>4 DEF IInv, KeyInv
    <2>3. \A b \in open' : NodeOf[b] \notin stray' => build'[NodeOf[b]] = b
        <3> SUFFICES ASSUME NEW b \in open, b # m.build, NodeOf[b] \notin stray
                     PROVE  build'[NodeOf[b]] = b
            BY <1>1
        <3>1. NodeOf[b] \in Nodes /\ NodeOf[b] # n /\ build[NodeOf[b]] = b
            BY <1>1, OneOpen DEF IInv, TypesOK, KeyInv
        <3> QED
            BY <1>4, <3>1
    <2>4. n \notin stray => build[n] = m.build
        BY <1>1 DEF IInv, KeyInv
    <2>5. \A x \in tasks' : x.do \in {"Create", "Insert"} /\ x.node \notin stray'
                              => x.build = x.message.build
        BY <1>1, <1>3, <1>5, <2>4 DEF IInv, KeyInv
    <2> QED
        BY <1>1, <2>1, <2>2, <2>3, <2>5 DEF IInv, KeyInv
<1>10. ReadInv'
    <2>1. \A p \in Nodes : \A b : Readable(p, b) => Readable(p, b)'
        BY <1>7 DEF Readable
    <2>2. PeerCanRead'
        BY <1>7, PeerIsOther DEF IInv, ReadInv, PeerCanRead
    <2>3. \A x \in net : NodeOf[x.build] \in Nodes
        BY DEF IInv, TypesOK, EstablishmentRequests, EstablishmentResponses
    <2>4. \A x \in tasks : x.do \in {"Create", "Insert"} => NodeOf[x.message.build] \in Nodes
        BY DEF IInv, TypesOK, RespondTasks, BuildTasks, EstablishmentResponses
    <2>5. Readable(Peer(NodeOf[m.build]), m.build)'
        BY <1>1, <1>2, <2>1, PeerIsOther DEF IInv, ReadInv
    <2> QED
        BY <1>1, <1>3, <1>5, <2>1, <2>2, <2>3, <2>4, <2>5, PeerIsOther DEF IInv, ReadInv
<1> QED
    BY <1>6, <1>8, <1>9, <1>10 DEF IInv

LEMMA CreateSessionKeeps ==
    ASSUME IInv, NEW t \in tasks, CreateSession(t)
    PROVE  IInv'
<1> DEFINE u == [t EXCEPT !.do = "Insert"]
<1>1. t \in BuildTasks /\ t.node = NodeOf[t.message.build] /\ t.do = "Create"
      /\ NodeOf[t.message.build] \in Nodes
    BY DEF IInv, TypesOK, CreateSession, RespondTasks, BuildTasks, EstablishmentResponses
<1>2. UNCHANGED <<contactId, keys, lock, build, sessions, open, net, stray>>
    BY DEF CreateSession, identity
<1>3. BroadcastError(t.build) \/ BroadcastSession(t.build)
    BY DEF CreateSession
<1>4. \A x \in tasks' : x \in tasks \/ (x = u /\ Verified(t.node, t.message))
    BY DEF CreateSession, Unpacks
<1>5. /\ u \in BuildTasks /\ u.node = t.node /\ u.message = t.message /\ u.build = t.build
      /\ u.do = "Insert"
    BY <1>1 DEF BuildTasks
<1> HIDE DEF u
<1>6. TypesOK'
    BY <1>1, <1>2, <1>3, <1>4, <1>5, BroadcastSpares DEF IInv, TypesOK, sessions
<1>7. \A k \in Nodes : ReceiveSessions(k)' = ReceiveSessions(k) /\ store'[k] = store[k]
                       /\ forgotten'[k] = forgotten[k]
    BY <1>2 DEF ReceiveSessions, sessions
<1>8. AttributionInv'
    BY <1>4, <1>5, <1>7 DEF IInv, AttributionInv, AttributedToSigner, Verified, HasKeys
<1>9. KeyInv'
    <2>1. KeyAgreement'
        BY <1>2, <1>7 DEF IInv, KeyInv, KeyAgreement
    <2>2. \A c \in Callers : caller'[c].do \in {"Sign1", "Sign2"} => lock'[NodeOf[c]] = c
        BY <1>2, <1>3, BroadcastSpares DEF IInv, KeyInv
    <2>3. \A x \in tasks' : x.do \in {"Create", "Insert"} /\ x.node \notin stray'
                              => x.build = x.message.build
        BY <1>1, <1>2, <1>4, <1>5 DEF IInv, KeyInv
    <2> QED
        BY <1>2, <2>1, <2>2, <2>3 DEF IInv, KeyInv
<1>10. ReadInv'
    <2>1. \A p \in Nodes : \A b : Readable(p, b) => Readable(p, b)'
        BY <1>7 DEF Readable
    <2>2. PeerCanRead'
        BY <1>7, PeerIsOther DEF IInv, ReadInv, PeerCanRead
    <2>3. \A x \in net : NodeOf[x.build] \in Nodes
        BY DEF IInv, TypesOK, EstablishmentRequests, EstablishmentResponses
    <2>4. \A x \in tasks : x.do \in {"Create", "Insert"} => NodeOf[x.message.build] \in Nodes
        BY DEF IInv, TypesOK, RespondTasks, BuildTasks, EstablishmentResponses
    <2> QED
        BY <1>1, <1>2, <1>4, <1>5, <2>1, <2>2, <2>3, <2>4, PeerIsOther DEF IInv, ReadInv
<1> QED
    BY <1>6, <1>8, <1>9, <1>10 DEF IInv

LEMMA InsertSessionKeeps ==
    ASSUME IInv, NEW t \in tasks, InsertSession(t)
    PROVE  IInv'
<1> DEFINE n == t.node
           m == t.message
           s == InitiatorSession(n, t.build, m)
<1>1. t \in BuildTasks /\ n = NodeOf[m.build] /\ t.do = "Insert" /\ Verified(n, m)
    BY DEF IInv, TypesOK, AttributionInv, InsertSession, RespondTasks
<1>2. n \in Nodes /\ m \in EstablishmentResponses /\ m.build \in Callers /\ t.build \in Callers
    BY <1>1 DEF BuildTasks, EstablishmentResponses
<1>3. /\ s \in SessionsOf /\ s.init = t.build /\ s.share = m.build
      /\ s.contact # 0 => s.contact = s.signer
    BY <1>1, <1>2 DEF InitiatorSession, NewSession, SessionsOf, EstablishmentResponses, Verified
<1>4. n \notin stray => t.build = m.build
    BY <1>1 DEF IInv, KeyInv
<1>5. Readable(Peer(n), m.build)
    BY <1>1 DEF IInv, ReadInv
<1>6. /\ Stores(n, s) /\ tasks' = tasks \ {t}
      /\ UNCHANGED <<contactId, keys, caller, lock, build, open, net, stray, forgotten>>
    BY DEF InsertSession, identity
<1> HIDE DEF s, n, m
<1>7. TypesOK'
    BY <1>2, <1>3, <1>6, StoresAdds DEF IInv, TypesOK
<1>8. AttributionInv'
    <2>1. AttributedToSigner'
        BY <1>2, <1>3, <1>6, StoresAdds DEF IInv, AttributionInv, AttributedToSigner
    <2> QED
        BY <1>6, <2>1 DEF IInv, AttributionInv, Verified, HasKeys
<1>9. KeyInv'
    <2>1. KeyAgreement'
        BY <1>2, <1>3, <1>4, <1>6, StoresAdds DEF IInv, KeyInv, KeyAgreement
    <2> QED
        BY <1>6, <2>1 DEF IInv, KeyInv
<1>10. ReadInv'
    <2>1. /\ PeerCanRead'
          /\ \A p \in Nodes : \A b : Readable(p, b) => Readable(p, b)'
        BY <1>2, <1>3, <1>5, <1>6, StoresKeepsReadable
    <2>2. \A x \in net : NodeOf[x.build] \in Nodes
        BY DEF IInv, TypesOK, EstablishmentRequests, EstablishmentResponses
    <2>3. \A x \in tasks : x.do \in {"Create", "Insert"} => NodeOf[x.message.build] \in Nodes
        BY DEF IInv, TypesOK, RespondTasks, BuildTasks, EstablishmentResponses
    <2> QED
        BY <1>6, <2>1, <2>2, <2>3, PeerIsOther DEF IInv, ReadInv
<1> QED
    BY <1>7, <1>8, <1>9, <1>10 DEF IInv

-----------------------------------------------------------------------------
(* Sessions go, and identities change. *)

LEMMA SessionsGo ==
    ASSUME IInv, UNCHANGED <<contactId, keys, caller, lock, build, open, net, tasks, stray>>,
           store' \in [Nodes -> SUBSET SessionsOf], cache' \in [Nodes -> SUBSET SessionsOf],
           forgotten' \in [Nodes -> SUBSET Callers],
           \A n \in Nodes : /\ store'[n] \subseteq store[n]
                            /\ cache'[n] \subseteq ReceiveSessions(n)
                            /\ forgotten[n] \subseteq forgotten'[n]
                            /\ \A q \in ReceiveSessions(n) :
                                  q \in store'[n] \cup cache'[n] \/ q.init \in forgotten'[n]
    PROVE  IInv'
<1>1. TypesOK'
    BY DEF IInv, TypesOK
<1>2. \A n \in Nodes : /\ ReceiveSessions(n)' \subseteq ReceiveSessions(n)
                       /\ \A q \in ReceiveSessions(n) :
                             q \in ReceiveSessions(n)' \/ q.init \in forgotten'[n]
    BY DEF ReceiveSessions
<1>3. /\ AttributionInv' /\ KeyAgreement' /\ ReadInv'
      /\ \A t \in tasks' : t.do \in {"Create", "Insert"} /\ t.node \notin stray'
                             => t.build = t.message.build
    BY <1>2, FewerSessions
<1> QED
    BY <1>1, <1>3 DEF IInv, KeyInv

LEMMA ClearSessionKeeps ==
    ASSUME IInv, NEW n \in Nodes, ClearSession(n)
    PROVE  IInv'
<1>1. /\ cache' = [cache EXCEPT ![n] = @ \cup store[n]] /\ store' = [store EXCEPT ![n] = {}]
      /\ UNCHANGED <<contactId, keys, caller, lock, build, open, net, tasks, stray, forgotten>>
    BY DEF ClearSession, identity
<1>2. store' \in [Nodes -> SUBSET SessionsOf] /\ cache' \in [Nodes -> SUBSET SessionsOf]
      /\ forgotten' \in [Nodes -> SUBSET Callers]
    BY <1>1 DEF IInv, TypesOK
<1>3. \A k \in Nodes : /\ store'[k] \subseteq store[k]
                       /\ cache'[k] \subseteq ReceiveSessions(k)
                       /\ forgotten[k] \subseteq forgotten'[k]
                       /\ \A q \in ReceiveSessions(k) : q \in store'[k] \cup cache'[k]
    BY <1>1 DEF IInv, TypesOK, ReceiveSessions
<1> QED
    BY <1>1, <1>2, <1>3, SessionsGo

LEMMA ExpireSessionKeeps ==
    ASSUME IInv, NEW n \in Nodes, NEW s \in ReceiveSessions(n), ExpireSession(n, s)
    PROVE  IInv'
<1>1. /\ cache' = [cache EXCEPT ![n] = @ \ {s}] /\ store' = [store EXCEPT ![n] = @ \ {s}]
      /\ forgotten' = [forgotten EXCEPT ![n] = @ \cup {s.init}]
      /\ UNCHANGED <<contactId, keys, caller, lock, build, open, net, tasks, stray>>
    BY DEF ExpireSession, identity
<1>2. s.init \in Callers
    BY DEF IInv, TypesOK, ReceiveSessions, SessionsOf
<1>3. store' \in [Nodes -> SUBSET SessionsOf] /\ cache' \in [Nodes -> SUBSET SessionsOf]
      /\ forgotten' \in [Nodes -> SUBSET Callers]
    BY <1>1, <1>2 DEF IInv, TypesOK
<1>4. \A k \in Nodes : /\ store'[k] \subseteq store[k]
                       /\ cache'[k] \subseteq ReceiveSessions(k)
                       /\ forgotten[k] \subseteq forgotten'[k]
                       /\ \A q \in ReceiveSessions(k) :
                             q \in store'[k] \cup cache'[k] \/ q.init \in forgotten'[k]
    BY <1>1 DEF IInv, TypesOK, ReceiveSessions
<1> QED
    BY <1>1, <1>3, <1>4, SessionsGo

LEMMA ClearStoreKeeps ==
    ASSUME IInv, NEW n \in Nodes, ClearStore(n)
    PROVE  IInv'
<1>1. /\ store' = [store EXCEPT ![n] = {}]
      /\ forgotten' = [forgotten EXCEPT ![n] = @ \cup {s.init : s \in store[n]}]
      /\ UNCHANGED <<contactId, keys, caller, lock, build, cache, open, net, tasks, stray>>
    BY DEF ClearStore
<1>2. {s.init : s \in store[n]} \subseteq Callers
    BY DEF IInv, TypesOK, SessionsOf
<1>3. store' \in [Nodes -> SUBSET SessionsOf] /\ cache' \in [Nodes -> SUBSET SessionsOf]
      /\ forgotten' \in [Nodes -> SUBSET Callers]
    BY <1>1, <1>2 DEF IInv, TypesOK
<1>4. \A k \in Nodes : /\ store'[k] \subseteq store[k]
                       /\ cache'[k] \subseteq ReceiveSessions(k)
                       /\ forgotten[k] \subseteq forgotten'[k]
                       /\ \A q \in ReceiveSessions(k) :
                             q \in store'[k] \cup cache'[k] \/ q.init \in forgotten'[k]
    BY <1>1 DEF IInv, TypesOK, ReceiveSessions
<1> QED
    BY <1>1, <1>3, <1>4, SessionsGo

LEMMA RenameKeeps ==
    ASSUME IInv, NEW n \in Nodes, RenameContactId(n) \/ RenameKeys(n)
    PROVE  IInv'
<1>1. UNCHANGED <<caller, lock, build, store, cache, forgotten, open, net, tasks, stray>>
    BY DEF RenameContactId, RenameKeys, sessions
<1>2. contactId' \in [Nodes -> {1, 2}] /\ keys' \in [Nodes -> {1, 2}]
    BY DEF RenameContactId, RenameKeys, IInv, TypesOK
<1>3. TypesOK'
    BY <1>1, <1>2 DEF IInv, TypesOK
<1>4. AttributionInv' /\ KeyInv' /\ ReadInv'
    BY <1>1 DEF IInv, AttributionInv, AttributedToSigner, Verified, HasKeys, KeyInv,
       KeyAgreement, ReadInv, PeerCanRead, Readable, ReceiveSessions
<1> QED
    BY <1>3, <1>4 DEF IInv

-----------------------------------------------------------------------------
LEMMA NextKeepsIInv == IInv /\ [Next]_vars => IInv'
<1> SUFFICES ASSUME IInv, [Next]_vars PROVE IInv'
    OBVIOUS
<1>1. ASSUME NEW c \in Callers,
             CheckStore(c) \/ JoinBuild(c) \/ StartBuild(c) \/ EstablishmentTimeout(c)
      PROVE  IInv'
    BY <1>1, CallerStepsKeep
<1>2. ASSUME NEW c \in Callers, SendEstablishmentRequest(c) PROVE IInv'
    BY <1>2, SendEstablishmentRequestKeeps
<1>3. ASSUME NEW c \in Callers, OutboundFailure(c) PROVE IInv'
    BY <1>3, CancellingStepsKeep
<1>4. ASSUME NEW m \in net, VerifyRequest(m) PROVE IInv'
    BY <1>4, VerifyRequestKeeps
<1>5. ASSUME NEW m \in net, ReceiveErrorResponse(m) \/ InboundFailure(m) PROVE IInv'
    BY <1>5, CancellingStepsKeep
<1>6. ASSUME NEW m \in net, TakeBuild(m) PROVE IInv'
    BY <1>6, TakeBuildKeeps
<1>7. ASSUME NEW t \in tasks, RespondToRequest(t) PROVE IInv'
    BY <1>7, RespondToRequestKeeps
<1>8. ASSUME NEW t \in tasks, CreateSession(t) PROVE IInv'
    BY <1>8, CreateSessionKeeps
<1>9. ASSUME NEW t \in tasks, InsertSession(t) PROVE IInv'
    BY <1>9, InsertSessionKeeps
<1>10. ASSUME NEW n \in Nodes, ClearSession(n) PROVE IInv'
    BY <1>10, ClearSessionKeeps
<1>11. ASSUME NEW n \in Nodes, NEW s \in ReceiveSessions(n), ExpireSession(n, s) PROVE IInv'
    BY <1>11, ExpireSessionKeeps
<1>12. ASSUME NEW n \in Nodes, RenameContactId(n) \/ RenameKeys(n) PROVE IInv'
    BY <1>12, RenameKeeps
<1>13. ASSUME NEW n \in Nodes, ClearBuilds(n) PROVE IInv'
    BY <1>13, CancellingStepsKeep
<1>14. ASSUME NEW n \in Nodes, ClearStore(n) PROVE IInv'
    BY <1>14, ClearStoreKeeps
<1>15. CASE UNCHANGED vars
    BY <1>15 DEF vars, IInv, TypesOK, AttributionInv, AttributedToSigner, Verified, HasKeys,
       KeyInv, KeyAgreement, ReadInv, PeerCanRead, Readable, ReceiveSessions
<1> QED
    BY <1>1, <1>2, <1>3, <1>4, <1>5, <1>6, <1>7, <1>8, <1>9, <1>10, <1>11, <1>12, <1>13, <1>14,
       <1>15 DEF Next

LEMMA IInvHolds == Spec => []IInv
BY InitIInv, NextKeepsIInv, PTL DEF Spec

\* to_session, to_session_and_response: no session is attributed to a contact that
\* did not sign for it, however the changes of identity and the exchanges of
\* the two nodes interleave.
THEOREM SessionsAreAttributedToSigners == Spec => []AttributedToSigner
<1>1. IInv => AttributedToSigner
    BY DEF IInv, AttributionInv
<1> QED
    BY <1>1, IInvHolds, PTL

\* handle_session_establishment_response pairs a response with whatever build is in
\* progress; that is the build it answers, at every node that never dropped a
\* build whose request was open.
THEOREM BothSidesHaveTheSecret == Spec => []KeyAgreement
<1>1. IInv => KeyAgreement
    BY DEF IInv, KeyInv
<1> QED
    BY <1>1, IInvHolds, PTL

\* handle_session_establishment_request stores the responder's session before it
\* answers, and expired_session_cache keeps what is replaced: the peer can read
\* what is sent with a session negotiated from here, unless it has forgotten it.
THEOREM PeersCanRead == Spec => []PeerCanRead
<1>1. IInv => PeerCanRead
    BY DEF IInv, ReadInv
<1> QED
    BY <1>1, IInvHolds, PTL

-----------------------------------------------------------------------------
(***************************************************************************)
(* The nonces of an established session: the replay filter accepts no      *)
(* nonce twice and keeps exact books, for every window size and every size *)
(* of the nonce space.                                                     *)
(***************************************************************************)

(***************************************************************************)
(* A non-empty set of natural numbers has a least element: what the loop   *)
(* of is_valid needs in order to stop somewhere.                           *)
(***************************************************************************)
LEMMA LeastElement ==
    ASSUME NEW T \in SUBSET Nat, T # {}
    PROVE  \E x \in T : \A y \in T : x <= y
<1> DEFINE R == OpToRel(<, Nat)
<1>1. IsWellFoundedOn(R, Nat)
    BY NatLessThanWellFounded
<1>2. \A a, b \in Nat : a < b => <<a, b>> \in R
    BY DEF OpToRel
<1> HIDE DEF R
<1>3. PICK x \in T : \A y \in T : ~(<<y, x>> \in R)
    BY <1>1, WFMin
<1>4. \A y \in T : x \in Nat /\ y \in Nat /\ ~(y < x)
    BY <1>2, <1>3
<1>5. \A y \in T : x <= y
    BY <1>4
<1> QED
    BY <1>5

(***************************************************************************)
(* Two indices less than one turn apart own different slots.               *)
(***************************************************************************)
LEMMA SlotsDistinct ==
    ASSUME NEW W \in Nat \ {0}, NEW i \in Nat, NEW j \in Nat,
           i < j, j < i + W
    PROVE  i % W # j % W
<1> DEFINE turns == (j \div W) - (i \div W)
<1>1. i = W * (i \div W) + (i % W) /\ i \div W \in Nat
    OBVIOUS
<1>2. j = W * (j \div W) + (j % W) /\ j \div W \in Nat
    OBVIOUS
<1>3. SUFFICES ASSUME i % W = j % W PROVE FALSE
    OBVIOUS
<1>4. j - i = W * turns
    BY <1>1, <1>2, <1>3
<1>5. turns \in Int
    BY <1>1, <1>2
<1> HIDE DEF turns
<1>6. CASE turns <= 0
    <2>1. W * turns <= 0
        BY <1>6, <1>5
    <2> QED
        BY <2>1, <1>4
<1>7. CASE turns >= 1
    <2>1. W * turns >= W
        BY <1>7, <1>5
    <2> QED
        BY <2>1, <1>4
<1> QED
    BY <1>5, <1>6, <1>7

(***************************************************************************)
(* An index and the one a whole turn later own the same slot, which is one *)
(* of the slots of the buffer.                                             *)
(***************************************************************************)
LEMMA SlotPeriodic ==
    ASSUME NEW W \in Nat \ {0}, NEW i \in Nat
    PROVE  /\ i % W \in 0 .. W - 1
           /\ (i + W) % W = i % W
<1>1. i % W \in 0 .. W - 1
    OBVIOUS
<1>2. i = W * (i \div W) + (i % W) /\ i \div W \in Nat
    OBVIOUS
<1>3. i + W = W * ((i \div W) + 1) + (i % W)
    BY <1>2
<1>4. (i + W) = W * ((i + W) \div W) + ((i + W) % W)
      /\ (i + W) \div W \in Nat /\ (i + W) % W \in 0 .. W - 1
    OBVIOUS
<1> DEFINE q == ((i + W) \div W) - ((i \div W) + 1)
<1>5. q \in Int /\ W * q = (i % W) - ((i + W) % W)
    BY <1>2, <1>3, <1>4
<1>6. W * q < W /\ W * q > 0 - W
    BY <1>1, <1>4, <1>5
<1> HIDE DEF q
<1>7. q = 0
    <2>1. CASE q >= 1
        <3>1. W * q >= W
            BY <2>1, <1>5
        <3> QED
            BY <3>1, <1>6, <1>5
    <2>2. CASE q <= -1
        <3>1. W * q <= 0 - W
            BY <2>2, <1>5
        <3> QED
            BY <3>1, <1>6, <1>5
    <2> QED
        BY <2>1, <2>2, <1>5
<1> QED
    BY <1>1, <1>4, <1>5, <1>7

USE WindowSizeAssumption, NonceSpaceAssumption

(***************************************************************************)
(* SlotsDistinct and SlotPeriodic for the slots of the window.             *)
(***************************************************************************)
LEMMA SlotFacts ==
    /\ \A n \in Nat : SlotOf(n) \in Slots
    /\ \A n \in Nat : SlotOf(n + WindowSize) = SlotOf(n)
    /\ \A i, j \in Nat : i < j /\ j < i + WindowSize => SlotOf(i) # SlotOf(j)
<1>1. \A n \in Nat : SlotOf(n) \in Slots /\ SlotOf(n + WindowSize) = SlotOf(n)
    BY SlotPeriodic DEF SlotOf, Slots
<1>2. \A i, j \in Nat : i < j /\ j < i + WindowSize => SlotOf(i) # SlotOf(j)
    BY SlotsDistinct DEF SlotOf
<1> QED
    BY <1>1, <1>2

(***************************************************************************)
(* The loop of is_valid stops within one turn, at the first slot that is   *)
(* still TRUE.                                                             *)
(***************************************************************************)
LEMMA SlideTargetExists ==
    ASSUME NEW w, NEW n \in Nat
    PROVE  LET k == SlideTarget(w, n)
           IN  /\ k \in n + 1 .. n + WindowSize
               /\ k = n + WindowSize \/ w.window[SlotOf(k)]
               /\ \A j \in n + 1 .. k - 1 : ~w.window[SlotOf(j)]
<1> DEFINE T == {k \in n + 1 .. n + WindowSize :
                    k = n + WindowSize \/ w.window[SlotOf(k)]}
<1>1. n + WindowSize \in T
    OBVIOUS
<1>2. T \in SUBSET Nat
    OBVIOUS
<1>3. PICK x \in T : \A y \in T : x <= y
    <2> HIDE DEF T
    <2> QED BY <1>1, <1>2, LeastElement
<1>4. \A j \in n + 1 .. x - 1 : ~w.window[SlotOf(j)]
    <2> SUFFICES ASSUME NEW j \in n + 1 .. x - 1, w.window[SlotOf(j)]
                 PROVE  FALSE
        OBVIOUS
    <2>1. j \in T
        BY <1>3
    <2> QED
        BY <2>1, <1>2, <1>3
<1>5. \E k \in n + 1 .. n + WindowSize :
        /\ k = n + WindowSize \/ w.window[SlotOf(k)]
        /\ \A j \in n + 1 .. k - 1 : ~w.window[SlotOf(j)]
    BY <1>3, <1>4
<1> QED
    BY <1>5 DEF SlideTarget

-----------------------------------------------------------------------------
\* Below the lower bound everything was accepted, exactly once.
BelowAccepted == \A n \in Nonces : n < rolling.lower_bound => accepts[n] = 1

\* Inside the window a slot is TRUE exactly when its nonce was not accepted.
SlotsExact ==
    \A n \in Nat : IsInBounds(rolling, n) =>
        (rolling.window[SlotOf(n)] <=> ~(n \in Nonces /\ accepts[n] = 1))

\* Above the window nothing was accepted.
AboveUntouched ==
    \A n \in Nonces : n >= rolling.lower_bound + WindowSize => accepts[n] = 0

(***************************************************************************)
(* The inductive invariant.  WindowIsExact alone is not inductive: a slot  *)
(* the window rolls over is handed to a nonce one turn later, and that it  *)
(* may then be TRUE needs that nothing above the window was accepted.      *)
(***************************************************************************)
NonceInv ==
    /\ TypeOK
    /\ \A n \in Nonces : accepts[n] \in {0, 1}
    /\ BelowAccepted
    /\ rolling.window[SlotOf(rolling.lower_bound)]
    /\ SlotsExact
    /\ AboveUntouched

LEMMA NonceInvInit == NonceInit => NonceInv
BY SlotFacts
   DEF NonceInit, NonceInv, TypeOK, Nonces, NewRollingNonceWindow, Windows, Slots,
       BelowAccepted, SlotsExact, AboveUntouched,
       IsInBounds

LEMMA SendPreservesNonceInv == NonceInv /\ GetNextSendNonce => NonceInv'
BY DEF GetNextSendNonce, NonceInv, TypeOK, Nonces, BelowAccepted, SlotsExact,
       AboveUntouched, IsInBounds, Windows

(***************************************************************************)
(* A nonce in the window, above the lower bound, only invalidates its slot.*)
(***************************************************************************)
LEMMA AcceptAbovePreservesIInv ==
    ASSUME NonceInv, NEW nonce \in Nonces, IsValid(nonce),
           IsInBounds(rolling, nonce), rolling.window[SlotOf(nonce)],
           nonce # rolling.lower_bound
    PROVE  NonceInv'
<1>0. /\ rolling.lower_bound \in Nat
      /\ rolling.window \in [Slots -> BOOLEAN]
      /\ nonce \in Nat /\ SlotOf(nonce) \in Slots
      /\ nonce > rolling.lower_bound /\ nonce < rolling.lower_bound + WindowSize
      /\ used_nonce_counter \in 0 .. NonceSpace
      /\ accepts \in [Nonces -> Nat]
    <2>1. rolling \in Windows /\ nonce \in Nat
        BY DEF NonceInv, TypeOK, Nonces
    <2>2. SlotOf(nonce) \in Slots
        BY <2>1, SlotFacts
    <2> QED
        BY <2>1, <2>2 DEF Windows, IsInBounds, NonceInv, TypeOK
<1>1. /\ rolling'.lower_bound = rolling.lower_bound
      /\ rolling'.window = [rolling.window EXCEPT ![SlotOf(nonce)] = FALSE]
      /\ rolling' \in Windows
    BY <1>0 DEF IsValid, AfterIsValid, Invalidate, Windows, NonceInv, TypeOK
<1>2. /\ accepts' = [accepts EXCEPT ![nonce] = @ + 1]
      /\ accepts[nonce] = 0
      /\ used_nonce_counter' = used_nonce_counter
    <2>1. Verdict(rolling, nonce) = "Ok"
        BY DEF Verdict
    <2>2. accepts[nonce] = 0
        BY <1>0 DEF NonceInv, SlotsExact
    <2> QED
        BY <2>1, <2>2 DEF IsValid
<1>3. /\ TypeOK'
      /\ (\A n \in Nonces : accepts[n] \in {0, 1})'
      /\ BelowAccepted' /\ AboveUntouched'
    <2>1. TypeOK'
        BY <1>0, <1>1, <1>2 DEF NonceInv, TypeOK
    <2>2. (\A n \in Nonces : accepts[n] \in {0, 1})'
        BY <1>0, <1>2 DEF NonceInv
    <2>3. BelowAccepted' /\ AboveUntouched'
        BY <1>0, <1>1, <1>2 DEF NonceInv, BelowAccepted, AboveUntouched, Nonces
    <2> QED
        BY <2>1, <2>2, <2>3
<1>4. \A n \in Nat : IsInBounds(rolling, n) /\ n # nonce => SlotOf(n) # SlotOf(nonce)
    <2> SUFFICES ASSUME NEW n \in Nat, IsInBounds(rolling, n), n # nonce
                 PROVE  SlotOf(n) # SlotOf(nonce)
        OBVIOUS
    <2>0. n >= rolling.lower_bound /\ n < rolling.lower_bound + WindowSize
        BY DEF IsInBounds
    <2>1. CASE n < nonce
        <3>1. nonce < n + WindowSize
            BY <2>0, <1>0
        <3> QED
            BY <3>1, <2>1, <1>0, SlotFacts
    <2>2. CASE nonce < n
        <3>1. n < nonce + WindowSize
            BY <2>0, <1>0
        <3> QED
            BY <3>1, <2>2, <1>0, SlotFacts
    <2> QED
        BY <2>1, <2>2, <1>0
<1>5. rolling'.window[SlotOf(rolling'.lower_bound)]
    <2>1. SlotOf(rolling.lower_bound) # SlotOf(nonce)
        BY <1>0, <1>4 DEF IsInBounds
    <2>2. SlotOf(rolling.lower_bound) \in Slots
        BY <1>0, SlotFacts
    <2> QED
        BY <2>1, <2>2, <1>0, <1>1 DEF NonceInv
<1>6. SlotsExact'
    <2> SUFFICES ASSUME NEW n \in Nat, IsInBounds(rolling, n)
                 PROVE  rolling'.window[SlotOf(n)]
                            <=> ~(n \in Nonces /\ accepts'[n] = 1)
        BY <1>1 DEF SlotsExact, IsInBounds
    <2>1. CASE n = nonce
        BY <2>1, <1>0, <1>1, <1>2
    <2>2. CASE n # nonce
        <3>1. SlotOf(n) # SlotOf(nonce) /\ SlotOf(n) \in Slots
            BY <2>2, <1>4, SlotFacts
        <3>2. rolling'.window[SlotOf(n)] = rolling.window[SlotOf(n)]
            BY <3>1, <1>0, <1>1
        <3>3. n \in Nonces => accepts'[n] = accepts[n]
            BY <2>2, <1>0, <1>2
        <3>4. rolling.window[SlotOf(n)] <=> ~(n \in Nonces /\ accepts[n] = 1)
            BY DEF NonceInv, SlotsExact
        <3> QED
            BY <3>2, <3>3, <3>4
    <2> QED
        BY <2>1, <2>2
<1> QED
    BY <1>3, <1>5, <1>6 DEF NonceInv

(***************************************************************************)
(* The nonce at the lower bound makes the window roll on.                  *)
(***************************************************************************)
LEMMA AcceptLowestPreservesIInv ==
    ASSUME NonceInv, NEW nonce \in Nonces, IsValid(nonce),
           IsInBounds(rolling, nonce), rolling.window[SlotOf(nonce)],
           nonce = rolling.lower_bound
    PROVE  NonceInv'
<1> DEFINE w1 == Invalidate(rolling, nonce)
           k == SlideTarget(w1, nonce)
<1>0. /\ nonce \in Nat /\ SlotOf(nonce) \in Slots
      /\ rolling.lower_bound = nonce
      /\ rolling.window \in [Slots -> BOOLEAN]
      /\ rolling.lower_bound \in Nat
      /\ used_nonce_counter \in 0 .. NonceSpace
      /\ accepts \in [Nonces -> Nat]
    BY SlotFacts DEF NonceInv, TypeOK, Windows, Nonces
<1>1. /\ w1.window = [rolling.window EXCEPT ![SlotOf(nonce)] = FALSE]
      /\ w1.window \in [Slots -> BOOLEAN]
    BY <1>0 DEF Invalidate, NonceInv, TypeOK, Windows
<1>2. /\ k \in nonce + 1 .. nonce + WindowSize
      /\ k = nonce + WindowSize \/ w1.window[SlotOf(k)]
      /\ \A j \in nonce + 1 .. k - 1 : ~w1.window[SlotOf(j)]
    BY <1>0, SlideTargetExists
<1>3. /\ rolling'.lower_bound = k
      /\ rolling'.window = [s \in Slots |->
             w1.window[s] \/ \E j \in nonce .. k - 1 : s = SlotOf(j)]
      /\ rolling' = [lower_bound |-> rolling'.lower_bound, window |-> rolling'.window]
    BY DEF IsValid, AfterIsValid, Slide
<1>4. /\ accepts' = [accepts EXCEPT ![nonce] = @ + 1]
      /\ accepts[nonce] = 0
      /\ used_nonce_counter' = used_nonce_counter
    <2>1. Verdict(rolling, nonce) = "Ok"
        BY DEF Verdict
    <2>2. accepts[nonce] = 0
        BY <1>0 DEF SlotsExact, NonceInv
    <2> QED
        BY <2>1, <2>2 DEF IsValid
<1> HIDE DEF w1, k
<1>5. \A n \in Nat : nonce < n /\ n < nonce + WindowSize =>
          w1.window[SlotOf(n)] = rolling.window[SlotOf(n)]
    BY <1>0, <1>1, SlotFacts, ZenonT(60)
<1>6. \A n \in Nat : nonce < n /\ n < k => n \in Nonces /\ accepts[n] = 1
    <2> SUFFICES ASSUME NEW n \in Nat, nonce < n, n < k
                 PROVE  n \in Nonces /\ accepts[n] = 1
        OBVIOUS
    <2>1. n < nonce + WindowSize /\ ~w1.window[SlotOf(n)]
        BY <1>0, <1>2
    <2>2. ~rolling.window[SlotOf(n)]
        BY <2>1, <1>0, <1>5
    <2>3. IsInBounds(rolling, n)
        BY <2>1, <1>0 DEF IsInBounds
    <2> QED
        BY <2>2, <2>3 DEF NonceInv, SlotsExact
<1>7. TypeOK'
    <2>1. rolling' \in Windows
        BY <1>0, <1>1, <1>2, <1>3 DEF Windows
    <2> QED
        BY <2>1, <1>0, <1>4 DEF TypeOK
<1>8. (\A n \in Nonces : accepts[n] \in {0, 1})'
    BY <1>0, <1>4 DEF NonceInv
<1>9. BelowAccepted'
    <2> SUFFICES ASSUME NEW n \in Nonces, n < k
                 PROVE  accepts'[n] = 1
        BY <1>3 DEF BelowAccepted
    <2>1. CASE n < nonce
        BY <2>1, <1>0, <1>4 DEF NonceInv, BelowAccepted, Nonces
    <2>2. CASE n = nonce
        BY <2>2, <1>0, <1>4
    <2>3. CASE n > nonce
        BY <2>3, <1>0, <1>4, <1>6 DEF Nonces
    <2> QED
        BY <2>1, <2>2, <2>3, <1>0 DEF Nonces
<1>10. (rolling.window[SlotOf(rolling.lower_bound)])'
    <2>1. CASE k = nonce + WindowSize
        <3>1. SlotOf(k) = SlotOf(nonce) /\ SlotOf(nonce) \in Slots
            BY <2>1, <1>0, SlotFacts
        <3>2. nonce \in nonce .. k - 1
            BY <1>0, <1>2
        <3> QED
            BY <3>1, <3>2, <1>3
    <2>2. CASE w1.window[SlotOf(k)]
        <3>1. SlotOf(k) \in Slots
            BY <1>0, <1>2, SlotFacts
        <3> QED
            BY <3>1, <2>2, <1>3
    <2> QED
        BY <2>1, <2>2, <1>2
<1>11. SlotsExact'
    <2> SUFFICES ASSUME NEW n \in Nat, n >= k, n < k + WindowSize
                 PROVE  rolling'.window[SlotOf(n)]
                            <=> ~(n \in Nonces /\ accepts'[n] = 1)
        BY <1>3 DEF SlotsExact, IsInBounds
    <2>0. SlotOf(n) \in Slots /\ n > nonce /\ k \in Nat
        BY <1>0, <1>2, SlotFacts
    <2>1. n \in Nonces => accepts'[n] = accepts[n]
        BY <2>0, <1>0, <1>4
    <2>2. CASE n < nonce + WindowSize
        <3>1. \A j \in nonce .. k - 1 : SlotOf(n) # SlotOf(j)
            <4> TAKE j \in nonce .. k - 1
            <4>1. j \in Nat /\ j < n /\ n < j + WindowSize
                BY <2>0, <2>2, <1>0
            <4> QED
                BY <4>1, SlotFacts
        <3>2. rolling'.window[SlotOf(n)] = rolling.window[SlotOf(n)]
            <4>1. rolling'.window[SlotOf(n)] = w1.window[SlotOf(n)]
                <5>1. rolling'.window[SlotOf(n)] =
                        (w1.window[SlotOf(n)]
                            \/ \E j \in nonce .. k - 1 : SlotOf(n) = SlotOf(j))
                    BY <2>0, <1>3
                <5>2. w1.window[SlotOf(n)] \in BOOLEAN
                    BY <2>0, <1>1
                <5> QED
                    BY <5>1, <5>2, <3>1
            <4> QED
                BY <4>1, <2>0, <2>2, <1>5
        <3>3. rolling.window[SlotOf(n)] <=> ~(n \in Nonces /\ accepts[n] = 1)
            BY <2>0, <2>2, <1>0 DEF NonceInv, SlotsExact, IsInBounds
        <3> QED
            BY <3>2, <3>3, <2>1
    <2>3. CASE n >= nonce + WindowSize
        <3> DEFINE j == n - WindowSize
        <3>1. j \in nonce .. k - 1 /\ j \in Nat /\ j + WindowSize = n
            BY <2>3, <2>0, <1>0, <1>2
        <3>2. SlotOf(j) = SlotOf(n)
            BY <3>1, SlotFacts
        <3>3. rolling'.window[SlotOf(n)]
            BY <3>1, <3>2, <2>0, <1>3
        <3>4. n \in Nonces => accepts[n] = 0
            BY <2>3, <1>0 DEF NonceInv, AboveUntouched
        <3> QED
            BY <3>3, <3>4, <2>1
    <2> QED
        BY <2>2, <2>3, <1>0
<1>12. AboveUntouched'
    BY <1>0, <1>2, <1>3, <1>4 DEF NonceInv, AboveUntouched, Nonces
<1> QED
    BY <1>7, <1>8, <1>9, <1>10, <1>11, <1>12 DEF NonceInv

(***************************************************************************)
(* A nonce that is out of bounds, or whose slot is FALSE, changes nothing. *)
(***************************************************************************)
LEMMA RejectChangesNothing ==
    ASSUME NonceInv, NEW nonce \in Nonces, IsValid(nonce),
           ~(IsInBounds(rolling, nonce) /\ rolling.window[SlotOf(nonce)])
    PROVE  UNCHANGED nonce_vars
<1>1. rolling \in Windows /\ SlotOf(nonce) \in Slots
    BY SlotFacts DEF NonceInv, TypeOK, Nonces
<1>2. rolling' = rolling
    <2>1. CASE ~IsInBounds(rolling, nonce)
        BY <2>1 DEF IsValid, AfterIsValid
    <2>2. CASE IsInBounds(rolling, nonce) /\ rolling.window[SlotOf(nonce)] = FALSE
        BY <2>2, <1>1 DEF IsValid, AfterIsValid, Invalidate, Windows
    <2> QED
        BY <2>1, <2>2, <1>1 DEF Windows
<1>3. Verdict(rolling, nonce) # "Ok"
    BY DEF Verdict
<1> QED
    BY <1>2, <1>3 DEF IsValid, nonce_vars

LEMMA NextPreservesNonceInv == NonceInv /\ [NonceNext]_nonce_vars => NonceInv'
<1> SUFFICES ASSUME NonceInv, [NonceNext]_nonce_vars PROVE NonceInv'
    OBVIOUS
<1>1. CASE GetNextSendNonce
    BY <1>1, SendPreservesNonceInv
<1>2. ASSUME NEW nonce \in Nonces, IsValid(nonce) PROVE NonceInv'
    <2>1. CASE ~(IsInBounds(rolling, nonce) /\ rolling.window[SlotOf(nonce)])
        <3>1. UNCHANGED nonce_vars
            BY <2>1, <1>2, RejectChangesNothing
        <3> QED
            BY <3>1 DEF nonce_vars, NonceInv, TypeOK, BelowAccepted, SlotsExact,
                        AboveUntouched, IsInBounds
    <2>2. CASE /\ IsInBounds(rolling, nonce) /\ rolling.window[SlotOf(nonce)]
               /\ nonce # rolling.lower_bound
        BY <2>2, <1>2, AcceptAbovePreservesIInv
    <2>3. CASE /\ IsInBounds(rolling, nonce) /\ rolling.window[SlotOf(nonce)]
               /\ nonce = rolling.lower_bound
        BY <2>3, <1>2, AcceptLowestPreservesIInv
    <2> QED
        BY <2>1, <2>2, <2>3
<1>3. CASE UNCHANGED nonce_vars
    BY <1>3 DEF nonce_vars, NonceInv, TypeOK, BelowAccepted, SlotsExact,
                AboveUntouched, IsInBounds
<1> QED
    BY <1>1, <1>2, <1>3 DEF NonceNext

LEMMA NonceInvariance == NonceSpec => []NonceInv
<1>1. NonceInit => NonceInv
    BY NonceInvInit
<1>2. NonceInv /\ [NonceNext]_nonce_vars => NonceInv'
    BY NextPreservesNonceInv
<1> QED
    BY <1>1, <1>2, PTL DEF NonceSpec

(***************************************************************************)
(* is_valid accepts no nonce twice, whatever the transport repeats or      *)
(* reorders, for every window size and nonce space.                        *)
(***************************************************************************)
THEOREM ReplayFilter == NonceSpec => []NoReplay
<1>1. NonceInv => NoReplay
    BY DEF NonceInv, NoReplay, Nonces
<1> QED
    BY <1>1, NonceInvariance, PTL

(***************************************************************************)
(* The window's books are exact: it stands at the first nonce not yet      *)
(* accepted and still accepts every other nonce in its bounds.             *)
(***************************************************************************)
THEOREM ExactWindow == NonceSpec => []WindowIsExact
<1>1. NonceInv => WindowIsExact
    <2> SUFFICES ASSUME NonceInv PROVE WindowIsExact
        OBVIOUS
    <2>1. \A n \in Nonces : n < rolling.lower_bound => accepts[n] >= 1
        BY DEF NonceInv, BelowAccepted
    <2>2. \A n \in Nonces : IsInBounds(rolling, n) =>
              (rolling.window[SlotOf(n)] <=> accepts[n] = 0)
        BY DEF NonceInv, SlotsExact, Nonces
    <2>3. rolling.lower_bound \in Nonces => accepts[rolling.lower_bound] = 0
        BY <2>2 DEF NonceInv, IsInBounds, Nonces
    <2> QED
        BY <2>1, <2>2, <2>3 DEF WindowIsExact
<1> QED
    BY <1>1, NonceInvariance, PTL

(***************************************************************************)
(* The bounds and slots of the window stay natural numbers and flags of    *)
(* the right size, and the counter of the sender within the nonce space.   *)
(***************************************************************************)
THEOREM NonceTypes == NonceSpec => []TypeOK
<1>1. NonceInv => TypeOK
    BY DEF NonceInv
<1> QED
    BY <1>1, NonceInvariance, PTL
=============================================================================
