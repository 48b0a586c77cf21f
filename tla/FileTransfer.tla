---------------------------- MODULE FileTransfer ----------------------------
(***************************************************************************)
(* Both ends of a transfer: the sender's FileTracker, the receiver's       *)
(* FilerequestReceiver and the requests and responses between them, over   *)
(* as many attempts as the bounds allow.                                   *)
(*                                                                         *)
(* Every request is a stream of its own and handled by a task of its own:  *)
(* it arrives once, at any time or never, also after the sender has given  *)
(* it up.  A response reaches the sender while its request is registered.  *)
(* No row is deleted and no transfer is old enough to be cleaned up: what  *)
(* that does to the receiver is checked in FilerequestReceiver.            *)
(***************************************************************************)
EXTENDS FileTracker

CONSTANTS
    MaxUpdates, MaxReceived,
    MaxFailures  \* bound: how often a request fails or times out or the
                 \* peer disconnects

ASSUME TransferAssumption ==
    /\ MaxUpdates \in Nat /\ MaxReceived \in Nat /\ MaxFailures \in Nat
    /\ "target" \in Contacts

VARIABLES receiving, parts, rows, updates, received,    \* of the receiver
          wire,     \* requests under way
          replies,  \* responses under way
          failures, \* how often that happened
          disturbed \* history: which of the two disturbances there were

Sender == "sender"

Receiver == INSTANCE FilerequestReceiver
    WITH Transfers <- 0 .. MaxRequests, DeclaredUnits <- FileUnits,
         Payloads <- {}, Requesters <- {Sender}, OldTransfers <- {},
         Elsewhere <- {}

receiver_vars == <<receiving, parts, rows, updates, received>>

all_vars == <<vars, receiver_vars, wire, replies, failures, disturbed>>

\* What a request registered by this step says: a transfer is offered as it is
\* put into the slot, the rest is about the transfer that was in the slot.
Message(r) ==
    [id       |-> r.id,
     kind     |-> r.kind,
     transfer |-> LET slot == IF r.kind \in {"NewTransfer", "ContinueTransfer"}
                              THEN sending' ELSE sending
                  IN  IF slot = {} THEN NoTransfer ELSE (CHOOSE s \in slot : TRUE).transfer,
     chunk    |-> IF r.kind = "Chunk" THEN NextChunk((CHOOSE s \in sending : TRUE).sm)
                                      ELSE [idx |-> 0, unit |-> 0]]

Waiting(n, id) == \E r \in n.registry : r.id = id /\ r.state # "Failed"

NewRequests == {r \in net'.registry : r.id >= net.nextId}

\* Nothing of an earlier attempt is under way, and no loop of one runs.
Quiet(answered) == wire = {} /\ replies \subseteq answered /\ tasks'["LoopTarget"] = 0

\* A file is offered while an earlier attempt is not over.
Overlaps(answered) ==
    /\ ~Quiet(answered)
    /\ \E r \in NewRequests : r.kind \in {"NewTransfer", "ContinueTransfer"}

\* reset_all_on_internal_error_for has the peer abort what the queue keeps: the
\* transfer of the slot or, if that is empty, whatever the peer is receiving.
AbortsWhatItKeeps == tasks'["ResetOnInternalError"] < tasks["ResetOnInternalError"]

\* The messages of a step of the sender; replies nobody waits for are dropped.
Transport(answered) ==
    /\ wire' = wire \cup {Message(r) : r \in NewRequests}
    /\ replies' = {m \in replies \ answered : Waiting(net', m.id)}
    /\ disturbed' = disturbed
           \cup {d \in {"overlap"} : Overlaps(answered)}
           \cup {d \in {"internal_error"} : AbortsWhatItKeeps}
    /\ UNCHANGED receiver_vars

SenderActs == LocalStep /\ Transport({}) /\ UNCHANGED failures

RequestFails ==
    /\ failures < MaxFailures
    /\ SomeFailure
    /\ Transport({})
    /\ failures' = failures + 1

SenderReceives(m) ==
    /\ \E r \in net.registry :
          r.id = m.id /\ ReceiveResponse(r, m.response, m.offset, "target")
    /\ Transport({m})
    /\ UNCHANGED failures

\* The receiver answers, and the answer is under way if somebody waits for it.
ReceiverResponds(q) ==
    \E reply \in Receiver!Replies :
        /\ \/ q.kind = "NewTransfer" /\ Receiver!NewTransfer(q.transfer, Sender, reply)
           \/ /\ q.kind = "ContinueTransfer"
              /\ Receiver!ContinueTransfer(q.transfer, Sender, reply)
           \/ q.kind = "AbortTransfer" /\ Receiver!AbortTransfer(q.transfer, Sender, reply)
           \/ q.kind = "Chunk" /\ Receiver!Chunk(q.transfer, q.chunk, Sender, reply)
           \/ q.kind = "Done" /\ Receiver!Done(q.transfer, Sender, reply)
           \/ q.kind = "ProtocolViolation" /\ Receiver!PeerViolation(reply)
        /\ wire' = wire \ {q}
        /\ replies' = replies \cup
               {[id |-> id, response |-> reply.response, offset |-> reply.offset] :
                   id \in {i \in {q.id} : Waiting(net, i)}}
        /\ UNCHANGED <<vars, failures, disturbed>>

\* A request that has not arrived when the sender gives it up need never do so.
Lose(q) ==
    /\ ~\E r \in net.registry : r.id = q.id /\ r.state = "Open"
    /\ wire' = wire \ {q}
    /\ UNCHANGED <<vars, receiver_vars, replies, failures, disturbed>>

ReceiverActs ==
    /\ \/ Receiver!Expire
       \/ Receiver!Restart
       \/ \E u \in DOMAIN updates : Receiver!ApplyUpdate(u)
    /\ UNCHANGED <<vars, wire, replies, failures, disturbed>>

TransferInit ==
    /\ Init /\ Receiver!Init
    /\ wire = {} /\ replies = {} /\ failures = 0 /\ disturbed = {}

TransferNext ==
    \/ SenderActs
    \/ RequestFails
    \/ \E m \in replies : SenderReceives(m)
    \/ \E q \in wire : ReceiverResponds(q) \/ Lose(q)
    \/ ReceiverActs

TransferSpec == TransferInit /\ [][TransferNext]_all_vars

-----------------------------------------------------------------------------
HasUnits(transfer, n) ==
    \/ /\ <<transfer, Sender>> \in DOMAIN parts
       /\ Len(parts[<<transfer, Sender>>]) >= n
    \/ \E i \in 1 .. Len(received) :
          received[i].transfer = transfer /\ Len(received[i].units) >= n

\* What the sender counts as progress of a file, and would continue from or
\* report after a restart, is on the receiver's disk under that transfer,
\* however often the transfer was interrupted, refused or taken up again,
\* unless it was offered before an earlier attempt was over, or aborted by
\* reset_all_on_internal_error_for, which keeps the progress in the queue.
ProgressIsKept ==
    disturbed = {} =>
        /\ \A s \in sending : s.progress > 0 => HasUnits(s.transfer, s.progress)
        /\ \A i \in 1 .. Len(pending) :
              pending[i].progress > 0 => HasUnits(pending[i].transfer, pending[i].progress)

SentFiles == {f \in Files : outcomes[f] = <<"Sent">>}

ArrivedWhole == {i \in 1 .. Len(received) : Len(received[i].units) = FileUnits}

\* As many files as the brain is told were sent have arrived with all their
\* units: no confirmation is made up, and none is counted twice.
SentMeansReceived == Cardinality(SentFiles) <= Cardinality(ArrivedWhole)

\* What is in a part file is the beginning of the file that was sent: a
\* resumed transfer goes on where the part file ends (networking.md says of a
\* Chunk message: "each contains data + offset").  It does not hold: a DataChunk
\* has an index within its attempt in place of the offset, and nothing of the
\* attempt; one that is late is taken for a chunk of the next attempt.
PartIsPrefix ==
    \A name \in DOMAIN parts :
        \A i \in 1 .. Len(parts[name]) : parts[name][i] = i - 1

\* What does hold: every part file is the beginning of the file, through all
\* attempts, as long as each was over (answered, lost or given up by both
\* sides) when the next one began.
PartIsPrefixWithoutOverlap == "overlap" \notin disturbed => PartIsPrefix
=============================================================================
