------------------------- MODULE FilerequestReceiver -------------------------
(***************************************************************************)
(* The receiving side of file transfers, for one peer: FilerequestReceiver *)
(* of fyles_service/p2p/src/event_loop/filerequest/receive_manager.rs with *)
(* what it changes on disk and in the table received_files.                *)
(*                                                                         *)
(* respond_to runs under a mutex from beginning to end, so each of its     *)
(* arms is one action.  The rows it creates and completes it waits for;    *)
(* the other updates it only hands to the brain, which handles every       *)
(* action in a task of its own: they are applied later, in any order.      *)
(*                                                                         *)
(* Left out: the names of files and of the filerequest's directory, the    *)
(* progress in the rows, which is only shown, and what the writes of one   *)
(* call have not yet brought to disk when it ends.                         *)
(***************************************************************************)
EXTENDS ReceiveManager, Bags, FiniteSets, Functions

CONSTANTS
    Transfers,      \* transfer ids; a sender makes a new one per NewTransfer
    DeclaredUnits,  \* the file size every NewTransfer declares
    Payloads,       \* what a unit of a chunk may hold
    Requesters,     \* the contacts that the peer's sessions may belong to
    OldTransfers,   \* those that began longer ago than the stale threshold
    Elsewhere,      \* those that the peer may ask to continue in another
                    \* filerequest than the one they are received for
    MaxUpdates,     \* bound: how many updates wait for the brain
    MaxReceived     \* bound: how many files are ever received

ASSUME ReceiverAssumption ==
    /\ DeclaredUnits \in Nat
    /\ OldTransfers \subseteq Transfers /\ Elsewhere \subseteq Transfers
    /\ MaxUpdates \in Nat /\ MaxReceived \in Nat

VARIABLES
    receiving,  \* receiving_files of the peer: a set of at most one transfer
    parts,      \* the part files, by the transfer and contact in their names
    rows,       \* received_files, by transfer
    updates,    \* updates of rows handed to the brain: a bag
    received    \* the files of the filerequest's directory

receiver_vars == <<receiving, parts, rows, updates, received>>

FileResponses ==
    {"AcceptNewTransfer", "RejectNewTransfer", "AcceptContinueTransfer",
     "RestartContinueTransfer", "RejectContinueTransfer", "ConfirmChunk",
     "RejectChunk", "ConfirmAbort", "ConfirmDone", "RejectDone",
     "AcknowledgeProtocolViolation", "ProtocolViolation", "InternalError"}

\* In every arm, `reply` is the response.
Reply(response) == [response |-> response, offset |-> 0]

ContinueAt(offset) == [response |-> "AcceptContinueTransfer", offset |-> offset]

Replies ==
    {Reply(response) : response \in FileResponses}
        \cup {ContinueAt(offset) : offset \in 0 .. DeclaredUnits}

Without(f, xs) == Restrict(f, DOMAIN f \ xs)

With(f, x, v) == [y \in DOMAIN f \cup {x} |-> IF y = x THEN v ELSE f[y]]

NoTransfer == -1

\* Where the open file of a transfer is: the n-th file received once it was
\* renamed to that, or one of these.
InPart == 0

Unlinked == -1

NewEntry(transfer, contact, progress) ==
    [transfer |-> transfer, contact |-> contact, handle |-> InPart,
     rm |-> NewReceiveManager(DeclaredUnits, progress)]

-----------------------------------------------------------------------------
\* get_partial_file_for_writing opens for append and creates what is missing.
PartOpened(name) == IF name \in DOMAIN parts THEN parts ELSE With(parts, name, <<>>)

(* The statements on received_files, and the brain's handlers of them. *)

GetReceivedFile(transfer) == {rows[t] : t \in DOMAIN rows \cap {transfer}}

CreateIncomingFile(transfer, contact) ==
    /\ transfer \notin DOMAIN rows
    /\ rows' = With(rows, transfer, [status |-> "Receiving", contact |-> contact])

\* UPDATE ... RETURNING id: without a row to change it fails.
CompleteReceivedFile(transfer) ==
    /\ GetReceivedFile(transfer) # {}
    /\ rows' = [rows EXCEPT ![transfer].status = "Completed"]

\* StoreReceivedFile completes the row and answers; the rest is for display.
StoreReceivedFile(transfer, completed) ==
    IF completed THEN CompleteReceivedFile(transfer) ELSE UNCHANGED rows

GetStaleReceivedFiles ==
    {t \in OldTransfers \cap DOMAIN rows : rows[t].status = "Receiving"}

\* The row is checked against the contact, whatever its status.
MayContinue(transfer, contact) ==
    \E row \in GetReceivedFile(transfer) : row.contact = contact

UpdateReceivedFileStatus(transfer, status) ==
    /\ BagCardinality(updates) < MaxUpdates
    /\ updates' = updates (+) SetToBag({[transfer |-> transfer, status |-> status]})

\* The brain may refuse access, and the file or the row may fail to be made (a
\* part file without a row has a name that nobody asks for again).  The id is
\* unique in the table; one that is used anew after its row was deleted would
\* get a part file of another name, and is left out while the first is there.
NewTransfer(transfer, contact, reply) ==
    \/ reply = Reply("RejectNewTransfer") /\ UNCHANGED receiver_vars
    \/ reply = Reply("InternalError") /\ UNCHANGED receiver_vars
    \/ /\ reply = Reply("AcceptNewTransfer")
       /\ CreateIncomingFile(transfer, contact)
       /\ \A name \in DOMAIN parts : name[1] # transfer
       /\ parts' = PartOpened(<<transfer, contact>>)
       /\ receiving' = {NewEntry(transfer, contact, 0)}
       /\ UNCHANGED <<updates, received>>

StillInMemory(transfer, contact) ==
    {e \in receiving : e.transfer = transfer /\ e.contact = contact}

\* A transfer still in memory goes on with its manager, reset.
ContinueInMemory(transfer, contact, reply) ==
    /\ \E e \in StillInMemory(transfer, contact) :
          /\ reply = ContinueAt(e.rm.byte_progress)
          /\ receiving' = {[e EXCEPT !.rm = ResetReceiveManager(@)]}
    /\ UNCHANGED <<parts, rows, updates, received>>

\* Slip: the part file is reopened, its length not taken over.
ReopenedAtZero(transfer, contact, reply) ==
    /\ MayContinue(transfer, contact)
    /\ parts' = PartOpened(<<transfer, contact>>)
    /\ receiving' = {NewEntry(transfer, contact, 0)}
    /\ reply = ContinueAt(0)
    /\ UNCHANGED <<rows, updates, received>>

\* Otherwise the row must be of this contact; the brain
\* may refuse, and the file may fail to open or to tell its length.
ContinueFromDisk(transfer, contact, reply) ==
    LET name   == <<transfer, contact>>
        known  == MayContinue(transfer, contact)
        length == Len(PartOpened(name)[name])
    IN  \/ /\ reply = Reply("RestartContinueTransfer")
           /\ UNCHANGED receiver_vars
        \/ /\ reply = Reply("RestartContinueTransfer") /\ known
           /\ UpdateReceivedFileStatus(transfer, "Failed")
           /\ UNCHANGED <<receiving, parts, rows, received>>
        \/ /\ reply = Reply("InternalError") /\ known
           /\ parts' = PartOpened(name)
           /\ UNCHANGED <<receiving, rows, updates, received>>
        \/ /\ reply = ContinueAt(length) /\ known
           /\ parts' = PartOpened(name)
           /\ receiving' = {NewEntry(transfer, contact, length)}
           /\ UNCHANGED <<rows, updates, received>>

ContinueTransfer(transfer, contact, reply) ==
    \/ ContinueInMemory(transfer, contact, reply)
    \/ /\ StillInMemory(transfer, contact) = {}
       /\ ContinueFromDisk(transfer, contact, reply)

\* The request names another filerequest than the transfer in memory: it is
\* taken for one that is not in memory.
ContinueElsewhere(transfer, contact, reply) ==
    /\ StillInMemory(transfer, contact) # {}
    /\ ContinueFromDisk(transfer, contact, reply)

\* The transfer is dropped before its id is compared, if there is one to
\* compare: AbortTransfer of NoTransfer is taken for the current one.
Aborts(transfer, e) == transfer \in {NoTransfer, e.transfer}

AbortTransfer(transfer, contact, reply) ==
    /\ \/ /\ reply = Reply("ProtocolViolation")
          /\ \A e \in receiving : ~Aborts(transfer, e)
          /\ UNCHANGED <<parts, updates>>
       \/ /\ reply = Reply("InternalError")
          /\ \E e \in receiving : Aborts(transfer, e)
          /\ UNCHANGED <<parts, updates>>
       \/ /\ reply = Reply("ConfirmAbort")
          /\ \E e \in receiving :
                /\ Aborts(transfer, e)
                /\ parts' = Without(parts, {<<e.transfer, contact>>})
                /\ UpdateReceivedFileStatus(e.transfer, "Failed")
    /\ receiving' = {}
    /\ UNCHANGED <<rows, received>>

-----------------------------------------------------------------------------
\* The units are appended to the open file of transfer e, wherever it is.
Written(e, units) ==
    LET name == <<e.transfer, e.contact>>
    IN  /\ parts' = IF e.handle = InPart THEN [parts EXCEPT ![name] = @ \o units] ELSE parts
        /\ received' = IF e.handle > 0
                       THEN [received EXCEPT ![e.handle].units = @ \o units] ELSE received

\* A chunk of the current transfer, from its contact: store, and its result.
ChunkStored(e, chunk, reply) ==
    /\ \/ /\ reply = Reply("ConfirmChunk")
          /\ StoreResult(e.rm, chunk) = "Received"
          /\ Written(e, AppendedByStore(e.rm, chunk))
          /\ receiving' = {[e EXCEPT !.rm = AfterStore(@, chunk)]}
          /\ UpdateReceivedFileStatus(e.transfer, "Receiving")
       \/ /\ reply = Reply("ProtocolViolation")
          /\ StoreResult(e.rm, chunk) = "ProtocolViolation"
          /\ Written(e, AppendedByStore(e.rm, chunk))
          /\ receiving' = {}
          /\ UNCHANGED updates
       \/ /\ reply = Reply("InternalError")
          /\ \E k \in 0 .. Len(AppendedByStore(e.rm, chunk)) - 1 :
                Written(e, SubSeq(AppendedByStore(e.rm, chunk), 1, k))
          /\ receiving' = {}
          /\ UpdateReceivedFileStatus(e.transfer, "Failed")
    /\ UNCHANGED rows

\* From another contact than the transfer's, the answer is a random one.
Chunk(transfer, chunk, contact, reply) ==
    \/ /\ reply = Reply("ProtocolViolation")
       /\ receiving = {} \/ \E e \in receiving : e.transfer # transfer
       /\ receiving' = {}
       /\ UNCHANGED <<parts, rows, updates, received>>
    \/ \E e \in receiving :
          /\ e.transfer = transfer /\ e.contact # contact
          /\ receiving' = {}
          /\ UNCHANGED <<parts, rows, updates, received>>
    \/ \E e \in receiving :
          /\ e.transfer = transfer /\ e.contact = contact
          /\ ChunkStored(e, chunk, reply)

-----------------------------------------------------------------------------
\* Slip: what the sender says is done is taken for done.
AlwaysComplete(e) == TRUE

IsComplete(e) == e.rm.byte_progress = e.rm.declared_file_size

\* finalize_partial_file renames the part file named in the request.  The name
\* it is given is new.  The transfer stays in memory.
Finalized(e, name) ==
    /\ name \in DOMAIN parts
    /\ Len(received) < MaxReceived
    /\ parts' = Without(parts, {name})
    /\ received' = Append(received, [transfer |-> e.transfer, units |-> parts[name]])
    /\ receiving' = {[e EXCEPT !.handle =
           IF @ = InPart /\ name = <<e.transfer, e.contact>> THEN Len(received') ELSE @]}

\* Slip: a part file that could not be renamed is confirmed all the same.
DoneWithoutFile(transfer, contact, reply) ==
    \E e \in receiving :
        /\ e.transfer = transfer /\ IsComplete(e)
        /\ reply = Reply("ConfirmDone")
        /\ UNCHANGED receiver_vars

Done(transfer, contact, reply) ==
    \/ /\ reply = Reply("ProtocolViolation")
       /\ \/ receiving = {} /\ UNCHANGED receiving
          \/ \E e \in receiving : e.transfer # transfer /\ receiving' = {}
          \/ \E e \in receiving :
                e.transfer = transfer /\ ~IsComplete(e) /\ UNCHANGED receiving
       /\ UNCHANGED <<parts, rows, updates, received>>
    \/ /\ reply = Reply("InternalError")
       /\ \E e \in receiving :
             /\ e.transfer = transfer /\ IsComplete(e)
             /\ \/ Finalized(e, <<transfer, contact>>)
                \/ UNCHANGED <<receiving, parts, received>>
       /\ StoreReceivedFile(transfer, FALSE)
       /\ UNCHANGED updates
    \/ /\ reply = Reply("ConfirmDone")
       /\ \E e \in receiving :
             /\ e.transfer = transfer /\ IsComplete(e)
             /\ Finalized(e, <<transfer, contact>>)
       /\ StoreReceivedFile(transfer, TRUE)
       /\ UNCHANGED updates

PeerViolation(reply) ==
    /\ reply = Reply("AcknowledgeProtocolViolation")
    /\ receiving' = {}
    /\ UNCHANGED <<parts, rows, updates, received>>

-----------------------------------------------------------------------------
\* Nothing was heard of the transfer for the idle time of IdleExpiryMap.
Expire ==
    /\ receiving # {}
    /\ receiving' = {}
    /\ UNCHANGED <<parts, rows, updates, received>>

\* The program ends, and starts with what is on disk and in the table.
Restart ==
    /\ receiving' = {}
    /\ updates' = EmptyBag
    /\ UNCHANGED <<parts, rows, received>>

StatusUpdated(u) ==
    IF GetReceivedFile(u.transfer) = {} THEN rows
    ELSE [rows EXCEPT ![u.transfer].status = u.status]

\* The brain comes to handle one of the updates.
ApplyUpdate(u) ==
    /\ updates' = updates (-) SetToBag({u})
    /\ rows' = StatusUpdated(u)
    /\ UNCHANGED <<receiving, parts, received>>

\* The user deletes a row, also one of a transfer that is not finished.
DeleteReceivedFile(transfer) ==
    /\ rows' = Without(rows, {transfer})
    /\ UNCHANGED <<receiving, parts, updates, received>>

\* Part files are removed, whoever has them open.
RemovePartialFiles(names) ==
    /\ parts' = Without(parts, names)
    /\ receiving' = {[e EXCEPT !.handle =
           IF @ = InPart /\ <<e.transfer, e.contact>> \in names THEN Unlinked ELSE @] :
               e \in receiving}

\* run_cleanups finds that an old transfer is not finished.  By the time it
\* writes that to the row, the transfer may be.
StructuredPartialCleanup(transfer) ==
    /\ RemovePartialFiles({<<transfer, rows[transfer].contact>>})
    /\ UpdateReceivedFileStatus(transfer, "Failed")
    /\ UNCHANGED <<rows, received>>

\* And every old part file goes, with a row or without.
SweepPartialCleanup ==
    /\ RemovePartialFiles(OldTransfers \X Requesters)
    /\ UNCHANGED <<rows, updates, received>>

Init ==
    /\ receiving = {}
    /\ parts = <<>>
    /\ rows = <<>>
    /\ updates = EmptyBag
    /\ received = <<>>

-----------------------------------------------------------------------------
\* Any request a peer could send, honest or not.
RespondTo ==
    \E reply \in Replies :
        \/ PeerViolation(reply)
        \/ \E transfer \in Transfers, contact \in Requesters :
              \/ NewTransfer(transfer, contact, reply)
              \/ ContinueTransfer(transfer, contact, reply)
              \/ transfer \in Elsewhere /\ ContinueElsewhere(transfer, contact, reply)
              \/ AbortTransfer(transfer, contact, reply)
              \/ AbortTransfer(NoTransfer, contact, reply)
              \/ \E idx \in 0 .. DeclaredUnits + ParallelChunks, unit \in Payloads :
                    Chunk(transfer, [idx |-> idx, unit |-> unit], contact, reply)
              \/ Done(transfer, contact, reply)

Next ==
    \/ RespondTo
    \/ Expire
    \/ Restart
    \/ \E u \in BagToSet(updates) : ApplyUpdate(u)
    \/ \E t \in DOMAIN rows : DeleteReceivedFile(t)
    \/ \E t \in GetStaleReceivedFiles : StructuredPartialCleanup(t)
    \/ SweepPartialCleanup

Spec == Init /\ [][Next]_receiver_vars

-----------------------------------------------------------------------------
\* The offset at which a transfer in memory would be continued is the length
\* of its part file (doc of AcceptContinueTransfer: "equal to `*part.len()`"),
\* whatever was written, refused, reset, expired and reopened before.
BooksMatchDisk ==
    \A e \in receiving :
        e.handle = InPart =>
            /\ <<e.transfer, e.contact>> \in DOMAIN parts
            /\ Len(parts[<<e.transfer, e.contact>>]) = e.rm.byte_progress

\* Whatever a peer sends, what arrived in the filerequest's directory has the
\* declared size and never changes again, although the transfer that wrote it
\* stays in memory with the file open.  (Empty files are possible where the
\* part file of a transfer in memory is gone and was made anew, for a request
\* to continue in another filerequest that then failed.)
ReceivedFilesAreFinal ==
    [][/\ Len(received') >= Len(received)
       /\ SubSeq(received', 1, Len(received)) = received
       /\ \A i \in 1 .. Len(received') :
             \/ Len(received'[i].units) = DeclaredUnits
             \/ received'[i].transfer \in Elsewhere /\ received'[i].units = <<>>]_receiver_vars
=============================================================================
