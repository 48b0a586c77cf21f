----------------------------- MODULE ChunkWindow -----------------------------
(***************************************************************************)
(* One attempt at one transfer, after the receiver has accepted it: the    *)
(* sender's loop (FileTracker::send_chunks_loop and the ConfirmChunk arm   *)
(* of receive_response) against the receiver's Chunk and Done arms         *)
(* (FilerequestReceiver::respond_to).                                      *)
(*                                                                         *)
(* Every request and every response is handled by a task of its own        *)
(* (event_loop/handle_file_request_event.rs), so both are taken in any     *)
(* order.  Chunks are sent idempotently: the session layer may send one    *)
(* again, and the receiver then sees it twice; the request registry hands  *)
(* the sender one answer per request at most.                              *)
(***************************************************************************)
EXTENDS ReceiveManager, FiniteSets

CONSTANTS FileUnits, StartAt

ASSUME TransferAssumption ==
    /\ FileUnits \in Nat
    /\ StartAt \in 0 .. FileUnits

VARIABLES
    sm,          \* the SendManager
    rm,          \* the ReceiveManager
    file,        \* the receiver's part file
    requests,    \* every Chunk request sent; any of them may arrive (again)
    nextId,      \* the next outbound request id
    outstanding, \* ids in the sender's request registry
    acks,        \* ids of ConfirmChunk responses under way
    phase,       \* of the sender: "Sending", then "DoneSent", then "Confirmed"
    answer       \* of the receiver so far: "Confirm" or "ProtocolViolation"

vars == <<sm, rm, file, requests, nextId, outstanding, acks, phase, answer>>

Init ==
    /\ sm = SetProgress(NewSendManager(FileUnits), StartAt)
    /\ rm = NewReceiveManager(FileUnits, StartAt)
    /\ file = [i \in 1 .. StartAt |-> i - 1]
    /\ requests = {}
    /\ nextId = 0
    /\ outstanding = {}
    /\ acks = {}
    /\ phase = "Sending"
    /\ answer = "Confirm"

SendNextChunk ==
    /\ phase = "Sending"
    /\ HasChunkToSend(sm)
    /\ requests' = requests \cup {[id |-> nextId, chunk |-> NextChunk(sm)]}
    /\ outstanding' = outstanding \cup {nextId}
    /\ nextId' = nextId + 1
    /\ sm' = ChunkSent(sm, nextId)
    /\ UNCHANGED <<rm, file, acks, phase, answer>>

SendDone ==
    /\ phase = "Sending"
    /\ ReportsDone(sm)
    /\ phase' = "DoneSent"
    /\ UNCHANGED <<sm, rm, file, requests, nextId, outstanding, acks, answer>>

\* Slip: the registry hands out an answer nobody waits for any more.
ReceiveChunkAnswersAgain(m) ==
    /\ answer = "Confirm"
    /\ file' = file \o AppendedByStore(rm, m.chunk)
    /\ rm' = AfterStore(rm, m.chunk)
    /\ acks' = acks \cup {m.id}
    /\ UNCHANGED <<sm, requests, nextId, outstanding, phase, answer>>

\* A request already answered is answered again, but nobody waits for that.
ReceiveChunk(m) ==
    /\ answer = "Confirm"
    /\ file' = file \o AppendedByStore(rm, m.chunk)
    /\ IF StoreResult(rm, m.chunk) = "Received"
       THEN /\ rm' = AfterStore(rm, m.chunk)
            /\ acks' = acks \cup ({m.id} \cap outstanding)
            /\ UNCHANGED answer
       ELSE /\ answer' = "ProtocolViolation"
            /\ UNCHANGED <<rm, acks>>
    /\ UNCHANGED <<sm, requests, nextId, outstanding, phase>>

ReceiveConfirmChunk(id) ==
    /\ id \in acks
    /\ acks' = acks \ {id}
    /\ outstanding' = outstanding \ {id}
    /\ sm' = MarkDone(sm, id)
    /\ UNCHANGED <<rm, file, requests, nextId, phase, answer>>

ReceiveDone ==
    /\ phase = "DoneSent"
    /\ answer = "Confirm"
    /\ IF rm.byte_progress = rm.declared_file_size
       THEN phase' = "Confirmed" /\ UNCHANGED answer
       ELSE answer' = "ProtocolViolation" /\ UNCHANGED phase
    /\ UNCHANGED <<sm, rm, file, requests, nextId, outstanding, acks>>

Next ==
    \/ SendNextChunk
    \/ SendDone
    \/ \E m \in requests : ReceiveChunk(m)
    \/ \E id \in acks : ReceiveConfirmChunk(id)
    \/ ReceiveDone

Spec == Init /\ [][Next]_vars

(***************************************************************************)
(* While nothing is lost: the sender's loop runs whenever it can, and every*)
(* request and every response is handled eventually (each has its task).   *)
(***************************************************************************)
FairSpec ==
    /\ Spec
    /\ WF_vars(SendNextChunk)
    /\ WF_vars(SendDone)
    /\ WF_vars(ReceiveDone)
    /\ WF_vars(\E id \in acks : ReceiveConfirmChunk(id))
    /\ \A n \in 0 .. FileUnits :
          WF_vars(\E m \in requests : m.id = n /\ n \in outstanding \ acks
                                        /\ ReceiveChunk(m))

-----------------------------------------------------------------------------
SenderTypeOK ==
    /\ sm.chunk_to_index \in [outstanding -> Nat]
    /\ sm.chunks_in_flight \in [WindowSlots -> SlotStates]
    /\ sm.earliest_not_sent \in Nat /\ sm.next_slot \in Nat
    /\ sm.position \in Nat /\ sm.progress \in Nat
    /\ sm.file_size = FileUnits

ReceiverTypeOK ==
    /\ rm.chunks_in_flight \in [WindowSlots -> [idx : Int, unit : Int]]
    /\ rm.earliest_not_received \in Nat /\ rm.byte_progress \in Nat
    /\ rm.declared_file_size = FileUnits
    /\ file \in Seq(Nat)

NetworkTypeOK ==
    /\ requests \in SUBSET [id : Nat, chunk : [idx : Nat, unit : Nat]]
    /\ nextId \in Nat
    /\ outstanding \in SUBSET Nat
    /\ acks \in SUBSET outstanding
    /\ phase \in {"Sending", "DoneSent", "Confirmed"}
    /\ answer \in {"Confirm", "ProtocolViolation"}

\* The two windows, the part file and the network hold what they should; every
\* answer under way is one that the registry still waits for.
TypeOK == SenderTypeOK /\ ReceiverTypeOK /\ NetworkTypeOK

\* The assertions of mark_done never fail: every answer the registry hands out
\* belongs to a chunk that is pending in the window.
NoPanicInMarkDone == \A id \in acks : CanMarkDone(sm, id)

\* An honest sender is never told that it violated the protocol: whatever is
\* late, early or repeated fits the receiver's window.
NoProtocolViolation == answer # "ProtocolViolation"

\* The part file is a prefix of the source file.
FileIsPrefix ==
    /\ Len(file) <= FileUnits
    /\ \A i \in 1 .. Len(file) : file[i] = i - 1

\* What the sender reports as progress the receiver has written, and the
\* receiver counts what is in its file.
ProgressIsHonest ==
    /\ sm.progress <= rm.byte_progress
    /\ rm.byte_progress = Len(file)

\* Done is only sent when nothing is missing at the receiver.
DoneMeansComplete == phase # "Sending" => Len(file) = FileUnits

\* The window never holds up the transfer: it ends, confirmed.
EventuallyConfirmed == <>(phase = "Confirmed")

Copy == INSTANCE FileCopy
            WITH status <- IF phase = "Confirmed" THEN "Confirmed" ELSE "Copying"

\* A transfer attempt implements FileCopy: the part file only ever grows from
\* one prefix of the source to a longer one, and is complete when confirmed.
CopySpec == Copy!Spec
=============================================================================
