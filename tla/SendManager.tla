----------------------------- MODULE SendManager -----------------------------
(***************************************************************************)
(* The sending end of the chunk window:                                    *)
(* fyles_service/p2p/src/event_loop/filerequest/send_manager.rs, with the  *)
(* FileReader it owns (p2p/src/file_reader.rs).                            *)
(*                                                                         *)
(* A file is measured in units: a unit is the data that one read returns,  *)
(* so a chunk carries one unit and `bytes` of a slot is 1.  The content of *)
(* a unit is its position in the file.  Up to ParallelChunks chunks are in *)
(* flight; chunk idx owns the slot idx % ParallelChunks.                   *)
(***************************************************************************)
EXTENDS Integers

CONSTANT ParallelChunks

ASSUME ParallelChunksAssumption == ParallelChunks \in Nat \ {0}

WindowSlots == 0 .. ParallelChunks - 1

SlotIndex(idx) == idx % ParallelChunks

SlotStates == {"Empty", "Pending", "Acknowledged"}

\* SendManager::new on a freshly opened file of the given number of units.
NewSendManager(units) ==
    [chunk_to_index    |-> [id \in {} |-> 0],
     chunks_in_flight  |-> [s \in WindowSlots |-> "Empty"],
     earliest_not_sent |-> 0,
     next_slot         |-> 0,
     position          |-> 0,          \* of the FileReader
     progress          |-> 0,
     file_size         |-> units]

\* Slip: the reader is left where it is.
SetProgressWithoutSeek(sm, offset) == [sm EXCEPT !.progress = offset]

\* set_progress: the reader seeks, the window starts over at index 0.
SetProgress(sm, offset) ==
    [sm EXCEPT !.progress = offset, !.position = offset]

IsReady(sm) == sm.next_slot - sm.earliest_not_sent < ParallelChunks

EndOfFile(sm) == sm.position >= sm.file_size

\* Slip: the end of the file alone is taken for the end of the transfer.
ReportsDoneAtEndOfFile(sm) == IsReady(sm) /\ EndOfFile(sm)

\* send_next_chunk returns SendRes::Done.
ReportsDone(sm) ==
    /\ IsReady(sm)
    /\ EndOfFile(sm)
    /\ sm.earliest_not_sent = sm.next_slot
    /\ \A s \in WindowSlots : sm.chunks_in_flight[s] # "Pending"

\* send_next_chunk gets as far as handing a chunk to `send`.
HasChunkToSend(sm) == IsReady(sm) /\ ~EndOfFile(sm)

NextChunk(sm) == [idx |-> sm.next_slot, unit |-> sm.position]

\* The rest of send_next_chunk, once `send` has returned the id of the request.
ChunkSent(sm, id) ==
    [chunk_to_index    |-> [i \in DOMAIN sm.chunk_to_index \cup {id} |->
                               IF i = id THEN sm.next_slot
                                         ELSE sm.chunk_to_index[i]],
     chunks_in_flight  |-> [sm.chunks_in_flight EXCEPT
                               ![SlotIndex(sm.next_slot)] = "Pending"],
     earliest_not_sent |-> sm.earliest_not_sent,
     next_slot         |-> sm.next_slot + 1,
     position          |-> sm.position + 1,
     progress          |-> sm.progress,
     file_size         |-> sm.file_size]

\* The assertions of mark_done; where one fails the task panics.
CanMarkDone(sm, id) ==
    /\ id \in DOMAIN sm.chunk_to_index
    /\ LET idx == sm.chunk_to_index[id]
       IN  /\ idx >= sm.earliest_not_sent /\ idx <= sm.next_slot
           /\ sm.chunks_in_flight[SlotIndex(idx)] = "Pending"

(***************************************************************************)
(* Where the loop of mark_done stops: at the first chunk that is not       *)
(* acknowledged, or at the end of what was sent.                           *)
(***************************************************************************)
AckedUpTo(sm) ==
    CHOOSE k \in sm.earliest_not_sent .. sm.next_slot :
        /\ k = sm.next_slot \/ sm.chunks_in_flight[SlotIndex(k)] # "Acknowledged"
        /\ \A j \in sm.earliest_not_sent .. k - 1 :
               sm.chunks_in_flight[SlotIndex(j)] = "Acknowledged"

\* Slip: the window moves by the acknowledged chunk only.
SlideSendWindowByOne(sm) ==
    [sm EXCEPT
        !.chunks_in_flight[SlotIndex(sm.earliest_not_sent)] = "Empty",
        !.earliest_not_sent = @ + 1,
        !.progress = @ + 1]

SlideSendWindow(sm) ==
    LET k == AckedUpTo(sm)
    IN  [chunk_to_index    |-> sm.chunk_to_index,
         chunks_in_flight  |-> [s \in WindowSlots |->
             IF \E j \in sm.earliest_not_sent .. k - 1 : s = SlotIndex(j)
             THEN "Empty" ELSE sm.chunks_in_flight[s]],
         earliest_not_sent |-> k,
         next_slot         |-> sm.next_slot,
         position          |-> sm.position,
         progress          |-> sm.progress + (k - sm.earliest_not_sent),
         file_size         |-> sm.file_size]

\* The chunk of request id, which has index idx, is acknowledged.
Acknowledge(sm, id, idx) ==
    [chunk_to_index    |-> [i \in DOMAIN sm.chunk_to_index \ {id} |->
                               sm.chunk_to_index[i]],
     chunks_in_flight  |-> [sm.chunks_in_flight EXCEPT
                               ![SlotIndex(idx)] = "Acknowledged"],
     earliest_not_sent |-> sm.earliest_not_sent,
     next_slot         |-> sm.next_slot,
     position          |-> sm.position,
     progress          |-> sm.progress,
     file_size         |-> sm.file_size]

\* Slip: any acknowledgement counts as one for the earliest chunk.
MarkDoneEarliest(sm, id) ==
    SlideSendWindow(Acknowledge(sm, id, sm.earliest_not_sent))

\* mark_done: acknowledgements come in any order, the window slides in order.
MarkDone(sm, id) ==
    LET idx   == sm.chunk_to_index[id]
        acked == Acknowledge(sm, id, idx)
    IN  IF idx = sm.earliest_not_sent THEN SlideSendWindow(acked) ELSE acked
=============================================================================
