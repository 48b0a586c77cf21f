--------------------------- MODULE ReceiveManager ---------------------------
(***************************************************************************)
(* The receiving end of the chunk window: the struct ReceiveManager of     *)
(* fyles_service/p2p/src/event_loop/filerequest/receive_manager.rs.        *)
(*                                                                         *)
(* Chunks may arrive in any order; they are kept until the chunks before   *)
(* them have been written, then appended to the part file.                 *)
(***************************************************************************)
EXTENDS SendManager, Sequences

\* Option::None of a slot.
NoChunk == [idx |-> -1, unit |-> -1]

\* ReceiveManager::new; a continued transfer starts at the bytes it has.
NewReceiveManager(declared, progress) ==
    [chunks_in_flight      |-> [s \in WindowSlots |-> NoChunk],
     earliest_not_received |-> 0,
     declared_file_size    |-> declared,
     byte_progress         |-> progress]

\* reset: the sender starts over at index 0, after the bytes already written.
ResetReceiveManager(rm) ==
    [rm EXCEPT !.chunks_in_flight = [s \in WindowSlots |-> NoChunk],
               !.earliest_not_received = 0]

\* Slip: the bound of the window is off by one.
BeyondWindowOffByOne(rm, chunk) ==
    chunk.idx >= rm.earliest_not_received + ParallelChunks - 1

BeyondWindow(rm, chunk) ==
    chunk.idx >= rm.earliest_not_received + ParallelChunks

\* Slip: a chunk that was already written is not recognised.
NeverAlreadySeen(rm, chunk) == FALSE

AlreadySeen(rm, chunk) == chunk.idx < rm.earliest_not_received

BufferChunk(rm, chunk) ==
    [chunks_in_flight      |-> [rm.chunks_in_flight EXCEPT
                                   ![SlotIndex(chunk.idx)] = chunk],
     earliest_not_received |-> rm.earliest_not_received,
     declared_file_size    |-> rm.declared_file_size,
     byte_progress         |-> rm.byte_progress]

(***************************************************************************)
(* Where the loop of store stops taking chunks: at the first index whose   *)
(* slot is empty, or after a whole turn, as it empties what it passes.     *)
(***************************************************************************)
BufferedUpTo(rm) ==
    CHOOSE k \in rm.earliest_not_received
                    .. rm.earliest_not_received + ParallelChunks :
        /\ \/ k = rm.earliest_not_received + ParallelChunks
           \/ rm.chunks_in_flight[SlotIndex(k)] = NoChunk
        /\ \A j \in rm.earliest_not_received .. k - 1 :
               rm.chunks_in_flight[SlotIndex(j)] # NoChunk

FittingUpTo(rm) ==
    LET k    == BufferedUpTo(rm)
        room == rm.declared_file_size - rm.byte_progress
    IN  IF k - rm.earliest_not_received <= room THEN k
        ELSE rm.earliest_not_received + (IF room >= 0 THEN room ELSE 0)

\* The loop writes the chunks from the earliest index up to index k - 1.
Drain(rm, k) ==
    [chunks_in_flight      |-> [s \in WindowSlots |->
         IF \E j \in rm.earliest_not_received .. k - 1 : s = SlotIndex(j)
         THEN NoChunk ELSE rm.chunks_in_flight[s]],
     earliest_not_received |-> k,
     declared_file_size    |-> rm.declared_file_size,
     byte_progress         |-> rm.byte_progress + (k - rm.earliest_not_received)]

UnitsUpTo(rm, k) ==
    [i \in 1 .. k - rm.earliest_not_received |->
        rm.chunks_in_flight[SlotIndex(rm.earliest_not_received + i - 1)].unit]

(***************************************************************************)
(* store: what it returns, the manager it leaves behind and what it        *)
(* appends to the part file.  A manager that reports a violation is        *)
(* dropped by its caller, but what was written before stays written.       *)
(***************************************************************************)
StartsRun(rm, chunk) ==
    SlotIndex(chunk.idx) = SlotIndex(rm.earliest_not_received)

StoreResult(rm, chunk) ==
    LET buffered == BufferChunk(rm, chunk)
    IN  IF BeyondWindow(rm, chunk) THEN "ProtocolViolation"
        ELSE IF AlreadySeen(rm, chunk) \/ ~StartsRun(rm, chunk) THEN "Received"
        ELSE IF FittingUpTo(buffered) < BufferedUpTo(buffered)
             THEN "ProtocolViolation" ELSE "Received"

AfterStore(rm, chunk) ==
    LET buffered == BufferChunk(rm, chunk)
    IN  IF BeyondWindow(rm, chunk) \/ AlreadySeen(rm, chunk) THEN rm
        ELSE IF StartsRun(rm, chunk) THEN Drain(buffered, FittingUpTo(buffered))
        ELSE buffered

\* Slip: the chunk itself is written at once, whatever is missing before it.
AppendsOnArrival(rm, chunk) ==
    IF BeyondWindow(rm, chunk) \/ AlreadySeen(rm, chunk) THEN << >>
    ELSE <<chunk.unit>>

AppendedByStore(rm, chunk) ==
    LET buffered == BufferChunk(rm, chunk)
    IN  IF \/ BeyondWindow(rm, chunk) \/ AlreadySeen(rm, chunk)
           \/ ~StartsRun(rm, chunk)
        THEN << >>
        ELSE UnitsUpTo(buffered, FittingUpTo(buffered))
=============================================================================
