------------------------- MODULE ChunkWindow_proofs -------------------------
(***************************************************************************)
(* Proofs about one transfer attempt, for every window size, file length   *)
(* and resume offset: the sender's assertions hold, the receiver finds no  *)
(* violation, its part file is a prefix of the source, and Done is sent    *)
(* only when the file is complete.                                         *)
(***************************************************************************)
EXTENDS ChunkWindow, TLAPS, WellFoundedInduction

(***************************************************************************)
(* A non-empty set of natural numbers has a least element: what the loops  *)
(* of mark_done and store need in order to stop somewhere.                 *)
(***************************************************************************)
LEMMA LeastElement ==
    ASSUME NEW T \in SUBSET Nat, T # {}
    PROVE  \E x \in T : \A y \in T : x <= y
<1> DEFINE R == OpToRel(<, Nat)
<1>1. IsWellFoundedOn(R, Nat)
    BY NatLessThanWellFounded
<1>2. \A a, b \in Nat : a < b => <<a, b>> \in R
    BY DEF OpToRel
<1> HIDE DEF R
<1>3. PICK x \in T : \A y \in T : ~(<<y, x>> \in R)
    BY <1>1, WFMin
<1>4. \A y \in T : x \in Nat /\ y \in Nat /\ ~(y < x)
    BY <1>2, <1>3
<1>5. \A y \in T : x <= y
    BY <1>4
<1> QED
    BY <1>5

(***************************************************************************)
(* Two indices less than one turn apart own different slots.               *)
(***************************************************************************)
LEMMA SlotsDistinct ==
    ASSUME NEW W \in Nat \ {0}, NEW i \in Nat, NEW j \in Nat,
           i < j, j < i + W
    PROVE  i % W # j % W
<1> DEFINE turns == (j \div W) - (i \div W)
<1>1. i = W * (i \div W) + (i % W) /\ i \div W \in Nat
    OBVIOUS
<1>2. j = W * (j \div W) + (j % W) /\ j \div W \in Nat
    OBVIOUS
<1>3. SUFFICES ASSUME i % W = j % W PROVE FALSE
    OBVIOUS
<1>4. j - i = W * turns
    BY <1>1, <1>2, <1>3
<1>5. turns \in Int
    BY <1>1, <1>2
<1> HIDE DEF turns
<1>6. CASE turns <= 0
    <2>1. W * turns <= 0
        BY <1>6, <1>5
    <2> QED
        BY <2>1, <1>4
<1>7. CASE turns >= 1
    <2>1. W * turns >= W
        BY <1>7, <1>5
    <2> QED
        BY <2>1, <1>4
<1> QED
    BY <1>5, <1>6, <1>7

(***************************************************************************)
(* An index and the one a whole turn later own the same slot, which is one *)
(* of the slots of the buffer.                                             *)
(***************************************************************************)
LEMMA SlotPeriodic ==
    ASSUME NEW W \in Nat \ {0}, NEW i \in Nat
    PROVE  /\ i % W \in 0 .. W - 1
           /\ (i + W) % W = i % W
<1>1. i % W \in 0 .. W - 1
    OBVIOUS
<1>2. i = W * (i \div W) + (i % W) /\ i \div W \in Nat
    OBVIOUS
<1>3. i + W = W * ((i \div W) + 1) + (i % W)
    BY <1>2
<1>4. (i + W) = W * ((i + W) \div W) + ((i + W) % W)
      /\ (i + W) \div W \in Nat /\ (i + W) % W \in 0 .. W - 1
    OBVIOUS
<1> DEFINE q == ((i + W) \div W) - ((i \div W) + 1)
<1>5. q \in Int /\ W * q = (i % W) - ((i + W) % W)
    BY <1>2, <1>3, <1>4
<1>6. W * q < W /\ W * q > 0 - W
    BY <1>1, <1>4, <1>5
<1> HIDE DEF q
<1>7. q = 0
    <2>1. CASE q >= 1
        <3>1. W * q >= W
            BY <2>1, <1>5
        <3> QED
            BY <3>1, <1>6, <1>5
    <2>2. CASE q <= -1
        <3>1. W * q <= 0 - W
            BY <2>2, <1>5
        <3> QED
            BY <3>1, <1>6, <1>5
    <2> QED
        BY <2>1, <2>2, <1>5
<1> QED
    BY <1>1, <1>4, <1>5, <1>7

USE ParallelChunksAssumption, TransferAssumption

LEMMA SlotFacts ==
    /\ \A n \in Nat : SlotIndex(n) \in WindowSlots
    /\ \A n \in Nat : SlotIndex(n + ParallelChunks) = SlotIndex(n)
    /\ \A i, j \in Nat : i < j /\ j < i + ParallelChunks => SlotIndex(i) # SlotIndex(j)
<1>1. \A n \in Nat : SlotIndex(n) \in WindowSlots
                     /\ SlotIndex(n + ParallelChunks) = SlotIndex(n)
    BY SlotPeriodic DEF SlotIndex, WindowSlots
<1>2. \A i, j \in Nat : i < j /\ j < i + ParallelChunks => SlotIndex(i) # SlotIndex(j)
    BY SlotsDistinct DEF SlotIndex
<1> QED
    BY <1>1, <1>2

(***************************************************************************)
(* Indices of one window own different slots.                              *)
(***************************************************************************)
LEMMA WindowInjective ==
    ASSUME NEW e \in Nat,
           NEW i \in Nat, NEW j \in Nat,
           i >= e, i < e + ParallelChunks, j >= e, j < e + ParallelChunks,
           SlotIndex(i) = SlotIndex(j)
    PROVE  i = j
<1>1. CASE i < j
    <2>1. j < i + ParallelChunks
        OBVIOUS
    <2> QED
        BY <2>1, <1>1, SlotFacts
<1>2. CASE j < i
    <2>1. i < j + ParallelChunks
        OBVIOUS
    <2> QED
        BY <2>1, <1>2, SlotFacts
<1> QED
    BY <1>1, <1>2

(***************************************************************************)
(* The loop of mark_done stops at the first chunk not acknowledged.        *)
(***************************************************************************)
LEMMA AckedUpToExists ==
    ASSUME NEW s, s.earliest_not_sent \in Nat, s.next_slot \in Nat,
           s.earliest_not_sent <= s.next_slot
    PROVE  LET k == AckedUpTo(s)
           IN  /\ k \in s.earliest_not_sent .. s.next_slot
               /\ \/ k = s.next_slot
                  \/ s.chunks_in_flight[SlotIndex(k)] # "Acknowledged"
               /\ \A j \in s.earliest_not_sent .. k - 1 :
                      s.chunks_in_flight[SlotIndex(j)] = "Acknowledged"
<1> DEFINE e == s.earliest_not_sent
           n == s.next_slot
           Acked(k) == s.chunks_in_flight[SlotIndex(k)] = "Acknowledged"
           T == {k \in e .. n : k = n \/ ~Acked(k)}
<1>1. e \in Nat /\ n \in Nat /\ e <= n
    OBVIOUS
<1> HIDE DEF e, n, Acked
<1>2. n \in T /\ T \in SUBSET Nat
    BY <1>1
<1>3. PICK x \in T : \A y \in T : x <= y
    <2> HIDE DEF T
    <2> QED BY <1>2, LeastElement
<1>4. \A j \in e .. x - 1 : Acked(j)
    <2> SUFFICES ASSUME NEW j \in e .. x - 1, ~Acked(j) PROVE FALSE
        OBVIOUS
    <2>1. j \in T /\ j < x
        BY <1>1, <1>3
    <2> QED
        BY <2>1, <1>2, <1>3
<1>5. \E k \in e .. n : (k = n \/ ~Acked(k)) /\ \A j \in e .. k - 1 : Acked(j)
    BY <1>3, <1>4
<1> QED
    BY <1>5 DEF AckedUpTo, e, n, Acked

(***************************************************************************)
(* The loop of store stops within one turn, at the first empty slot.       *)
(***************************************************************************)
LEMMA BufferedUpToExists ==
    ASSUME NEW r, r.earliest_not_received \in Nat
    PROVE  LET k == BufferedUpTo(r)
           IN  /\ k \in r.earliest_not_received
                           .. r.earliest_not_received + ParallelChunks
               /\ \/ k = r.earliest_not_received + ParallelChunks
                  \/ r.chunks_in_flight[SlotIndex(k)] = NoChunk
               /\ \A j \in r.earliest_not_received .. k - 1 :
                      r.chunks_in_flight[SlotIndex(j)] # NoChunk
<1> DEFINE e == r.earliest_not_received
           n == r.earliest_not_received + ParallelChunks
           Filled(k) == r.chunks_in_flight[SlotIndex(k)] # NoChunk
           T == {k \in e .. n : k = n \/ ~Filled(k)}
<1>1. e \in Nat /\ n \in Nat /\ e <= n
    OBVIOUS
<1> HIDE DEF e, n, Filled
<1>2. n \in T /\ T \in SUBSET Nat
    BY <1>1
<1>3. PICK x \in T : \A y \in T : x <= y
    <2> HIDE DEF T
    <2> QED BY <1>2, LeastElement
<1>4. \A j \in e .. x - 1 : Filled(j)
    <2> SUFFICES ASSUME NEW j \in e .. x - 1, ~Filled(j) PROVE FALSE
        OBVIOUS
    <2>1. j \in T /\ j < x
        BY <1>1, <1>3
    <2> QED
        BY <2>1, <1>2, <1>3
<1>5. \E k \in e .. n : (k = n \/ ~Filled(k)) /\ \A j \in e .. k - 1 : Filled(j)
    BY <1>3, <1>4
<1> QED
    BY <1>5 DEF BufferedUpTo, e, n, Filled

(***************************************************************************)
(* What appending to the part file does.                                   *)
(***************************************************************************)
LEMMA ConcatFacts ==
    ASSUME NEW f \in Seq(Nat), NEW u \in Seq(Nat)
    PROVE  /\ f \o u \in Seq(Nat)
           /\ Len(f \o u) = Len(f) + Len(u)
           /\ \A x \in 1 .. Len(f) + Len(u) :
                 (f \o u)[x] = IF x <= Len(f) THEN f[x] ELSE u[x - Len(f)]
OBVIOUS

-----------------------------------------------------------------------------
\* The sender's window: exactly the chunks in it that wait for an answer are
\* Pending, the others in it Acknowledged, everything outside it Empty, and the
\* earliest chunk of a window that is not empty is Pending.
SenderInv ==
    /\ nextId = sm.next_slot
    /\ sm.earliest_not_sent <= sm.next_slot
    /\ sm.next_slot <= sm.earliest_not_sent + ParallelChunks
    /\ \A id \in outstanding :
          /\ id \in Nat /\ id >= sm.earliest_not_sent /\ id < sm.next_slot
          /\ sm.chunk_to_index[id] = id
    /\ \A i \in sm.earliest_not_sent .. sm.next_slot - 1 :
          sm.chunks_in_flight[SlotIndex(i)] =
              IF i \in outstanding THEN "Pending" ELSE "Acknowledged"
    /\ \A i \in sm.next_slot .. sm.earliest_not_sent + ParallelChunks - 1 :
          sm.chunks_in_flight[SlotIndex(i)] = "Empty"
    /\ sm.earliest_not_sent < sm.next_slot => sm.earliest_not_sent \in outstanding
    /\ sm.position = StartAt + sm.next_slot
    /\ sm.position <= FileUnits
    /\ sm.progress = StartAt + sm.earliest_not_sent

\* Every chunk under way carries the unit its index stands for.
RequestsInv ==
    \A m \in requests :
        /\ m.id = m.chunk.idx
        /\ m.id < sm.next_slot
        /\ m.chunk.unit = StartAt + m.chunk.idx

\* The chunk with index i, which was sent, has reached the receiver.
Received(i) ==
    \/ i < rm.earliest_not_received
    \/ rm.chunks_in_flight[SlotIndex(i)] # NoChunk

\* The receiver's window: it keeps chunks at their own index only, and waits for
\* the earliest.
ReceiverInv ==
    /\ rm.earliest_not_received <= sm.next_slot
    /\ rm.chunks_in_flight[SlotIndex(rm.earliest_not_received)] = NoChunk
    /\ \A i \in rm.earliest_not_received
                    .. rm.earliest_not_received + ParallelChunks - 1 :
          rm.chunks_in_flight[SlotIndex(i)] # NoChunk =>
              /\ rm.chunks_in_flight[SlotIndex(i)] = [idx |-> i, unit |-> StartAt + i]
              /\ i < sm.next_slot
    /\ rm.byte_progress = StartAt + rm.earliest_not_received

\* What was acknowledged, or is about to be, has been received.
AcksInv ==
    \A i \in 0 .. sm.next_slot - 1 :
        i \notin outstanding \/ i \in acks => Received(i)

\* The part file holds the units before the earliest index missing.
FileInv ==
    /\ Len(file) = StartAt + rm.earliest_not_received
    /\ \A i \in 1 .. Len(file) : file[i] = i - 1

PhaseInv ==
    phase # "Sending" =>
        sm.position = FileUnits /\ sm.earliest_not_sent = sm.next_slot

(***************************************************************************)
(* The inductive invariant.                                                *)
(***************************************************************************)
IInv ==
    /\ TypeOK
    /\ SenderInv
    /\ RequestsInv
    /\ ReceiverInv
    /\ AcksInv
    /\ FileInv
    /\ PhaseInv
    /\ answer = "Confirm"

(***************************************************************************)
(* The sender's window never lags behind what the receiver misses, so that *)
(* every chunk under way fits the receiver's window.                       *)
(***************************************************************************)
LEMMA WindowsOverlap ==
    ASSUME IInv
    PROVE  /\ sm.earliest_not_sent <= rm.earliest_not_received
           /\ sm.next_slot <= rm.earliest_not_received + ParallelChunks
<1>1. /\ sm.earliest_not_sent \in Nat /\ sm.next_slot \in Nat
      /\ rm.earliest_not_received \in Nat
      /\ sm.earliest_not_sent <= sm.next_slot
      /\ sm.next_slot <= sm.earliest_not_sent + ParallelChunks
      /\ \A id \in outstanding :
            id \in Nat /\ id >= sm.earliest_not_sent /\ id < sm.next_slot
      /\ rm.chunks_in_flight[SlotIndex(rm.earliest_not_received)] = NoChunk
    BY DEF IInv, TypeOK, SenderTypeOK, ReceiverTypeOK, SenderInv, ReceiverInv
<1>2. sm.earliest_not_sent <= rm.earliest_not_received
    <2> SUFFICES ASSUME rm.earliest_not_received < sm.earliest_not_sent
                 PROVE  FALSE
        BY <1>1
    <2>1. /\ rm.earliest_not_received \in 0 .. sm.next_slot - 1
          /\ rm.earliest_not_received \notin outstanding
        BY <1>1
    <2>2. Received(rm.earliest_not_received)
        BY <2>1 DEF IInv, AcksInv
    <2> QED
        BY <2>2, <1>1 DEF Received
<1> QED
    BY <1>1, <1>2

(***************************************************************************)
(* The facts about the variables that the steps below start from.          *)
(***************************************************************************)
LEMMA Basics ==
    ASSUME IInv
    PROVE  /\ sm.earliest_not_sent \in Nat /\ sm.next_slot \in Nat
           /\ sm.position \in Nat /\ sm.progress \in Nat
           /\ rm.earliest_not_received \in Nat /\ rm.byte_progress \in Nat
           /\ sm.earliest_not_sent <= sm.next_slot
           /\ sm.next_slot <= sm.earliest_not_sent + ParallelChunks
           /\ sm.chunk_to_index \in [outstanding -> Nat]
           /\ sm.chunks_in_flight \in [WindowSlots -> SlotStates]
           /\ rm.chunks_in_flight \in [WindowSlots -> [idx : Int, unit : Int]]
           /\ sm.file_size = FileUnits /\ rm.declared_file_size = FileUnits
           /\ nextId = sm.next_slot
           /\ \A id \in outstanding :
                 /\ id \in Nat /\ id >= sm.earliest_not_sent /\ id < sm.next_slot
                 /\ sm.chunk_to_index[id] = id
           /\ \A id \in acks : id \in outstanding
BY DEF IInv, TypeOK, SenderTypeOK, ReceiverTypeOK, NetworkTypeOK, SenderInv

LEMMA IInvInit == Init => IInv
<1> SUFFICES ASSUME Init PROVE IInv
    OBVIOUS
<1>1. \A i \in Nat : SlotIndex(i) \in WindowSlots
    BY SlotFacts
<1>2. /\ sm.chunk_to_index = [id \in {} |-> 0]
      /\ sm.chunks_in_flight = [x \in WindowSlots |-> "Empty"]
      /\ sm.earliest_not_sent = 0 /\ sm.next_slot = 0
      /\ sm.position = StartAt /\ sm.progress = StartAt /\ sm.file_size = FileUnits
    BY DEF Init, SetProgress, NewSendManager
<1>3. /\ rm.chunks_in_flight = [x \in WindowSlots |-> NoChunk]
      /\ rm.earliest_not_received = 0 /\ rm.byte_progress = StartAt
      /\ rm.declared_file_size = FileUnits
    BY DEF Init, NewReceiveManager
<1>4. file \in Seq(Nat) /\ Len(file) = StartAt /\ \A i \in 1 .. StartAt : file[i] = i - 1
    BY DEF Init
<1>5. TypeOK
    <2>1. /\ sm.chunk_to_index \in [{} -> Nat]
          /\ sm.chunks_in_flight \in [WindowSlots -> SlotStates]
          /\ rm.chunks_in_flight \in [WindowSlots -> [idx : Int, unit : Int]]
        BY <1>2, <1>3 DEF SlotStates, NoChunk
    <2> QED
        BY <2>1, <1>2, <1>3, <1>4 DEF Init, TypeOK, SenderTypeOK, ReceiverTypeOK, NetworkTypeOK
<1>6. SenderInv
    BY <1>1, <1>2 DEF Init, SenderInv
<1>7. RequestsInv /\ AcksInv /\ PhaseInv /\ answer = "Confirm"
    BY <1>2 DEF Init, RequestsInv, AcksInv, PhaseInv
<1>8. ReceiverInv
    BY <1>1, <1>2, <1>3 DEF ReceiverInv
<1>9. FileInv
    BY <1>3, <1>4 DEF FileInv
<1> QED
    BY <1>5, <1>6, <1>7, <1>8, <1>9 DEF IInv

LEMMA SendNextChunkPreservesIInv == IInv /\ SendNextChunk => IInv'
<1> SUFFICES ASSUME IInv, SendNextChunk PROVE IInv'
    OBVIOUS
<1> DEFINE n == sm.next_slot
           e == sm.earliest_not_sent
<1>1. /\ sm'.chunk_to_index = [i \in outstanding \cup {n} |->
                                  IF i = n THEN n ELSE sm.chunk_to_index[i]]
      /\ sm'.chunks_in_flight = [sm.chunks_in_flight EXCEPT ![SlotIndex(n)] = "Pending"]
      /\ sm'.earliest_not_sent = e
      /\ sm'.next_slot = n + 1
      /\ sm'.position = sm.position + 1
      /\ sm'.progress = sm.progress
      /\ sm'.file_size = sm.file_size
    <2>1. DOMAIN sm.chunk_to_index = outstanding /\ nextId = n
        BY Basics
    <2> QED
        BY <2>1 DEF SendNextChunk, ChunkSent
<1>2. /\ n \in Nat /\ e \in Nat /\ e <= n /\ n - e < ParallelChunks
      /\ sm.position < FileUnits /\ sm.position \in Nat
      /\ nextId = n
      /\ \A id \in outstanding : id \in Nat /\ id >= e /\ id < n
      /\ \A id \in acks : id \in outstanding
      /\ sm.chunks_in_flight \in [WindowSlots -> SlotStates]
    BY Basics DEF SendNextChunk, HasChunkToSend, IsReady, EndOfFile
<1>3. /\ outstanding' = outstanding \cup {n} /\ nextId' = n + 1
      /\ requests' = requests \cup {[id |-> n, chunk |-> [idx |-> n, unit |-> sm.position]]}
      /\ UNCHANGED <<rm, file, acks, phase, answer>>
      /\ phase = "Sending"
    BY <1>2 DEF SendNextChunk, NextChunk
<1>4. TypeOK'
    <2>1. /\ sm'.chunk_to_index \in [outstanding' -> Nat]
          /\ sm'.chunks_in_flight \in [WindowSlots -> SlotStates]
        BY <1>1, <1>2, <1>3, Basics, SlotFacts DEF SlotStates
    <2>2. requests' \in SUBSET [id : Nat, chunk : [idx : Nat, unit : Nat]]
        BY <1>2, <1>3 DEF IInv, TypeOK, NetworkTypeOK
    <2>3. outstanding' \in SUBSET Nat /\ acks' \in SUBSET outstanding' /\ nextId' \in Nat
        BY <1>2, <1>3
    <2>4. SenderTypeOK'
        BY <2>1, <1>1, <1>2, Basics DEF SenderTypeOK
    <2>5. ReceiverTypeOK'
        BY <1>3 DEF IInv, TypeOK, ReceiverTypeOK
    <2>6. NetworkTypeOK'
        BY <2>2, <2>3, <1>3 DEF IInv, TypeOK, NetworkTypeOK
    <2> QED
        BY <2>4, <2>5, <2>6 DEF TypeOK
<1>5. \A i \in e .. e + ParallelChunks - 1 : i # n => SlotIndex(i) # SlotIndex(n)
    BY <1>2, WindowInjective
<1>6. \A i \in Nat : SlotIndex(i) \in WindowSlots
    BY SlotFacts
<1>7. SenderInv'
    <2>1. \A i \in e .. n :
            sm'.chunks_in_flight[SlotIndex(i)] =
                IF i \in outstanding' THEN "Pending" ELSE "Acknowledged"
        <3> TAKE i \in e .. n
        <3>1. CASE i = n
            BY <3>1, <1>1, <1>2, <1>3, <1>6
        <3>2. CASE i # n
            <4>1. i \in e .. n - 1 /\ SlotIndex(i) # SlotIndex(n) /\ SlotIndex(i) \in WindowSlots
                BY <3>2, <1>2, <1>5, <1>6
            <4>2. sm'.chunks_in_flight[SlotIndex(i)] = sm.chunks_in_flight[SlotIndex(i)]
                BY <4>1, <1>1, <1>2
            <4> QED
                BY <4>1, <4>2, <3>2, <1>3 DEF IInv, SenderInv
        <3> QED
            BY <3>1, <3>2
    <2>2. \A i \in n + 1 .. e + ParallelChunks - 1 :
            sm'.chunks_in_flight[SlotIndex(i)] = "Empty"
        <3> TAKE i \in n + 1 .. e + ParallelChunks - 1
        <3>1. /\ i \in n .. e + ParallelChunks - 1 /\ SlotIndex(i) # SlotIndex(n)
              /\ SlotIndex(i) \in WindowSlots
            BY <1>2, <1>5, <1>6
        <3>2. sm'.chunks_in_flight[SlotIndex(i)] = sm.chunks_in_flight[SlotIndex(i)]
            BY <3>1, <1>1, <1>2
        <3> QED
            BY <3>1, <3>2 DEF IInv, SenderInv
    <2>3. \A id \in outstanding' : sm'.chunk_to_index[id] = id
        BY <1>1, <1>3 DEF IInv, SenderInv
    <2>4. e < n + 1 => e \in outstanding'
        BY <1>2, <1>3 DEF IInv, SenderInv
    <2>5. sm'.position = StartAt + (n + 1) /\ sm'.position <= FileUnits
          /\ sm'.progress = StartAt + e
        BY <1>1, <1>2 DEF IInv, SenderInv
    <2>6. \A id \in outstanding' : id \in Nat /\ id >= e /\ id < n + 1
        BY <1>2, <1>3
    <2>7. /\ (n + 1) - 1 = n
          /\ e <= n + 1 /\ n + 1 <= e + ParallelChunks
        BY <1>2
    <2> HIDE DEF n, e
    <2>8. /\ sm'.earliest_not_sent = e /\ sm'.next_slot = n + 1 /\ nextId' = n + 1
        BY <1>1, <1>3
    <2>9. /\ \A i \in sm'.earliest_not_sent .. sm'.next_slot - 1 :
              sm'.chunks_in_flight[SlotIndex(i)] =
                  IF i \in outstanding' THEN "Pending" ELSE "Acknowledged"
          /\ \A i \in sm'.next_slot .. sm'.earliest_not_sent + ParallelChunks - 1 :
                sm'.chunks_in_flight[SlotIndex(i)] = "Empty"
        BY <2>1, <2>2, <2>7, <2>8
    <2> QED
        BY <2>3, <2>4, <2>5, <2>6, <2>7, <2>8, <2>9 DEF SenderInv
<1>8. RequestsInv'
    <2>1. sm.position = StartAt + n
        BY DEF IInv, SenderInv
    <2>2. ASSUME NEW m \in requests PROVE m.id \in Nat /\ m.id < n + 1
        BY <1>2 DEF IInv, RequestsInv, TypeOK, NetworkTypeOK
    <2> QED
        BY <2>1, <2>2, <1>1, <1>2, <1>3 DEF IInv, RequestsInv
<1>9. ReceiverInv'
    <2>1. rm' = rm /\ rm.earliest_not_received \in Nat
        BY <1>3, Basics
    <2> QED
        BY <2>1, <1>1, <1>2 DEF IInv, ReceiverInv
<1>10. AcksInv'
    BY <1>1, <1>2, <1>3 DEF IInv, AcksInv, Received
<1>11. FileInv' /\ PhaseInv' /\ answer' = "Confirm"
    BY <1>3 DEF IInv, FileInv, PhaseInv
<1> QED
    BY <1>4, <1>7, <1>8, <1>9, <1>10, <1>11 DEF IInv

LEMMA SendDonePreservesIInv == IInv /\ SendDone => IInv'
<1> SUFFICES ASSUME IInv, SendDone PROVE IInv'
    OBVIOUS
<1>1. UNCHANGED <<sm, rm, file, requests, nextId, outstanding, acks, answer>>
    BY DEF SendDone
<1>2. phase' = "DoneSent" /\ sm.position = FileUnits
      /\ sm.earliest_not_sent = sm.next_slot
    <2>1. sm.position >= FileUnits /\ sm.earliest_not_sent = sm.next_slot
        BY Basics DEF SendDone, ReportsDone, EndOfFile
    <2>2. sm.position <= FileUnits /\ sm.position \in Nat
        BY Basics DEF IInv, SenderInv
    <2> QED
        BY <2>1, <2>2 DEF SendDone
<1>3. TypeOK'
    BY <1>1, <1>2
       DEF IInv, TypeOK, SenderTypeOK, ReceiverTypeOK, NetworkTypeOK
<1>4. SenderInv' /\ RequestsInv' /\ ReceiverInv' /\ AcksInv' /\ FileInv'
    BY <1>1 DEF IInv, SenderInv, RequestsInv, ReceiverInv, AcksInv, FileInv, Received
<1>5. PhaseInv' /\ answer' = "Confirm"
    BY <1>1, <1>2 DEF IInv, PhaseInv
<1> QED
    BY <1>3, <1>4, <1>5 DEF IInv

(***************************************************************************)
(* When Done has been sent, nothing is missing at the receiver.            *)
(***************************************************************************)
LEMMA CompleteWhenDone ==
    ASSUME IInv, phase # "Sending"
    PROVE  rm.byte_progress = FileUnits /\ Len(file) = FileUnits
<1>1. /\ sm.position = FileUnits /\ sm.earliest_not_sent = sm.next_slot
      /\ sm.position = StartAt + sm.next_slot
      /\ rm.earliest_not_received <= sm.next_slot
      /\ rm.byte_progress = StartAt + rm.earliest_not_received
      /\ Len(file) = StartAt + rm.earliest_not_received
    BY DEF IInv, PhaseInv, SenderInv, ReceiverInv, FileInv
<1> QED
    BY <1>1, WindowsOverlap, Basics

LEMMA ReceiveDonePreservesIInv == IInv /\ ReceiveDone => IInv'
<1> SUFFICES ASSUME IInv, ReceiveDone PROVE IInv'
    OBVIOUS
<1>1. /\ UNCHANGED <<sm, rm, file, requests, nextId, outstanding, acks, answer>>
      /\ phase' = "Confirmed" /\ phase = "DoneSent"
    BY CompleteWhenDone, Basics DEF ReceiveDone
<1>2. TypeOK'
    BY <1>1 DEF IInv, TypeOK, SenderTypeOK, ReceiverTypeOK, NetworkTypeOK
<1>3. SenderInv' /\ RequestsInv' /\ ReceiverInv' /\ AcksInv' /\ FileInv'
    BY <1>1 DEF IInv, SenderInv, RequestsInv, ReceiverInv, AcksInv, FileInv, Received
<1>4. PhaseInv' /\ answer' = "Confirm"
    BY <1>1 DEF IInv, PhaseInv
<1> QED
    BY <1>2, <1>3, <1>4 DEF IInv

(***************************************************************************)
(* An acknowledgement of a chunk that is not the earliest.                 *)
(***************************************************************************)
LEMMA AcknowledgeLaterPreservesSenderInv ==
    ASSUME IInv, NEW id \in acks, id # sm.earliest_not_sent,
           ReceiveConfirmChunk(id)
    PROVE  SenderInv' /\ SenderTypeOK' /\ sm'.next_slot = sm.next_slot
           /\ sm'.position = sm.position
           /\ (sm.earliest_not_sent = sm.next_slot =>
                   sm'.earliest_not_sent = sm.earliest_not_sent)
<1> DEFINE n == sm.next_slot
           e == sm.earliest_not_sent
<1>1. /\ id \in outstanding /\ id \in Nat /\ id >= e /\ id < n
      /\ sm.chunk_to_index[id] = id /\ DOMAIN sm.chunk_to_index = outstanding
      /\ e \in Nat /\ n \in Nat /\ n <= e + ParallelChunks /\ SlotIndex(id) \in WindowSlots
    BY Basics, SlotFacts
<1>2. /\ sm'.chunk_to_index = [i \in outstanding \ {id} |-> sm.chunk_to_index[i]]
      /\ sm'.chunks_in_flight =
             [sm.chunks_in_flight EXCEPT ![SlotIndex(id)] = "Acknowledged"]
      /\ sm'.earliest_not_sent = e /\ sm'.next_slot = n
      /\ sm'.position = sm.position /\ sm'.progress = sm.progress
      /\ sm'.file_size = sm.file_size
    BY <1>1 DEF ReceiveConfirmChunk, MarkDone, Acknowledge
<1>3. outstanding' = outstanding \ {id} /\ nextId' = nextId
    BY DEF ReceiveConfirmChunk
<1>4. SenderTypeOK'
    BY <1>1, <1>2, <1>3, Basics DEF SenderTypeOK, SlotStates
<1>5. \A i \in Nat : i >= e /\ i < e + ParallelChunks /\ i # id =>
          sm'.chunks_in_flight[SlotIndex(i)] = sm.chunks_in_flight[SlotIndex(i)]
    <2> SUFFICES ASSUME NEW i \in Nat, i >= e, i < e + ParallelChunks, i # id
                 PROVE  sm'.chunks_in_flight[SlotIndex(i)]
                            = sm.chunks_in_flight[SlotIndex(i)]
        OBVIOUS
    <2>1. SlotIndex(i) # SlotIndex(id) /\ SlotIndex(i) \in WindowSlots
        BY <1>1, WindowInjective, SlotFacts
    <2> QED
        BY <2>1, <1>2, Basics
<1>6. \A i \in e .. n - 1 :
          sm'.chunks_in_flight[SlotIndex(i)] =
              IF i \in outstanding' THEN "Pending" ELSE "Acknowledged"
    <2> TAKE i \in e .. n - 1
    <2>1. CASE i = id
        BY <2>1, <1>1, <1>2, <1>3, Basics
    <2>2. CASE i # id
        <3>1. sm'.chunks_in_flight[SlotIndex(i)] = sm.chunks_in_flight[SlotIndex(i)]
            BY <2>2, <1>1, <1>5
        <3> QED
            BY <3>1, <2>2, <1>3 DEF IInv, SenderInv
    <2> QED
        BY <2>1, <2>2
<1>7. \A i \in n .. e + ParallelChunks - 1 :
          sm'.chunks_in_flight[SlotIndex(i)] = "Empty"
    <2> TAKE i \in n .. e + ParallelChunks - 1
    <2>1. sm'.chunks_in_flight[SlotIndex(i)] = sm.chunks_in_flight[SlotIndex(i)]
        BY <1>1, <1>5
    <2> QED
        BY <2>1 DEF IInv, SenderInv
<1>8. \A i \in outstanding' :
          /\ i \in Nat /\ i >= e /\ i < n
          /\ sm'.chunk_to_index[i] = i
    BY <1>2, <1>3, Basics
<1>9. /\ e < n => e \in outstanding'
      /\ sm.position = StartAt + n /\ sm.position <= FileUnits
      /\ sm.progress = StartAt + e /\ e <= n /\ nextId' = n
    BY <1>1, <1>3, Basics DEF IInv, SenderInv
<1>10. SenderInv'
    <2> HIDE DEF n, e
    <2>1. sm'.earliest_not_sent = e /\ sm'.next_slot = n
        BY <1>2
    <2> QED
        BY <2>1, <1>1, <1>2, <1>6, <1>7, <1>8, <1>9 DEF SenderInv
<1> QED
    BY <1>2, <1>4, <1>10

(***************************************************************************)
(* An acknowledgement of the earliest chunk: the window slides.            *)
(***************************************************************************)
LEMMA AcknowledgeEarliestPreservesSenderInv ==
    ASSUME IInv, NEW id \in acks, id = sm.earliest_not_sent,
           ReceiveConfirmChunk(id)
    PROVE  SenderInv' /\ SenderTypeOK' /\ sm'.next_slot = sm.next_slot
           /\ sm'.position = sm.position
           /\ sm.earliest_not_sent # sm.next_slot
<1> DEFINE n == sm.next_slot
           e == sm.earliest_not_sent
           acked == Acknowledge(sm, id, id)
           k == AckedUpTo(acked)
<1>1. /\ id \in outstanding /\ id \in Nat /\ id = e /\ e < n
      /\ sm.chunk_to_index[id] = id /\ DOMAIN sm.chunk_to_index = outstanding
      /\ e \in Nat /\ n \in Nat /\ n <= e + ParallelChunks /\ SlotIndex(e) \in WindowSlots
      /\ sm.progress \in Nat
    BY Basics, SlotFacts
<1>2. /\ acked.chunk_to_index = [i \in outstanding \ {e} |-> sm.chunk_to_index[i]]
      /\ acked.chunks_in_flight =
             [sm.chunks_in_flight EXCEPT ![SlotIndex(e)] = "Acknowledged"]
      /\ acked.earliest_not_sent = e /\ acked.next_slot = n
      /\ acked.position = sm.position /\ acked.progress = sm.progress
      /\ acked.file_size = sm.file_size
    BY <1>1 DEF Acknowledge
<1>3. sm' = SlideSendWindow(acked)
    BY <1>1 DEF ReceiveConfirmChunk, MarkDone
<1> HIDE DEF acked
<1>4. /\ k \in e .. n
      /\ k = n \/ acked.chunks_in_flight[SlotIndex(k)] # "Acknowledged"
      /\ \A j \in e .. k - 1 : acked.chunks_in_flight[SlotIndex(j)] = "Acknowledged"
    <2>1. /\ acked.earliest_not_sent \in Nat /\ acked.next_slot \in Nat
          /\ acked.earliest_not_sent <= acked.next_slot
        BY <1>1, <1>2
    <2>2. /\ k \in acked.earliest_not_sent .. acked.next_slot
          /\ \/ k = acked.next_slot
             \/ acked.chunks_in_flight[SlotIndex(k)] # "Acknowledged"
          /\ \A j \in acked.earliest_not_sent .. k - 1 :
                acked.chunks_in_flight[SlotIndex(j)] = "Acknowledged"
        BY <2>1, AckedUpToExists
    <2> QED
        BY <2>2, <1>2
<1>5. /\ sm'.chunk_to_index = acked.chunk_to_index
      /\ sm'.chunks_in_flight = [s \in WindowSlots |->
             IF \E j \in e .. k - 1 : s = SlotIndex(j)
             THEN "Empty" ELSE acked.chunks_in_flight[s]]
      /\ sm'.earliest_not_sent = k
      /\ sm'.next_slot = n
      /\ sm'.position = sm.position
      /\ sm'.progress = sm.progress + (k - e)
      /\ sm'.file_size = sm.file_size
    BY <1>2, <1>3 DEF SlideSendWindow
<1>6. outstanding' = outstanding \ {e} /\ nextId' = nextId
    BY <1>1 DEF ReceiveConfirmChunk
<1> HIDE DEF k
<1>7. acked.chunks_in_flight \in [WindowSlots -> SlotStates]
    BY <1>1, <1>2, Basics DEF SlotStates
<1>8. k > e /\ k \in Nat
    <2>1. acked.chunks_in_flight[SlotIndex(e)] = "Acknowledged"
        BY <1>1, <1>2, Basics
    <2>2. k # e
        BY <2>1, <1>1, <1>4
    <2> QED
        BY <2>2, <1>1, <1>4
<1>9. \A i \in Nat : i > e /\ i < e + ParallelChunks =>
          acked.chunks_in_flight[SlotIndex(i)] = sm.chunks_in_flight[SlotIndex(i)]
    <2> SUFFICES ASSUME NEW i \in Nat, i > e, i < e + ParallelChunks
                 PROVE  acked.chunks_in_flight[SlotIndex(i)]
                            = sm.chunks_in_flight[SlotIndex(i)]
        OBVIOUS
    <2>1. SlotIndex(i) # SlotIndex(e) /\ SlotIndex(i) \in WindowSlots
        BY <1>1, SlotFacts
    <2> QED
        BY <2>1, <1>2, Basics
<1>10. \A i \in Nat : i >= k /\ i < e + ParallelChunks =>
          sm'.chunks_in_flight[SlotIndex(i)] = sm.chunks_in_flight[SlotIndex(i)]
    <2> SUFFICES ASSUME NEW i \in Nat, i >= k, i < e + ParallelChunks
                 PROVE  sm'.chunks_in_flight[SlotIndex(i)]
                            = sm.chunks_in_flight[SlotIndex(i)]
        OBVIOUS
    <2>1. \A j \in e .. k - 1 : SlotIndex(i) # SlotIndex(j)
        <3> TAKE j \in e .. k - 1
        <3>1. j \in Nat /\ j < i /\ i < j + ParallelChunks
            BY <1>1, <1>8
        <3> QED
            BY <3>1, SlotFacts
    <2>2. SlotIndex(i) \in WindowSlots
        BY SlotFacts
    <2>3. sm'.chunks_in_flight[SlotIndex(i)] = acked.chunks_in_flight[SlotIndex(i)]
        BY <2>1, <2>2, <1>5
    <2> QED
        BY <2>3, <1>1, <1>8, <1>9
<1>11. \A i \in outstanding' :
          /\ i \in Nat /\ i >= k /\ i < n
          /\ sm'.chunk_to_index[i] = i
    <2> TAKE i \in outstanding'
    <2>1. /\ i \in outstanding /\ i # e /\ i \in Nat /\ i >= e /\ i < n
          /\ sm.chunk_to_index[i] = i
        BY <1>6, Basics
    <2>2. sm.chunks_in_flight[SlotIndex(i)] = "Pending"
        BY <2>1, <1>1 DEF IInv, SenderInv
    <2>3. acked.chunks_in_flight[SlotIndex(i)] = "Pending"
        BY <2>1, <2>2, <1>1, <1>9
    <2>4. ~(i < k)
        BY <2>1, <2>3, <1>4, <1>1
    <2>5. sm'.chunk_to_index[i] = i
        BY <2>1, <1>2, <1>5
    <2> QED
        BY <2>1, <2>4, <2>5, <1>8
<1>12. \A i \in k .. n - 1 :
          sm'.chunks_in_flight[SlotIndex(i)] =
              IF i \in outstanding' THEN "Pending" ELSE "Acknowledged"
    <2> TAKE i \in k .. n - 1
    <2>1. i \in Nat /\ i >= k /\ i < e + ParallelChunks /\ i \in e .. n - 1 /\ i # e
        BY <1>1, <1>8
    <2>2. sm'.chunks_in_flight[SlotIndex(i)] = sm.chunks_in_flight[SlotIndex(i)]
        BY <2>1, <1>10
    <2> QED
        BY <2>1, <2>2, <1>6 DEF IInv, SenderInv
<1>13. \A i \in n .. k + ParallelChunks - 1 :
          sm'.chunks_in_flight[SlotIndex(i)] = "Empty"
    <2> TAKE i \in n .. k + ParallelChunks - 1
    <2>0. i \in Nat /\ i >= k
        BY <1>1, <1>4
    <2>1. CASE i < e + ParallelChunks
        <3>1. sm'.chunks_in_flight[SlotIndex(i)] = sm.chunks_in_flight[SlotIndex(i)]
            BY <2>0, <2>1, <1>10
        <3>2. i \in n .. e + ParallelChunks - 1
            BY <2>0, <2>1, <1>1
        <3> QED
            BY <3>1, <3>2 DEF IInv, SenderInv
    <2>2. CASE i >= e + ParallelChunks
        <3> DEFINE j == i - ParallelChunks
        <3>1. j \in Nat /\ j \in e .. k - 1 /\ j + ParallelChunks = i
            BY <2>0, <2>2, <1>1, <1>8
        <3>2. SlotIndex(i) = SlotIndex(j) /\ SlotIndex(i) \in WindowSlots
            BY <3>1, <2>0, SlotFacts
        <3> HIDE DEF j
        <3> QED
            BY <3>1, <3>2, <1>5
    <2> QED
        BY <2>0, <2>1, <2>2, <1>1
<1>14. k < n => k \in outstanding'
    <2> SUFFICES ASSUME k < n PROVE k \in outstanding'
        OBVIOUS
    <2>1. acked.chunks_in_flight[SlotIndex(k)] # "Acknowledged"
        BY <1>4, <1>8, <1>1
    <2>2. sm.chunks_in_flight[SlotIndex(k)] # "Acknowledged" /\ k \in e .. n - 1
        BY <2>1, <1>1, <1>8, <1>9
    <2> QED
        BY <2>2, <1>6, <1>8 DEF IInv, SenderInv
<1>15. /\ sm.position = StartAt + n /\ sm.position <= FileUnits
       /\ sm'.progress = StartAt + k /\ nextId' = n
       /\ k <= n /\ n <= k + ParallelChunks
    <2>1. /\ sm.position = StartAt + n /\ sm.position <= FileUnits
          /\ sm.progress = StartAt + e /\ nextId = n
        BY DEF IInv, SenderInv
    <2> QED
        BY <2>1, <1>1, <1>4, <1>5, <1>6, <1>8
<1>16. SenderInv'
    <2> HIDE DEF n, e
    <2>1. sm'.earliest_not_sent = k /\ sm'.next_slot = n /\ sm'.position = sm.position
        BY <1>5
    <2> QED
        BY <2>1, <1>11, <1>12, <1>13, <1>14, <1>15 DEF SenderInv
<1>17. SenderTypeOK'
    <2>1. sm'.chunk_to_index \in [outstanding' -> Nat]
        BY <1>2, <1>5, <1>6, Basics
    <2>2. sm'.chunks_in_flight \in [WindowSlots -> SlotStates]
        BY <1>5, <1>7 DEF SlotStates
    <2>3. sm'.progress \in Nat
        BY <1>1, <1>5, <1>8
    <2> QED
        BY <2>1, <2>2, <2>3, <1>1, <1>5, <1>8, Basics DEF SenderTypeOK
<1> QED
    BY <1>1, <1>5, <1>16, <1>17

LEMMA ReceiveConfirmChunkPreservesIInv ==
    ASSUME IInv, NEW id \in acks, ReceiveConfirmChunk(id)
    PROVE  IInv'
<1>1. /\ SenderInv' /\ SenderTypeOK' /\ sm'.next_slot = sm.next_slot
      /\ sm'.position = sm.position
      /\ (sm.earliest_not_sent = sm.next_slot =>
              sm'.earliest_not_sent = sm.earliest_not_sent)
    BY AcknowledgeLaterPreservesSenderInv, AcknowledgeEarliestPreservesSenderInv
<1>2. /\ UNCHANGED <<rm, file, requests, nextId, phase, answer>>
      /\ acks' = acks \ {id} /\ outstanding' = outstanding \ {id}
    BY DEF ReceiveConfirmChunk
<1>3. TypeOK'
    <2>1. ReceiverTypeOK'
        BY <1>2 DEF IInv, TypeOK, ReceiverTypeOK
    <2>2. NetworkTypeOK'
        BY <1>2 DEF IInv, TypeOK, NetworkTypeOK
    <2> QED
        BY <2>1, <2>2, <1>1 DEF TypeOK
<1>4. RequestsInv' /\ ReceiverInv' /\ FileInv'
    BY <1>1, <1>2 DEF IInv, RequestsInv, ReceiverInv, FileInv
<1>5. AcksInv'
    BY <1>1, <1>2 DEF IInv, AcksInv, Received
<1>6. PhaseInv' /\ answer' = "Confirm"
    BY <1>1, <1>2 DEF IInv, PhaseInv
<1> QED
    BY <1>1, <1>3, <1>4, <1>5, <1>6 DEF IInv

(***************************************************************************)
(* A chunk the receiver has written already changes nothing.               *)
(***************************************************************************)
LEMMA OldChunkPreservesIInv ==
    ASSUME IInv, NEW m \in requests, ReceiveChunk(m),
           m.chunk.idx < rm.earliest_not_received
    PROVE  IInv' /\ Len(file') >= Len(file)
<1>1. /\ m.chunk.idx \in Nat /\ rm.earliest_not_received \in Nat
      /\ m.id = m.chunk.idx
    BY Basics DEF IInv, TypeOK, NetworkTypeOK, RequestsInv
<1>2. AlreadySeen(rm, m.chunk) /\ ~BeyondWindow(rm, m.chunk)
    BY <1>1 DEF AlreadySeen, BeyondWindow
<1>3. /\ UNCHANGED <<sm, rm, requests, nextId, outstanding, phase, answer>>
      /\ file' = file \o << >>
      /\ acks' = acks \cup ({m.id} \cap outstanding)
    BY <1>2 DEF ReceiveChunk, StoreResult, AfterStore, AppendedByStore
<1>4. file' = file
    BY <1>3 DEF IInv, TypeOK, ReceiverTypeOK
<1>5. TypeOK'
    BY <1>3, <1>4 DEF IInv, TypeOK, SenderTypeOK, ReceiverTypeOK, NetworkTypeOK
<1>6. SenderInv' /\ RequestsInv' /\ ReceiverInv' /\ FileInv' /\ PhaseInv'
    BY <1>3, <1>4 DEF IInv, SenderInv, RequestsInv, ReceiverInv, FileInv, PhaseInv
<1>7. AcksInv'
    BY <1>1, <1>3 DEF IInv, AcksInv, Received
<1>8. Len(file') >= Len(file)
    BY <1>4 DEF IInv, TypeOK, ReceiverTypeOK
<1> QED
    BY <1>3, <1>5, <1>6, <1>7, <1>8 DEF IInv

(***************************************************************************)
(* What is common to the chunks the receiver still misses.                 *)
(***************************************************************************)
LEMMA MissingChunk ==
    ASSUME IInv, NEW m \in requests, m.chunk.idx >= rm.earliest_not_received
    PROVE  LET i == m.chunk.idx
               b == BufferChunk(rm, m.chunk)
           IN  /\ i \in Nat /\ m.id = i /\ i < sm.next_slot
               /\ i < rm.earliest_not_received + ParallelChunks
               /\ ~AlreadySeen(rm, m.chunk) /\ ~BeyondWindow(rm, m.chunk)
               /\ StartsRun(rm, m.chunk) <=> i = rm.earliest_not_received
               /\ m.chunk = [idx |-> i, unit |-> StartAt + i]
               /\ m.chunk # NoChunk
               /\ b.chunks_in_flight =
                      [rm.chunks_in_flight EXCEPT ![SlotIndex(i)] = m.chunk]
               /\ b.chunks_in_flight \in [WindowSlots -> [idx : Int, unit : Int]]
               /\ b.earliest_not_received = rm.earliest_not_received
               /\ b.declared_file_size = FileUnits
               /\ b.byte_progress = rm.byte_progress
<1> DEFINE i == m.chunk.idx
           re == rm.earliest_not_received
<1>1. /\ i \in Nat /\ m.id = i /\ i < sm.next_slot /\ i >= re
      /\ m.chunk \in [idx : Nat, unit : Nat]
      /\ m.chunk.unit = StartAt + i
    BY DEF IInv, TypeOK, NetworkTypeOK, RequestsInv
<1>2. /\ re \in Nat /\ sm.next_slot \in Nat /\ i < re + ParallelChunks
      /\ rm.chunks_in_flight \in [WindowSlots -> [idx : Int, unit : Int]]
      /\ SlotIndex(i) \in WindowSlots
    BY <1>1, Basics, WindowsOverlap, SlotFacts
<1>3. ~AlreadySeen(rm, m.chunk) /\ ~BeyondWindow(rm, m.chunk)
    BY <1>1, <1>2 DEF AlreadySeen, BeyondWindow
<1>4. StartsRun(rm, m.chunk) <=> i = re
    <2>1. re < re + ParallelChunks /\ re >= re
        BY <1>2
    <2> QED
        BY <2>1, <1>1, <1>2, WindowInjective DEF StartsRun
<1>5. m.chunk = [idx |-> i, unit |-> StartAt + i] /\ m.chunk # NoChunk
    BY <1>1 DEF NoChunk
<1>6. m.chunk \in [idx : Int, unit : Int]
    BY <1>1
<1>7. LET b == BufferChunk(rm, m.chunk)
      IN  /\ b.chunks_in_flight =
                 [rm.chunks_in_flight EXCEPT ![SlotIndex(i)] = m.chunk]
          /\ b.chunks_in_flight \in [WindowSlots -> [idx : Int, unit : Int]]
          /\ b.earliest_not_received = re
          /\ b.declared_file_size = FileUnits
          /\ b.byte_progress = rm.byte_progress
    BY <1>2, <1>6, Basics DEF BufferChunk
<1> QED
    BY <1>1, <1>2, <1>3, <1>4, <1>5, <1>7

(***************************************************************************)
(* A chunk that came too early is kept.                                    *)
(***************************************************************************)
LEMMA EarlyChunkPreservesIInv ==
    ASSUME IInv, NEW m \in requests, ReceiveChunk(m),
           m.chunk.idx > rm.earliest_not_received
    PROVE  IInv' /\ Len(file') >= Len(file)
<1> DEFINE i == m.chunk.idx
           re == rm.earliest_not_received
<1>0. m.chunk.idx \in Nat /\ re \in Nat /\ m.chunk.idx >= re
    BY Basics DEF IInv, TypeOK, NetworkTypeOK
<1>1. /\ i \in Nat /\ m.id = i /\ i < sm.next_slot /\ i < re + ParallelChunks
      /\ ~AlreadySeen(rm, m.chunk) /\ ~BeyondWindow(rm, m.chunk)
      /\ ~StartsRun(rm, m.chunk)
      /\ m.chunk = [idx |-> i, unit |-> StartAt + i] /\ m.chunk # NoChunk
    <2>1. i # re
        BY <1>0
    <2>2. /\ i \in Nat /\ m.id = i /\ i < sm.next_slot /\ i < re + ParallelChunks
          /\ m.chunk = [idx |-> i, unit |-> StartAt + i] /\ m.chunk # NoChunk
        BY <1>0, MissingChunk
    <2>3. /\ ~AlreadySeen(rm, m.chunk) /\ ~BeyondWindow(rm, m.chunk)
          /\ StartsRun(rm, m.chunk) <=> i = re
        BY <1>0, MissingChunk
    <2> QED
        BY <2>1, <2>2, <2>3
<1>2. /\ UNCHANGED <<sm, requests, nextId, outstanding, phase, answer>>
      /\ file' = file \o << >>
      /\ rm' = BufferChunk(rm, m.chunk)
      /\ acks' = acks \cup ({m.id} \cap outstanding)
    BY <1>1 DEF ReceiveChunk, StoreResult, AfterStore, AppendedByStore
<1>3. /\ rm'.chunks_in_flight =
             [rm.chunks_in_flight EXCEPT ![SlotIndex(i)] = m.chunk]
      /\ rm'.chunks_in_flight \in [WindowSlots -> [idx : Int, unit : Int]]
      /\ rm'.earliest_not_received = re
      /\ rm'.declared_file_size = FileUnits
      /\ rm'.byte_progress = rm.byte_progress
    BY <1>0, <1>2, MissingChunk
<1>4. file' = file
    BY <1>2 DEF IInv, TypeOK, ReceiverTypeOK
<1>5. TypeOK'
    <2>1. ReceiverTypeOK'
        BY <1>0, <1>3, <1>4 DEF IInv, TypeOK, ReceiverTypeOK
    <2>2. SenderTypeOK' /\ NetworkTypeOK'
        BY <1>2 DEF IInv, TypeOK, SenderTypeOK, NetworkTypeOK
    <2> QED
        BY <2>1, <2>2 DEF TypeOK
<1>6. SenderInv' /\ RequestsInv' /\ PhaseInv' /\ answer' = "Confirm"
    BY <1>2 DEF IInv, SenderInv, RequestsInv, PhaseInv
<1>7. FileInv'
    BY <1>3, <1>4 DEF IInv, FileInv
<1>8. \A j \in Nat : j >= re /\ j < re + ParallelChunks =>
          /\ j = i => rm'.chunks_in_flight[SlotIndex(j)] = m.chunk
          /\ j # i => rm'.chunks_in_flight[SlotIndex(j)]
                          = rm.chunks_in_flight[SlotIndex(j)]
    <2> SUFFICES ASSUME NEW j \in Nat, j >= re, j < re + ParallelChunks
                 PROVE  /\ j = i => rm'.chunks_in_flight[SlotIndex(j)] = m.chunk
                        /\ j # i => rm'.chunks_in_flight[SlotIndex(j)]
                                        = rm.chunks_in_flight[SlotIndex(j)]
        OBVIOUS
    <2>1. SlotIndex(j) \in WindowSlots /\ SlotIndex(i) \in WindowSlots
        BY <1>1, SlotFacts
    <2>2. j # i => SlotIndex(j) # SlotIndex(i)
        BY <1>0, <1>1, WindowInjective
    <2> QED
        BY <2>1, <2>2, <1>3, Basics
<1>9. ReceiverInv'
    <2>1. rm'.chunks_in_flight[SlotIndex(re)] = NoChunk
        BY <1>0, <1>8 DEF IInv, ReceiverInv
    <2>2. \A j \in re .. re + ParallelChunks - 1 :
            rm'.chunks_in_flight[SlotIndex(j)] # NoChunk =>
                /\ rm'.chunks_in_flight[SlotIndex(j)] = [idx |-> j, unit |-> StartAt + j]
                /\ j < sm.next_slot
        <3> TAKE j \in re .. re + ParallelChunks - 1
        <3>0. j \in Nat /\ j >= re /\ j < re + ParallelChunks
            BY <1>0
        <3>1. CASE j = i
            BY <3>0, <3>1, <1>1, <1>8
        <3>2. CASE j # i
            <4>1. rm'.chunks_in_flight[SlotIndex(j)] = rm.chunks_in_flight[SlotIndex(j)]
                BY <3>0, <3>2, <1>8
            <4> QED
                BY <4>1 DEF IInv, ReceiverInv
        <3> QED
            BY <3>1, <3>2
    <2>3. re <= sm.next_slot /\ rm'.byte_progress = StartAt + re
        BY <1>3 DEF IInv, ReceiverInv
    <2> HIDE DEF re
    <2> QED
        BY <2>1, <2>2, <2>3, <1>2, <1>3 DEF ReceiverInv
<1>10. AcksInv'
    <2> SUFFICES ASSUME NEW j \in 0 .. sm.next_slot - 1,
                        j \notin outstanding \/ j \in acks \/ j = i
                 PROVE  Received(j)'
        BY <1>1, <1>2 DEF AcksInv
    <2>0. j \in Nat /\ j < re + ParallelChunks
        BY WindowsOverlap, Basics
    <2>1. CASE j < re
        BY <2>1, <1>3 DEF Received
    <2>2. CASE j >= re /\ j = i
        BY <2>0, <2>2, <1>1, <1>8 DEF Received
    <2>3. CASE j >= re /\ j # i
        <3>1. Received(j)
            BY <2>3 DEF IInv, AcksInv
        <3>2. rm.chunks_in_flight[SlotIndex(j)] # NoChunk
            BY <3>1, <2>0, <2>3, <1>0 DEF Received
        <3> QED
            BY <3>2, <2>0, <2>3, <1>8 DEF Received
    <2> QED
        BY <2>0, <2>1, <2>2, <2>3, <1>0
<1>11. Len(file') >= Len(file)
    BY <1>4 DEF IInv, TypeOK, ReceiverTypeOK
<1> QED
    BY <1>5, <1>6, <1>7, <1>9, <1>10, <1>11 DEF IInv

(***************************************************************************)
(* The chunk the receiver waits for: everything up to the next gap is      *)
(* appended to the part file.                                              *)
(***************************************************************************)
LEMMA AwaitedChunkPreservesIInv ==
    ASSUME IInv, NEW m \in requests, ReceiveChunk(m),
           m.chunk.idx = rm.earliest_not_received
    PROVE  IInv' /\ Len(file') >= Len(file)
<1> DEFINE re == rm.earliest_not_received
           n == sm.next_slot
           b == BufferChunk(rm, m.chunk)
           k == BufferedUpTo(b)
<1>0. /\ re \in Nat /\ n \in Nat /\ m.chunk.idx >= re /\ m.chunk.idx = re
      /\ n <= re + ParallelChunks
      /\ SlotIndex(re) \in WindowSlots
      /\ StartAt + n <= FileUnits
      /\ rm.byte_progress = StartAt + re
      /\ rm.chunks_in_flight \in [WindowSlots -> [idx : Int, unit : Int]]
    <2>1. /\ re \in Nat /\ n \in Nat
          /\ rm.chunks_in_flight \in [WindowSlots -> [idx : Int, unit : Int]]
        BY Basics
    <2>2. n <= re + ParallelChunks
        BY WindowsOverlap
    <2>3. SlotIndex(re) \in WindowSlots
        BY <2>1, SlotFacts
    <2>4. StartAt + n <= FileUnits
        BY DEF IInv, SenderInv
    <2>5. rm.byte_progress = StartAt + re
        BY DEF IInv, ReceiverInv
    <2>6. m.chunk.idx = re
        OBVIOUS
    <2> HIDE DEF re, n
    <2> QED
        BY <2>1, <2>2, <2>3, <2>4, <2>5, <2>6
<1>1. /\ m.id = re /\ re < n
      /\ m.chunk = [idx |-> re, unit |-> StartAt + re] /\ m.chunk # NoChunk
    BY <1>0, MissingChunk
<1>2. /\ ~AlreadySeen(rm, m.chunk) /\ ~BeyondWindow(rm, m.chunk)
      /\ StartsRun(rm, m.chunk)
    BY <1>0, MissingChunk
<1>3. /\ b.chunks_in_flight = [rm.chunks_in_flight EXCEPT ![SlotIndex(re)] = m.chunk]
      /\ b.chunks_in_flight \in [WindowSlots -> [idx : Int, unit : Int]]
      /\ b.earliest_not_received = re
      /\ b.declared_file_size = FileUnits
      /\ b.byte_progress = rm.byte_progress
    BY <1>0, MissingChunk
<1>4. /\ AfterStore(rm, m.chunk) = Drain(b, FittingUpTo(b))
      /\ AppendedByStore(rm, m.chunk) = UnitsUpTo(b, FittingUpTo(b))
      /\ ~(FittingUpTo(b) < k) => StoreResult(rm, m.chunk) = "Received"
    BY <1>2 DEF AfterStore, AppendedByStore, StoreResult
<1> HIDE DEF b
<1>5. /\ k \in re .. re + ParallelChunks
      /\ k = re + ParallelChunks \/ b.chunks_in_flight[SlotIndex(k)] = NoChunk
      /\ \A j \in re .. k - 1 : b.chunks_in_flight[SlotIndex(j)] # NoChunk
    <2>1. b.earliest_not_received \in Nat
        BY <1>0, <1>3
    <2>2. /\ k \in b.earliest_not_received .. b.earliest_not_received + ParallelChunks
          /\ \/ k = b.earliest_not_received + ParallelChunks
             \/ b.chunks_in_flight[SlotIndex(k)] = NoChunk
          /\ \A j \in b.earliest_not_received .. k - 1 :
                b.chunks_in_flight[SlotIndex(j)] # NoChunk
        BY <2>1, BufferedUpToExists
    <2> QED
        BY <2>2, <1>3
<1>6. FittingUpTo(b) = IF k - re <= FileUnits - (StartAt + re) THEN k
                       ELSE re + (IF FileUnits - (StartAt + re) >= 0
                                  THEN FileUnits - (StartAt + re) ELSE 0)
    BY <1>0, <1>3 DEF FittingUpTo
<1> HIDE DEF k
<1>7. \A j \in Nat : j > re /\ j < re + ParallelChunks =>
          b.chunks_in_flight[SlotIndex(j)] = rm.chunks_in_flight[SlotIndex(j)]
    <2> SUFFICES ASSUME NEW j \in Nat, j > re, j < re + ParallelChunks
                 PROVE  b.chunks_in_flight[SlotIndex(j)]
                            = rm.chunks_in_flight[SlotIndex(j)]
        OBVIOUS
    <2>1. SlotIndex(j) # SlotIndex(re) /\ SlotIndex(j) \in WindowSlots
        BY <1>0, SlotFacts
    <2> QED
        BY <2>1, <1>0, <1>3
<1>8. b.chunks_in_flight[SlotIndex(re)] = [idx |-> re, unit |-> StartAt + re]
    BY <1>0, <1>1, <1>3
<1>9. k \in Nat /\ k > re
    <2>1. b.chunks_in_flight[SlotIndex(re)] # NoChunk
        BY <1>1, <1>8
    <2> QED
        BY <2>1, <1>0, <1>5
<1>10. \A j \in re .. k - 1 :
          /\ b.chunks_in_flight[SlotIndex(j)] = [idx |-> j, unit |-> StartAt + j]
          /\ j < n
    <2> TAKE j \in re .. k - 1
    <2>1. CASE j = re
        BY <2>1, <1>1, <1>8
    <2>2. CASE j # re
        <3>1. j \in Nat /\ j > re /\ j < re + ParallelChunks
            BY <2>2, <1>0, <1>5
        <3>2. /\ b.chunks_in_flight[SlotIndex(j)] = rm.chunks_in_flight[SlotIndex(j)]
              /\ b.chunks_in_flight[SlotIndex(j)] # NoChunk
            BY <3>1, <1>5, <1>7
        <3>3. j \in re .. re + ParallelChunks - 1
            BY <3>1, <1>0
        <3> QED
            BY <3>2, <3>3 DEF IInv, ReceiverInv
    <2> QED
        BY <2>1, <2>2
<1>11. k <= n
    <2>1. k - 1 \in re .. k - 1
        BY <1>0, <1>9
    <2>2. k - 1 < n
        BY <2>1, <1>10
    <2> QED
        BY <2>2, <1>0, <1>9
<1>12. FittingUpTo(b) = k
    BY <1>0, <1>6, <1>9, <1>11
<1>13. /\ UNCHANGED <<sm, requests, nextId, outstanding, phase, answer>>
       /\ file' = file \o UnitsUpTo(b, k)
       /\ rm' = Drain(b, k)
       /\ acks' = acks \cup ({m.id} \cap outstanding)
    <2>1. StoreResult(rm, m.chunk) = "Received"
        BY <1>4, <1>9, <1>12
    <2> QED
        BY <2>1, <1>4, <1>12 DEF ReceiveChunk
<1>14. /\ rm'.chunks_in_flight = [s \in WindowSlots |->
              IF \E j \in re .. k - 1 : s = SlotIndex(j)
              THEN NoChunk ELSE b.chunks_in_flight[s]]
       /\ rm'.earliest_not_received = k
       /\ rm'.declared_file_size = FileUnits
       /\ rm'.byte_progress = StartAt + k
    <2>1. /\ rm'.chunks_in_flight = [s \in WindowSlots |->
              IF \E j \in re .. k - 1 : s = SlotIndex(j)
              THEN NoChunk ELSE b.chunks_in_flight[s]]
          /\ rm'.earliest_not_received = k
          /\ rm'.declared_file_size = FileUnits
          /\ rm'.byte_progress = (StartAt + re) + (k - re)
        BY <1>0, <1>3, <1>13 DEF Drain
    <2> QED
        BY <2>1, <1>0, <1>9
<1>15. \A j \in Nat : j >= k /\ j < re + ParallelChunks =>
          rm'.chunks_in_flight[SlotIndex(j)] = rm.chunks_in_flight[SlotIndex(j)]
    <2> SUFFICES ASSUME NEW j \in Nat, j >= k, j < re + ParallelChunks
                 PROVE  rm'.chunks_in_flight[SlotIndex(j)]
                            = rm.chunks_in_flight[SlotIndex(j)]
        OBVIOUS
    <2>1. \A i \in re .. k - 1 : SlotIndex(j) # SlotIndex(i)
        <3> TAKE i \in re .. k - 1
        <3>1. i \in Nat /\ i < j /\ j < i + ParallelChunks
            BY <1>0, <1>9
        <3> QED
            BY <3>1, SlotFacts
    <2>2. SlotIndex(j) \in WindowSlots
        BY SlotFacts
    <2>3. rm'.chunks_in_flight[SlotIndex(j)] = b.chunks_in_flight[SlotIndex(j)]
        BY <2>1, <2>2, <1>14
    <2> QED
        BY <2>3, <1>0, <1>7, <1>9
<1>16. \A j \in Nat : j >= re + ParallelChunks /\ j < k + ParallelChunks =>
          rm'.chunks_in_flight[SlotIndex(j)] = NoChunk
    <2> SUFFICES ASSUME NEW j \in Nat, j >= re + ParallelChunks, j < k + ParallelChunks
                 PROVE  rm'.chunks_in_flight[SlotIndex(j)] = NoChunk
        OBVIOUS
    <2> DEFINE i == j - ParallelChunks
    <2>1. i \in Nat /\ i \in re .. k - 1 /\ i + ParallelChunks = j
        BY <1>0, <1>9
    <2>2. SlotIndex(j) = SlotIndex(i) /\ SlotIndex(j) \in WindowSlots
        BY <2>1, SlotFacts
    <2> HIDE DEF i
    <2> QED
        BY <2>1, <2>2, <1>14
<1>17. ReceiverInv'
    <2>1. rm'.chunks_in_flight[SlotIndex(k)] = NoChunk
        <3>1. CASE k = re + ParallelChunks
            BY <3>1, <1>9, <1>16
        <3>2. CASE k # re + ParallelChunks
            <4>1. k < re + ParallelChunks /\ b.chunks_in_flight[SlotIndex(k)] = NoChunk
                BY <3>2, <1>0, <1>5
            <4> QED
                BY <4>1, <1>9, <1>7, <1>15
        <3> QED
            BY <3>1, <3>2
    <2>2. \A j \in k .. k + ParallelChunks - 1 :
            rm'.chunks_in_flight[SlotIndex(j)] # NoChunk =>
                /\ rm'.chunks_in_flight[SlotIndex(j)] = [idx |-> j, unit |-> StartAt + j]
                /\ j < n
        <3> TAKE j \in k .. k + ParallelChunks - 1
        <3>0. j \in Nat /\ j >= k /\ j < k + ParallelChunks
            BY <1>9
        <3>1. CASE j < re + ParallelChunks
            <4>1. rm'.chunks_in_flight[SlotIndex(j)] = rm.chunks_in_flight[SlotIndex(j)]
                BY <3>0, <3>1, <1>15
            <4>2. j \in re .. re + ParallelChunks - 1
                BY <3>0, <3>1, <1>0, <1>9
            <4> QED
                BY <4>1, <4>2 DEF IInv, ReceiverInv
        <3>2. CASE j >= re + ParallelChunks
            BY <3>0, <3>2, <1>16
        <3> QED
            BY <3>0, <3>1, <3>2, <1>0
    <2> HIDE DEF n, re
    <2>3. sm'.next_slot = n
        BY <1>13 DEF n
    <2> QED
        BY <2>1, <2>2, <2>3, <1>11, <1>14 DEF ReceiverInv
<1>18. FileInv' /\ file' \in Seq(Nat)
    <2> DEFINE u == UnitsUpTo(b, k)
    <2>1. u = [x \in 1 .. k - re |-> b.chunks_in_flight[SlotIndex(re + x - 1)].unit]
        BY <1>3 DEF UnitsUpTo
    <2>2. \A x \in 1 .. k - re :
            b.chunks_in_flight[SlotIndex(re + x - 1)].unit = StartAt + (re + x - 1)
        <3> TAKE x \in 1 .. k - re
        <3> DEFINE y == re + x - 1
        <3>1. y \in re .. k - 1
            BY <1>0, <1>9
        <3> HIDE DEF y
        <3>2. b.chunks_in_flight[SlotIndex(y)] = [idx |-> y, unit |-> StartAt + y]
            BY <3>1, <1>10
        <3>3. b.chunks_in_flight[SlotIndex(y)].unit = StartAt + y
            BY <3>2
        <3> QED
            BY <3>3 DEF y
    <2>3. /\ u \in Seq(Nat) /\ Len(u) = k - re
          /\ \A x \in 1 .. k - re : u[x] = StartAt + (re + x - 1)
        <3>1. u = [x \in 1 .. k - re |-> StartAt + (re + x - 1)]
            BY <2>1, <2>2
        <3> HIDE DEF u
        <3>2. k - re \in Nat
            BY <1>0, <1>9
        <3>3. \A x \in 1 .. k - re : StartAt + (re + x - 1) \in Nat
            BY <1>0
        <3> QED
            BY <3>1, <3>2, <3>3
    <2> HIDE DEF u
    <2>4. /\ file \in Seq(Nat) /\ Len(file) = StartAt + re
          /\ \A x \in 1 .. Len(file) : file[x] = x - 1
        BY DEF IInv, FileInv, TypeOK, ReceiverTypeOK
    <2>5. file' = file \o u
        BY <1>13 DEF u
    <2>6. file' \in Seq(Nat) /\ Len(file') = StartAt + k
        <3>1. file' \in Seq(Nat) /\ Len(file') = Len(file) + Len(u)
            BY <2>3, <2>4, <2>5, ConcatFacts
        <3> QED
            BY <3>1, <2>3, <2>4, <1>0, <1>9
    <2>7. \A x \in 1 .. Len(file') : file'[x] = x - 1
        <3> TAKE x \in 1 .. Len(file')
        <3>0. x \in Nat /\ x >= 1 /\ x <= StartAt + k
            BY <2>6, <1>9
        <3>1. file'[x] = IF x <= Len(file) THEN file[x] ELSE u[x - Len(file)]
            <4>1. x \in 1 .. Len(file) + Len(u)
                BY <3>0, <2>3, <2>4, <1>0, <1>9, SMTT(30)
            <4> QED
                BY <4>1, <2>3, <2>4, <2>5, ConcatFacts
        <3>2. CASE x <= Len(file)
            BY <3>0, <3>1, <3>2, <2>4, <1>0
        <3>3. CASE x > Len(file)
            <4> DEFINE y == x - Len(file)
            <4>0. y = x - (StartAt + re) /\ x > StartAt + re
                BY <3>3, <2>4
            <4>1. file'[x] = u[y]
                BY <3>0, <3>1, <4>0, <2>4, <1>0
            <4> HIDE DEF y, re
            <4>2. re \in Nat /\ k \in Nat /\ StartAt \in Nat
                BY <1>0, <1>9
            <4>3. y \in Int
                BY <3>0, <4>0, <4>2
            <4>4. y >= 1 /\ y <= k - re
                BY <3>0, <4>0, <4>2, <4>3
            <4>5. StartAt + (re + y - 1) = x - 1
                BY <3>0, <4>0, <4>2, <4>3
            <4>6. y \in 1 .. k - re
                BY <4>2, <4>3, <4>4
            <4> QED
                BY <4>1, <4>5, <4>6, <2>3
        <3> QED
            BY <3>0, <3>2, <3>3, <2>4, <1>0
    <2> QED
        BY <2>6, <2>7, <1>14 DEF FileInv
<1>19. TypeOK'
    <2>1. rm'.chunks_in_flight \in [WindowSlots -> [idx : Int, unit : Int]]
        BY <1>3, <1>14 DEF NoChunk
    <2>2. ReceiverTypeOK'
        BY <2>1, <1>0, <1>9, <1>14, <1>18, SMTT(30) DEF ReceiverTypeOK
    <2>3. SenderTypeOK' /\ NetworkTypeOK'
        BY <1>13 DEF IInv, TypeOK, SenderTypeOK, NetworkTypeOK
    <2> QED
        BY <2>2, <2>3 DEF TypeOK
<1>20. SenderInv' /\ RequestsInv' /\ PhaseInv' /\ answer' = "Confirm"
    BY <1>13 DEF IInv, SenderInv, RequestsInv, PhaseInv
<1>21. AcksInv'
    <2> SUFFICES ASSUME NEW j \in 0 .. n - 1,
                        j \notin outstanding \/ j \in acks \/ j = re
                 PROVE  Received(j)'
        BY <1>1, <1>13 DEF AcksInv
    <2>0. j \in Nat /\ j < re + ParallelChunks
        BY <1>0
    <2>1. CASE j < k
        BY <2>1, <1>14 DEF Received
    <2>2. CASE j >= k
        <3>1. Received(j)
            BY <2>0, <2>2, <1>0, <1>9 DEF IInv, AcksInv
        <3>2. rm.chunks_in_flight[SlotIndex(j)] # NoChunk
            BY <3>1, <2>0, <2>2, <1>0, <1>9 DEF Received
        <3> QED
            BY <3>2, <2>0, <2>2, <1>15 DEF Received
    <2> QED
        BY <2>0, <2>1, <2>2, <1>9
<1>22. Len(file') >= Len(file)
    <2>1. Len(file) = StartAt + re /\ Len(file') = StartAt + k
        BY <1>14, <1>18 DEF IInv, FileInv
    <2> QED
        BY <2>1, <1>0, <1>9
<1> QED
    BY <1>17, <1>18, <1>19, <1>20, <1>21, <1>22 DEF IInv

(***************************************************************************)
(* Receiving a chunk preserves the invariant and never shortens the file.  *)
(***************************************************************************)
LEMMA ReceiveChunkPreservesIInv ==
    ASSUME IInv, NEW m \in requests, ReceiveChunk(m)
    PROVE  IInv' /\ Len(file') >= Len(file)
<1>1. m.chunk.idx \in Nat /\ rm.earliest_not_received \in Nat
    BY Basics DEF IInv, TypeOK, NetworkTypeOK
<1>2. CASE m.chunk.idx < rm.earliest_not_received
    BY <1>2, OldChunkPreservesIInv
<1>3. CASE m.chunk.idx > rm.earliest_not_received
    BY <1>3, EarlyChunkPreservesIInv
<1>4. CASE m.chunk.idx = rm.earliest_not_received
    BY <1>4, AwaitedChunkPreservesIInv
<1> QED
    BY <1>1, <1>2, <1>3, <1>4

LEMMA NextPreservesIInv == IInv /\ [Next]_vars => IInv'
<1> SUFFICES ASSUME IInv, [Next]_vars PROVE IInv'
    OBVIOUS
<1>1. CASE SendNextChunk
    BY <1>1, SendNextChunkPreservesIInv
<1>2. CASE SendDone
    BY <1>2, SendDonePreservesIInv
<1>3. ASSUME NEW m \in requests, ReceiveChunk(m) PROVE IInv'
    BY <1>3, ReceiveChunkPreservesIInv
<1>4. ASSUME NEW id \in acks, ReceiveConfirmChunk(id) PROVE IInv'
    BY <1>4, ReceiveConfirmChunkPreservesIInv
<1>5. CASE ReceiveDone
    BY <1>5, ReceiveDonePreservesIInv
<1>6. CASE UNCHANGED vars
    <2>1. UNCHANGED <<sm, rm, file, requests, nextId, outstanding, acks, phase, answer>>
        BY <1>6 DEF vars
    <2>2. TypeOK'
        BY <2>1 DEF IInv, TypeOK, SenderTypeOK, ReceiverTypeOK, NetworkTypeOK
    <2>3. SenderInv' /\ RequestsInv' /\ ReceiverInv' /\ AcksInv' /\ FileInv'
          /\ PhaseInv' /\ answer' = "Confirm"
        BY <2>1 DEF IInv, SenderInv, RequestsInv, ReceiverInv, AcksInv, FileInv,
                    PhaseInv, Received
    <2> QED
        BY <2>2, <2>3 DEF IInv
<1> QED
    BY <1>1, <1>2, <1>3, <1>4, <1>5, <1>6 DEF Next

LEMMA Invariance == Spec => []IInv
<1>1. Init => IInv
    BY IInvInit
<1>2. IInv /\ [Next]_vars => IInv'
    BY NextPreservesIInv
<1> QED
    BY <1>1, <1>2, PTL DEF Spec

(***************************************************************************)
(* The assertions of SendManager::mark_done hold for every answer that the *)
(* registry hands out within one attempt.                                  *)
(***************************************************************************)
THEOREM MarkDoneNeverPanics == Spec => []NoPanicInMarkDone
<1>1. IInv => NoPanicInMarkDone
    <2> SUFFICES ASSUME IInv, NEW id \in acks PROVE CanMarkDone(sm, id)
        BY DEF NoPanicInMarkDone
    <2>1. /\ id \in outstanding /\ id \in Nat
          /\ id >= sm.earliest_not_sent /\ id < sm.next_slot
          /\ sm.chunk_to_index[id] = id /\ DOMAIN sm.chunk_to_index = outstanding
          /\ sm.earliest_not_sent \in Nat /\ sm.next_slot \in Nat
        BY Basics
    <2>2. sm.chunks_in_flight[SlotIndex(id)] = "Pending"
        BY <2>1 DEF IInv, SenderInv
    <2> QED
        BY <2>1, <2>2 DEF CanMarkDone
<1> QED
    BY <1>1, Invariance, PTL

(***************************************************************************)
(* A receiver never answers ProtocolViolation to an honest sender, however *)
(* chunks and answers are delayed, reordered or repeated.                  *)
(***************************************************************************)
THEOREM HonestSenderNeverRejected == Spec => []NoProtocolViolation
<1>1. IInv => NoProtocolViolation
    BY DEF IInv, NoProtocolViolation
<1> QED
    BY <1>1, Invariance, PTL

(***************************************************************************)
(* The part file is a prefix of the source.                                *)
(***************************************************************************)
THEOREM PartFileIsPrefix == Spec => []FileIsPrefix
<1>1. IInv => FileIsPrefix
    <2> SUFFICES ASSUME IInv PROVE FileIsPrefix
        OBVIOUS
    <2>1. /\ Len(file) = StartAt + rm.earliest_not_received
          /\ rm.earliest_not_received <= sm.next_slot
          /\ StartAt + sm.next_slot <= FileUnits
          /\ \A i \in 1 .. Len(file) : file[i] = i - 1
        BY DEF IInv, FileInv, ReceiverInv, SenderInv
    <2> QED
        BY <2>1, Basics DEF FileIsPrefix
<1> QED
    BY <1>1, Invariance, PTL

(***************************************************************************)
(* The loop reports Done only when the part file is the whole source, with *)
(* every chunk acknowledged, however late the acknowledgements came.       *)
(***************************************************************************)
THEOREM DoneOnlyWhenComplete == Spec => []DoneMeansComplete
<1>1. IInv => DoneMeansComplete
    BY CompleteWhenDone DEF DoneMeansComplete
<1> QED
    BY <1>1, Invariance, PTL

(***************************************************************************)
(* The progress the sender reports never exceeds what the receiver has     *)
(* written, which is what it counts.                                       *)
(***************************************************************************)
THEOREM ReportedProgressIsWritten == Spec => []ProgressIsHonest
<1>1. IInv => ProgressIsHonest
    <2> SUFFICES ASSUME IInv PROVE ProgressIsHonest
        OBVIOUS
    <2>1. /\ sm.progress = StartAt + sm.earliest_not_sent
          /\ rm.byte_progress = StartAt + rm.earliest_not_received
          /\ Len(file) = StartAt + rm.earliest_not_received
        BY DEF IInv, SenderInv, ReceiverInv, FileInv
    <2> QED
        BY <2>1, Basics, WindowsOverlap DEF ProgressIsHonest
<1> QED
    BY <1>1, Invariance, PTL

(***************************************************************************)
(* Both windows, the part file and the network keep their types; every     *)
(* answer under way is one the registry still waits for.                   *)
(***************************************************************************)
THEOREM ChunkTypes == Spec => []TypeOK
<1>1. IInv => TypeOK
    BY DEF IInv
<1> QED
    BY <1>1, Invariance, PTL

-----------------------------------------------------------------------------
(***************************************************************************)
(* In a state of the invariant the part file is the prefix of its length.  *)
(***************************************************************************)
LEMMA FileIsThePrefixOfItsLength ==
    ASSUME IInv
    PROVE  file = Copy!PrefixOfSource(Len(file))
           /\ Len(file) \in Nat /\ Len(file) <= FileUnits
<1>1. /\ file \in Seq(Nat)
      /\ \A i \in 1 .. Len(file) : file[i] = i - 1
      /\ Len(file) = StartAt + rm.earliest_not_received
      /\ rm.earliest_not_received <= sm.next_slot
      /\ StartAt + sm.next_slot <= FileUnits
    BY DEF IInv, TypeOK, ReceiverTypeOK, FileInv, ReceiverInv, SenderInv
<1>2. Len(file) \in Nat /\ Len(file) <= FileUnits
    BY <1>1, Basics
<1>3. file = [i \in 1 .. Len(file) |-> file[i]]
    BY <1>1
<1>4. file = [i \in 1 .. Len(file) |-> i - 1]
    BY <1>1, <1>3
<1> QED
    BY <1>2, <1>4 DEF Copy!PrefixOfSource

LEMMA InitImplementsCopy == Init => Copy!Init
BY DEF Init, Copy!Init, Copy!PrefixOfSource

LEMMA StepImplementsCopy ==
    ASSUME IInv, IInv', [Next]_vars
    PROVE  [Copy!Next]_<<file, IF phase = "Confirmed" THEN "Confirmed" ELSE "Copying">>
<1> DEFINE status == IF phase = "Confirmed" THEN "Confirmed" ELSE "Copying"
<1>1. CASE SendNextChunk \/ UNCHANGED vars
    BY <1>1 DEF SendNextChunk, vars
<1>2. CASE SendDone
    BY <1>2 DEF SendDone
<1>3. ASSUME NEW m \in requests, ReceiveChunk(m)
      PROVE  [Copy!Next]_<<file, status>>
    <2>1. Len(file') >= Len(file) /\ phase' = phase
        BY <1>3, ReceiveChunkPreservesIInv DEF ReceiveChunk
    <2>2. /\ file = Copy!PrefixOfSource(Len(file)) /\ Len(file) \in Nat
          /\ file' = Copy!PrefixOfSource(Len(file'))
          /\ Len(file') \in Nat /\ Len(file') <= FileUnits
        <3>1. /\ file' \in Seq(Nat)
              /\ \A i \in 1 .. Len(file') : file'[i] = i - 1
              /\ Len(file') = StartAt + rm'.earliest_not_received
              /\ rm'.earliest_not_received <= sm'.next_slot
              /\ StartAt + sm'.next_slot <= FileUnits
              /\ rm'.earliest_not_received \in Nat /\ sm'.next_slot \in Nat
            BY DEF IInv, TypeOK, SenderTypeOK, ReceiverTypeOK, FileInv, ReceiverInv,
                   SenderInv
        <3>2. Len(file') \in Nat /\ Len(file') <= FileUnits
            BY <3>1
        <3>3. file' = [i \in 1 .. Len(file') |-> file'[i]]
            BY <3>1
        <3>4. file' = [i \in 1 .. Len(file') |-> i - 1]
            BY <3>1, <3>3
        <3> QED
            BY <3>2, <3>4, FileIsThePrefixOfItsLength DEF Copy!PrefixOfSource
    <2>3. CASE Len(file') = Len(file)
        BY <2>1, <2>2, <2>3
    <2>4. CASE Len(file') > Len(file)
        <3>1. Len(file') \in Len(file) + 1 .. FileUnits
            BY <2>2, <2>4
        <3> QED
            BY <3>1, <2>1, <2>2 DEF Copy!Next, Copy!Grow
    <2> QED
        BY <2>1, <2>2, <2>3, <2>4
<1>4. ASSUME NEW id \in acks, ReceiveConfirmChunk(id)
      PROVE  [Copy!Next]_<<file, status>>
    BY <1>4 DEF ReceiveConfirmChunk
<1>5. CASE ReceiveDone
    <2>1. phase # "Sending"
        BY <1>5 DEF ReceiveDone
    <2>2. rm.byte_progress = FileUnits /\ Len(file) = FileUnits
        BY <2>1, CompleteWhenDone
    <2>3. phase' = "Confirmed" /\ file' = file
        BY <1>5, <2>2, Basics DEF ReceiveDone
    <2>4. file = Copy!Source
        BY <2>2, FileIsThePrefixOfItsLength DEF Copy!Source, Copy!PrefixOfSource
    <2> QED
        BY <2>3, <2>4 DEF Copy!Next, Copy!Confirm
<1> QED
    BY <1>1, <1>2, <1>3, <1>4, <1>5 DEF Next

(***************************************************************************)
(* One attempt at a transfer implements FileCopy, for every window size,   *)
(* file length and resume offset.                                          *)
(***************************************************************************)
THEOREM TransferImplementsCopy == Spec => CopySpec
<1>1. Init => Copy!Init
    BY InitImplementsCopy
<1>2. IInv /\ IInv' /\ [Next]_vars =>
        [Copy!Next]_<<file, IF phase = "Confirmed" THEN "Confirmed" ELSE "Copying">>
    BY StepImplementsCopy
<1> QED
    BY <1>1, <1>2, Invariance, PTL DEF Spec, CopySpec, Copy!Spec
=============================================================================
