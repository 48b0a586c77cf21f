----------------------- MODULE FilerequestReceiver_proofs -----------------------
(***************************************************************************)
(* Proofs about the receiving side, for any window, file size, transfers   *)
(* and contacts, and any order of requests, cleanups and restarts: the     *)
(* offset in memory is the length of the part file, and a received file is *)
(* whole and final.                                                        *)
(***************************************************************************)
EXTENDS FilerequestReceiver, TLAPS, WellFoundedInduction

(***************************************************************************)
(* A non-empty set of natural numbers has a least element: what the loop   *)
(* of store needs in order to stop somewhere.                              *)
(***************************************************************************)
LEMMA LeastElement ==
    ASSUME NEW T \in SUBSET Nat, T # {}
    PROVE  \E x \in T : \A y \in T : x <= y
<1> DEFINE R == OpToRel(<, Nat)
<1>1. IsWellFoundedOn(R, Nat)
    BY NatLessThanWellFounded
<1>2. \A a, b \in Nat : a < b => <<a, b>> \in R
    BY DEF OpToRel
<1> HIDE DEF R
<1>3. PICK x \in T : \A y \in T : ~(<<y, x>> \in R)
    BY <1>1, WFMin
<1>4. \A y \in T : x \in Nat /\ y \in Nat /\ ~(y < x)
    BY <1>2, <1>3
<1>5. \A y \in T : x <= y
    BY <1>4
<1> QED
    BY <1>5

(***************************************************************************)
(* A loop over the indices from e on that stops at the first index of S,   *)
(* or at n, stops: the choice of where the loop stops has a witness.       *)
(***************************************************************************)
LEMMA FirstStop ==
    ASSUME NEW e \in Nat, NEW n \in Nat, e <= n, NEW S
    PROVE  \E k \in e .. n : /\ k = n \/ k \in S
                            /\ \A j \in e .. k - 1 : j \notin S
<1> DEFINE T == {k \in e .. n : k = n \/ k \in S}
<1>1. n \in T /\ T \in SUBSET Nat
    OBVIOUS
<1>2. PICK x \in T : \A y \in T : x <= y
    <2> HIDE DEF T
    <2> QED BY <1>1, LeastElement
<1>3. \A j \in e .. x - 1 : j \notin S
    <2> SUFFICES ASSUME NEW j \in e .. x - 1, j \in S PROVE FALSE
        OBVIOUS
    <2>1. j \in T /\ j < x
        BY <1>1, <1>2
    <2> QED
        BY <2>1, <1>1, <1>2
<1> QED
    BY <1>2, <1>3

Units == Payloads \cup {NoChunk.unit}

Slots == [WindowSlots -> [idx : Int, unit : Units]]

Managers ==
    [chunks_in_flight : Slots, earliest_not_received : Nat,
     declared_file_size : {DeclaredUnits}, byte_progress : 0 .. DeclaredUnits]

Chunks == [idx : Nat, unit : Payloads]

Entries == [transfer : Transfers, contact : Requesters, handle : Int, rm : Managers]

ReceivingTypeOK ==
    /\ receiving \subseteq Entries
    /\ \A d, e \in receiving : d = e

PartsTypeOK ==
    /\ DOMAIN parts \subseteq Transfers \X Requesters
    /\ \A name \in DOMAIN parts : parts[name] \in Seq(Units)

RowsTypeOK ==
    \A t \in DOMAIN rows :
        rows[t] = [status |-> rows[t].status, contact |-> rows[t].contact]

ReceivedTypeOK == received \in Seq([transfer : Transfers, units : Seq(Units)])

\* A part file never outgrows the declared size.
PartsFit == \A name \in DOMAIN parts : Len(parts[name]) <= DeclaredUnits

\* A transfer has one part file, named after the contact in its row.
NamesInv ==
    /\ \A m, n \in DOMAIN parts : m[1] = n[1] => m = n
    /\ \A name \in DOMAIN parts :
          name[1] \in DOMAIN rows => rows[name[1]].contact = name[2]
    /\ \A e \in receiving :
          e.transfer \in DOMAIN rows => rows[e.transfer].contact = e.contact

\* A transfer whose file is no longer a part file has no part file at all, or
\* an empty one that a request for another filerequest made; when it was
\* renamed, nothing is missing.
MadeAnew(name) == name[1] \in Elsewhere /\ parts[name] = <<>>

HandleInv ==
    \A e \in receiving :
        /\ e.handle # InPart =>
              \A name \in DOMAIN parts : name[1] = e.transfer => MadeAnew(name)
        /\ e.handle > 0 => /\ e.handle <= Len(received)
                           /\ e.rm.byte_progress = DeclaredUnits

ReceivedWhole ==
    \A i \in 1 .. Len(received) :
        \/ Len(received[i].units) = DeclaredUnits
        \/ received[i].transfer \in Elsewhere /\ received[i].units = <<>>

IInv ==
    /\ ReceivingTypeOK
    /\ PartsTypeOK
    /\ RowsTypeOK
    /\ ReceivedTypeOK
    /\ PartsFit
    /\ NamesInv
    /\ HandleInv
    /\ BooksMatchDisk
    /\ ReceivedWhole
-----------------------------------------------------------------------------
(* What one chunk does to the window and to the file. *)

LEMMA SlotInWindow == \A n \in Nat : SlotIndex(n) \in WindowSlots
BY ParallelChunksAssumption DEF SlotIndex, WindowSlots

(***************************************************************************)
(* The loop of store stops within one turn, and passes no empty slot.      *)
(***************************************************************************)
LEMMA BufferedUpToInTurn ==
    ASSUME NEW r, r.earliest_not_received \in Nat
    PROVE  /\ BufferedUpTo(r) \in r.earliest_not_received
                                     .. r.earliest_not_received + ParallelChunks
           /\ \A j \in r.earliest_not_received .. BufferedUpTo(r) - 1 :
                 r.chunks_in_flight[SlotIndex(j)] # NoChunk
           /\ \/ BufferedUpTo(r) = r.earliest_not_received + ParallelChunks
              \/ r.chunks_in_flight[SlotIndex(BufferedUpTo(r))] = NoChunk
<1> DEFINE e == r.earliest_not_received
           n == r.earliest_not_received + ParallelChunks
           S == {k \in e .. n : r.chunks_in_flight[SlotIndex(k)] = NoChunk}
<1>1. e \in Nat /\ n \in Nat /\ e <= n
    BY ParallelChunksAssumption
<1>2. PICK k \in e .. n : /\ k = n \/ k \in S
                          /\ \A j \in e .. k - 1 : j \notin S
    <2> HIDE DEF e, n, S
    <2> QED BY <1>1, FirstStop
<1>3. /\ k = n \/ r.chunks_in_flight[SlotIndex(k)] = NoChunk
      /\ \A j \in e .. k - 1 : r.chunks_in_flight[SlotIndex(j)] # NoChunk
    <2>1. \A j \in e .. k - 1 : j \in e .. n
        BY <1>1, <1>2
    <2> QED
        BY <1>2, <2>1
<1> HIDE DEF S
<1>4. \E i \in e .. n : /\ i = n \/ r.chunks_in_flight[SlotIndex(i)] = NoChunk
                        /\ \A j \in e .. i - 1 :
                               r.chunks_in_flight[SlotIndex(j)] # NoChunk
    BY <1>2, <1>3
<1> QED
    BY <1>4 DEF BufferedUpTo

LEMMA NewManagerType ==
    ASSUME NEW progress \in 0 .. DeclaredUnits
    PROVE  /\ NewReceiveManager(DeclaredUnits, progress) \in Managers
           /\ NewReceiveManager(DeclaredUnits, progress).byte_progress = progress
<1>1. [s \in WindowSlots |-> NoChunk] \in Slots
    BY DEF Slots, NoChunk, Units
<1> QED
    BY <1>1 DEF NewReceiveManager, Managers

LEMMA ResetManagerType ==
    ASSUME NEW m \in Managers
    PROVE  /\ ResetReceiveManager(m) \in Managers
           /\ ResetReceiveManager(m).byte_progress = m.byte_progress
<1>1. [s \in WindowSlots |-> NoChunk] \in Slots
    BY DEF Slots, NoChunk, Units
<1> QED
    BY <1>1 DEF ResetReceiveManager, Managers

(***************************************************************************)
(* store appends as much as it counts, and never beyond the declared size. *)
(***************************************************************************)
LEMMA StoreCounts ==
    ASSUME NEW m \in Managers, NEW chunk \in Chunks
    PROVE  /\ AppendedByStore(m, chunk) \in Seq(Units)
           /\ AfterStore(m, chunk) \in Managers
           /\ AfterStore(m, chunk).byte_progress
                  = m.byte_progress + Len(AppendedByStore(m, chunk))
<1> DEFINE b == BufferChunk(m, chunk)
           re == m.earliest_not_received
           k == FittingUpTo(b)
<1>0. /\ m.chunks_in_flight \in Slots /\ re \in Nat
      /\ m.declared_file_size = DeclaredUnits /\ m.byte_progress \in 0 .. DeclaredUnits
      /\ DeclaredUnits \in Nat
    BY ReceiverAssumption DEF Managers
<1>1. chunk.idx \in Nat /\ chunk \in [idx : Int, unit : Units]
    BY DEF Chunks, Units
<1>2. /\ b.chunks_in_flight \in Slots /\ b.earliest_not_received = re
      /\ b.declared_file_size = DeclaredUnits /\ b.byte_progress = m.byte_progress
      /\ b \in Managers
    <2>1. [m.chunks_in_flight EXCEPT ![SlotIndex(chunk.idx)] = chunk] \in Slots
        BY <1>0, <1>1 DEF Slots
    <2> QED
        BY <1>0, <2>1 DEF BufferChunk, Managers
<1>3. CASE BeyondWindow(m, chunk) \/ AlreadySeen(m, chunk)
    BY <1>0, <1>3 DEF AppendedByStore, AfterStore
<1>4. CASE ~BeyondWindow(m, chunk) /\ ~AlreadySeen(m, chunk) /\ ~StartsRun(m, chunk)
    <2>1. AppendedByStore(m, chunk) = <<>> /\ AfterStore(m, chunk) = b
        BY <1>4 DEF AppendedByStore, AfterStore
    <2> HIDE DEF b
    <2> QED
        BY <2>1, <1>0, <1>2
<1>5. CASE ~BeyondWindow(m, chunk) /\ ~AlreadySeen(m, chunk) /\ StartsRun(m, chunk)
    <2>1. AppendedByStore(m, chunk) = UnitsUpTo(b, k) /\ AfterStore(m, chunk) = Drain(b, k)
        BY <1>5 DEF AppendedByStore, AfterStore
    <2> HIDE DEF b
    <2>2. BufferedUpTo(b) \in re .. re + ParallelChunks
        BY <1>0, <1>2, BufferedUpToInTurn
    <2>3. k \in Nat /\ k >= re /\ m.byte_progress + (k - re) <= DeclaredUnits
        BY <2>2, <1>0, <1>2, ParallelChunksAssumption DEF FittingUpTo
    <2> HIDE DEF k
    <2>4. \A s \in WindowSlots : b.chunks_in_flight[s].unit \in Units
        BY <1>2 DEF Slots
    <2>5. UnitsUpTo(b, k) \in Seq(Units) /\ Len(UnitsUpTo(b, k)) = k - re
        <3> DEFINE f == [i \in 1 .. k - re |-> b.chunks_in_flight[SlotIndex(re + i - 1)].unit]
        <3>1. UnitsUpTo(b, k) = f
            BY <1>2 DEF UnitsUpTo
        <3>2. \A i \in 1 .. k - re : SlotIndex(re + i - 1) \in WindowSlots
            BY <1>0, <2>3, SlotInWindow
        <3>3. f \in [1 .. k - re -> Units]
            BY <2>4, <3>2
        <3> HIDE DEF f
        <3>4. k - re \in Nat
            BY <1>0, <2>3
        <3>5. f \in Seq(Units) /\ Len(f) = k - re
            BY <3>3, <3>4
        <3> QED
            BY <3>1, <3>5
    <2>6. Drain(b, k) \in Managers /\ Drain(b, k).byte_progress = m.byte_progress + (k - re)
        <3> DEFINE c == [s \in WindowSlots |->
                            IF \E j \in re .. k - 1 : s = SlotIndex(j)
                            THEN NoChunk ELSE b.chunks_in_flight[s]]
        <3>1. c \in Slots
            <4>1. NoChunk \in [idx : Int, unit : Units]
                BY DEF NoChunk, Units
            <4>2. \A s \in WindowSlots : b.chunks_in_flight[s] \in [idx : Int, unit : Units]
                BY <1>2 DEF Slots
            <4> QED
                BY <4>1, <4>2 DEF Slots
        <3>2. Drain(b, k) = [chunks_in_flight |-> c, earliest_not_received |-> k,
                             declared_file_size |-> DeclaredUnits,
                             byte_progress |-> m.byte_progress + (k - re)]
            BY <1>2 DEF Drain
        <3> HIDE DEF c
        <3>3. m.byte_progress + (k - re) \in 0 .. DeclaredUnits
            BY <1>0, <2>3
        <3> QED
            BY <3>1, <3>2, <3>3, <2>3 DEF Managers
    <2> QED
        BY <2>1, <2>5, <2>6
<1> QED
    BY <1>3, <1>4, <1>5

-----------------------------------------------------------------------------
(* The steps that leave the files alone or remove part files. *)

RowsShrink ==
    /\ DOMAIN rows' \subseteq DOMAIN rows
    /\ \A t \in DOMAIN rows' :
          /\ rows'[t].contact = rows[t].contact
          /\ rows'[t] = [status |-> rows'[t].status, contact |-> rows'[t].contact]

PartsShrink ==
    /\ DOMAIN parts' \subseteq DOMAIN parts
    /\ \A name \in DOMAIN parts' : parts'[name] = parts[name]

LEMMA Unchanged ==
    ASSUME IInv
    PROVE  /\ UNCHANGED rows => RowsShrink
           /\ UNCHANGED parts => PartsShrink
BY DEF IInv, RowsTypeOK, RowsShrink, PartsShrink

LEMMA StatusKeepsContact ==
    ASSUME IInv, NEW t \in DOMAIN rows, NEW status,
           rows' = [rows EXCEPT ![t].status = status]
    PROVE  RowsShrink
<1>1. DOMAIN rows' = DOMAIN rows
    OBVIOUS
<1>2. \A u \in DOMAIN rows : u # t => rows'[u] = rows[u]
    OBVIOUS
<1>3. rows'[t] = [rows[t] EXCEPT !.status = status]
    OBVIOUS
<1>4. rows[t] = [status |-> rows[t].status, contact |-> rows[t].contact]
    BY DEF IInv, RowsTypeOK
<1>5. rows'[t] = [status |-> status, contact |-> rows[t].contact]
    BY <1>3, <1>4
<1> QED
    BY <1>1, <1>2, <1>5 DEF RowsShrink, IInv, RowsTypeOK

LEMMA DropKeepsIInv ==
    ASSUME IInv, receiving' = {}, RowsShrink, PartsShrink, UNCHANGED received
    PROVE  IInv'
<1>1. ReceivingTypeOK' /\ HandleInv' /\ BooksMatchDisk'
    BY DEF ReceivingTypeOK, HandleInv, BooksMatchDisk
<1>2. PartsTypeOK' /\ PartsFit'
    BY DEF IInv, PartsTypeOK, PartsFit, PartsShrink
<1>3. RowsTypeOK'
    BY DEF RowsTypeOK, RowsShrink
<1>4. ReceivedTypeOK' /\ ReceivedWhole'
    BY DEF IInv, ReceivedTypeOK, ReceivedWhole
<1>5. NamesInv'
    BY DEF IInv, NamesInv, PartsShrink, RowsShrink
<1> QED
    BY <1>1, <1>2, <1>3, <1>4, <1>5 DEF IInv

LEMMA RowsStepKeepsIInv ==
    ASSUME IInv, RowsShrink, UNCHANGED <<receiving, parts, received>>
    PROVE  IInv'
<1>1. ReceivingTypeOK' /\ HandleInv' /\ BooksMatchDisk'
    BY DEF IInv, ReceivingTypeOK, HandleInv, MadeAnew, BooksMatchDisk
<1>2. PartsTypeOK' /\ PartsFit'
    BY DEF IInv, PartsTypeOK, PartsFit
<1>3. RowsTypeOK'
    BY DEF RowsTypeOK, RowsShrink
<1>4. ReceivedTypeOK' /\ ReceivedWhole'
    BY DEF IInv, ReceivedTypeOK, ReceivedWhole
<1>5. NamesInv'
    BY DEF IInv, NamesInv, RowsShrink
<1> QED
    BY <1>1, <1>2, <1>3, <1>4, <1>5 DEF IInv

LEMMA RemoveKeepsIInv ==
    ASSUME IInv, NEW names, RemovePartialFiles(names), UNCHANGED <<rows, received>>
    PROVE  IInv'
<1> DEFINE G(e) == [e EXCEPT !.handle =
                       IF @ = InPart /\ <<e.transfer, e.contact>> \in names
                       THEN Unlinked ELSE @]
<1>1. PartsShrink /\ DOMAIN parts' = DOMAIN parts \ names
    BY DEF RemovePartialFiles, PartsShrink, Without, Restrict
<1>2. \A d \in receiving' : \E e \in receiving : d = G(e)
    BY DEF RemovePartialFiles
<1>3. \A e \in receiving :
         /\ e \in Entries
         /\ G(e) \in Entries
         /\ G(e).transfer = e.transfer /\ G(e).contact = e.contact /\ G(e).rm = e.rm
         /\ G(e).handle = IF e.handle = InPart /\ <<e.transfer, e.contact>> \in names
                          THEN Unlinked ELSE e.handle
    BY DEF IInv, ReceivingTypeOK, Entries, Unlinked
<1> HIDE DEF G
<1>4. ReceivingTypeOK'
    BY <1>2, <1>3 DEF IInv, ReceivingTypeOK
<1>5. PartsTypeOK' /\ PartsFit' /\ RowsTypeOK' /\ ReceivedTypeOK' /\ ReceivedWhole'
    BY <1>1 DEF IInv, PartsTypeOK, PartsFit, RowsTypeOK, ReceivedTypeOK, ReceivedWhole,
                PartsShrink
<1>6. NamesInv'
    <2>1. ASSUME NEW d \in receiving', d.transfer \in DOMAIN rows'
          PROVE  rows'[d.transfer].contact = d.contact
        <3>1. PICK e \in receiving : d = G(e)
            BY <1>2
        <3>2. d.transfer = e.transfer /\ d.contact = e.contact
            BY <3>1, <1>3
        <3> QED
            BY <3>2, <2>1 DEF IInv, NamesInv
    <2> QED
        BY <2>1, <1>1 DEF IInv, NamesInv, PartsShrink
<1>7. HandleInv'
    <2> SUFFICES ASSUME NEW d \in receiving'
                 PROVE  /\ d.handle # InPart =>
                              \A name \in DOMAIN parts' :
                                  name[1] = d.transfer => MadeAnew(name)'
                        /\ d.handle > 0 => /\ d.handle <= Len(received')
                                           /\ d.rm.byte_progress = DeclaredUnits
        BY DEF HandleInv
    <2>1. PICK e \in receiving : d = G(e)
        BY <1>2
    <2>2. CASE e.handle = InPart /\ <<e.transfer, e.contact>> \in names
        <3>1. d.handle = Unlinked /\ d.transfer = e.transfer
            BY <2>1, <2>2, <1>3
        <3>2. <<e.transfer, e.contact>> \in DOMAIN parts
            BY <2>2 DEF IInv, BooksMatchDisk
        <3>3. \A name \in DOMAIN parts : name[1] = e.transfer => name = <<e.transfer, e.contact>>
            BY <3>2 DEF IInv, NamesInv
        <3>4. \A name \in DOMAIN parts' : name[1] # e.transfer
            BY <3>3, <2>2, <1>1
        <3> QED
            BY <3>1, <3>4 DEF Unlinked
    <2>3. CASE ~(e.handle = InPart /\ <<e.transfer, e.contact>> \in names)
        <3>1. d.handle = e.handle /\ d.transfer = e.transfer /\ d.rm = e.rm
            BY <2>1, <2>3, <1>3
        <3> QED
            BY <3>1, <1>1 DEF IInv, HandleInv, MadeAnew, PartsShrink
    <2> QED
        BY <2>2, <2>3
<1>8. BooksMatchDisk'
    <2> SUFFICES ASSUME NEW d \in receiving', d.handle = InPart
                 PROVE  /\ <<d.transfer, d.contact>> \in DOMAIN parts'
                        /\ Len(parts'[<<d.transfer, d.contact>>]) = d.rm.byte_progress
        BY DEF BooksMatchDisk
    <2>1. PICK e \in receiving : d = G(e)
        BY <1>2
    <2>2. /\ e.handle = InPart /\ <<e.transfer, e.contact>> \notin names
          /\ d.transfer = e.transfer /\ d.contact = e.contact /\ d.rm = e.rm
        BY <2>1, <1>3 DEF InPart, Unlinked
    <2> QED
        BY <2>2, <1>1 DEF IInv, BooksMatchDisk, PartsShrink
<1> QED
    BY <1>4, <1>5, <1>6, <1>7, <1>8 DEF IInv

-----------------------------------------------------------------------------
(* The steps that open, write or rename a file. *)

LEMMA NewEntryFacts ==
    ASSUME NEW t \in Transfers, NEW c \in Requesters, NEW progress \in 0 .. DeclaredUnits
    PROVE  LET e == NewEntry(t, c, progress)
           IN  /\ e \in Entries /\ e.transfer = t /\ e.contact = c
               /\ e.handle = InPart /\ e.rm.byte_progress = progress
<1>1. /\ NewReceiveManager(DeclaredUnits, progress) \in Managers
      /\ NewReceiveManager(DeclaredUnits, progress).byte_progress = progress
    BY NewManagerType
<1> QED
    BY <1>1 DEF NewEntry, Entries, InPart

LEMMA OpenedFacts ==
    ASSUME IInv, NEW name \in Transfers \X Requesters
    PROVE  /\ DOMAIN PartOpened(name) = DOMAIN parts \cup {name}
           /\ \A n \in DOMAIN parts : PartOpened(name)[n] = parts[n]
           /\ name \notin DOMAIN parts => PartOpened(name)[name] = <<>>
           /\ \A n \in DOMAIN PartOpened(name) :
                 /\ PartOpened(name)[n] \in Seq(Units)
                 /\ Len(PartOpened(name)[n]) \in 0 .. DeclaredUnits
<1>1. \A n \in DOMAIN parts : /\ parts[n] \in Seq(Units)
                              /\ Len(parts[n]) \in 0 .. DeclaredUnits
    <2>1. \A n \in DOMAIN parts : parts[n] \in Seq(Units) /\ Len(parts[n]) <= DeclaredUnits
        BY DEF IInv, PartsTypeOK, PartsFit
    <2>2. \A n \in DOMAIN parts : Len(parts[n]) \in Nat
        BY <2>1
    <2> QED
        BY <2>1, <2>2, ReceiverAssumption
<1>2. <<>> \in Seq(Units) /\ Len(<<>>) \in 0 .. DeclaredUnits
    BY ReceiverAssumption
<1>3. CASE name \in DOMAIN parts
    <2>1. PartOpened(name) = parts
        BY <1>3 DEF PartOpened
    <2> QED
        BY <1>1, <1>3, <2>1
<1>4. CASE name \notin DOMAIN parts
    <2>1. PartOpened(name) = [y \in DOMAIN parts \cup {name} |->
                                 IF y = name THEN <<>> ELSE parts[y]]
        BY <1>4 DEF PartOpened, With
    <2> QED
        BY <1>1, <1>2, <1>4, <2>1
<1> QED
    BY <1>3, <1>4

(***************************************************************************)
(* A part file is opened for the transfer and contact of a row, which no   *)
(* other transfer in memory or on disk is in the way of.                   *)
(***************************************************************************)
LEMMA OpenKeepsPartsInv ==
    ASSUME IInv, NEW t \in Transfers, NEW c \in Requesters,
           parts' = PartOpened(<<t, c>>), UNCHANGED received,
           RowsTypeOK', t \in DOMAIN rows', rows'[t].contact = c,
           \A u \in DOMAIN rows' : u # t => u \in DOMAIN rows /\ rows'[u] = rows[u],
           \A name \in DOMAIN parts : name[1] = t => name = <<t, c>>
    PROVE  /\ PartsTypeOK' /\ ReceivedTypeOK' /\ PartsFit' /\ ReceivedWhole'
           /\ \A m, n \in DOMAIN parts' : m[1] = n[1] => m = n
           /\ \A name \in DOMAIN parts' :
                 name[1] \in DOMAIN rows' => rows'[name[1]].contact = name[2]
<1> DEFINE new == <<t, c>>
<1>0. new \in Transfers \X Requesters /\ new[1] = t /\ new[2] = c
    OBVIOUS
<1> HIDE DEF new
<1>1. /\ DOMAIN parts' = DOMAIN parts \cup {new}
      /\ \A n \in DOMAIN parts' : /\ parts'[n] \in Seq(Units)
                                  /\ Len(parts'[n]) \in 0 .. DeclaredUnits
    BY <1>0, OpenedFacts DEF new
<1>2. PartsTypeOK' /\ PartsFit'
    <2>1. DOMAIN parts' \subseteq Transfers \X Requesters
        BY <1>0, <1>1 DEF IInv, PartsTypeOK
    <2>2. \A n \in DOMAIN parts' : Len(parts'[n]) <= DeclaredUnits
        BY <1>1, ReceiverAssumption
    <2> QED
        BY <2>1, <2>2, <1>1 DEF PartsTypeOK, PartsFit
<1>3. ReceivedTypeOK' /\ ReceivedWhole'
    BY DEF IInv, ReceivedTypeOK, ReceivedWhole
<1>4. \A name \in DOMAIN parts' : name[1] = t => name = new
    BY <1>1 DEF new
<1>5. \A m, n \in DOMAIN parts' : m[1] = n[1] => m = n
    <2> TAKE m, n \in DOMAIN parts'
    <2> HAVE m[1] = n[1]
    <2>1. CASE m[1] = t
        BY <2>1, <1>4
    <2>2. CASE m[1] # t
        BY <2>2, <1>0, <1>1 DEF IInv, NamesInv
    <2> QED
        BY <2>1, <2>2
<1>6. ASSUME NEW name \in DOMAIN parts', name[1] \in DOMAIN rows'
      PROVE  rows'[name[1]].contact = name[2]
    <2>1. CASE name[1] = t
        BY <2>1, <1>0, <1>4
    <2>2. CASE name[1] # t
        BY <2>2, <1>0, <1>1, <1>6 DEF IInv, NamesInv
    <2> QED
        BY <2>1, <2>2
<1> QED
    BY <1>2, <1>3, <1>5, <1>6

(***************************************************************************)
(* And the transfer of that part file becomes the one in memory.           *)
(***************************************************************************)
LEMMA EnterKeepsIInv ==
    ASSUME IInv, NEW t \in Transfers, NEW c \in Requesters,
           parts' = PartOpened(<<t, c>>), UNCHANGED received,
           RowsTypeOK', t \in DOMAIN rows', rows'[t].contact = c,
           \A u \in DOMAIN rows' : u # t => u \in DOMAIN rows /\ rows'[u] = rows[u],
           \A name \in DOMAIN parts : name[1] = t => name = <<t, c>>,
           receiving' = {NewEntry(t, c, Len(PartOpened(<<t, c>>)[<<t, c>>]))}
    PROVE  IInv'
<1> DEFINE length == Len(PartOpened(<<t, c>>)[<<t, c>>])
           e == NewEntry(t, c, length)
<1>1. /\ PartsTypeOK' /\ ReceivedTypeOK' /\ PartsFit' /\ ReceivedWhole'
      /\ \A m, n \in DOMAIN parts' : m[1] = n[1] => m = n
      /\ \A name \in DOMAIN parts' :
            name[1] \in DOMAIN rows' => rows'[name[1]].contact = name[2]
    BY OpenKeepsPartsInv
<1>2. <<t, c>> \in DOMAIN parts' /\ length = Len(parts'[<<t, c>>]) /\ length \in 0 .. DeclaredUnits
    <2>1. <<t, c>> \in Transfers \X Requesters
        OBVIOUS
    <2> QED
        BY <2>1, OpenedFacts
<1>3. receiving' = {e}
    OBVIOUS
<1> HIDE DEF length
<1>4. /\ e \in Entries /\ e.transfer = t /\ e.contact = c
      /\ e.handle = InPart /\ e.rm.byte_progress = length
    BY <1>2, NewEntryFacts
<1> HIDE DEF e
<1>5. ReceivingTypeOK' /\ BooksMatchDisk' /\ HandleInv'
    <2>1. ReceivingTypeOK'
        BY <1>3, <1>4 DEF ReceivingTypeOK
    <2>2. BooksMatchDisk'
        <3>1. <<e.transfer, e.contact>> = <<t, c>> /\ length = e.rm.byte_progress
            BY <1>4
        <3> QED
            BY <1>2, <1>3, <3>1 DEF BooksMatchDisk
    <2>3. HandleInv'
        <3>0. ~(InPart > 0)
            BY DEF InPart
        <3>1. \A d \in receiving' : d.handle = InPart /\ ~(d.handle > 0)
            BY <1>3, <1>4, <3>0
        <3> QED
            BY <3>1 DEF HandleInv
    <2> QED
        BY <2>1, <2>2, <2>3
<1>6. NamesInv'
    BY <1>1, <1>3, <1>4 DEF NamesInv
<1> QED
    BY <1>1, <1>5, <1>6 DEF IInv

LEMMA NewTransferKeepsIInv ==
    ASSUME IInv, NEW t \in Transfers, NEW c \in Requesters, NEW reply,
           NewTransfer(t, c, reply)
    PROVE  IInv'
<1>1. CASE UNCHANGED receiver_vars
    BY <1>1, Unchanged, RowsStepKeepsIInv DEF receiver_vars
<1>2. CASE /\ CreateIncomingFile(t, c)
           /\ \A name \in DOMAIN parts : name[1] # t
           /\ parts' = PartOpened(<<t, c>>)
           /\ receiving' = {NewEntry(t, c, 0)}
           /\ UNCHANGED <<updates, received>>
    <2>1. rows' = [u \in DOMAIN rows \cup {t} |->
                      IF u = t THEN [status |-> "Receiving", contact |-> c] ELSE rows[u]]
        BY <1>2 DEF CreateIncomingFile, With
    <2>2. RowsTypeOK' /\ t \in DOMAIN rows' /\ rows'[t].contact = c
        BY <2>1 DEF IInv, RowsTypeOK
    <2>3. \A u \in DOMAIN rows' : u # t => u \in DOMAIN rows /\ rows'[u] = rows[u]
        BY <2>1
    <2>4. <<t, c>> \notin DOMAIN parts /\ <<t, c>> \in Transfers \X Requesters
        BY <1>2
    <2>5. Len(PartOpened(<<t, c>>)[<<t, c>>]) = 0
        <3>1. PartOpened(<<t, c>>)[<<t, c>>] = <<>>
            BY <2>4, OpenedFacts
        <3> QED
            BY <3>1
    <2> QED
        BY <1>2, <2>2, <2>3, <2>5, EnterKeepsIInv
<1> QED
    BY <1>1, <1>2 DEF NewTransfer

(***************************************************************************)
(* The only entry is replaced by one for the same transfer and file.       *)
(***************************************************************************)
LEMMA ReplaceKeepsIInv ==
    ASSUME IInv, NEW e \in receiving, NEW m \in Managers,
           receiving' = {[e EXCEPT !.rm = m]},
           UNCHANGED <<rows, received>>, DOMAIN parts' = DOMAIN parts,
           PartsTypeOK', PartsFit', m.byte_progress >= e.rm.byte_progress,
           e.handle = InPart => Len(parts'[<<e.transfer, e.contact>>]) = m.byte_progress,
           e.handle # InPart => UNCHANGED parts
    PROVE  IInv'
<1> DEFINE d == [e EXCEPT !.rm = m]
<1>1. /\ d \in Entries /\ d.transfer = e.transfer /\ d.contact = e.contact
      /\ d.handle = e.handle /\ d.rm = m
    BY DEF IInv, ReceivingTypeOK, Entries
<1>2. receiving' = {d}
    OBVIOUS
<1> HIDE DEF d
<1>3. ReceivingTypeOK'
    BY <1>1, <1>2 DEF ReceivingTypeOK
<1>4. RowsTypeOK' /\ ReceivedTypeOK' /\ ReceivedWhole'
    BY DEF IInv, RowsTypeOK, ReceivedTypeOK, ReceivedWhole
<1>5. NamesInv'
    BY <1>1, <1>2 DEF IInv, NamesInv
<1>6. HandleInv'
    <2>1. e.handle # InPart =>
              \A name \in DOMAIN parts' : name[1] = e.transfer => MadeAnew(name)'
        BY DEF IInv, HandleInv, MadeAnew
    <2>2. ASSUME e.handle > 0
          PROVE  e.handle <= Len(received') /\ m.byte_progress = DeclaredUnits
        <3>1. e.handle <= Len(received) /\ e.rm.byte_progress = DeclaredUnits
            BY <2>2 DEF IInv, HandleInv
        <3>2. m.byte_progress \in 0 .. DeclaredUnits
            BY DEF Managers
        <3> QED
            BY <3>1, <3>2, ReceiverAssumption
    <2> QED
        BY <2>1, <2>2, <1>1, <1>2 DEF HandleInv
<1>7. BooksMatchDisk'
    <2>1. e.handle = InPart => <<e.transfer, e.contact>> \in DOMAIN parts'
        BY DEF IInv, BooksMatchDisk
    <2> QED
        BY <2>1, <1>1, <1>2 DEF BooksMatchDisk
<1> QED
    BY <1>3, <1>4, <1>5, <1>6, <1>7 DEF IInv

LEMMA ContinueInMemoryKeepsIInv ==
    ASSUME IInv, NEW t, NEW c, NEW reply, ContinueInMemory(t, c, reply)
    PROVE  IInv'
<1>1. PICK e \in receiving : receiving' = {[e EXCEPT !.rm = ResetReceiveManager(@)]}
    BY DEF ContinueInMemory, StillInMemory
<1> DEFINE m == ResetReceiveManager(e.rm)
<1>2. UNCHANGED <<parts, rows, received>>
    BY DEF ContinueInMemory
<1>3. e.rm \in Managers
    BY DEF IInv, ReceivingTypeOK, Entries
<1>4. m \in Managers /\ m.byte_progress = e.rm.byte_progress
    BY <1>3, ResetManagerType
<1>5. receiving' = {[e EXCEPT !.rm = m]}
    BY <1>1
<1> HIDE DEF m
<1>6. m.byte_progress >= e.rm.byte_progress
    BY <1>3, <1>4 DEF Managers
<1>7. e.handle = InPart => Len(parts'[<<e.transfer, e.contact>>]) = m.byte_progress
    BY <1>2, <1>4 DEF IInv, BooksMatchDisk
<1>8. PartsTypeOK' /\ PartsFit' /\ DOMAIN parts' = DOMAIN parts
    BY <1>2 DEF IInv, PartsTypeOK, PartsFit
<1> QED
    BY <1>2, <1>4, <1>5, <1>6, <1>7, <1>8, ReplaceKeepsIInv

(***************************************************************************)
(* A transfer that is not in memory is continued by the contact of its     *)
(* row: whatever is in memory is for another transfer, or its row says so. *)
(* One that is in memory, for another filerequest, may get an empty file.  *)
(***************************************************************************)
LEMMA ContinueFromDiskKeepsIInv ==
    ASSUME IInv, NEW t \in Transfers, NEW c \in Requesters, NEW reply,
           ContinueFromDisk(t, c, reply), StillInMemory(t, c) = {} \/ t \in Elsewhere
    PROVE  IInv'
<1> DEFINE name == <<t, c>>
           length == Len(PartOpened(name)[name])
<1>1. CASE UNCHANGED <<receiving, parts, rows, received>>
    BY <1>1, Unchanged, RowsStepKeepsIInv
<1>2. ASSUME MayContinue(t, c), UNCHANGED rows
      PROVE  /\ RowsTypeOK' /\ t \in DOMAIN rows' /\ rows'[t].contact = c
             /\ \A u \in DOMAIN rows' : u # t => u \in DOMAIN rows /\ rows'[u] = rows[u]
             /\ \A n \in DOMAIN parts : n[1] = t => n = <<t, c>>
    <2>1. t \in DOMAIN rows /\ rows[t].contact = c
        BY <1>2 DEF MayContinue, GetReceivedFile
    <2>2. \A n \in DOMAIN parts : n[1] = t => n[2] = c
        BY <2>1 DEF IInv, NamesInv
    <2>3. \A n \in DOMAIN parts : n = <<n[1], n[2]>>
        BY DEF IInv, PartsTypeOK
    <2>4. RowsTypeOK'
        BY <1>2 DEF IInv, RowsTypeOK
    <2>5. \A n \in DOMAIN parts : n[1] = t => n = <<t, c>>
        BY <2>2, <2>3
    <2> QED
        BY <1>2, <2>1, <2>4, <2>5
<1>3. CASE /\ MayContinue(t, c) /\ parts' = PartOpened(name)
           /\ UNCHANGED <<receiving, rows, received>>
    <2>1. /\ RowsTypeOK' /\ t \in DOMAIN rows' /\ rows'[t].contact = c
          /\ \A u \in DOMAIN rows' : u # t => u \in DOMAIN rows /\ rows'[u] = rows[u]
          /\ \A n \in DOMAIN parts : n[1] = t => n = <<t, c>>
        BY <1>2, <1>3
    <2>2. /\ PartsTypeOK' /\ ReceivedTypeOK' /\ PartsFit' /\ ReceivedWhole'
          /\ \A m, n \in DOMAIN parts' : m[1] = n[1] => m = n
          /\ \A n \in DOMAIN parts' :
                n[1] \in DOMAIN rows' => rows'[n[1]].contact = n[2]
        BY <1>3, <2>1, OpenKeepsPartsInv
    <2>3. /\ DOMAIN parts' = DOMAIN parts \cup {name}
          /\ \A n \in DOMAIN parts : parts'[n] = parts[n]
        <3>1. name \in Transfers \X Requesters
            OBVIOUS
        <3> QED
            BY <1>3, <3>1, OpenedFacts
    <2>4. (\A e \in receiving : e.transfer # t) \/ t \in Elsewhere
        <3> SUFFICES ASSUME NEW e \in receiving, e.transfer = t PROVE t \in Elsewhere
            OBVIOUS
        <3>1. e.contact = c
            BY <1>3, <2>1 DEF IInv, NamesInv
        <3>2. e \in StillInMemory(t, c)
            BY <3>1 DEF StillInMemory
        <3> QED
            BY <3>2
    <2>5. ReceivingTypeOK' /\ NamesInv'
        BY <1>3, <2>2 DEF IInv, ReceivingTypeOK, NamesInv
    <2>6. HandleInv'
        <3> SUFFICES ASSUME NEW e \in receiving'
                     PROVE  /\ e.handle # InPart =>
                                  \A n \in DOMAIN parts' : n[1] = e.transfer => MadeAnew(n)'
                            /\ e.handle > 0 => /\ e.handle <= Len(received')
                                               /\ e.rm.byte_progress = DeclaredUnits
            BY DEF HandleInv
        <3>1. e \in receiving /\ (e.transfer = t => t \in Elsewhere)
            BY <1>3, <2>4
        <3>2. e.handle > 0 => /\ e.handle <= Len(received')
                              /\ e.rm.byte_progress = DeclaredUnits
            BY <1>3, <3>1 DEF IInv, HandleInv
        <3>3. ASSUME e.handle # InPart, NEW n \in DOMAIN parts', n[1] = e.transfer
              PROVE  MadeAnew(n)'
            <4>1. CASE n \in DOMAIN parts
                BY <2>3, <3>1, <3>3, <4>1 DEF IInv, HandleInv, MadeAnew
            <4>2. CASE n \notin DOMAIN parts
                <5>1. n = name /\ parts' = With(parts, name, <<>>)
                    BY <1>3, <2>3, <4>2 DEF PartOpened
                <5>2. parts'[n] = <<>>
                    BY <5>1 DEF With
                <5>3. n[1] \in Elsewhere
                    BY <3>1, <3>3, <5>1
                <5> QED
                    BY <5>2, <5>3 DEF MadeAnew
            <4> QED
                BY <4>1, <4>2
        <3> QED
            BY <3>2, <3>3
    <2>7. BooksMatchDisk'
        BY <1>3, <2>3 DEF IInv, BooksMatchDisk
    <2> QED
        BY <2>1, <2>2, <2>5, <2>6, <2>7 DEF IInv
<1>4. CASE /\ MayContinue(t, c) /\ parts' = PartOpened(name)
           /\ receiving' = {NewEntry(t, c, length)}
           /\ UNCHANGED <<rows, received>>
    BY <1>2, <1>4, EnterKeepsIInv
<1> QED
    BY <1>1, <1>3, <1>4 DEF ContinueFromDisk, receiver_vars

(***************************************************************************)
(* What is written stays within the declared size and therefore never      *)
(* reaches a file that was renamed.                                        *)
(***************************************************************************)
LEMMA WrittenFacts ==
    ASSUME IInv, NEW e \in receiving, NEW units \in Seq(Units), Written(e, units),
           e.rm.byte_progress + Len(units) <= DeclaredUnits
    PROVE  /\ received' = received
           /\ DOMAIN parts' = DOMAIN parts
           /\ PartsTypeOK' /\ PartsFit'
           /\ e.handle = InPart =>
                 Len(parts'[<<e.transfer, e.contact>>]) = e.rm.byte_progress + Len(units)
           /\ e.handle # InPart => UNCHANGED parts
           /\ \A n \in DOMAIN parts : Len(parts[n]) <= Len(parts'[n])
<1> DEFINE name == <<e.transfer, e.contact>>
<1>0. /\ e \in Entries /\ e.handle \in Int /\ e.rm.byte_progress \in 0 .. DeclaredUnits
      /\ DeclaredUnits \in Nat /\ Len(units) \in Nat
    BY ReceiverAssumption DEF IInv, ReceivingTypeOK, Entries, Managers
<1>1. CASE e.handle = InPart
    <2>1. /\ parts' = [parts EXCEPT ![name] = @ \o units]
          /\ received' = received
        BY <1>1 DEF Written, InPart
    <2>2. /\ name \in DOMAIN parts /\ parts[name] \in Seq(Units)
          /\ Len(parts[name]) = e.rm.byte_progress
        BY <1>1 DEF IInv, BooksMatchDisk, PartsTypeOK
    <2>3. /\ parts[name] \o units \in Seq(Units)
          /\ Len(parts[name] \o units) = e.rm.byte_progress + Len(units)
        BY <2>2, SMTT(30)
    <2> HIDE DEF name
    <2>4. /\ DOMAIN parts' = DOMAIN parts /\ parts'[name] = parts[name] \o units
          /\ \A n \in DOMAIN parts : n # name => parts'[n] = parts[n]
        BY <2>1, <2>2
    <2>5. PartsTypeOK'
        BY <2>3, <2>4 DEF IInv, PartsTypeOK
    <2>6. PartsFit'
        BY <2>3, <2>4 DEF IInv, PartsFit
    <2>7. \A n \in DOMAIN parts : Len(parts[n]) <= Len(parts'[n])
        <3>1. \A n \in DOMAIN parts : Len(parts[n]) \in Nat
            BY DEF IInv, PartsTypeOK
        <3>2. Len(parts[name]) <= Len(parts'[name])
            <4>1. Len(parts'[name]) = Len(parts[name]) + Len(units)
                BY <2>2, <2>3, <2>4
            <4> QED
                BY <1>0, <2>2, <4>1
        <3> TAKE n \in DOMAIN parts
        <3>3. CASE n = name
            BY <3>2, <3>3
        <3>4. CASE n # name
            BY <2>4, <3>1, <3>4
        <3> QED
            BY <3>3, <3>4
    <2> QED
        BY <1>1, <2>1, <2>3, <2>4, <2>5, <2>6, <2>7 DEF name
<1>2. CASE e.handle # InPart
    <2>1. parts' = parts
        BY <1>2 DEF Written
    <2>2. received' = received
        <3>1. CASE ~(e.handle > 0)
            BY <3>1 DEF Written
        <3>2. CASE e.handle > 0
            <4> DEFINE h == e.handle
            <4>1. h \in 1 .. Len(received) /\ e.rm.byte_progress = DeclaredUnits
                BY <3>2, <1>0 DEF IInv, HandleInv, ReceivedTypeOK
            <4>2. units = <<>>
                <5>1. Len(units) = 0
                    BY <4>1, <1>0
                <5> QED
                    BY <5>1
            <4>3. /\ received \in Seq([transfer : Transfers, units : Seq(Units)])
                  /\ received[h] \in [transfer : Transfers, units : Seq(Units)]
                <5> DEFINE R == [transfer : Transfers, units : Seq(Units)]
                <5>1. received \in Seq(R)
                    BY DEF IInv, ReceivedTypeOK
                <5> HIDE DEF R, h
                <5>2. received[h] \in R
                    BY <4>1, <5>1
                <5> QED
                    BY <5>1, <5>2 DEF R
            <4>4. received[h].units \o units = received[h].units
                BY <4>2, <4>3
            <4>5. received' = [received EXCEPT ![h].units = @ \o units]
                BY <3>2 DEF Written
            <4> HIDE DEF h
            <4>6. [received[h] EXCEPT !.units = @ \o units] = received[h]
                BY <4>3, <4>4
            <4>7. received' = [received EXCEPT ![h] = received[h]]
                BY <4>5, <4>6
            <4> QED
                BY <4>3, <4>7
        <3> QED
            BY <3>1, <3>2
    <2>3. PartsTypeOK' /\ PartsFit'
        BY <2>1 DEF IInv, PartsTypeOK, PartsFit
    <2>4. \A n \in DOMAIN parts : Len(parts[n]) <= Len(parts'[n])
        <3>1. \A n \in DOMAIN parts : Len(parts[n]) \in Nat
            BY DEF IInv, PartsTypeOK
        <3> QED
            BY <2>1, <3>1
    <2> QED
        BY <1>2, <2>1, <2>2, <2>3, <2>4
<1> QED
    BY <1>1, <1>2

LEMMA WriteAndDropKeepsIInv ==
    ASSUME IInv, NEW e \in receiving, NEW units \in Seq(Units), Written(e, units),
           e.rm.byte_progress + Len(units) <= DeclaredUnits,
           receiving' = {}, UNCHANGED rows
    PROVE  IInv' /\ received' = received
<1>1. received' = received /\ DOMAIN parts' = DOMAIN parts /\ PartsTypeOK' /\ PartsFit'
    BY WrittenFacts
<1>2. ReceivingTypeOK' /\ HandleInv' /\ BooksMatchDisk'
    BY DEF ReceivingTypeOK, HandleInv, BooksMatchDisk
<1>3. RowsTypeOK' /\ ReceivedTypeOK' /\ ReceivedWhole'
    BY <1>1 DEF IInv, RowsTypeOK, ReceivedTypeOK, ReceivedWhole
<1>4. NamesInv'
    BY <1>1 DEF IInv, NamesInv
<1> QED
    BY <1>1, <1>2, <1>3, <1>4 DEF IInv

LEMMA ChunkStoredKeepsIInv ==
    ASSUME IInv, NEW e \in receiving, NEW chunk \in Chunks, NEW reply,
           ChunkStored(e, chunk, reply)
    PROVE  IInv' /\ received' = received
<1> DEFINE A == AppendedByStore(e.rm, chunk)
           m == AfterStore(e.rm, chunk)
<1>1. e.rm \in Managers
    BY DEF IInv, ReceivingTypeOK, Entries
<1>2. /\ A \in Seq(Units) /\ m \in Managers /\ m.byte_progress = e.rm.byte_progress + Len(A)
    BY <1>1, StoreCounts
<1>3. /\ e.rm.byte_progress \in 0 .. DeclaredUnits /\ m.byte_progress \in 0 .. DeclaredUnits
      /\ DeclaredUnits \in Nat /\ Len(A) \in Nat
      /\ e.rm.byte_progress + Len(A) <= DeclaredUnits
    <2>1. e.rm.byte_progress \in 0 .. DeclaredUnits /\ m.byte_progress \in 0 .. DeclaredUnits
        BY <1>1, <1>2 DEF Managers
    <2>2. DeclaredUnits \in Nat /\ Len(A) \in Nat
        BY <1>2, ReceiverAssumption
    <2> HIDE DEF A, m
    <2> QED
        BY <2>1, <2>2, <1>2
<1>4. UNCHANGED rows
    BY DEF ChunkStored
<1>5. CASE Written(e, A) /\ receiving' = {[e EXCEPT !.rm = AfterStore(@, chunk)]}
    <2>1. receiving' = {[e EXCEPT !.rm = m]}
        BY <1>5
    <2> HIDE DEF A, m
    <2>2. /\ received' = received /\ DOMAIN parts' = DOMAIN parts
          /\ PartsTypeOK' /\ PartsFit'
          /\ e.handle = InPart =>
                Len(parts'[<<e.transfer, e.contact>>]) = m.byte_progress
          /\ e.handle # InPart => UNCHANGED parts
        BY <1>2, <1>3, <1>5, WrittenFacts
    <2>3. m.byte_progress >= e.rm.byte_progress
        BY <1>2, <1>3
    <2> QED
        BY <1>2, <1>4, <2>1, <2>2, <2>3, ReplaceKeepsIInv
<1>6. CASE Written(e, A) /\ receiving' = {}
    <2> HIDE DEF A, m
    <2> QED
        BY <1>2, <1>3, <1>4, <1>6, WriteAndDropKeepsIInv
<1>7. ASSUME NEW k \in 0 .. Len(A) - 1, Written(e, SubSeq(A, 1, k)), receiving' = {}
      PROVE  IInv' /\ received' = received
    <2> HIDE DEF A, m
    <2>1. SubSeq(A, 1, k) \in Seq(Units) /\ Len(SubSeq(A, 1, k)) = k
        BY <1>2, <1>3, <1>7
    <2>2. e.rm.byte_progress + Len(SubSeq(A, 1, k)) <= DeclaredUnits
        BY <2>1, <1>3, <1>7
    <2> QED
        BY <2>1, <2>2, <1>4, <1>7, WriteAndDropKeepsIInv
<1> QED
    BY <1>5, <1>6, <1>7 DEF ChunkStored

(***************************************************************************)
(* The part file that is renamed is the one of the transfer in memory,     *)
(* whoever asks for it, and it is complete; or it was made anew.           *)
(***************************************************************************)
LEMMA FinalizedKeepsIInv ==
    ASSUME IInv, NEW e \in receiving, NEW c \in Requesters, IsComplete(e),
           Finalized(e, <<e.transfer, c>>), RowsShrink
    PROVE  IInv' /\ \E file : received' = Append(received, file)
<1> DEFINE name == <<e.transfer, c>>
           file == [transfer |-> e.transfer, units |-> parts[name]]
           n == Len(received) + 1
           h == IF e.handle = InPart THEN n ELSE e.handle
           d == [e EXCEPT !.handle = h]
<1>0. /\ e \in Entries /\ e.transfer \in Transfers /\ e.rm \in Managers
      /\ e.rm.byte_progress = DeclaredUnits
      /\ received \in Seq([transfer : Transfers, units : Seq(Units)])
    BY DEF IInv, ReceivingTypeOK, Entries, Managers, IsComplete, ReceivedTypeOK
<1>1. name \in DOMAIN parts /\ name[1] = e.transfer
    BY DEF Finalized
<1>2. e.handle # InPart => MadeAnew(name)
    BY <1>1 DEF IInv, HandleInv
<1>3. e.handle = InPart => name = <<e.transfer, e.contact>>
    <2> SUFFICES ASSUME e.handle = InPart PROVE name = <<e.transfer, e.contact>>
        OBVIOUS
    <2>1. <<e.transfer, e.contact>> \in DOMAIN parts /\ <<e.transfer, e.contact>>[1] = e.transfer
        BY DEF IInv, BooksMatchDisk
    <2> HIDE DEF name
    <2> QED
        BY <2>1, <1>1 DEF IInv, NamesInv
<1>4. /\ parts[name] \in Seq(Units)
      /\ \/ Len(parts[name]) = DeclaredUnits
         \/ e.transfer \in Elsewhere /\ parts[name] = <<>>
    <2>1. parts[name] \in Seq(Units)
        BY <1>1 DEF IInv, PartsTypeOK
    <2>2. CASE e.handle = InPart
        <3>1. Len(parts[<<e.transfer, e.contact>>]) = DeclaredUnits
            BY <1>0, <2>2 DEF IInv, BooksMatchDisk
        <3> HIDE DEF name
        <3> QED
            BY <1>3, <2>1, <2>2, <3>1
    <2>3. CASE e.handle # InPart
        BY <1>1, <1>2, <2>1, <2>3 DEF MadeAnew
    <2> QED
        BY <2>2, <2>3
<1>5. received' = Append(received, file)
    BY DEF Finalized
<1>6. PartsShrink /\ DOMAIN parts' = DOMAIN parts \ {name}
    BY DEF Finalized, PartsShrink, Without, Restrict
<1>7. /\ file \in [transfer : Transfers, units : Seq(Units)]
      /\ file.units = parts[name] /\ file.transfer = e.transfer
    BY <1>0, <1>4
<1> HIDE DEF file
<1>8. /\ Len(received') = n /\ n \in Nat /\ n > 0
      /\ received' \in Seq([transfer : Transfers, units : Seq(Units)])
      /\ \A i \in 1 .. Len(received) : received'[i] = received[i]
      /\ received'[n] = file
    BY <1>0, <1>5, <1>7
<1>9. receiving' = {d}
    BY <1>3, <1>8 DEF Finalized
<1> HIDE DEF n, name
<1>10. /\ d \in Entries /\ d.transfer = e.transfer /\ d.contact = e.contact
       /\ d.handle = h /\ d.rm = e.rm
    <2>1. h \in Int /\ e \in Entries
        BY <1>0, <1>8 DEF Entries
    <2> HIDE DEF h
    <2> QED
        BY <2>1 DEF Entries
<1> HIDE DEF d
<1>11. ReceivingTypeOK'
    BY <1>9, <1>10 DEF ReceivingTypeOK
<1>12. ReceivedTypeOK'
    BY <1>8 DEF ReceivedTypeOK
<1>13. ReceivedWhole'
    <2> SUFFICES ASSUME NEW i \in 1 .. Len(received')
                 PROVE  \/ Len(received'[i].units) = DeclaredUnits
                        \/ received'[i].transfer \in Elsewhere /\ received'[i].units = <<>>
        BY DEF ReceivedWhole
    <2>1. CASE i = n
        BY <2>1, <1>4, <1>7, <1>8
    <2>2. CASE i # n
        <3>1. i \in 1 .. Len(received)
            BY <2>2, <1>0, <1>8 DEF n
        <3> QED
            BY <3>1, <1>8 DEF IInv, ReceivedWhole
    <2> QED
        BY <2>1, <2>2
<1>14. PartsTypeOK' /\ PartsFit'
    BY <1>6 DEF IInv, PartsTypeOK, PartsFit, PartsShrink
<1>15. RowsTypeOK'
    BY DEF RowsTypeOK, RowsShrink
<1>16. NamesInv'
    <2>1. \A x \in receiving' : x.transfer \in DOMAIN rows' =>
              rows'[x.transfer].contact = x.contact
        BY <1>9, <1>10 DEF IInv, NamesInv, RowsShrink
    <2> QED
        BY <2>1, <1>6 DEF IInv, NamesInv, RowsShrink
<1>17. HandleInv'
    <2>1. \A m \in DOMAIN parts' : m[1] # e.transfer
        BY <1>1, <1>6 DEF IInv, NamesInv
    <2>2. h > 0 => h <= Len(received')
        <3>1. e.handle > 0 => e.handle <= Len(received)
            BY DEF IInv, HandleInv
        <3> QED
            BY <1>0, <1>8, <3>1 DEF Entries, n
    <2> HIDE DEF h
    <2> QED
        BY <2>1, <2>2, <1>0, <1>9, <1>10 DEF HandleInv
<1>18. BooksMatchDisk'
    <2>1. h # InPart
        BY <1>8 DEF InPart
    <2> HIDE DEF h
    <2> QED
        BY <2>1, <1>9, <1>10 DEF BooksMatchDisk
<1> QED
    BY <1>5, <1>11, <1>12, <1>13, <1>14, <1>15, <1>16, <1>17, <1>18 DEF IInv

-----------------------------------------------------------------------------
(* The requests of a peer, and the steps of the program. *)

ReceivedGrows ==
    received' = received \/ \E file : received' = Append(received, file)

LEMMA StoreReceivedFileShrinks ==
    ASSUME IInv, NEW t, NEW completed \in BOOLEAN, StoreReceivedFile(t, completed)
    PROVE  RowsShrink
<1>1. CASE UNCHANGED rows
    BY <1>1, Unchanged
<1>2. CASE CompleteReceivedFile(t)
    <2>1. t \in DOMAIN rows /\ rows' = [rows EXCEPT ![t].status = "Completed"]
        BY <1>2 DEF CompleteReceivedFile, GetReceivedFile
    <2> QED
        BY <2>1, StatusKeepsContact
<1> QED
    BY <1>1, <1>2 DEF StoreReceivedFile

LEMMA DoneKeepsIInv ==
    ASSUME IInv, NEW t, NEW c \in Requesters, NEW reply, Done(t, c, reply)
    PROVE  IInv' /\ ReceivedGrows
<1>1. CASE UNCHANGED <<receiving, parts, received>> /\ RowsShrink
    BY <1>1, RowsStepKeepsIInv DEF ReceivedGrows
<1>2. CASE receiving' = {} /\ UNCHANGED <<parts, rows, received>>
    BY <1>2, Unchanged, DropKeepsIInv DEF ReceivedGrows
<1>3. ASSUME NEW e \in receiving, e.transfer = t, IsComplete(e),
             Finalized(e, <<t, c>>), RowsShrink
      PROVE  IInv' /\ ReceivedGrows
    BY <1>3, FinalizedKeepsIInv DEF ReceivedGrows
<1>4. CASE /\ \/ receiving = {} /\ UNCHANGED receiving
              \/ \E e \in receiving : e.transfer # t /\ receiving' = {}
              \/ \E e \in receiving :
                    e.transfer = t /\ ~IsComplete(e) /\ UNCHANGED receiving
           /\ UNCHANGED <<parts, rows, updates, received>>
    BY <1>1, <1>2, <1>4, Unchanged
<1>5. ASSUME NEW completed \in BOOLEAN, StoreReceivedFile(t, completed),
             \E e \in receiving :
                 /\ e.transfer = t /\ IsComplete(e)
                 /\ \/ Finalized(e, <<t, c>>)
                    \/ UNCHANGED <<receiving, parts, received>>
      PROVE  IInv' /\ ReceivedGrows
    <2>1. RowsShrink
        BY <1>5, StoreReceivedFileShrinks
    <2> QED
        BY <1>1, <1>3, <1>5, <2>1
<1> QED
    BY <1>4, <1>5 DEF Done

LEMMA AbortTransferKeepsIInv ==
    ASSUME IInv, NEW t, NEW c, NEW reply, AbortTransfer(t, c, reply)
    PROVE  IInv' /\ ReceivedGrows
<1>1. receiving' = {} /\ UNCHANGED <<rows, received>>
    BY DEF AbortTransfer
<1>2. PartsShrink
    <2>1. CASE UNCHANGED parts
        BY <2>1, Unchanged
    <2>2. ASSUME NEW e \in receiving, parts' = Without(parts, {<<e.transfer, c>>})
          PROVE  PartsShrink
        BY <2>2 DEF PartsShrink, Without, Restrict
    <2> QED
        BY <2>1, <2>2 DEF AbortTransfer
<1> QED
    BY <1>1, <1>2, Unchanged, DropKeepsIInv DEF ReceivedGrows

LEMMA ChunkKeepsIInv ==
    ASSUME IInv, NEW t, NEW chunk \in Chunks, NEW c, NEW reply, Chunk(t, chunk, c, reply)
    PROVE  IInv' /\ ReceivedGrows
<1>1. CASE receiving' = {} /\ UNCHANGED <<parts, rows, received>>
    BY <1>1, Unchanged, DropKeepsIInv DEF ReceivedGrows
<1>2. ASSUME NEW e \in receiving, ChunkStored(e, chunk, reply) PROVE IInv' /\ ReceivedGrows
    BY <1>2, ChunkStoredKeepsIInv DEF ReceivedGrows
<1> QED
    BY <1>1, <1>2 DEF Chunk

LEMMA RespondToKeepsIInv == IInv /\ RespondTo => IInv' /\ ReceivedGrows
<1> SUFFICES ASSUME IInv, RespondTo PROVE IInv' /\ ReceivedGrows
    OBVIOUS
<1>1. PICK reply \in Replies :
        \/ PeerViolation(reply)
        \/ \E t \in Transfers, c \in Requesters :
              \/ NewTransfer(t, c, reply)
              \/ ContinueTransfer(t, c, reply)
              \/ t \in Elsewhere /\ ContinueElsewhere(t, c, reply)
              \/ AbortTransfer(t, c, reply)
              \/ AbortTransfer(NoTransfer, c, reply)
              \/ \E idx \in 0 .. DeclaredUnits + ParallelChunks, unit \in Payloads :
                    Chunk(t, [idx |-> idx, unit |-> unit], c, reply)
              \/ Done(t, c, reply)
    BY DEF RespondTo
<1>2. CASE PeerViolation(reply)
    BY <1>2, Unchanged, DropKeepsIInv DEF PeerViolation, ReceivedGrows
<1>3. ASSUME NEW t \in Transfers, NEW c \in Requesters,
             \/ NewTransfer(t, c, reply) \/ ContinueTransfer(t, c, reply)
             \/ t \in Elsewhere /\ ContinueElsewhere(t, c, reply)
      PROVE  IInv' /\ ReceivedGrows
    <2>1. UNCHANGED received
        BY <1>3 DEF NewTransfer, ContinueTransfer, ContinueElsewhere, ContinueInMemory,
                    ContinueFromDisk, receiver_vars
    <2>2. IInv'
        BY <1>3, NewTransferKeepsIInv, ContinueInMemoryKeepsIInv, ContinueFromDiskKeepsIInv
           DEF ContinueTransfer, ContinueElsewhere
    <2> QED
        BY <2>1, <2>2 DEF ReceivedGrows
<1>4. ASSUME NEW t \in Transfers, NEW c \in Requesters,
             \/ AbortTransfer(t, c, reply) \/ AbortTransfer(NoTransfer, c, reply)
      PROVE  IInv' /\ ReceivedGrows
    BY <1>4, AbortTransferKeepsIInv
<1>5. ASSUME NEW t \in Transfers, NEW c \in Requesters,
             NEW idx \in 0 .. DeclaredUnits + ParallelChunks, NEW unit \in Payloads,
             Chunk(t, [idx |-> idx, unit |-> unit], c, reply)
      PROVE  IInv' /\ ReceivedGrows
    <2>1. [idx |-> idx, unit |-> unit] \in Chunks
        BY ReceiverAssumption, ParallelChunksAssumption DEF Chunks
    <2> QED
        BY <1>5, <2>1, ChunkKeepsIInv
<1>6. ASSUME NEW t \in Transfers, NEW c \in Requesters, Done(t, c, reply)
      PROVE  IInv' /\ ReceivedGrows
    BY <1>6, DoneKeepsIInv
<1> QED
    BY <1>1, <1>2, <1>3, <1>4, <1>5, <1>6

LEMMA IInvInit == Init => IInv
<1> SUFFICES ASSUME Init PROVE IInv
    OBVIOUS
<1>1. receiving = {} /\ DOMAIN parts = {} /\ DOMAIN rows = {} /\ received = <<>>
    BY DEF Init
<1>2. ReceivingTypeOK /\ HandleInv /\ BooksMatchDisk
    BY <1>1 DEF ReceivingTypeOK, HandleInv, BooksMatchDisk
<1>3. PartsTypeOK /\ PartsFit /\ RowsTypeOK
    BY <1>1 DEF PartsTypeOK, PartsFit, RowsTypeOK
<1>4. ReceivedTypeOK /\ ReceivedWhole
    BY <1>1 DEF ReceivedTypeOK, ReceivedWhole
<1>5. NamesInv
    BY <1>1 DEF NamesInv
<1> QED
    BY <1>2, <1>3, <1>4, <1>5 DEF IInv

LEMMA NextKeepsIInv == IInv /\ [Next]_receiver_vars => IInv' /\ ReceivedGrows
<1> SUFFICES ASSUME IInv, [Next]_receiver_vars PROVE IInv' /\ ReceivedGrows
    OBVIOUS
<1>1. CASE RespondTo
    BY <1>1, RespondToKeepsIInv
<1>2. CASE Expire \/ Restart
    <2>1. receiving' = {} /\ UNCHANGED <<parts, rows, received>>
        BY <1>2 DEF Expire, Restart
    <2> QED
        BY <2>1, Unchanged, DropKeepsIInv DEF ReceivedGrows
<1>3. ASSUME RowsShrink, UNCHANGED <<receiving, parts, received>>
      PROVE  IInv' /\ ReceivedGrows
    BY <1>3, RowsStepKeepsIInv DEF ReceivedGrows
<1>4. ASSUME NEW u, ApplyUpdate(u) PROVE IInv' /\ ReceivedGrows
    <2>1. CASE UNCHANGED rows
        BY <2>1, <1>3, <1>4, Unchanged DEF ApplyUpdate
    <2>2. CASE GetReceivedFile(u.transfer) # {}
        <3>1. /\ u.transfer \in DOMAIN rows
              /\ rows' = [rows EXCEPT ![u.transfer].status = u.status]
            BY <2>2, <1>4 DEF ApplyUpdate, StatusUpdated, GetReceivedFile
        <3>2. RowsShrink
            BY <3>1, StatusKeepsContact
        <3> QED
            BY <3>2, <1>3, <1>4 DEF ApplyUpdate
    <2> QED
        BY <2>1, <2>2, <1>4 DEF ApplyUpdate, StatusUpdated
<1>5. ASSUME NEW t, DeleteReceivedFile(t) PROVE IInv' /\ ReceivedGrows
    <2>1. /\ DOMAIN rows' \subseteq DOMAIN rows
          /\ \A u \in DOMAIN rows' : rows'[u] = rows[u]
        BY <1>5 DEF DeleteReceivedFile, Without, Restrict
    <2>2. RowsShrink
        BY <2>1 DEF RowsShrink, IInv, RowsTypeOK
    <2> QED
        BY <2>2, <1>3, <1>5 DEF DeleteReceivedFile
<1>6. ASSUME NEW t, StructuredPartialCleanup(t) PROVE IInv' /\ ReceivedGrows
    BY <1>6, RemoveKeepsIInv DEF StructuredPartialCleanup, ReceivedGrows
<1>7. CASE SweepPartialCleanup
    BY <1>7, RemoveKeepsIInv DEF SweepPartialCleanup, ReceivedGrows
<1>8. CASE UNCHANGED receiver_vars
    BY <1>8, <1>3, Unchanged DEF receiver_vars
<1> QED
    BY <1>1, <1>2, <1>4, <1>5, <1>6, <1>7, <1>8 DEF Next

LEMMA Invariance == Spec => []IInv
<1>1. Init => IInv
    BY IInvInit
<1>2. IInv /\ [Next]_receiver_vars => IInv'
    BY NextKeepsIInv
<1> QED
    BY <1>1, <1>2, PTL DEF Spec

-----------------------------------------------------------------------------
(***************************************************************************)
(* The offset at which a transfer in memory would be continued is the      *)
(* length of its part file, whatever requests came before, in any order,   *)
(* and whatever was cleaned up or restarted between them.                  *)
(***************************************************************************)
THEOREM OffsetIsPartLength == Spec => []BooksMatchDisk
<1>1. IInv => BooksMatchDisk
    BY DEF IInv
<1> QED
    BY <1>1, Invariance, PTL

(***************************************************************************)
(* No part file outgrows the size that was declared for its transfer, so   *)
(* every offset that a continued transfer is told lies within the file.    *)
(***************************************************************************)
THEOREM PartsNeverOutgrow == Spec => []PartsFit
<1>1. IInv => PartsFit
    BY DEF IInv
<1> QED
    BY <1>1, Invariance, PTL

(***************************************************************************)
(* A file that finalize_partial_file renamed into the filerequest's        *)
(* directory has the declared size and is never written again, although    *)
(* the transfer stays in memory with the file open; the only others are    *)
(* empty files of transfers continued under another filerequest.           *)
(***************************************************************************)
THEOREM ReceivedFilesStay == Spec => ReceivedFilesAreFinal
<1> DEFINE Final == /\ Len(received') >= Len(received)
                    /\ SubSeq(received', 1, Len(received)) = received
                    /\ \A i \in 1 .. Len(received') :
                          \/ Len(received'[i].units) = DeclaredUnits
                          \/ received'[i].transfer \in Elsewhere /\ received'[i].units = <<>>
<1>1. IInv /\ [Next]_receiver_vars => [Final]_receiver_vars
    <2> SUFFICES ASSUME IInv, [Next]_receiver_vars PROVE Final
        OBVIOUS
    <2>1. IInv' /\ ReceivedGrows
        BY NextKeepsIInv
    <2>2. received \in Seq([transfer : Transfers, units : Seq(Units)])
        BY DEF IInv, ReceivedTypeOK
    <2>3. Len(received') >= Len(received) /\ SubSeq(received', 1, Len(received)) = received
        <3>1. CASE received' = received
            BY <2>2, <3>1
        <3>2. CASE \E file : received' = Append(received, file)
            BY <2>2, <3>2
        <3> QED
            BY <2>1, <3>1, <3>2 DEF ReceivedGrows
    <2>4. \A i \in 1 .. Len(received') :
              \/ Len(received'[i].units) = DeclaredUnits
              \/ received'[i].transfer \in Elsewhere /\ received'[i].units = <<>>
        BY <2>1 DEF IInv, ReceivedWhole
    <2> QED
        BY <2>3, <2>4
<1> QED
    BY <1>1, Invariance, PTL DEF Spec, ReceivedFilesAreFinal
=============================================================================
