-------------------------- MODULE FileTracker_proofs --------------------------
(***************************************************************************)
(* Proofs about the sending side, for any number of files, any window and  *)
(* file size, and any order of responses, failures, timeouts, commands and *)
(* tasks: a file has one fate, none vanishes, and a transfer in the slot   *)
(* never waits for nothing.                                                *)
(***************************************************************************)
EXTENDS FileTracker, TLAPS, WellFoundedInduction, FiniteSetTheorems, SequenceTheorems

(***************************************************************************)
(* A non-empty set of natural numbers has a least element: what the loop   *)
(* of mark_done needs in order to stop, and what an induction over the     *)
(* queue comes down to.                                                    *)
(***************************************************************************)
LEMMA LeastElement ==
    ASSUME NEW T \in SUBSET Nat, T # {}
    PROVE  \E x \in T : \A y \in T : x <= y
<1> DEFINE R == OpToRel(<, Nat)
<1>1. IsWellFoundedOn(R, Nat)
    BY NatLessThanWellFounded
<1>2. \A a, b \in Nat : a < b => <<a, b>> \in R
    BY DEF OpToRel
<1> HIDE DEF R
<1>3. PICK x \in T : \A y \in T : ~(<<y, x>> \in R)
    BY <1>1, WFMin
<1>4. \A y \in T : x \in Nat /\ y \in Nat /\ ~(y < x)
    BY <1>2, <1>3
<1>5. \A y \in T : x <= y
    BY <1>4
<1> QED
    BY <1>5

(***************************************************************************)
(* A loop over the indices from e on that stops at the first index of S,   *)
(* or at n, stops: the choice of where the loop stops has a witness.       *)
(***************************************************************************)
LEMMA FirstStop ==
    ASSUME NEW e \in Nat, NEW n \in Nat, e <= n, NEW S
    PROVE  \E k \in e .. n : /\ k = n \/ k \in S
                            /\ \A j \in e .. k - 1 : j \notin S
<1> DEFINE T == {k \in e .. n : k = n \/ k \in S}
<1>1. n \in T /\ T \in SUBSET Nat
    OBVIOUS
<1>2. PICK x \in T : \A y \in T : x <= y
    <2> HIDE DEF T
    <2> QED BY <1>1, LeastElement
<1>3. \A j \in e .. x - 1 : j \notin S
    <2> SUFFICES ASSUME NEW j \in e .. x - 1, j \in S PROVE FALSE
        OBVIOUS
    <2>1. j \in T /\ j < x
        BY <1>1, <1>2
    <2> QED
        BY <2>1, <1>1, <1>2
<1> QED
    BY <1>2, <1>3

(***************************************************************************)
(* Two indices less than one turn apart own different slots.               *)
(***************************************************************************)
LEMMA SlotsDistinct ==
    ASSUME NEW W \in Nat \ {0}, NEW i \in Nat, NEW j \in Nat,
           i < j, j < i + W
    PROVE  i % W # j % W
<1> DEFINE turns == (j \div W) - (i \div W)
<1>1. i = W * (i \div W) + (i % W) /\ i \div W \in Nat
    OBVIOUS
<1>2. j = W * (j \div W) + (j % W) /\ j \div W \in Nat
    OBVIOUS
<1>3. SUFFICES ASSUME i % W = j % W PROVE FALSE
    OBVIOUS
<1>4. j - i = W * turns
    BY <1>1, <1>2, <1>3
<1>5. turns \in Int
    BY <1>1, <1>2
<1> HIDE DEF turns
<1>6. CASE turns <= 0
    <2>1. W * turns <= 0
        BY <1>6, <1>5
    <2> QED
        BY <2>1, <1>4
<1>7. CASE turns >= 1
    <2>1. W * turns >= W
        BY <1>7, <1>5
    <2> QED
        BY <2>1, <1>4
<1> QED
    BY <1>5, <1>6, <1>7

(* Types. *)

PendingFiles ==
    [file : Files, status : {"Pending", "Interrupted"}, progress : Nat,
     transfer : Int, retry : Nat]

IndexMaps == UNION {[ids -> Nat] : ids \in SUBSET Nat}

SendManagers ==
    [chunk_to_index : IndexMaps, chunks_in_flight : [WindowSlots -> SlotStates],
     earliest_not_sent : Nat, next_slot : Nat, position : Nat, progress : Nat,
     file_size : {FileUnits}]

Attempts == (Nat \ {0}) \X Files

Transfers ==
    [file : Files, status : {"Prepared", "Sending", "PendingSent"}, progress : Nat,
     transfer : Int, retry : Nat, verify : {"Must", "Free"}, attempt : Attempts,
     sm : SendManagers]

Outcomes == {"Sent", "Rejected", "Failed", "Missing", "IoError"}

Kinds == {"NewTransfer", "ContinueTransfer", "AbortTransfer", "Chunk", "Done",
          "ProtocolViolation"}

Requests ==
    [id : Nat \ {0}, kind : Kinds, attempt : Attempts \cup {NoAttempt},
     state : {"Open", "Failed", "TimedOut"}]

(***************************************************************************)
(* The parts of the inductive invariant.                                   *)
(***************************************************************************)
\* A request is known by its id, and only those that offer or send a file
\* belong to an attempt.
NetOK(n) ==
    /\ n \in [registry : SUBSET Requests, nextId : Nat \ {0}]
    /\ \A r \in n.registry : r.id < n.nextId
    /\ \A q, r \in n.registry : q.id = r.id => q = r
    /\ \A r \in n.registry :
          r.kind \in {"AbortTransfer", "ProtocolViolation"} => r.attempt = NoAttempt

\* The send window: its slots are pending or acknowledged, the first one is
\* pending, a pending one has its request, and what is not in it is empty.
WindowInv(m) ==
    /\ m.earliest_not_sent <= m.next_slot
    /\ m.next_slot <= m.earliest_not_sent + ParallelChunks
    /\ \A id \in DOMAIN m.chunk_to_index : m.chunk_to_index[id] < m.next_slot
    /\ \A i \in m.earliest_not_sent .. m.next_slot - 1 :
          /\ m.chunks_in_flight[SlotIndex(i)] # "Empty"
          /\ m.chunks_in_flight[SlotIndex(i)] = "Pending" =>
                \E id \in DOMAIN m.chunk_to_index : m.chunk_to_index[id] = i
    /\ \A x \in WindowSlots :
          m.chunks_in_flight[x] # "Empty" =>
              \E i \in m.earliest_not_sent .. m.next_slot - 1 : SlotIndex(i) = x
    /\ m.earliest_not_sent < m.next_slot =>
          m.chunks_in_flight[SlotIndex(m.earliest_not_sent)] = "Pending"

QueueInv ==
    /\ pending \in Seq(PendingFiles)
    /\ \A i, j \in 1 .. Len(pending) : pending[i].file = pending[j].file => i = j

SlotOK ==
    /\ sending \subseteq Transfers
    /\ \A s, t \in sending : s = t
    /\ \A s \in sending :
          /\ WindowInv(s.sm)
          /\ \A id \in DOMAIN s.sm.chunk_to_index : id < net.nextId
          /\ \A i \in 1 .. Len(pending) : pending[i].file # s.file

OutcomesInv ==
    /\ outcomes \in [Files -> Seq(Outcomes)]
    /\ cancelled \subseteq Files
    /\ \A f \in Files : /\ Len(outcomes[f]) <= 1
                        /\ f \in cancelled => outcomes[f] = <<>>
                        /\ Left(f) => ~Tracked(f)

EntryInv ==
    /\ entry \in {"Vacant", "Occupied"}
    /\ entry = "Vacant" => pending = <<>> /\ sending = {}

FilesInv ==
    /\ NetOK(net)
    /\ QueueInv
    /\ SlotOK
    /\ OutcomesInv
    /\ EntryInv

TasksOK == tasks \in [Tasks -> Nat]

\* A task will empty the slot.
ResetTasks == {"ResetOnProtocolViolation", "ResetOnInternalError", "ResetForDisconnectedPeer"}

Resetting == \E t \in ResetTasks : tasks[t] > 0

\* A task will go on with the transfer in the slot.
Looping(s) ==
    tasks["LoopTarget"] > 0 \/ (tasks["LoopOther"] > 0 /\ s.verify = "Free")

Awaited(n, s) == \E r \in n.registry : r.attempt = s.attempt /\ r.state = "Open"

ChunksAwaited(n, s) ==
    \A id \in DOMAIN s.sm.chunk_to_index :
        \E r \in n.registry : /\ r.id = id /\ r.kind = "Chunk"
                              /\ r.attempt = s.attempt /\ r.state = "Open"

\* Every chunk of the window is waited for, and so is the transfer, unless a
\* task deals with it.
WaitInv ==
    service = "Running" =>
        \A s \in sending :
            Resetting \/ (ChunksAwaited(net, s) /\ (Awaited(net, s) \/ Looping(s)))

IInv ==
    /\ FilesInv
    /\ TasksOK
    /\ WaitInv
-----------------------------------------------------------------------------
(* The send window. *)

LEMMA SlotFacts ==
    /\ \A n \in Nat : SlotIndex(n) \in WindowSlots
    /\ \A i, j \in Nat : i < j /\ j < i + ParallelChunks => SlotIndex(i) # SlotIndex(j)
<1>1. \A n \in Nat : SlotIndex(n) \in WindowSlots
    BY ParallelChunksAssumption DEF SlotIndex, WindowSlots
<1>2. \A i, j \in Nat : i < j /\ j < i + ParallelChunks => SlotIndex(i) # SlotIndex(j)
    BY ParallelChunksAssumption, SlotsDistinct DEF SlotIndex
<1> QED
    BY <1>1, <1>2

LEMMA SlotsOfWindowDiffer ==
    ASSUME NEW e \in Nat, NEW n \in Nat, n <= e + ParallelChunks,
           NEW i \in e .. n - 1, NEW j \in e .. n - 1, i # j
    PROVE  SlotIndex(i) # SlotIndex(j)
<1>1. i \in Nat /\ j \in Nat
    OBVIOUS
<1>2. CASE i < j
    BY <1>1, <1>2, SlotFacts, ParallelChunksAssumption
<1>3. CASE j < i
    BY <1>1, <1>3, SlotFacts, ParallelChunksAssumption
<1> QED
    BY <1>1, <1>2, <1>3

(***************************************************************************)
(* The loop of mark_done stops at the first chunk not acknowledged.        *)
(***************************************************************************)
LEMMA AckedUpToExists ==
    ASSUME NEW m, m.earliest_not_sent \in Nat, m.next_slot \in Nat,
           m.earliest_not_sent <= m.next_slot
    PROVE  LET k == AckedUpTo(m)
           IN  /\ k \in m.earliest_not_sent .. m.next_slot
               /\ k = m.next_slot \/ m.chunks_in_flight[SlotIndex(k)] # "Acknowledged"
               /\ \A j \in m.earliest_not_sent .. k - 1 :
                     m.chunks_in_flight[SlotIndex(j)] = "Acknowledged"
<1> DEFINE e == m.earliest_not_sent
           n == m.next_slot
           S == {k \in e .. n : m.chunks_in_flight[SlotIndex(k)] # "Acknowledged"}
<1>1. PICK k \in e .. n : /\ k = n \/ k \in S
                          /\ \A j \in e .. k - 1 : j \notin S
    <2> HIDE DEF S
    <2> QED BY FirstStop
<1>2. /\ k = n \/ m.chunks_in_flight[SlotIndex(k)] # "Acknowledged"
      /\ \A j \in e .. k - 1 : m.chunks_in_flight[SlotIndex(j)] = "Acknowledged"
    <2>1. \A j \in e .. k - 1 : j \in e .. n
        BY <1>1
    <2> QED
        BY <1>1, <2>1
<1> HIDE DEF S
<1>3. \E i \in e .. n : /\ i = n \/ m.chunks_in_flight[SlotIndex(i)] # "Acknowledged"
                        /\ \A j \in e .. i - 1 :
                               m.chunks_in_flight[SlotIndex(j)] = "Acknowledged"
    BY <1>1, <1>2
<1> QED
    BY <1>3 DEF AckedUpTo

LEMMA IndexMapFacts ==
    /\ \A c \in IndexMaps : DOMAIN c \subseteq Nat /\ \A id \in DOMAIN c : c[id] \in Nat
    /\ \A D \in SUBSET Nat : [D -> Nat] \subseteq IndexMaps
BY DEF IndexMaps

LEMMA NewWindow ==
    /\ NewSendManager(FileUnits) \in SendManagers
    /\ WindowInv(NewSendManager(FileUnits))
    /\ DOMAIN NewSendManager(FileUnits).chunk_to_index = {}
<1> DEFINE m == NewSendManager(FileUnits)
           c == [id \in {} |-> 0]
<1>1. c \in IndexMaps /\ DOMAIN c = {}
    <2>1. c \in [{} -> Nat] /\ DOMAIN c = {}
        OBVIOUS
    <2>2. {} \in SUBSET Nat
        OBVIOUS
    <2> HIDE DEF c
    <2> QED
        BY <2>1, <2>2, IndexMapFacts
<1>2. [s \in WindowSlots |-> "Empty"] \in [WindowSlots -> SlotStates]
    BY DEF SlotStates
<1> HIDE DEF c
<1>3. m \in SendManagers
    <2>1. m = [chunk_to_index |-> c, chunks_in_flight |-> [s \in WindowSlots |-> "Empty"],
               earliest_not_sent |-> 0, next_slot |-> 0, position |-> 0,
               progress |-> 0, file_size |-> FileUnits]
        BY DEF NewSendManager, c
    <2> HIDE DEF m
    <2> QED
        BY <1>1, <1>2, <2>1 DEF SendManagers
<1>4. /\ m.chunk_to_index = c /\ m.chunks_in_flight = [s \in WindowSlots |-> "Empty"]
      /\ m.earliest_not_sent = 0 /\ m.next_slot = 0
    BY DEF NewSendManager, c
<1> HIDE DEF m
<1>5. WindowInv(m)
    BY <1>1, <1>4, ParallelChunksAssumption DEF WindowInv
<1> QED
    BY <1>1, <1>3, <1>4, <1>5 DEF m

LEMMA SetProgressKeepsWindow ==
    ASSUME NEW m \in SendManagers, WindowInv(m), NEW offset \in Nat
    PROVE  /\ SetProgress(m, offset) \in SendManagers
           /\ WindowInv(SetProgress(m, offset))
           /\ SetProgress(m, offset).chunk_to_index = m.chunk_to_index
<1> DEFINE q == SetProgress(m, offset)
<1>1. /\ q \in SendManagers
      /\ q.chunk_to_index = m.chunk_to_index /\ q.chunks_in_flight = m.chunks_in_flight
      /\ q.earliest_not_sent = m.earliest_not_sent /\ q.next_slot = m.next_slot
    BY DEF SetProgress, SendManagers
<1> HIDE DEF q
<1>2. WindowInv(q)
    BY <1>1 DEF WindowInv
<1> QED
    BY <1>1, <1>2 DEF q

LEMMA ChunkSentKeepsWindow ==
    ASSUME NEW m \in SendManagers, WindowInv(m), HasChunkToSend(m), NEW new \in Nat,
           new \notin DOMAIN m.chunk_to_index
    PROVE  /\ ChunkSent(m, new) \in SendManagers
           /\ WindowInv(ChunkSent(m, new))
           /\ DOMAIN ChunkSent(m, new).chunk_to_index = DOMAIN m.chunk_to_index \cup {new}
<1> DEFINE q == ChunkSent(m, new)
           e == m.earliest_not_sent
           n == m.next_slot
           c == m.chunk_to_index
           d == [i \in DOMAIN c \cup {new} |-> IF i = new THEN n ELSE c[i]]
           w == m.chunks_in_flight
           v == [w EXCEPT ![SlotIndex(n)] = "Pending"]
<1>1. /\ e \in Nat /\ n \in Nat /\ c \in IndexMaps /\ w \in [WindowSlots -> SlotStates]
      /\ m.position \in Nat /\ m.progress \in Nat /\ m.file_size = FileUnits
    BY DEF SendManagers
<1>2. /\ e <= n /\ n < e + ParallelChunks
      /\ SlotIndex(n) \in WindowSlots
    BY <1>1, SlotFacts, ParallelChunksAssumption DEF WindowInv, HasChunkToSend, IsReady
<1>3. d \in IndexMaps
    <2>1. DOMAIN c \subseteq Nat /\ \A id \in DOMAIN c : c[id] \in Nat
        BY <1>1, IndexMapFacts
    <2>2. d \in [DOMAIN c \cup {new} -> Nat]
        BY <1>1, <2>1
    <2> HIDE DEF d
    <2>3. DOMAIN c \cup {new} \in SUBSET Nat
        BY <2>1
    <2> QED
        BY <2>2, <2>3, IndexMapFacts
<1>4. v \in [WindowSlots -> SlotStates]
    BY <1>1 DEF SlotStates
<1>5. /\ q.chunk_to_index = d /\ q.chunks_in_flight = v
      /\ q.earliest_not_sent = e /\ q.next_slot = n + 1
    BY DEF ChunkSent
<1>6. q \in SendManagers
    <2>1. q = [chunk_to_index |-> d, chunks_in_flight |-> v, earliest_not_sent |-> e,
               next_slot |-> n + 1, position |-> m.position + 1,
               progress |-> m.progress, file_size |-> m.file_size]
        BY DEF ChunkSent
    <2> HIDE DEF d, v, e, n, q
    <2> QED
        BY <2>1, <1>1, <1>3, <1>4 DEF SendManagers
<1>7. /\ DOMAIN d = DOMAIN c \cup {new} /\ d[new] = n
      /\ \A id \in DOMAIN c : d[id] = c[id]
    OBVIOUS
<1>8. v[SlotIndex(n)] = "Pending" /\ \A x \in WindowSlots : x # SlotIndex(n) => v[x] = w[x]
    BY <1>1, <1>2
<1>9. \A i \in e .. n - 1 : SlotIndex(i) \in WindowSlots /\ SlotIndex(i) # SlotIndex(n)
    <2> TAKE i \in e .. n - 1
    <2>1. i \in e .. (n + 1) - 1 /\ n \in e .. (n + 1) - 1 /\ i # n /\ i \in Nat
        BY <1>1, <1>2
    <2>2. n + 1 <= e + ParallelChunks /\ n + 1 \in Nat
        BY <1>1, <1>2, ParallelChunksAssumption
    <2>3. SlotIndex(i) # SlotIndex(n)
        BY <1>1, <2>1, <2>2, SlotsOfWindowDiffer
    <2> QED
        BY <2>1, <2>3, SlotFacts
<1>10. \A id \in DOMAIN d : d[id] < n + 1
    <2>1. \A id \in DOMAIN c : c[id] < n /\ c[id] \in Nat
        BY <1>1, IndexMapFacts DEF WindowInv
    <2> HIDE DEF d, c
    <2> QED
        BY <1>1, <1>7, <2>1
<1>11. \A i \in e .. (n + 1) - 1 :
          /\ v[SlotIndex(i)] # "Empty"
          /\ v[SlotIndex(i)] = "Pending" => \E id \in DOMAIN d : d[id] = i
    <2> TAKE i \in e .. (n + 1) - 1
    <2>1. CASE i = n
        BY <2>1, <1>7, <1>8
    <2>2. CASE i # n
        <3>1. i \in e .. n - 1
            BY <2>2, <1>1
        <3>2. /\ w[SlotIndex(i)] # "Empty"
              /\ w[SlotIndex(i)] = "Pending" => \E id \in DOMAIN c : c[id] = i
            BY <3>1 DEF WindowInv
        <3>3. v[SlotIndex(i)] = w[SlotIndex(i)]
            BY <3>1, <1>8, <1>9
        <3> HIDE DEF d, v
        <3> QED
            BY <3>2, <3>3, <1>7
    <2> QED
        BY <2>1, <2>2
<1>12. \A x \in WindowSlots : v[x] # "Empty" =>
          \E i \in e .. (n + 1) - 1 : SlotIndex(i) = x
    <2> TAKE x \in WindowSlots
    <2>1. CASE x = SlotIndex(n)
        BY <2>1, <1>1, <1>2
    <2>2. CASE x # SlotIndex(n)
        <3>1. v[x] # "Empty" => \E i \in e .. n - 1 : SlotIndex(i) = x
            BY <2>2, <1>8 DEF WindowInv
        <3>2. \A i \in e .. n - 1 : i \in e .. (n + 1) - 1
            BY <1>1
        <3> QED
            BY <3>1, <3>2
    <2> QED
        BY <2>1, <2>2
<1>13. v[SlotIndex(e)] = "Pending"
    <2>1. CASE e = n
        BY <2>1, <1>8
    <2>2. CASE e # n
        <3>1. e < n /\ e \in e .. n - 1
            BY <2>2, <1>1, <1>2
        <3>2. w[SlotIndex(e)] = "Pending"
            BY <3>1 DEF WindowInv
        <3> QED
            BY <3>1, <3>2, <1>8, <1>9
    <2> QED
        BY <2>1, <2>2
<1> HIDE DEF q, d, v
<1>14. WindowInv(q)
    <2>1. e <= n + 1 /\ n + 1 <= e + ParallelChunks
        BY <1>1, <1>2, ParallelChunksAssumption
    <2> QED
        BY <1>5, <1>10, <1>11, <1>12, <1>13, <2>1 DEF WindowInv
<1> QED
    BY <1>5, <1>6, <1>7, <1>14 DEF q

LEMMA AcknowledgeKeepsWindow ==
    ASSUME NEW m \in SendManagers, WindowInv(m), NEW id \in DOMAIN m.chunk_to_index,
           m.chunk_to_index[id] >= m.earliest_not_sent
    PROVE  LET idx == m.chunk_to_index[id]
               q   == Acknowledge(m, id, idx)
           IN  /\ q \in SendManagers
               /\ q.earliest_not_sent = m.earliest_not_sent /\ q.next_slot = m.next_slot
               /\ DOMAIN q.chunk_to_index = DOMAIN m.chunk_to_index \ {id}
               /\ \A i \in DOMAIN q.chunk_to_index : q.chunk_to_index[i] < q.next_slot
               /\ \A i \in q.earliest_not_sent .. q.next_slot - 1 :
                     /\ q.chunks_in_flight[SlotIndex(i)] # "Empty"
                     /\ q.chunks_in_flight[SlotIndex(i)] = "Pending" =>
                           \E x \in DOMAIN q.chunk_to_index : q.chunk_to_index[x] = i
               /\ \A x \in WindowSlots :
                     q.chunks_in_flight[x] # "Empty" =>
                         \E i \in q.earliest_not_sent .. q.next_slot - 1 : SlotIndex(i) = x
               /\ idx # m.earliest_not_sent => WindowInv(q)
<1> DEFINE c == m.chunk_to_index
           idx == c[id]
           q == Acknowledge(m, id, idx)
           e == m.earliest_not_sent
           n == m.next_slot
           d == [i \in DOMAIN c \ {id} |-> c[i]]
           w == m.chunks_in_flight
           v == [w EXCEPT ![SlotIndex(idx)] = "Acknowledged"]
<1>1. /\ e \in Nat /\ n \in Nat /\ c \in IndexMaps /\ w \in [WindowSlots -> SlotStates]
      /\ m.position \in Nat /\ m.progress \in Nat /\ m.file_size = FileUnits
    BY DEF SendManagers
<1>2. /\ DOMAIN c \subseteq Nat /\ \A i \in DOMAIN c : c[i] \in Nat
      /\ idx \in Nat /\ e <= idx /\ idx < n /\ idx \in e .. n - 1
      /\ e <= n /\ n <= e + ParallelChunks /\ SlotIndex(idx) \in WindowSlots
    <2>1. DOMAIN c \subseteq Nat /\ \A i \in DOMAIN c : c[i] \in Nat
        BY <1>1, IndexMapFacts
    <2>2. idx \in Nat /\ e <= idx /\ idx < n /\ e <= n /\ n <= e + ParallelChunks
        BY <1>1, <2>1 DEF WindowInv
    <2> HIDE DEF c, idx, e, n
    <2> QED
        BY <1>1, <2>1, <2>2, SlotFacts
<1>3. d \in IndexMaps
    <2>1. d \in [DOMAIN c \ {id} -> Nat] /\ DOMAIN c \ {id} \in SUBSET Nat
        BY <1>2
    <2> HIDE DEF d
    <2> QED
        BY <2>1, IndexMapFacts
<1>4. v \in [WindowSlots -> SlotStates]
    BY <1>1 DEF SlotStates
<1>5. q = [chunk_to_index |-> d, chunks_in_flight |-> v, earliest_not_sent |-> e,
           next_slot |-> n, position |-> m.position,
           progress |-> m.progress, file_size |-> m.file_size]
    BY DEF Acknowledge
<1>6. /\ q.chunk_to_index = d /\ q.chunks_in_flight = v
      /\ q.earliest_not_sent = e /\ q.next_slot = n
    BY DEF Acknowledge
<1>7. q \in SendManagers
    <2> HIDE DEF d, v, e, n, q
    <2> QED
        BY <1>1, <1>3, <1>4, <1>5 DEF SendManagers
<1>8. DOMAIN d = DOMAIN c \ {id} /\ \A i \in DOMAIN d : d[i] = c[i]
    OBVIOUS
<1>9. /\ v[SlotIndex(idx)] = "Acknowledged"
      /\ \A x \in WindowSlots : x # SlotIndex(idx) => v[x] = w[x]
    BY <1>1, <1>2
<1>10. \A i \in e .. n - 1 : i # idx =>
          SlotIndex(i) \in WindowSlots /\ SlotIndex(i) # SlotIndex(idx)
    <2> SUFFICES ASSUME NEW i \in e .. n - 1, i # idx
                 PROVE  SlotIndex(i) \in WindowSlots /\ SlotIndex(i) # SlotIndex(idx)
        OBVIOUS
    <2>1. i \in Nat
        BY <1>1
    <2> HIDE DEF idx, e, n
    <2> QED
        BY <1>1, <1>2, <2>1, SlotFacts, SlotsOfWindowDiffer
<1>11. \A i \in DOMAIN d : d[i] < n
    BY <1>8 DEF WindowInv
<1>12. \A i \in e .. n - 1 :
          /\ v[SlotIndex(i)] # "Empty"
          /\ v[SlotIndex(i)] = "Pending" => \E x \in DOMAIN d : d[x] = i
    <2> TAKE i \in e .. n - 1
    <2>1. CASE i = idx
        BY <2>1, <1>9
    <2>2. CASE i # idx
        <3>1. /\ w[SlotIndex(i)] # "Empty"
              /\ w[SlotIndex(i)] = "Pending" => \E x \in DOMAIN c : c[x] = i
            BY DEF WindowInv
        <3>2. v[SlotIndex(i)] = w[SlotIndex(i)]
            BY <2>2, <1>9, <1>10
        <3>3. \A x \in DOMAIN c : c[x] = i => x \in DOMAIN d /\ d[x] = i
            BY <2>2
        <3> HIDE DEF d, v
        <3> QED
            BY <3>1, <3>2, <3>3
    <2> QED
        BY <2>1, <2>2
<1>13. \A x \in WindowSlots : v[x] # "Empty" =>
          \E i \in e .. n - 1 : SlotIndex(i) = x
    <2> TAKE x \in WindowSlots
    <2>1. CASE x = SlotIndex(idx)
        BY <2>1, <1>2
    <2>2. CASE x # SlotIndex(idx)
        BY <2>2, <1>9 DEF WindowInv
    <2> QED
        BY <2>1, <2>2
<1>14. idx # e => (e < n => v[SlotIndex(e)] = "Pending")
    <2> SUFFICES ASSUME idx # e, e < n PROVE v[SlotIndex(e)] = "Pending"
        OBVIOUS
    <2>1. e \in e .. n - 1
        BY <1>1
    <2>2. w[SlotIndex(e)] = "Pending"
        BY DEF WindowInv
    <2> QED
        BY <2>1, <2>2, <1>9, <1>10
<1> HIDE DEF q, d, v
<1>15. idx # e => WindowInv(q)
    BY <1>2, <1>6, <1>11, <1>12, <1>13, <1>14 DEF WindowInv
<1> QED
    BY <1>6, <1>7, <1>8, <1>11, <1>12, <1>13, <1>15 DEF q

LEMMA SlideRestoresWindow ==
    ASSUME NEW m \in SendManagers,
           m.earliest_not_sent <= m.next_slot,
           m.next_slot <= m.earliest_not_sent + ParallelChunks,
           \A i \in DOMAIN m.chunk_to_index : m.chunk_to_index[i] < m.next_slot,
           \A i \in m.earliest_not_sent .. m.next_slot - 1 :
               /\ m.chunks_in_flight[SlotIndex(i)] # "Empty"
               /\ m.chunks_in_flight[SlotIndex(i)] = "Pending" =>
                     \E x \in DOMAIN m.chunk_to_index : m.chunk_to_index[x] = i,
           \A x \in WindowSlots :
               m.chunks_in_flight[x] # "Empty" =>
                   \E i \in m.earliest_not_sent .. m.next_slot - 1 : SlotIndex(i) = x
    PROVE  /\ SlideSendWindow(m) \in SendManagers
           /\ WindowInv(SlideSendWindow(m))
           /\ SlideSendWindow(m).chunk_to_index = m.chunk_to_index
<1> DEFINE q == SlideSendWindow(m)
           k == AckedUpTo(m)
           e == m.earliest_not_sent
           n == m.next_slot
           c == m.chunk_to_index
           w == m.chunks_in_flight
           v == [x \in WindowSlots |->
                    IF \E j \in e .. k - 1 : x = SlotIndex(j) THEN "Empty" ELSE w[x]]
<1>1. /\ e \in Nat /\ n \in Nat /\ c \in IndexMaps /\ w \in [WindowSlots -> SlotStates]
      /\ m.position \in Nat /\ m.progress \in Nat /\ m.file_size = FileUnits
    BY DEF SendManagers
<1>2. k \in e .. n /\ (k = n \/ w[SlotIndex(k)] # "Acknowledged")
    BY <1>1, AckedUpToExists
<1>3. v \in [WindowSlots -> SlotStates]
    BY <1>1 DEF SlotStates
<1>4. q = [chunk_to_index |-> c, chunks_in_flight |-> v, earliest_not_sent |-> k,
           next_slot |-> n, position |-> m.position,
           progress |-> m.progress + (k - e), file_size |-> m.file_size]
    BY DEF SlideSendWindow
<1>5. /\ q.chunk_to_index = c /\ q.chunks_in_flight = v
      /\ q.earliest_not_sent = k /\ q.next_slot = n
    BY DEF SlideSendWindow
<1> HIDE DEF k, q
<1>6. q \in SendManagers
    <2>1. k \in Nat /\ m.progress + (k - e) \in Nat
        BY <1>1, <1>2
    <2> HIDE DEF v, e, n, c, w
    <2> QED
        BY <1>1, <1>3, <1>4, <2>1 DEF SendManagers
<1>7. \A i \in k .. n - 1 : i \in e .. n - 1 /\ v[SlotIndex(i)] = w[SlotIndex(i)]
    <2> TAKE i \in k .. n - 1
    <2>1. i \in e .. n - 1 /\ i \in Nat
        BY <1>1, <1>2
    <2>2. \A j \in e .. k - 1 : j \in e .. n - 1 /\ j # i
        BY <1>1, <1>2
    <2>3. \A j \in e .. k - 1 : SlotIndex(i) # SlotIndex(j)
        BY <1>1, <2>1, <2>2, SlotsOfWindowDiffer
    <2>4. SlotIndex(i) \in WindowSlots
        BY <2>1, SlotFacts
    <2> QED
        BY <2>1, <2>3, <2>4
<1>8. \A i \in k .. n - 1 :
          /\ v[SlotIndex(i)] # "Empty"
          /\ v[SlotIndex(i)] = "Pending" => \E x \in DOMAIN c : c[x] = i
    <2> HIDE DEF v
    <2> QED
        BY <1>7
<1>9. \A x \in WindowSlots : v[x] # "Empty" =>
          \E i \in k .. n - 1 : SlotIndex(i) = x
    <2> SUFFICES ASSUME NEW x \in WindowSlots, v[x] # "Empty"
                 PROVE  \E i \in k .. n - 1 : SlotIndex(i) = x
        OBVIOUS
    <2>1. w[x] # "Empty" /\ \A j \in e .. k - 1 : x # SlotIndex(j)
        OBVIOUS
    <2>2. PICK i \in e .. n - 1 : SlotIndex(i) = x
        BY <2>1
    <2>3. i \in k .. n - 1
        BY <1>1, <1>2, <2>1, <2>2
    <2> QED
        BY <2>2, <2>3
<1>10. k < n => v[SlotIndex(k)] = "Pending"
    <2> SUFFICES ASSUME k < n PROVE v[SlotIndex(k)] = "Pending"
        OBVIOUS
    <2>1. k \in k .. n - 1 /\ k \in Nat
        BY <1>1, <1>2
    <2>2. v[SlotIndex(k)] = w[SlotIndex(k)] /\ w[SlotIndex(k)] # "Empty"
        BY <2>1, <1>7
    <2>3. w[SlotIndex(k)] \in SlotStates
        BY <2>1, <1>1, SlotFacts
    <2>4. w[SlotIndex(k)] # "Acknowledged"
        BY <1>1, <1>2
    <2> QED
        BY <2>2, <2>3, <2>4 DEF SlotStates
<1> HIDE DEF v
<1>11. WindowInv(q)
    <2>1. k <= n /\ n <= k + ParallelChunks
        BY <1>1, <1>2, ParallelChunksAssumption
    <2> QED
        BY <2>1, <1>5, <1>8, <1>9, <1>10 DEF WindowInv
<1> QED
    BY <1>5, <1>6, <1>11 DEF q

(***************************************************************************)
(* Whatever chunk is confirmed, mark_done leaves a window behind.          *)
(***************************************************************************)
LEMMA MarkDoneKeepsWindow ==
    ASSUME NEW m \in SendManagers, WindowInv(m), NEW id, CanMarkDone(m, id)
    PROVE  /\ MarkDone(m, id) \in SendManagers
           /\ WindowInv(MarkDone(m, id))
           /\ DOMAIN MarkDone(m, id).chunk_to_index = DOMAIN m.chunk_to_index \ {id}
<1> DEFINE idx == m.chunk_to_index[id]
           q == Acknowledge(m, id, idx)
<1>1. id \in DOMAIN m.chunk_to_index /\ idx >= m.earliest_not_sent
    BY DEF CanMarkDone
<1>2. /\ q \in SendManagers
      /\ q.earliest_not_sent = m.earliest_not_sent /\ q.next_slot = m.next_slot
      /\ DOMAIN q.chunk_to_index = DOMAIN m.chunk_to_index \ {id}
      /\ \A i \in DOMAIN q.chunk_to_index : q.chunk_to_index[i] < q.next_slot
      /\ \A i \in q.earliest_not_sent .. q.next_slot - 1 :
            /\ q.chunks_in_flight[SlotIndex(i)] # "Empty"
            /\ q.chunks_in_flight[SlotIndex(i)] = "Pending" =>
                  \E x \in DOMAIN q.chunk_to_index : q.chunk_to_index[x] = i
      /\ \A x \in WindowSlots :
            q.chunks_in_flight[x] # "Empty" =>
                \E i \in q.earliest_not_sent .. q.next_slot - 1 : SlotIndex(i) = x
      /\ idx # m.earliest_not_sent => WindowInv(q)
    BY <1>1, AcknowledgeKeepsWindow
<1>3. /\ q.earliest_not_sent <= q.next_slot
      /\ q.next_slot <= q.earliest_not_sent + ParallelChunks
    BY <1>2 DEF WindowInv
<1>4. MarkDone(m, id) = IF idx = m.earliest_not_sent THEN SlideSendWindow(q) ELSE q
    BY DEF MarkDone
<1> HIDE DEF q, idx
<1>5. CASE idx = m.earliest_not_sent
    <2>1. /\ SlideSendWindow(q) \in SendManagers
          /\ WindowInv(SlideSendWindow(q))
          /\ SlideSendWindow(q).chunk_to_index = q.chunk_to_index
        BY <1>2, <1>3, SlideRestoresWindow
    <2> QED
        BY <1>2, <1>4, <1>5, <2>1
<1>6. CASE idx # m.earliest_not_sent
    BY <1>2, <1>4, <1>6
<1> QED
    BY <1>5, <1>6

(***************************************************************************)
(* When the loop has nothing to send and nothing to report, a chunk waits  *)
(* for its answer.                                                         *)
(***************************************************************************)
LEMMA IdleLoopWaits ==
    ASSUME NEW m \in SendManagers, WindowInv(m), ~HasChunkToSend(m), ~ReportsDone(m)
    PROVE  DOMAIN m.chunk_to_index # {}
<1> DEFINE e == m.earliest_not_sent
           n == m.next_slot
           w == m.chunks_in_flight
<1>1. e \in Nat /\ n \in Nat /\ e <= n
    BY DEF SendManagers, WindowInv
<1>2. CASE e < n
    <2>1. e \in e .. n - 1
        BY <1>1, <1>2
    <2>2. w[SlotIndex(e)] = "Pending"
        BY <1>2 DEF WindowInv
    <2> QED
        BY <2>1, <2>2 DEF WindowInv
<1>3. CASE e = n
    <2>1. IsReady(m)
        BY <1>1, <1>3, ParallelChunksAssumption DEF IsReady
    <2>2. EndOfFile(m)
        BY <2>1 DEF HasChunkToSend
    <2>3. PICK x \in WindowSlots : w[x] = "Pending"
        BY <1>3, <2>1, <2>2 DEF ReportsDone
    <2>4. PICK i \in e .. n - 1 : SlotIndex(i) = x
        BY <2>3 DEF WindowInv
    <2> QED
        BY <2>4, <1>1, <1>3
<1> QED
    BY <1>1, <1>2, <1>3

-----------------------------------------------------------------------------
(* The queue without some files. *)

(***************************************************************************)
(* Induction: a set of numbers without a least one is empty.               *)
(***************************************************************************)
LEMMA NoLeastFailure ==
    ASSUME NEW T \in SUBSET Nat, \A n \in T : \E m \in T : m < n
    PROVE  T = {}
<1> SUFFICES ASSUME T # {} PROVE FALSE
    OBVIOUS
<1>1. PICK x \in T : \A y \in T : x <= y
    BY LeastElement
<1>2. PICK m \in T : m < x
    BY <1>1
<1> QED
    BY <1>1, <1>2

(***************************************************************************)
(* The recursive definition of what is kept has a solution.                *)
(***************************************************************************)
LEMMA KeptExists ==
    ASSUME NEW queue, NEW fs, NEW len \in Nat
    PROVE  \E g : g = [i \in 0 .. len |->
                          IF i = 0 THEN <<>>
                          ELSE IF queue[i].file \in fs THEN g[i - 1]
                          ELSE Append(g[i - 1], queue[i])]
<1> DEFINE P(n) == \E g : g = [i \in 0 .. n |->
                          IF i = 0 THEN <<>>
                          ELSE IF queue[i].file \in fs THEN g[i - 1]
                          ELSE Append(g[i - 1], queue[i])]
           T == {n \in Nat : ~P(n)}
<1>1. P(0)
    <2> DEFINE g == [i \in 0 .. 0 |-> <<>>]
    <2>1. g = [i \in 0 .. 0 |->
                  IF i = 0 THEN <<>>
                  ELSE IF queue[i].file \in fs THEN g[i - 1]
                  ELSE Append(g[i - 1], queue[i])]
        OBVIOUS
    <2> QED
        BY <2>1
<1>2. ASSUME NEW n \in Nat, n > 0, P(n - 1) PROVE P(n)
    <2>1. PICK h : h = [i \in 0 .. n - 1 |->
                           IF i = 0 THEN <<>>
                           ELSE IF queue[i].file \in fs THEN h[i - 1]
                           ELSE Append(h[i - 1], queue[i])]
        BY <1>2
    <2> DEFINE g == [i \in 0 .. n |->
                        IF i < n THEN h[i]
                        ELSE IF queue[n].file \in fs THEN h[n - 1]
                        ELSE Append(h[n - 1], queue[n])]
               r == [i \in 0 .. n |->
                        IF i = 0 THEN <<>>
                        ELSE IF queue[i].file \in fs THEN g[i - 1]
                        ELSE Append(g[i - 1], queue[i])]
    <2>2. \A i \in 0 .. n : g[i] = r[i]
        <3> TAKE i \in 0 .. n
        <3>1. CASE i = n
            <4>1. g[i - 1] = h[n - 1]
                BY <3>1, <1>2
            <4> QED
                BY <3>1, <4>1, <1>2
        <3>2. CASE i < n
            <4>1. i \in 0 .. n - 1
                BY <3>2
            <4>2. g[i] = h[i]
                BY <3>2
            <4>3. i # 0 => i - 1 \in 0 .. n - 1 /\ g[i - 1] = h[i - 1]
                BY <3>2
            <4>4. h[i] = IF i = 0 THEN <<>>
                         ELSE IF queue[i].file \in fs THEN h[i - 1]
                         ELSE Append(h[i - 1], queue[i])
                BY <2>1, <4>1
            <4>5. r[i] = IF i = 0 THEN <<>>
                         ELSE IF queue[i].file \in fs THEN g[i - 1]
                         ELSE Append(g[i - 1], queue[i])
                OBVIOUS
            <4> HIDE DEF g, r
            <4> QED
                BY <4>2, <4>3, <4>4, <4>5
        <3> QED
            BY <3>1, <3>2
    <2>3. g = r
        BY <2>2
    <2> QED
        BY <2>3
<1> HIDE DEF P
<1>3. \A n \in T : \E m \in T : m < n
    <2> SUFFICES ASSUME NEW n \in T, \A m \in T : ~(m < n) PROVE FALSE
        OBVIOUS
    <2>1. n \in Nat /\ ~P(n) /\ n # 0
        BY <1>1
    <2>2. P(n - 1)
        BY <2>1
    <2> QED
        BY <2>1, <2>2, <1>2
<1>4. T = {}
    <2>1. T \in SUBSET Nat
        OBVIOUS
    <2> HIDE DEF T
    <2> QED
        BY <2>1, <1>3, NoLeastFailure
<1>5. P(len)
    BY <1>4
<1> QED
    BY <1>5 DEF P

(***************************************************************************)
(* retain keeps every file but those of fs, and none twice.                *)
(***************************************************************************)
LEMMA WithoutFacts ==
    ASSUME NEW queue \in Seq(PendingFiles), NEW fs,
           \A i, j \in 1 .. Len(queue) : queue[i].file = queue[j].file => i = j
    PROVE  LET kept == Without(queue, fs)
           IN  /\ kept \in Seq(PendingFiles)
               /\ \A i, j \in 1 .. Len(kept) : kept[i].file = kept[j].file => i = j
               /\ \A k \in 1 .. Len(kept) : /\ kept[k].file \notin fs
                                            /\ \E i \in 1 .. Len(queue) : kept[k] = queue[i]
               /\ \A i \in 1 .. Len(queue) :
                     queue[i].file \notin fs => \E k \in 1 .. Len(kept) : kept[k] = queue[i]
<1> DEFINE len == Len(queue)
           Rec(g) == [i \in 0 .. len |->
                          IF i = 0 THEN <<>>
                          ELSE IF queue[i].file \in fs THEN g[i - 1]
                          ELSE Append(g[i - 1], queue[i])]
           Kept == CHOOSE g : g = Rec(g)
<1>1. len \in Nat
    OBVIOUS
<1>2. \E g : g = Rec(g)
    <2> DEFINE Solved(q, x, l) == \E g : g = [i \in 0 .. l |->
                                      IF i = 0 THEN <<>>
                                      ELSE IF q[i].file \in x THEN g[i - 1]
                                      ELSE Append(g[i - 1], q[i])]
    <2>1. \A q, x : \A l \in Nat : Solved(q, x, l)
        BY KeptExists
    <2>2. Solved(queue, fs, len)
        <3> HIDE DEF Solved, len
        <3> QED
            BY <1>1, <2>1
    <2> QED
        BY <2>2, Zenon
<1>3. Kept = Rec(Kept)
    BY <1>2
<1>4. Without(queue, fs) = Kept[len]
    BY DEF Without
<1>5. /\ Kept[0] = <<>>
      /\ \A i \in 1 .. len : Kept[i] = IF queue[i].file \in fs THEN Kept[i - 1]
                                       ELSE Append(Kept[i - 1], queue[i])
    <2> HIDE DEF Kept
    <2>1. \A i \in 0 .. len : Kept[i] = IF i = 0 THEN <<>>
                                        ELSE IF queue[i].file \in fs THEN Kept[i - 1]
                                        ELSE Append(Kept[i - 1], queue[i])
        BY <1>3
    <2> HIDE DEF Rec
    <2> QED
        BY <1>1, <2>1
<1> HIDE DEF Kept, Rec, len
<1>6. \A i \in 1 .. len : queue[i] \in PendingFiles
    BY DEF len
<1> DEFINE P(n) ==
               /\ Kept[n] \in Seq(PendingFiles)
               /\ \A i, j \in 1 .. Len(Kept[n]) : Kept[n][i].file = Kept[n][j].file => i = j
               /\ \A k \in 1 .. Len(Kept[n]) :
                     /\ Kept[n][k].file \notin fs
                     /\ \E i \in 1 .. n : Kept[n][k] = queue[i]
               /\ \A i \in 1 .. n : queue[i].file \notin fs =>
                     \E k \in 1 .. Len(Kept[n]) : Kept[n][k] = queue[i]
           T == {n \in 0 .. len : ~P(n)}
<1>7. P(0)
    BY <1>5
<1>8. ASSUME NEW n \in 1 .. len, P(n - 1) PROVE P(n)
    <2> DEFINE old == Kept[n - 1]
               last == Len(old) + 1
    <2>1. /\ old \in Seq(PendingFiles)
          /\ \A i, j \in 1 .. Len(old) : old[i].file = old[j].file => i = j
          /\ \A k \in 1 .. Len(old) : /\ old[k].file \notin fs
                                      /\ \E i \in 1 .. n - 1 : old[k] = queue[i]
          /\ \A i \in 1 .. n - 1 : queue[i].file \notin fs =>
                \E k \in 1 .. Len(old) : old[k] = queue[i]
        BY <1>8, Zenon
    <2>0. Len(old) \in Nat
        <3> HIDE DEF old
        <3> QED
            BY <2>1
    <2>2. \A i \in 1 .. n : i \in 1 .. n - 1 \/ i = n
        OBVIOUS
    <2>3. \A i \in 1 .. n - 1 : i \in 1 .. n
        OBVIOUS
    <2>4. CASE queue[n].file \in fs
        <3>1. Kept[n] = old
            BY <1>5, <2>4
        <3> HIDE DEF old
        <3> QED
            BY <2>1, <2>0, <2>2, <2>3, <2>4, <3>1, SMTT(30)
    <2>5. CASE queue[n].file \notin fs
        <3>1. Kept[n] = Append(old, queue[n])
            BY <1>5, <2>5
        <3> HIDE DEF old
        <3>2. /\ Kept[n] \in Seq(PendingFiles) /\ Len(Kept[n]) = last
              /\ Kept[n][last] = queue[n]
              /\ \A k \in 1 .. Len(old) : Kept[n][k] = old[k]
            BY <3>1, <2>1, <2>0, <1>6
        <3>3. \A k \in 1 .. last : k \in 1 .. Len(old) \/ k = last
            BY <2>1, <2>0
        <3>4. \A k \in 1 .. Len(old) : k \in 1 .. last
            BY <2>1, <2>0
        <3>5. last \in 1 .. last
            BY <2>1, <2>0
        <3> HIDE DEF last
        <3>6. \A k \in 1 .. Len(old) : old[k].file # queue[n].file
            <4> SUFFICES ASSUME NEW k \in 1 .. Len(old), old[k].file = queue[n].file
                         PROVE  FALSE
                OBVIOUS
            <4>1. PICK i \in 1 .. n - 1 : old[k] = queue[i]
                BY <2>1, <2>0
            <4>2. i \in 1 .. Len(queue) /\ n \in 1 .. Len(queue) /\ i # n
                BY <1>1 DEF len
            <4> QED
                BY <4>1, <4>2
        <3>7. \A i, j \in 1 .. Len(Kept[n]) : Kept[n][i].file = Kept[n][j].file => i = j
            BY <2>1, <2>0, <3>2, <3>3, <3>6
        <3>8. \A k \in 1 .. Len(Kept[n]) : /\ Kept[n][k].file \notin fs
                                           /\ \E i \in 1 .. n : Kept[n][k] = queue[i]
            <4> TAKE k \in 1 .. Len(Kept[n])
            <4>1. CASE k = last
                BY <4>1, <3>2, <2>5
            <4>2. CASE k \in 1 .. Len(old)
                BY <4>2, <3>2, <2>1, <2>0, <2>3
            <4> QED
                BY <4>1, <4>2, <3>2, <3>3
        <3>9. \A i \in 1 .. n : queue[i].file \notin fs =>
                  \E k \in 1 .. Len(Kept[n]) : Kept[n][k] = queue[i]
            <4> SUFFICES ASSUME NEW i \in 1 .. n, queue[i].file \notin fs
                         PROVE  \E k \in 1 .. Len(Kept[n]) : Kept[n][k] = queue[i]
                OBVIOUS
            <4>1. CASE i = n
                BY <4>1, <3>2, <3>5
            <4>2. CASE i \in 1 .. n - 1
                BY <4>2, <3>2, <3>4, <2>1, <2>0
            <4> QED
                BY <4>1, <4>2, <2>2
        <3> QED
            BY <3>2, <3>7, <3>8, <3>9
    <2> QED
        BY <2>4, <2>5
<1> HIDE DEF P
<1>9. \A n \in T : \E m \in T : m < n
    <2> SUFFICES ASSUME NEW n \in T, \A m \in T : ~(m < n) PROVE FALSE
        OBVIOUS
    <2>1. n \in 1 .. len /\ ~P(n)
        BY <1>1, <1>7
    <2>2. n - 1 \in 0 .. len /\ n - 1 < n
        BY <1>1, <2>1
    <2>3. P(n - 1)
        BY <2>2
    <2> QED
        BY <2>1, <2>3, <1>8
<1>10. T = {}
    <2>1. T \in SUBSET Nat
        BY <1>1
    <2> HIDE DEF T
    <2> QED
        BY <2>1, <1>9, NoLeastFailure
<1>11. P(len)
    <2>1. len \in 0 .. len
        BY <1>1
    <2> QED
        BY <1>10, <2>1
<1> QED
    BY <1>4, <1>11 DEF P, len

-----------------------------------------------------------------------------
(* The registry. *)

\* What a handler may leave in place of the registry.
After(n) == NetOK(n) /\ net.nextId <= n.nextId

(***************************************************************************)
(* register: the new request has an id of its own.                         *)
(***************************************************************************)
LEMMA RegisterOK ==
    ASSUME NEW n, NetOK(n), NEW kind \in Kinds, NEW a \in Attempts \cup {NoAttempt},
           kind \in {"AbortTransfer", "ProtocolViolation"} => a = NoAttempt
    PROVE  /\ NetOK(Register(n, kind, a))
           /\ Register(n, kind, a).nextId = n.nextId + 1
           /\ Register(n, kind, a).registry = n.registry \cup
                  {[id |-> n.nextId, kind |-> kind, attempt |-> a, state |-> "Open"]}
<1> DEFINE m == Register(n, kind, a)
           r == [id |-> n.nextId, kind |-> kind, attempt |-> a, state |-> "Open"]
<1>1. m = [registry |-> n.registry \cup {r}, nextId |-> n.nextId + 1]
    BY DEF Register
<1>2. n.nextId \in Nat \ {0} /\ n.registry \subseteq Requests
    BY DEF NetOK
<1>3. r \in Requests
    BY <1>2 DEF Requests
<1>4. r.id = n.nextId /\ r.kind = kind /\ r.attempt = a
    OBVIOUS
<1> HIDE DEF m, r
<1>5. m \in [registry : SUBSET Requests, nextId : Nat \ {0}]
    BY <1>1, <1>2, <1>3
<1>6. m.registry = n.registry \cup {r} /\ m.nextId = n.nextId + 1
    BY <1>1
<1>7. \A q \in n.registry : q.id \in Nat /\ q.id < n.nextId
    BY <1>2 DEF NetOK, Requests
<1>8. \A q \in m.registry : q.id < m.nextId
    BY <1>2, <1>4, <1>6, <1>7
<1>9. \A q, t \in m.registry : q.id = t.id => q = t
    BY <1>2, <1>4, <1>6, <1>7 DEF NetOK
<1>10. \A q \in m.registry :
          q.kind \in {"AbortTransfer", "ProtocolViolation"} => q.attempt = NoAttempt
    BY <1>4, <1>6 DEF NetOK
<1> QED
    BY <1>5, <1>6, <1>8, <1>9, <1>10 DEF NetOK, m, r

LEMMA SendOK ==
    ASSUME NEW n, After(n), net.nextId \in Nat,
           NEW kind \in {"AbortTransfer", "ProtocolViolation"},
           NEW m \in Send(n, kind, NoAttempt)
    PROVE  After(m)
<1>1. m = n \/ m = Register(n, kind, NoAttempt)
    BY DEF Send
<1>2. n.nextId \in Nat /\ net.nextId <= n.nextId /\ NetOK(n)
    BY DEF NetOK, After
<1>3. kind \in Kinds /\ NoAttempt \in Attempts \cup {NoAttempt}
    BY DEF Kinds
<1>4. CASE m = n
    BY <1>4
<1>5. CASE m = Register(n, kind, NoAttempt)
    BY <1>2, <1>3, <1>5, RegisterOK DEF After
<1> QED
    BY <1>1, <1>4, <1>5

LEMMA NetStays ==
    ASSUME FilesInv
    PROVE  After(net) /\ net.nextId \in Nat
BY DEF FilesInv, NetOK, After

LEMMA AnsweredOK ==
    ASSUME NetOK(net), NEW r \in net.registry
    PROVE  After(Answered(r)) /\ Answered(r).registry = net.registry \ {r}
<1> DEFINE n == Answered(r)
<1>1. /\ net.nextId \in Nat \ {0} /\ net.registry \subseteq Requests
      /\ n = [net EXCEPT !.registry = @ \ {r}]
      /\ net = [registry |-> net.registry, nextId |-> net.nextId]
    BY DEF NetOK, Answered
<1> HIDE DEF n
<1>2. n.registry = net.registry \ {r} /\ n.nextId = net.nextId
    BY <1>1
<1>3. n \in [registry : SUBSET Requests, nextId : Nat \ {0}]
    BY <1>1
<1>4. NetOK(n)
    BY <1>2, <1>3 DEF NetOK
<1> QED
    BY <1>1, <1>2, <1>4 DEF After, n

LEMMA MarkedOK ==
    ASSUME NetOK(net), NEW r \in net.registry, NEW state \in {"Failed", "TimedOut"}
    PROVE  After(Marked(r, state))
<1> DEFINE n == Marked(r, state)
           s == [r EXCEPT !.state = state]
           new == {[m EXCEPT !.state = state] : m \in {q \in {r} : q.state = "Open"}}
<1>1. /\ net.nextId \in Nat \ {0} /\ net.registry \subseteq Requests
      /\ net = [registry |-> net.registry, nextId |-> net.nextId]
    BY DEF NetOK
<1>2. n = [net EXCEPT !.registry = (@ \ {r}) \cup new]
    BY DEF Marked
<1>3. new \subseteq {s}
    OBVIOUS
<1>4. s \in Requests /\ s.id = r.id /\ s.kind = r.kind /\ s.attempt = r.attempt
    BY <1>1 DEF Requests
<1> HIDE DEF n, new, s
<1>5. n.registry = (net.registry \ {r}) \cup new /\ n.nextId = net.nextId
    BY <1>1, <1>2
<1>6. n \in [registry : SUBSET Requests, nextId : Nat \ {0}]
    BY <1>1, <1>2, <1>3, <1>4
<1>7. \A q \in n.registry : (q \in net.registry /\ q # r) \/ q = s
    BY <1>3, <1>5
<1>8. \A q \in n.registry : q.id < n.nextId
    BY <1>4, <1>5, <1>7 DEF NetOK
<1>9. \A q, t \in n.registry : q.id = t.id => q = t
    BY <1>4, <1>7 DEF NetOK
<1>10. \A q \in n.registry :
          q.kind \in {"AbortTransfer", "ProtocolViolation"} => q.attempt = NoAttempt
    BY <1>4, <1>7 DEF NetOK
<1> QED
    BY <1>1, <1>5, <1>6, <1>8, <1>9, <1>10 DEF NetOK, After, n

-----------------------------------------------------------------------------
(* What the handlers do to the files. *)

\* No file is lost by the step, unless it could not be continued.
KeepsFiles ==
    \A f \in Files : Tracked(f) => (Tracked(f) \/ Left(f))' \/ ContinueTransferNotSent(f)

(***************************************************************************)
(* A handler that leaves the files alone.                                  *)
(***************************************************************************)
LEMMA IgnoreMove ==
    ASSUME FilesInv, NEW n, After(n), Ignore(n), cancelled' = cancelled
    PROVE  FilesInv' /\ KeepsFiles
<1>1. /\ net' = n /\ entry' = entry /\ pending' = pending /\ sending' = sending
      /\ outcomes' = outcomes /\ cancelled' = cancelled
    BY DEF Ignore
<1>2. \A f : Tracked(f)' <=> Tracked(f)
    BY <1>1 DEF Tracked
<1>3. \A f : Left(f)' <=> Left(f)
    BY <1>1 DEF Left
<1>4. NetOK(net)' /\ QueueInv' /\ EntryInv'
    BY <1>1 DEF After, FilesInv, QueueInv, EntryInv
<1>5. OutcomesInv'
    BY <1>1, <1>2, <1>3 DEF FilesInv, OutcomesInv
<1>6. SlotOK'
    <2>1. net.nextId \in Nat /\ n.nextId \in Nat /\ net.nextId <= n.nextId
        BY DEF After, NetOK, FilesInv
    <2>2. \A s \in sending : \A id \in DOMAIN s.sm.chunk_to_index : id \in Nat
        BY IndexMapFacts DEF FilesInv, SlotOK, Transfers, SendManagers
    <2> QED
        BY <1>1, <2>1, <2>2 DEF FilesInv, SlotOK
<1>7. KeepsFiles
    BY <1>2 DEF KeepsFiles
<1> QED
    BY <1>4, <1>5, <1>6, <1>7 DEF FilesInv

(***************************************************************************)
(* A handler that puts the file of the slot back into the queue.           *)
(***************************************************************************)
LEMMA ResetMove ==
    ASSUME FilesInv, NEW n, After(n), NEW s \in sending, NEW p \in PendingFiles,
           p.file = s.file, pending' = Append(pending, p), sending' = {}, net' = n,
           UNCHANGED <<entry, outcomes, cancelled>>
    PROVE  FilesInv' /\ KeepsFiles
<1>1. /\ pending \in Seq(PendingFiles) /\ Len(pending) \in Nat
      /\ \A i, j \in 1 .. Len(pending) : pending[i].file = pending[j].file => i = j
      /\ \A i \in 1 .. Len(pending) : pending[i].file # s.file
      /\ \A t \in sending : t = s
    BY DEF FilesInv, QueueInv, SlotOK
<1> DEFINE last == Len(pending) + 1
<1>2. /\ pending' \in Seq(PendingFiles) /\ Len(pending') = last
      /\ pending'[last] = p
      /\ \A i \in 1 .. Len(pending) : pending'[i] = pending[i]
    BY <1>1
<1>3. /\ \A i \in 1 .. last : i \in 1 .. Len(pending) \/ i = last
      /\ \A i \in 1 .. Len(pending) : i \in 1 .. last
      /\ last \in 1 .. last
    BY <1>1
<1> HIDE DEF last
<1>4. QueueInv'
    BY <1>1, <1>2, <1>3 DEF QueueInv
<1>5. \A f : Tracked(f)' <=> Tracked(f)
    <2> TAKE f
    <2>1. ASSUME Tracked(f) PROVE Tracked(f)'
        <3>1. CASE \E i \in 1 .. Len(pending) : pending[i].file = f
            BY <3>1, <1>2, <1>3 DEF Tracked
        <3>2. CASE \E t \in sending : t.file = f
            BY <3>2, <1>1, <1>2, <1>3 DEF Tracked
        <3> QED
            BY <2>1, <3>1, <3>2 DEF Tracked
    <2>2. ASSUME Tracked(f)' PROVE Tracked(f)
        <3>1. PICK i \in 1 .. last : pending'[i].file = f
            BY <2>2, <1>2 DEF Tracked
        <3> QED
            BY <3>1, <1>2, <1>3 DEF Tracked
    <2> QED
        BY <2>1, <2>2
<1>6. \A f : Left(f)' <=> Left(f)
    BY DEF Left
<1>7. NetOK(net)' /\ SlotOK'
    BY DEF After, SlotOK
<1>8. OutcomesInv'
    BY <1>5, <1>6 DEF FilesInv, OutcomesInv
<1>9. EntryInv'
    BY DEF FilesInv, EntryInv
<1>10. KeepsFiles
    BY <1>5 DEF KeepsFiles
<1> QED
    BY <1>4, <1>7, <1>8, <1>9, <1>10 DEF FilesInv

(***************************************************************************)
(* compute_reset_status keeps the file.                                    *)
(***************************************************************************)
LEMMA ResetFileOK ==
    ASSUME NEW s \in Transfers
    PROVE  /\ ResetFile(s) \in PendingFiles /\ ResetFile(s).file = s.file
           /\ [ResetFile(s) EXCEPT !.status = "Interrupted"] \in PendingFiles
           /\ [ResetFile(s) EXCEPT !.status = "Interrupted"].file = s.file
<1>1. NoTransfer \in Int
    BY DEF NoTransfer
<1>2. /\ s.file \in Files /\ s.progress \in Nat /\ s.transfer \in Int /\ s.retry \in Nat
    BY DEF Transfers
<1> DEFINE p == ResetFile(s)
<1>3. p \in PendingFiles /\ p.file = s.file
    BY <1>1, <1>2 DEF ResetFile, PendingFiles
<1> HIDE DEF p
<1>4. [p EXCEPT !.status = "Interrupted"] \in PendingFiles
    BY <1>3 DEF PendingFiles
<1>5. [p EXCEPT !.status = "Interrupted"].file = s.file
    BY <1>3 DEF PendingFiles
<1> QED
    BY <1>3, <1>4, <1>5 DEF p

LEMMA StopMove ==
    ASSUME FilesInv, NEW n, After(n), NEW s \in sending, NEW v \in Transfers,
           v.file = s.file, ResetAndStop(v, n), cancelled' = cancelled
    PROVE  FilesInv' /\ KeepsFiles /\ sending' = {}
BY ResetMove, ResetFileOK DEF ResetAndStop

(***************************************************************************)
(* A handler that goes on with the transfer in the slot.                   *)
(***************************************************************************)
LEMMA SlotMove ==
    ASSUME FilesInv, NEW n, After(n), NEW s \in sending, NEW v \in Transfers,
           v.file = s.file, WindowInv(v.sm),
           \A id \in DOMAIN v.sm.chunk_to_index : id < n.nextId,
           sending' = {v}, net' = n, UNCHANGED <<entry, pending, outcomes, cancelled>>
    PROVE  FilesInv' /\ KeepsFiles
<1>1. \A t \in sending : t = s
    BY DEF FilesInv, SlotOK
<1>2. \A f : Tracked(f)' <=> Tracked(f)
    BY <1>1 DEF Tracked
<1>3. \A f : Left(f)' <=> Left(f)
    BY DEF Left
<1>4. NetOK(net)' /\ QueueInv' /\ EntryInv'
    BY DEF After, FilesInv, QueueInv, EntryInv
<1>5. OutcomesInv'
    BY <1>2, <1>3 DEF FilesInv, OutcomesInv
<1>6. SlotOK'
    <2>1. \A i \in 1 .. Len(pending) : pending[i].file # v.file
        BY DEF FilesInv, SlotOK
    <2> QED
        BY <2>1 DEF SlotOK
<1>7. KeepsFiles
    BY <1>2 DEF KeepsFiles
<1> QED
    BY <1>4, <1>5, <1>6, <1>7 DEF FilesInv

(***************************************************************************)
(* A handler that empties the slot and does nothing else with its file.    *)
(***************************************************************************)
LEMMA DropMove ==
    ASSUME FilesInv, NEW n, After(n), sending' = {}, net' = n,
           UNCHANGED <<entry, pending, outcomes, cancelled>>
    PROVE  FilesInv'
<1>1. \A f : Tracked(f)' => Tracked(f)
    BY DEF Tracked
<1>2. \A f : Left(f)' <=> Left(f)
    BY DEF Left
<1>3. NetOK(net)' /\ QueueInv' /\ EntryInv' /\ SlotOK'
    BY DEF After, FilesInv, QueueInv, EntryInv, SlotOK
<1>4. OutcomesInv'
    BY <1>1, <1>2 DEF FilesInv, OutcomesInv
<1> QED
    BY <1>3, <1>4 DEF FilesInv

(***************************************************************************)
(* What is left of a queue behind its first k files, with and without the  *)
(* next one.                                                               *)
(***************************************************************************)
LEMMA RestOfQueue ==
    ASSUME NEW queue \in Seq(PendingFiles), NEW k \in Nat, k < Len(queue)
    PROVE  LET rest == SubSeq(queue, k + 2, Len(queue))
               all  == <<queue[k + 1]>> \o rest
           IN  /\ queue[k + 1] \in PendingFiles
               /\ rest \in Seq(PendingFiles) /\ Len(rest) = Len(queue) - (k + 1)
               /\ \A i \in 1 .. Len(rest) : rest[i] = queue[k + 1 + i]
               /\ all \in Seq(PendingFiles) /\ Len(all) = Len(queue) - k
               /\ \A i \in 1 .. Len(all) : all[i] = queue[k + i]
<1> DEFINE rest == SubSeq(queue, k + 2, Len(queue))
           head == <<queue[k + 1]>>
           all == head \o rest
<1>1. Len(queue) \in Nat /\ \A i \in 1 .. Len(queue) : queue[i] \in PendingFiles
    OBVIOUS
<1>2. queue[k + 1] \in PendingFiles
    BY <1>1
<1>3. /\ rest \in Seq(PendingFiles)
      /\ Len(rest) = Len(queue) - (k + 1)
      /\ \A i \in 1 .. Len(queue) - (k + 1) : rest[i] = queue[k + 1 + i]
    <2> DEFINE m == k + 2
               n == Len(queue)
               R == PendingFiles
    <2>1. m \in Int /\ n \in Int /\ \A i \in m .. n : queue[i] \in R
        BY <1>1
    <2>2. m = k + 2 /\ n = Len(queue)
        OBVIOUS
    <2> HIDE DEF m, n, R
    <2>3. /\ SubSeq(queue, m, n) \in Seq(R)
          /\ Len(SubSeq(queue, m, n)) = IF m <= n THEN n - m + 1 ELSE 0
          /\ \A i \in 1 .. n - m + 1 : SubSeq(queue, m, n)[i] = queue[m + i - 1]
        BY <2>1, SubSeqProperties
    <2>4. rest = SubSeq(queue, m, n)
        BY DEF m, n
    <2> HIDE DEF rest
    <2>5. Len(rest) = Len(queue) - (k + 1)
        BY <1>1, <2>2, <2>3, <2>4
    <2>6. \A i \in 1 .. Len(queue) - (k + 1) : rest[i] = queue[k + 1 + i]
        <3> TAKE i \in 1 .. Len(queue) - (k + 1)
        <3>1. i \in 1 .. n - m + 1 /\ m + i - 1 = k + 1 + i
            BY <1>1, <2>2
        <3> QED
            BY <2>3, <2>4, <3>1
    <2> QED
        BY <2>3, <2>4, <2>5, <2>6 DEF R
<1>4. Len(rest) = Len(queue) - (k + 1)
    BY <1>3
<1>5. \A i \in 1 .. Len(rest) : rest[i] = queue[k + 1 + i]
    BY <1>3
<1>6. head \in Seq(PendingFiles) /\ Len(head) = 1 /\ head[1] = queue[k + 1]
    BY <1>2
<1> HIDE DEF rest, head
<1>0. /\ all \in Seq(PendingFiles) /\ Len(all) = Len(head) + Len(rest)
      /\ \A i \in 1 .. Len(head) + Len(rest) :
            all[i] = IF i <= Len(head) THEN head[i] ELSE rest[i - Len(head)]
    <2>1. \A S : \A s, t \in Seq(S) :
              /\ s \o t \in Seq(S) /\ Len(s \o t) = Len(s) + Len(t)
              /\ \A i \in 1 .. Len(s) + Len(t) :
                    (s \o t)[i] = IF i <= Len(s) THEN s[i] ELSE t[i - Len(s)]
        BY ConcatProperties
    <2>2. head \in Seq(PendingFiles) /\ rest \in Seq(PendingFiles)
        BY <1>3, <1>6
    <2> QED
        BY <2>1, <2>2, Zenon
<1> HIDE DEF all
<1>7. all \in Seq(PendingFiles) /\ Len(all) = Len(queue) - k
    BY <1>1, <1>0, <1>4, <1>6
<1>8. \A i \in 1 .. Len(all) : all[i] = queue[k + i]
    <2> TAKE i \in 1 .. Len(all)
    <2>1. i \in 1 .. Len(queue) - k
        BY <1>7
    <2>2. CASE i = 1
        BY <2>1, <2>2, <1>0, <1>4, <1>6, <1>1
    <2>3. CASE i # 1
        <3>1. i - 1 \in 1 .. Len(rest)
            BY <1>1, <1>4, <2>1, <2>3
        <3>2. all[i] = rest[i - 1]
            BY <1>0, <1>4, <1>6, <1>1, <2>1, <2>3
        <3>3. rest[i - 1] = queue[k + 1 + (i - 1)]
            BY <1>5, <3>1
        <3> QED
            BY <2>1, <3>2, <3>3
    <2> QED
        BY <2>2, <2>3
<1> QED
    BY <1>2, <1>3, <1>4, <1>5, <1>7, <1>8 DEF rest, head, all

LEMMA OneOutcome ==
    ASSUME NEW x \in Outcomes
    PROVE  /\ Append(<<>>, x) = <<x>>
           /\ <<x>> \in Seq(Outcomes) /\ Len(<<x>>) = 1 /\ <<x>> # <<>>
<1>1. Len(<<x>>) = 1 /\ Len(<<>>) = 0
    OBVIOUS
<1>2. <<x>> \in Seq(Outcomes)
    OBVIOUS
<1>3. <<x>> # <<>>
    BY <1>1
<1>4. Append(<<>>, x) = <<x>>
    OBVIOUS
<1> QED
    BY <1>1, <1>2, <1>3, <1>4

(***************************************************************************)
(* send_next, on a queue of files that have no outcome yet: every file of  *)
(* the queue is offered, still queued, or reported missing, except one that*)
(* could not be continued; and what it puts into the slot has its request. *)
(***************************************************************************)
LEMMA SendNextMove ==
    ASSUME NEW queue \in Seq(PendingFiles), NEW out \in [Files -> Seq(Outcomes)],
           NEW c \in SUBSET Files, NEW n, NetOK(n), entry = "Occupied",
           \A i, j \in 1 .. Len(queue) : queue[i].file = queue[j].file => i = j,
           \A f \in Files : Len(out[f]) <= 1 /\ (f \in c => out[f] = <<>>),
           \A i \in 1 .. Len(queue) : /\ out[queue[i].file] = <<>>
                                      /\ queue[i].file \notin c,
           SendNext(queue, out, n), cancelled' = c
    PROVE  /\ FilesInv'
           /\ \A s \in sending' : Awaited(net', s) /\ ChunksAwaited(net', s)
           /\ \A f \in Files : out[f] # <<>> \/ f \in c => Left(f)'
           /\ \A i \in 1 .. Len(queue) :
                 \/ Tracked(queue[i].file)' \/ Left(queue[i].file)'
                 \/ /\ "ContinueTransfer" \in FailingSends /\ sending' = {}
                    /\ queue[i].status = "Interrupted"
<1> DEFINE len == Len(queue)
           Lost(i) == /\ "ContinueTransfer" \in FailingSends /\ sending' = {}
                      /\ queue[i].status = "Interrupted"
<1>1. len \in Nat /\ \A i \in 1 .. len : queue[i] \in PendingFiles /\ queue[i].file \in Files
    <2>1. len \in Nat /\ \A i \in 1 .. len : queue[i] \in PendingFiles
        OBVIOUS
    <2>2. \A p \in PendingFiles : p.file \in Files
        BY DEF PendingFiles
    <2> QED
        BY <2>1, <2>2
<1>2. PICK k \in 0 .. len :
          /\ outcomes' = [f \in Files |->
                 IF \E i \in 1 .. k : queue[i].file = f
                 THEN Append(out[f], "Missing") ELSE out[f]]
          /\ \/ /\ k = len
                /\ entry' = "Vacant" /\ pending' = <<>> /\ sending' = {}
                /\ net' = n
             \/ /\ k < len
                /\ UNCHANGED entry
                /\ Offer(queue[k + 1], SubSeq(queue, k + 2, len), n)
    BY DEF SendNext
<1>3. k \in Nat /\ \A i \in 1 .. k : i \in 1 .. len
    BY <1>1
<1> HIDE DEF len
<1>4. \A i \in 1 .. len : out[queue[i].file] = <<>> /\ queue[i].file \notin c
    BY DEF len
<1>5. \A i, j \in 1 .. len : queue[i].file = queue[j].file => i = j
    BY DEF len
<1>6. ASSUME NEW f \in Files
      PROVE  /\ outcomes'[f] \in Seq(Outcomes) /\ Len(outcomes'[f]) <= 1
             /\ f \in c => outcomes'[f] = <<>>
             /\ out[f] # <<>> => outcomes'[f] = out[f]
             /\ \A i \in 1 .. k : queue[i].file = f => outcomes'[f] # <<>>
             /\ (\A i \in 1 .. k : queue[i].file # f) => outcomes'[f] = out[f]
    <2>1. CASE \E i \in 1 .. k : queue[i].file = f
        <3>1. out[f] = <<>> /\ f \notin c
            BY <2>1, <1>3, <1>4
        <3>2. outcomes'[f] = Append(out[f], "Missing")
            BY <1>2, <2>1
        <3>3. "Missing" \in Outcomes
            BY DEF Outcomes
        <3>4. /\ outcomes'[f] \in Seq(Outcomes) /\ Len(outcomes'[f]) = 1
              /\ outcomes'[f] # <<>>
            BY <3>1, <3>2, <3>3, OneOutcome
        <3> QED
            BY <2>1, <3>1, <3>4
    <2>2. CASE \A i \in 1 .. k : queue[i].file # f
        <3>1. outcomes'[f] = out[f]
            BY <1>2, <2>2
        <3> QED
            BY <2>2, <3>1
    <2> QED
        BY <2>1, <2>2
<1>7. \A f : Left(f)' <=> outcomes'[f] # <<>> \/ f \in c
    BY DEF Left
<1>8. /\ outcomes' \in [Files -> Seq(Outcomes)]
      /\ \A f \in Files : out[f] # <<>> \/ f \in c => Left(f)'
    <2>1. outcomes' = [f \in Files |-> outcomes'[f]]
        BY <1>2
    <2> QED
        BY <1>6, <1>7, <2>1
\* The queue afterwards is the one before without its first o files.
<1> DEFINE Rest(o) == /\ pending' \in Seq(PendingFiles) /\ Len(pending') = len - o
                      /\ \A i \in 1 .. Len(pending') : pending'[i] = queue[o + i]
<1>9. ASSUME NEW o \in k .. k + 1, o <= len, Rest(o)
      PROVE  /\ QueueInv'
             /\ \A j \in 1 .. Len(pending') :
                   /\ \A i \in 1 .. o : pending'[j].file # queue[i].file
                   /\ pending'[j].file \in Files
                   /\ outcomes'[pending'[j].file] = <<>> /\ pending'[j].file \notin c
             /\ \A i \in 1 .. len : i \in 1 .. k => Left(queue[i].file)'
             /\ \A i \in 1 .. len : i > o => Tracked(queue[i].file)'
    <2>1. \A j \in 1 .. Len(pending') : o + j \in 1 .. len /\ pending'[j] = queue[o + j]
        BY <1>1, <1>3, <1>9
    <2>2. QueueInv'
        <3>1. \A i, j \in 1 .. Len(pending') : pending'[i].file = pending'[j].file => i = j
            <4> SUFFICES ASSUME NEW i \in 1 .. Len(pending'), NEW j \in 1 .. Len(pending'),
                                pending'[i].file = pending'[j].file
                         PROVE  i = j
                OBVIOUS
            <4>1. o + i = o + j
                BY <2>1, <1>5, SMTT(30)
            <4>2. i \in Nat /\ j \in Nat /\ o \in Nat
                BY <1>3, <1>9
            <4> QED
                BY <4>1, <4>2
        <3> QED
            BY <1>9, <3>1 DEF QueueInv
    <2>3. ASSUME NEW j \in 1 .. Len(pending')
          PROVE  /\ \A i \in 1 .. o : pending'[j].file # queue[i].file
                 /\ pending'[j].file \in Files
                 /\ outcomes'[pending'[j].file] = <<>> /\ pending'[j].file \notin c
        <3>1. \A i \in 1 .. o : i \in 1 .. len /\ i # o + j
            BY <1>1, <1>3, <1>9, <2>1
        <3>2. \A i \in 1 .. o : pending'[j].file # queue[i].file
            BY <3>1, <2>1, <1>5
        <3>3. \A i \in 1 .. k : i \in 1 .. o
            BY <1>3, <1>9
        <3>4. /\ pending'[j].file \in Files /\ out[pending'[j].file] = <<>>
              /\ pending'[j].file \notin c
            <4>1. o + j \in 1 .. len /\ pending'[j] = queue[o + j]
                BY <2>1
            <4>2. /\ queue[o + j].file \in Files /\ out[queue[o + j].file] = <<>>
                  /\ queue[o + j].file \notin c
                BY <4>1, <1>1, <1>4
            <4> QED
                BY <4>1, <4>2
        <3>5. outcomes'[pending'[j].file] = out[pending'[j].file]
            BY <3>2, <3>3, <3>4, <1>6
        <3> QED
            BY <3>2, <3>4, <3>5
    <2>4. ASSUME NEW i \in 1 .. len, i \in 1 .. k PROVE Left(queue[i].file)'
        <3>1. queue[i].file \in Files
            BY <1>1
        <3>2. outcomes'[queue[i].file] # <<>>
            BY <2>4, <3>1, <1>6
        <3> QED
            BY <3>2, <1>7
    <2>5. ASSUME NEW i \in 1 .. len, i > o PROVE Tracked(queue[i].file)'
        <3>1. i - o \in 1 .. Len(pending') /\ o + (i - o) = i
            BY <1>1, <1>3, <1>9, <2>5
        <3>2. pending'[i - o] = queue[i]
            BY <2>1, <3>1
        <3> QED
            BY <3>1, <3>2 DEF Tracked
    <2> QED
        BY <2>2, <2>3, <2>4, <2>5
<1>10. ASSUME NEW o \in k .. k + 1, o <= len, Rest(o), sending' = {}, NetOK(net'), EntryInv',
              o = k + 1 => Lost(k + 1)
       PROVE  /\ FilesInv'
              /\ \A i \in 1 .. len : Tracked(queue[i].file)' \/ Left(queue[i].file)' \/ Lost(i)
    <2>1. SlotOK'
        BY <1>10 DEF SlotOK
    <2>2. \A f \in Files : Left(f)' => ~Tracked(f)'
        BY <1>7, <1>9, <1>10, SMTT(30) DEF Tracked
    <2>3. OutcomesInv'
        BY <1>6, <1>8, <2>2 DEF OutcomesInv
    <2>4. ASSUME NEW i \in 1 .. len
          PROVE  Tracked(queue[i].file)' \/ Left(queue[i].file)' \/ Lost(i)
        <3>1. i \in 1 .. k \/ i > o \/ (i = k + 1 /\ o = k + 1)
            BY <1>1, <1>3, <1>10
        <3> HIDE DEF Rest, Lost
        <3> QED
            BY <3>1, <1>9, <1>10
    <2>5. NetOK(net)' /\ QueueInv' /\ EntryInv'
        BY <1>9, <1>10
    <2> QED
        BY <2>1, <2>3, <2>4, <2>5 DEF FilesInv
<1>11. CASE k = len /\ entry' = "Vacant" /\ pending' = <<>> /\ sending' = {} /\ net' = n
    <2>1. Rest(k)
        <3>1. <<>> \in Seq(PendingFiles) /\ Len(<<>>) = 0
            OBVIOUS
        <3> QED
            BY <1>11, <1>1, <3>1
    <2>2. EntryInv'
        BY <1>11 DEF EntryInv
    <2>3. k \in k .. k + 1 /\ k <= len /\ k # k + 1
        BY <1>1, <1>3
    <2> HIDE DEF Rest, Lost
    <2>4. /\ FilesInv'
          /\ \A i \in 1 .. len : Tracked(queue[i].file)' \/ Left(queue[i].file)' \/ Lost(i)
        BY <1>10, <1>11, <2>1, <2>2, <2>3
    <2> QED
        BY <1>8, <1>11, <2>4 DEF Lost, len
<1>12. CASE k < len /\ UNCHANGED entry /\ Offer(queue[k + 1], SubSeq(queue, k + 2, len), n)
    <2> DEFINE p == queue[k + 1]
               rest == SubSeq(queue, k + 2, len)
               kind == IF p.status = "Pending" THEN "NewTransfer" ELSE "ContinueTransfer"
               transfer == IF p.status = "Pending" THEN n.nextId ELSE p.transfer
               a == Attempt(n, p)
               s == LockedSendData(p, transfer, a)
    <2>1. /\ p \in PendingFiles
          /\ rest \in Seq(PendingFiles) /\ Len(rest) = len - (k + 1)
          /\ \A i \in 1 .. Len(rest) : rest[i] = queue[k + 1 + i]
          /\ <<p>> \o rest \in Seq(PendingFiles) /\ Len(<<p>> \o rest) = len - k
          /\ \A i \in 1 .. Len(<<p>> \o rest) : (<<p>> \o rest)[i] = queue[k + i]
        BY <1>3, <1>12, RestOfQueue DEF len
    <2>2. EntryInv'
        BY <1>12 DEF EntryInv
    <2>3. /\ k \in k .. k + 1 /\ k <= len /\ k # k + 1
          /\ k + 1 \in k .. k + 1 /\ k + 1 <= len /\ k + 1 \in 1 .. len
        BY <1>1, <1>3, <1>12
    <2>4. CASE /\ kind \in FailingSends /\ net' = n /\ sending' = {}
               /\ pending' = IF kind = "NewTransfer" THEN <<p>> \o rest ELSE rest
        <3>1. CASE kind = "NewTransfer"
            <4>1. Rest(k)
                <5> HIDE DEF p, rest
                <5> QED
                    BY <2>1, <2>4, <3>1
            <4> HIDE DEF Rest, Lost, p, rest, kind
            <4>2. /\ FilesInv'
                  /\ \A i \in 1 .. len : Tracked(queue[i].file)' \/ Left(queue[i].file)' \/ Lost(i)
                BY <1>10, <2>2, <2>3, <2>4, <4>1
            <4> QED
                BY <1>8, <2>4, <4>2 DEF Lost, len
        <3>2. CASE kind # "NewTransfer"
            <4>1. Rest(k + 1)
                <5> HIDE DEF p, rest
                <5> QED
                    BY <2>1, <2>4, <3>2
            <4>2. Lost(k + 1)
                BY <2>1, <2>4, <3>2 DEF PendingFiles
            <4> HIDE DEF Rest, Lost, p, rest, kind
            <4>3. /\ FilesInv'
                  /\ \A i \in 1 .. len : Tracked(queue[i].file)' \/ Left(queue[i].file)' \/ Lost(i)
                BY <1>10, <2>2, <2>3, <2>4, <4>1, <4>2
            <4> QED
                BY <1>8, <2>4, <4>3 DEF Lost, len
        <3> QED
            BY <3>1, <3>2
    <2>5. CASE /\ n.nextId <= MaxRequests /\ net' = Register(n, kind, a)
               /\ sending' = {s} /\ pending' = rest
        <3>1. n.nextId \in Nat \ {0}
            BY DEF NetOK
        <3>2. /\ p.file \in Files /\ p.progress \in Nat /\ p.transfer \in Int /\ p.retry \in Nat
            BY <2>1 DEF PendingFiles
        <3>3. a \in Attempts
            BY <3>1, <3>2 DEF Attempts, Attempt
        <3>4. kind \in Kinds /\ kind \notin {"AbortTransfer", "ProtocolViolation"}
            BY DEF Kinds
        <3> HIDE DEF kind
        <3>5. /\ NetOK(net')
              /\ [id |-> n.nextId, kind |-> kind, attempt |-> a, state |-> "Open"]
                     \in net'.registry
            BY <2>5, <3>3, <3>4, RegisterOK
        <3>6. transfer \in Int
            BY <3>1, <3>2
        <3> HIDE DEF transfer, a
        <3>7. /\ s \in Transfers /\ s.file = p.file /\ s.attempt = a
              /\ s.sm = NewSendManager(FileUnits)
            BY <3>2, <3>3, <3>6, NewWindow DEF LockedSendData, Transfers
        <3> HIDE DEF s
        <3>8. WindowInv(s.sm) /\ DOMAIN s.sm.chunk_to_index = {}
            BY <3>7, NewWindow
        <3>9. Rest(k + 1)
            <4> HIDE DEF p, rest
            <4> QED
                BY <2>1, <2>5
        <3> HIDE DEF Rest
        <3>10. /\ QueueInv'
               /\ \A j \in 1 .. Len(pending') :
                     /\ \A i \in 1 .. k + 1 : pending'[j].file # queue[i].file
                     /\ pending'[j].file \in Files
                     /\ outcomes'[pending'[j].file] = <<>> /\ pending'[j].file \notin c
               /\ \A i \in 1 .. len : i \in 1 .. k => Left(queue[i].file)'
               /\ \A i \in 1 .. len : i > k + 1 => Tracked(queue[i].file)'
            BY <1>9, <2>3, <3>9
        <3>11. \A j \in 1 .. Len(pending') : pending'[j].file # s.file
            <4>1. k + 1 \in 1 .. k + 1
                BY <1>3
            <4> QED
                BY <4>1, <3>7, <3>10
        <3>12. SlotOK'
            BY <2>5, <3>7, <3>8, <3>11 DEF SlotOK
        <3>13. outcomes'[s.file] = <<>> /\ s.file \notin c
            <4>1. \A i \in 1 .. k : queue[i].file # s.file
                <5>1. \A i \in 1 .. k : i \in 1 .. len /\ i # k + 1
                    BY <1>3
                <5> QED
                    BY <5>1, <1>5, <2>3, <3>7
            <4>2. out[s.file] = <<>> /\ s.file \notin c
                BY <1>4, <2>3, <3>7
            <4> QED
                BY <1>6, <3>2, <3>7, <4>1, <4>2
        <3>14. ASSUME NEW f \in Files, Tracked(f)' PROVE ~Left(f)'
            <4>1. CASE \E j \in 1 .. Len(pending') : pending'[j].file = f
                BY <4>1, <1>7, <3>10
            <4>2. CASE s.file = f
                BY <4>2, <1>7, <3>13
            <4> QED
                BY <4>1, <4>2, <3>14, <2>5 DEF Tracked
        <3>15. OutcomesInv'
            BY <1>6, <1>8, <3>14 DEF OutcomesInv
        <3>16. FilesInv'
            BY <2>2, <3>5, <3>10, <3>12, <3>15 DEF FilesInv
        <3>17. \A t \in sending' : Awaited(net', t) /\ ChunksAwaited(net', t)
            BY <2>5, <3>5, <3>7, <3>8 DEF Awaited, ChunksAwaited
        <3>18. ASSUME NEW i \in 1 .. len
               PROVE  Tracked(queue[i].file)' \/ Left(queue[i].file)'
            <4>1. i \in 1 .. k \/ i > k + 1 \/ i = k + 1
                BY <1>1, <1>3
            <4>2. CASE i = k + 1
                BY <2>5, <3>7, <4>2 DEF Tracked
            <4> QED
                BY <3>10, <4>1, <4>2
        <3> QED
            BY <1>8, <3>16, <3>17, <3>18 DEF len
    <2> QED
        BY <1>12, <2>4, <2>5 DEF Offer
<1> QED
    BY <1>2, <1>11, <1>12

\* What is in the slot after the step has its request, and no chunk sent.
FreshSlot == \A s \in sending' : Awaited(net', s) /\ ChunksAwaited(net', s)

(***************************************************************************)
(* A handler that calls send_next once the file of the slot has its fate.  *)
(***************************************************************************)
LEMMA NextFileMove ==
    ASSUME FilesInv, NEW n, NetOK(n), entry = "Occupied",
           NEW out \in [Files -> Seq(Outcomes)], NEW c \in SUBSET Files,
           \A f \in Files : Len(out[f]) <= 1 /\ (f \in c => out[f] = <<>>),
           \A i \in 1 .. Len(pending) : /\ out[pending[i].file] = <<>>
                                        /\ pending[i].file \notin c,
           \A s \in sending : out[s.file] # <<>> \/ s.file \in c,
           SendNext(pending, out, n), cancelled' = c
    PROVE  FilesInv' /\ KeepsFiles /\ FreshSlot
<1>0. PICK q : q = pending
    OBVIOUS
<1>1. /\ q \in Seq(PendingFiles)
      /\ \A i, j \in 1 .. Len(q) : q[i].file = q[j].file => i = j
      /\ \A i \in 1 .. Len(q) : out[q[i].file] = <<>> /\ q[i].file \notin c
      /\ SendNext(q, out, n)
    BY <1>0 DEF FilesInv, QueueInv
<1>2. /\ FilesInv'
      /\ \A s \in sending' : Awaited(net', s) /\ ChunksAwaited(net', s)
      /\ \A f \in Files : out[f] # <<>> \/ f \in c => Left(f)'
      /\ \A i \in 1 .. Len(q) :
            \/ Tracked(q[i].file)' \/ Left(q[i].file)'
            \/ /\ "ContinueTransfer" \in FailingSends /\ sending' = {}
               /\ q[i].status = "Interrupted"
    BY <1>1, SendNextMove
<1>3. KeepsFiles
    <2> SUFFICES ASSUME NEW f \in Files, Tracked(f)
                 PROVE  (Tracked(f) \/ Left(f))' \/ ContinueTransferNotSent(f)
        BY DEF KeepsFiles
    <2>1. CASE \E i \in 1 .. Len(pending) : pending[i].file = f
        <3>1. PICK i \in 1 .. Len(q) : q[i].file = f
            BY <2>1, <1>0
        <3>2. CASE q[i].status = "Interrupted" /\ "ContinueTransfer" \in FailingSends
                      /\ sending' = {}
            BY <1>0, <3>1, <3>2 DEF ContinueTransferNotSent
        <3> QED
            BY <1>2, <3>1, <3>2
    <2>2. CASE \E s \in sending : s.file = f
        <3>1. PICK s \in sending : s.file = f
            BY <2>2
        <3> QED
            BY <3>1, <1>2
    <2> QED
        BY <2>1, <2>2 DEF Tracked
<1> QED
    BY <1>2, <1>3 DEF FreshSlot

LEMMA Untouched ==
    ASSUME FilesInv
    PROVE  /\ outcomes \in [Files -> Seq(Outcomes)] /\ cancelled \in SUBSET Files
           /\ \A f \in Files : /\ Len(outcomes[f]) <= 1
                               /\ f \in cancelled => outcomes[f] = <<>>
           /\ \A i \in 1 .. Len(pending) :
                 /\ pending[i].file \in Files
                 /\ outcomes[pending[i].file] = <<>> /\ pending[i].file \notin cancelled
           /\ \A s \in sending :
                 /\ s.file \in Files /\ s \in Transfers /\ WindowInv(s.sm)
                 /\ outcomes[s.file] = <<>> /\ s.file \notin cancelled
                 /\ \A i \in 1 .. Len(pending) : pending[i].file # s.file
                 /\ entry = "Occupied" /\ \A t \in sending : t = s
                 /\ \A id \in DOMAIN s.sm.chunk_to_index : id \in Nat /\ id < net.nextId
<1>1. OutcomesInv /\ QueueInv /\ SlotOK /\ EntryInv
    BY DEF FilesInv
<1>2. \A i \in 1 .. Len(pending) : pending[i].file \in Files
    <2>1. \A i \in 1 .. Len(pending) : pending[i] \in PendingFiles
        BY <1>1 DEF QueueInv
    <2> QED
        BY <2>1 DEF PendingFiles
<1>3. \A s \in sending : s.file \in Files /\ s.sm \in SendManagers
    BY <1>1 DEF SlotOK, Transfers
<1>4. \A f \in Files : Tracked(f) => outcomes[f] = <<>> /\ f \notin cancelled
    BY <1>1 DEF OutcomesInv, Left
<1>5. \A i \in 1 .. Len(pending) : Tracked(pending[i].file)
    BY DEF Tracked
<1>6. \A s \in sending : Tracked(s.file)
    BY DEF Tracked
<1>7. \A s \in sending : \A id \in DOMAIN s.sm.chunk_to_index : id \in Nat
    BY <1>3, IndexMapFacts DEF SendManagers
<1>8. /\ outcomes \in [Files -> Seq(Outcomes)] /\ cancelled \in SUBSET Files
      /\ \A f \in Files : /\ Len(outcomes[f]) <= 1
                          /\ f \in cancelled => outcomes[f] = <<>>
    BY <1>1 DEF OutcomesInv
<1>9. ASSUME NEW s \in sending
      PROVE  /\ s \in Transfers /\ WindowInv(s.sm) /\ entry = "Occupied"
             /\ \A i \in 1 .. Len(pending) : pending[i].file # s.file
             /\ \A t \in sending : t = s
             /\ \A id \in DOMAIN s.sm.chunk_to_index : id < net.nextId
    BY <1>1 DEF SlotOK, EntryInv
<1> QED
    BY <1>2, <1>3, <1>4, <1>5, <1>6, <1>7, <1>8, <1>9

(***************************************************************************)
(* complete_file: the file of the slot has its one outcome.                *)
(***************************************************************************)
LEMMA CompleteMove ==
    ASSUME FilesInv, NEW n, After(n), NEW s \in sending, NEW outcome \in Outcomes,
           CompleteFile(s.file, outcome, n), cancelled' = cancelled
    PROVE  FilesInv' /\ KeepsFiles /\ FreshSlot
<1> DEFINE out == [outcomes EXCEPT ![s.file] = Append(@, outcome)]
<1>1. /\ outcomes[s.file] = <<>> /\ s.file \in Files /\ s.file \notin cancelled
      /\ outcomes \in [Files -> Seq(Outcomes)] /\ cancelled \in SUBSET Files
      /\ entry = "Occupied"
    BY Untouched
<1>2. /\ out[s.file] \in Seq(Outcomes) /\ Len(out[s.file]) = 1 /\ out[s.file] # <<>>
    <2>1. out[s.file] = Append(<<>>, outcome)
        BY <1>1
    <2> QED
        BY <2>1, OneOutcome
<1>3. \A f \in Files : f # s.file => out[f] = outcomes[f]
    BY <1>1
<1>4. out = [f \in Files |-> out[f]]
    BY <1>1
<1>5. SendNext(pending, out, n)
    BY DEF CompleteFile
<1> HIDE DEF out
<1>6. out \in [Files -> Seq(Outcomes)]
    <2>1. \A f \in Files : out[f] \in Seq(Outcomes)
        BY <1>1, <1>2, <1>3
    <2> QED
        BY <1>4, <2>1
<1>7. \A f \in Files : Len(out[f]) <= 1 /\ (f \in cancelled => out[f] = <<>>)
    <2> TAKE f \in Files
    <2>1. CASE f = s.file
        BY <2>1, <1>1, <1>2
    <2>2. CASE f # s.file
        BY <2>2, <1>3, Untouched
    <2> QED
        BY <2>1, <2>2
<1>8. \A i \in 1 .. Len(pending) : /\ out[pending[i].file] = <<>>
                                   /\ pending[i].file \notin cancelled
    BY <1>3, Untouched
<1>9. \A t \in sending : out[t.file] # <<>> \/ t.file \in cancelled
    BY <1>2, Untouched
<1> QED
    BY <1>1, <1>5, <1>6, <1>7, <1>8, <1>9, NextFileMove DEF After

(***************************************************************************)
(* send_next when the slot is empty.                                       *)
(***************************************************************************)
LEMMA StartMove ==
    ASSUME FilesInv, NEW n, After(n), sending = {}, entry = "Occupied",
           SendNext(pending, outcomes, n), cancelled' = cancelled
    PROVE  FilesInv' /\ KeepsFiles /\ FreshSlot
BY Untouched, NextFileMove DEF After

(***************************************************************************)
(* A cancel of the file of the slot.                                       *)
(***************************************************************************)
LEMMA CancelSlotMove ==
    ASSUME FilesInv, NEW n, After(n), NEW s \in sending,
           SendNext(pending, outcomes, n), cancelled' = cancelled \cup {s.file}
    PROVE  FilesInv' /\ KeepsFiles /\ FreshSlot
<1> DEFINE c == cancelled \cup {s.file}
<1>1. c \in SUBSET Files /\ entry = "Occupied" /\ outcomes \in [Files -> Seq(Outcomes)]
    BY Untouched
<1>2. \A f \in Files : Len(outcomes[f]) <= 1 /\ (f \in c => outcomes[f] = <<>>)
    BY Untouched
<1>3. \A i \in 1 .. Len(pending) : /\ outcomes[pending[i].file] = <<>>
                                   /\ pending[i].file \notin c
    BY Untouched
<1>4. \A t \in sending : outcomes[t.file] # <<>> \/ t.file \in c
    BY Untouched
<1> HIDE DEF c
<1> QED
    BY <1>1, <1>2, <1>3, <1>4, NextFileMove DEF After, c

(***************************************************************************)
(* A cancel of files in the queue.                                         *)
(***************************************************************************)
LEMMA CancelQueueMove ==
    ASSUME FilesInv, NEW fs, \A s \in sending : s.file \notin fs,
           pending' = Without(pending, fs),
           cancelled' = cancelled \cup
               {pending[i].file : i \in {j \in 1 .. Len(pending) : pending[j].file \in fs}},
           UNCHANGED <<entry, sending, net, outcomes>>
    PROVE  FilesInv' /\ KeepsFiles
<1> DEFINE gone == {pending[i].file : i \in {j \in 1 .. Len(pending) : pending[j].file \in fs}}
<1>1. /\ pending \in Seq(PendingFiles)
      /\ \A i, j \in 1 .. Len(pending) : pending[i].file = pending[j].file => i = j
    BY DEF FilesInv, QueueInv
<1>2. /\ pending' \in Seq(PendingFiles)
      /\ \A i, j \in 1 .. Len(pending') : pending'[i].file = pending'[j].file => i = j
      /\ \A k \in 1 .. Len(pending') : /\ pending'[k].file \notin fs
                                       /\ \E i \in 1 .. Len(pending) : pending'[k] = pending[i]
      /\ \A i \in 1 .. Len(pending) :
            pending[i].file \notin fs => \E k \in 1 .. Len(pending') : pending'[k] = pending[i]
    <2> HIDE DEF gone
    <2> DEFINE kept == Without(pending, fs)
    <2>1. /\ kept \in Seq(PendingFiles)
          /\ \A i, j \in 1 .. Len(kept) : kept[i].file = kept[j].file => i = j
          /\ \A k \in 1 .. Len(kept) : /\ kept[k].file \notin fs
                                       /\ \E i \in 1 .. Len(pending) : kept[k] = pending[i]
          /\ \A i \in 1 .. Len(pending) :
                pending[i].file \notin fs => \E k \in 1 .. Len(kept) : kept[k] = pending[i]
        BY <1>1, WithoutFacts, Zenon
    <2>2. pending' = kept
        OBVIOUS
    <2> HIDE DEF kept
    <2> QED
        BY <2>1, <2>2, SMTT(30)
<1>3. /\ \A f \in gone : f \in fs /\ \E i \in 1 .. Len(pending) : pending[i].file = f
      /\ \A i \in 1 .. Len(pending) : pending[i].file \in fs => pending[i].file \in gone
    OBVIOUS
<1> HIDE DEF gone
<1>4. cancelled' = cancelled \cup gone
    BY DEF gone
<1>5. QueueInv' /\ NetOK(net)'
    BY <1>2 DEF QueueInv, FilesInv
<1>6. SlotOK'
    <2>1. \A s \in sending : \A k \in 1 .. Len(pending') : pending'[k].file # s.file
        <3> TAKE s \in sending
        <3> TAKE k \in 1 .. Len(pending')
        <3>1. PICK i \in 1 .. Len(pending) : pending'[k] = pending[i]
            BY <1>2
        <3> QED
            BY <3>1, Untouched
    <2> QED
        BY <2>1 DEF SlotOK, FilesInv
<1>7. EntryInv'
    <2>1. entry = "Vacant" => pending' = <<>>
        <3> SUFFICES ASSUME entry = "Vacant" PROVE pending' = <<>>
            OBVIOUS
        <3>1. Len(pending) = 0
            BY DEF FilesInv, EntryInv
        <3>2. Len(pending') = 0
            BY <1>2, <3>1
        <3> QED
            BY <1>2, <3>2
    <2> QED
        BY <2>1 DEF EntryInv, FilesInv
<1>8. OutcomesInv'
    <2>1. gone \subseteq Files /\ \A f \in gone : outcomes[f] = <<>>
        BY <1>3, Untouched
    <2>2. ASSUME NEW f \in Files, Left(f)' PROVE ~Tracked(f)'
        <3>1. CASE f \in gone
            <4>1. \A k \in 1 .. Len(pending') : pending'[k].file # f
                BY <3>1, <1>2, <1>3
            <4>2. \A s \in sending : s.file # f
                BY <3>1, <1>3
            <4> QED
                BY <4>1, <4>2 DEF Tracked
        <3>2. CASE f \notin gone
            <4>1. Left(f)
                BY <2>2, <3>2, <1>4 DEF Left
            <4>2. ~Tracked(f)
                BY <4>1 DEF FilesInv, OutcomesInv
            <4>3. \A k \in 1 .. Len(pending') : pending'[k].file # f
                <5> TAKE k \in 1 .. Len(pending')
                <5>1. PICK i \in 1 .. Len(pending) : pending'[k] = pending[i]
                    BY <1>2
                <5> QED
                    BY <5>1, <4>2 DEF Tracked
            <4> QED
                BY <4>2, <4>3 DEF Tracked
        <3> QED
            BY <3>1, <3>2
    <2> QED
        BY <1>4, <2>1, <2>2, Untouched DEF OutcomesInv
<1>9. KeepsFiles
    <2> SUFFICES ASSUME NEW f \in Files, Tracked(f)
                 PROVE  (Tracked(f) \/ Left(f))'
        BY DEF KeepsFiles
    <2>1. CASE \E s \in sending : s.file = f
        BY <2>1 DEF Tracked
    <2>2. CASE \E i \in 1 .. Len(pending) : pending[i].file = f
        <3>1. PICK i \in 1 .. Len(pending) : pending[i].file = f
            BY <2>2
        <3>2. CASE f \in fs
            BY <3>1, <3>2, <1>3, <1>4 DEF Left
        <3>3. CASE f \notin fs
            BY <3>1, <3>3, <1>2 DEF Tracked
        <3> QED
            BY <3>2, <3>3
    <2> QED
        BY <2>1, <2>2 DEF Tracked
<1> QED
    BY <1>5, <1>6, <1>7, <1>8, <1>9 DEF FilesInv

(***************************************************************************)
(* A file the brain adds.                                                  *)
(***************************************************************************)
LEMMA AddMove ==
    ASSUME FilesInv, NEW f \in Files, ~Tracked(f), ~Left(f), NEW p \in PendingFiles,
           p.file = f, pending' = Append(pending, p), entry' = "Occupied",
           UNCHANGED <<sending, net, outcomes, cancelled>>
    PROVE  FilesInv' /\ KeepsFiles
<1> DEFINE last == Len(pending) + 1
<1>1. /\ pending \in Seq(PendingFiles) /\ Len(pending) \in Nat
      /\ \A i, j \in 1 .. Len(pending) : pending[i].file = pending[j].file => i = j
      /\ \A i \in 1 .. Len(pending) : pending[i].file # f
      /\ \A s \in sending : s.file # f
    BY DEF FilesInv, QueueInv, Tracked
<1>2. /\ pending' \in Seq(PendingFiles) /\ Len(pending') = last
      /\ pending'[last] = p
      /\ \A i \in 1 .. Len(pending) : pending'[i] = pending[i]
    BY <1>1
<1>3. /\ \A i \in 1 .. last : i \in 1 .. Len(pending) \/ i = last
      /\ \A i \in 1 .. Len(pending) : i \in 1 .. last
    BY <1>1
<1> HIDE DEF last
<1>4. QueueInv' /\ NetOK(net)' /\ EntryInv'
    BY <1>1, <1>2, <1>3 DEF QueueInv, FilesInv, EntryInv
<1>5. SlotOK'
    BY <1>1, <1>2, <1>3 DEF SlotOK, FilesInv
<1>6. \A g : Left(g)' <=> Left(g)
    BY DEF Left
<1>7. \A g : Tracked(g)' => Tracked(g) \/ g = f
    <2> SUFFICES ASSUME NEW g, Tracked(g)', g # f PROVE Tracked(g)
        OBVIOUS
    <2>1. CASE \E s \in sending : s.file = g
        BY <2>1 DEF Tracked
    <2>2. CASE \E i \in 1 .. last : pending'[i].file = g
        BY <2>2, <1>2, <1>3 DEF Tracked
    <2> QED
        BY <2>1, <2>2, <1>2 DEF Tracked
<1>8. \A g : Tracked(g) => Tracked(g)'
    <2> SUFFICES ASSUME NEW g, Tracked(g) PROVE Tracked(g)'
        OBVIOUS
    <2>1. CASE \E s \in sending : s.file = g
        BY <2>1 DEF Tracked
    <2>2. CASE \E i \in 1 .. Len(pending) : pending[i].file = g
        BY <2>2, <1>2, <1>3 DEF Tracked
    <2> QED
        BY <2>1, <2>2 DEF Tracked
<1>9. OutcomesInv'
    BY <1>6, <1>7 DEF OutcomesInv, FilesInv
<1> QED
    BY <1>4, <1>5, <1>8, <1>9 DEF FilesInv, KeepsFiles

-----------------------------------------------------------------------------
(* Tasks, and what the transfer in the slot waits for. *)

\* What NoFileVanishes says of a step.
LosesNoFile ==
    \A f \in Files : Tracked(f) =>
        \/ (Tracked(f) \/ Left(f))'
        \/ ContinueTransferNotSent(f) \/ ChunkRejectedEarly(f)

\* What every step of the tracker has to show.
StepOK == FilesInv' /\ TasksOK' /\ WaitInv' /\ LosesNoFile

LEMMA KeepsIsEnough ==
    ASSUME KeepsFiles PROVE LosesNoFile
BY DEF KeepsFiles, LosesNoFile

LEMMA LoopIsTask ==
    ASSUME NEW who \in Contacts
    PROVE  /\ LoopOf(who) \in Tasks
           /\ who = "target" => LoopOf(who) = "LoopTarget"
           /\ who # "target" => LoopOf(who) = "LoopOther"
BY DEF LoopOf, Tasks

LEMMA GoesOK ==
    ASSUME TasksOK, NEW t \in Tasks, Goes(t)
    PROVE  /\ TasksOK' /\ tasks'[t] > 0
           /\ \A u \in Tasks : tasks[u] > 0 => tasks'[u] > 0
<1>1. tasks' = [tasks EXCEPT ![t] = @ + 1] /\ tasks \in [Tasks -> Nat]
    BY DEF Goes, TasksOK
<1>2. \A u \in Tasks : tasks[u] \in Nat /\ tasks'[u] = IF u = t THEN tasks[u] + 1 ELSE tasks[u]
    BY <1>1
<1>3. tasks' \in [Tasks -> Nat]
    BY <1>1
<1> QED
    BY <1>2, <1>3 DEF TasksOK

LEMMA EndsOK ==
    ASSUME TasksOK, NEW t \in Tasks, tasks[t] > 0, Ends(t)
    PROVE  TasksOK' /\ \A u \in Tasks : u # t => tasks'[u] = tasks[u]
<1>1. tasks' = [tasks EXCEPT ![t] = @ - 1] /\ tasks \in [Tasks -> Nat]
    BY DEF Ends, TasksOK
<1>2. tasks[t] \in Nat
    BY <1>1
<1>3. tasks[t] - 1 \in Nat
    BY <1>2
<1>4. tasks' \in [Tasks -> Nat]
    BY <1>1, <1>3
<1> QED
    BY <1>1, <1>4 DEF TasksOK

(***************************************************************************)
(* Ways for a step to leave nobody waiting for nothing.                    *)
(***************************************************************************)
LEMMA NobodyWaits ==
    /\ sending' = {} => WaitInv'
    /\ service' # "Running" => WaitInv'
    /\ FreshSlot => WaitInv'
    /\ Resetting' => WaitInv'
<1>1. sending' = {} => WaitInv'
    BY DEF WaitInv
<1>2. service' # "Running" => WaitInv'
    BY DEF WaitInv
<1>3. FreshSlot => WaitInv'
    BY DEF WaitInv, FreshSlot, Awaited, ChunksAwaited
<1>4. Resetting' => WaitInv'
    BY DEF WaitInv
<1> QED
    BY <1>1, <1>2, <1>3, <1>4

LEMMA ResetGoes ==
    ASSUME TasksOK, NEW t \in ResetTasks, Goes(t)
    PROVE  TasksOK' /\ Resetting' /\ WaitInv'
<1>1. t \in Tasks
    BY DEF Tasks, ResetTasks
<1>2. TasksOK' /\ tasks'[t] > 0
    BY <1>1, GoesOK
<1>3. Resetting'
    BY <1>2 DEF Resetting
<1> QED
    BY <1>2, <1>3, NobodyWaits

LEMMA ResettingGoesOn ==
    ASSUME TasksOK, NEW t \in Tasks, Goes(t), Resetting
    PROVE  Resetting'
<1>1. ResetTasks \subseteq Tasks
    BY DEF Tasks, ResetTasks
<1> QED
    BY <1>1, GoesOK DEF Resetting

LEMMA TasksStay ==
    ASSUME TasksOK, UNCHANGED tasks
    PROVE  TasksOK' /\ (Resetting' <=> Resetting) /\ \A s : Looping(s)' <=> Looping(s)
BY DEF TasksOK, Resetting, Looping

\* The registry n after a response to r: the other requests are as they were.
Settles(n, r) == After(n) /\ net.registry \ {r} \subseteq n.registry

LEMMA AfterResponseOK ==
    ASSUME NetOK(net), NEW r \in net.registry, NEW n \in AfterResponse(r)
    PROVE  Settles(n, r)
<1>1. CASE n = Answered(r)
    BY <1>1, AnsweredOK DEF Settles
<1>2. CASE n = Failed(r)
    <2>1. After(Failed(r))
        BY MarkedOK DEF Failed
    <2>2. net = [registry |-> net.registry, nextId |-> net.nextId]
        BY DEF NetOK
    <2>3. net.registry \ {r} \subseteq Failed(r).registry
        BY <2>2 DEF Failed, Marked
    <2> QED
        BY <1>2, <2>1, <2>3 DEF Settles
<1> QED
    BY <1>1, <1>2 DEF AfterResponse

(***************************************************************************)
(* A response to another request does not change what a chunk waits for.   *)
(***************************************************************************)
LEMMA AnswerKeepsChunks ==
    ASSUME NEW r \in net.registry, NEW s, NEW v, v.attempt = s.attempt,
           DOMAIN v.sm.chunk_to_index \subseteq DOMAIN s.sm.chunk_to_index,
           ChunksAwaited(net, s),
           r.kind = "Chunk" => r.id \notin DOMAIN v.sm.chunk_to_index,
           NEW n, Settles(n, r)
    PROVE  ChunksAwaited(n, v)
<1>1. net.registry \ {r} \subseteq n.registry
    BY DEF Settles
<1> SUFFICES ASSUME NEW id \in DOMAIN v.sm.chunk_to_index
             PROVE  \E q \in n.registry :
                        /\ q.id = id /\ q.kind = "Chunk"
                        /\ q.attempt = v.attempt /\ q.state = "Open"
    BY DEF ChunksAwaited
<1>2. PICK q \in net.registry : /\ q.id = id /\ q.kind = "Chunk"
                                /\ q.attempt = s.attempt /\ q.state = "Open"
    BY DEF ChunksAwaited
<1>3. q # r
    BY <1>2
<1> QED
    BY <1>1, <1>2, <1>3

(***************************************************************************)
(* An answer that belongs to no attempt leaves the transfer as it waits.   *)
(***************************************************************************)
LEMMA OtherAnswerKeepsWait ==
    ASSUME IInv, service = "Running", NEW r \in net.registry, r.attempt = NoAttempt,
           NEW n, Settles(n, r), Ignore(n), UNCHANGED <<tasks, service>>
    PROVE  WaitInv'
<1>1. FilesInv /\ NetOK(net) /\ TasksOK
    BY DEF IInv, FilesInv, TasksOK
<1>2. net.registry \ {r} \subseteq net'.registry /\ sending' = sending
    BY DEF Ignore, Settles
<1>3. \A s \in sending : s.attempt # NoAttempt
    BY <1>1, Untouched DEF Transfers, Attempts, NoAttempt
<1>4. \A s \in sending : ChunksAwaited(net, s) => ChunksAwaited(net', s)
    BY <1>2, <1>3 DEF ChunksAwaited
<1>5. \A s \in sending : Awaited(net, s) => Awaited(net', s)
    BY <1>2, <1>3 DEF Awaited
<1>6. (Resetting' <=> Resetting) /\ \A s : Looping(s)' <=> Looping(s)
    BY <1>1, TasksStay
<1>7. \A s \in sending :
          Resetting \/ (ChunksAwaited(net, s) /\ (Awaited(net, s) \/ Looping(s)))
    BY DEF IInv, WaitInv
<1>8. \A s \in sending' :
          Resetting' \/ (ChunksAwaited(net', s) /\ (Awaited(net', s) \/ Looping(s)'))
    BY <1>2, <1>4, <1>5, <1>6, <1>7
<1> QED
    BY <1>8 DEF WaitInv, ChunksAwaited, Awaited, Looping

-----------------------------------------------------------------------------
(* receive_response, arm by arm. *)

LEMMA Parts ==
    ASSUME IInv
    PROVE  FilesInv /\ NetOK(net) /\ TasksOK /\ WaitInv /\ After(net) /\ net.nextId \in Nat
BY NetStays DEF IInv, TasksOK, FilesInv

LEMMA UnexpectedStep ==
    ASSUME IInv, NEW n, After(n), Unexpected(n), UNCHANGED <<cancelled, service>>
    PROVE  StepOK
<1>1. CASE /\ entry = "Vacant"
           /\ \E m \in Send(n, "ProtocolViolation", NoAttempt) : Ignore(m)
           /\ UNCHANGED tasks
    <2>1. PICK m \in Send(n, "ProtocolViolation", NoAttempt) : Ignore(m)
        BY <1>1
    <2>2. After(m)
        BY Parts, SendOK
    <2>3. FilesInv' /\ KeepsFiles
        BY <2>1, <2>2, Parts, IgnoreMove
    <2>4. sending' = {}
        BY <1>1, <2>1, Parts DEF Ignore, FilesInv, EntryInv
    <2> QED
        BY <1>1, <2>3, <2>4, Parts, TasksStay, NobodyWaits, KeepsIsEnough DEF StepOK
<1>2. CASE /\ entry = "Occupied" /\ sending = {}
           /\ Ignore(n)
           /\ Goes("ResetOnProtocolViolation")
    <2>1. FilesInv' /\ KeepsFiles
        BY <1>2, Parts, IgnoreMove
    <2>2. TasksOK' /\ WaitInv'
        BY <1>2, Parts, ResetGoes DEF ResetTasks
    <2> QED
        BY <2>1, <2>2, KeepsIsEnough DEF StepOK
<1> QED
    BY <1>1, <1>2 DEF Unexpected

LEMMA HangsStep ==
    ASSUME IInv, NEW n, After(n), Hangs(n), cancelled' = cancelled
    PROVE  StepOK
<1>1. Ignore(n) /\ service' = "Stuck" /\ UNCHANGED tasks
    BY DEF Hangs
<1>2. FilesInv' /\ KeepsFiles
    BY <1>1, Parts, IgnoreMove
<1> QED
    BY <1>1, <1>2, Parts, TasksStay, NobodyWaits, KeepsIsEnough DEF StepOK

LEMMA StopStep ==
    ASSUME IInv, NEW n, After(n), NEW s \in sending, NEW v \in Transfers,
           v.file = s.file, ResetAndStop(v, n), cancelled' = cancelled, TasksOK'
    PROVE  StepOK
<1>1. FilesInv' /\ KeepsFiles /\ sending' = {}
    BY Parts, StopMove
<1> QED
    BY <1>1, NobodyWaits, KeepsIsEnough DEF StepOK

LEMMA CompleteStep ==
    ASSUME IInv, NEW n, After(n), NEW s \in sending, NEW outcome \in Outcomes,
           CompleteFile(s.file, outcome, n), cancelled' = cancelled, TasksOK'
    PROVE  StepOK
<1>1. FilesInv' /\ KeepsFiles /\ FreshSlot
    BY Parts, CompleteMove
<1> QED
    BY <1>1, NobodyWaits, KeepsIsEnough DEF StepOK

LEMMA NotVerifiedStep ==
    ASSUME IInv, NEW n, After(n), NEW s \in sending, NEW who, NotVerified(s, who, n),
           cancelled' = cancelled
    PROVE  StepOK
<1>1. CASE Hangs(n)
    BY <1>1, HangsStep
<1>2. CASE ResetAndStop(s, n) /\ UNCHANGED tasks
    BY <1>2, Parts, TasksStay, StopStep, Untouched
<1> QED
    BY <1>1, <1>2 DEF NotVerified

LEMMA NotExpectedStep ==
    ASSUME IInv, NEW n, After(n), NEW s \in sending, NEW v \in Transfers,
           v.file = s.file, WindowInv(v.sm),
           \A id \in DOMAIN v.sm.chunk_to_index : id < n.nextId,
           NotExpectedNow(v, n), cancelled' = cancelled
    PROVE  StepOK
<1>1. FilesInv' /\ KeepsFiles
    BY Parts, SlotMove DEF NotExpectedNow
<1>2. TasksOK' /\ WaitInv'
    BY Parts, ResetGoes DEF NotExpectedNow, ResetTasks
<1> QED
    BY <1>1, <1>2, KeepsIsEnough DEF StepOK

\* v is the transfer s, with another status, progress or verification.
SameTransfer(v, s) ==
    /\ v \in Transfers /\ v.file = s.file /\ v.attempt = s.attempt
    /\ WindowInv(v.sm) /\ v.sm.chunk_to_index = s.sm.chunk_to_index

LEMMA VerifiedOK ==
    ASSUME FilesInv, NEW s \in sending, NEW who, NEW v \in Verified(s, who)
    PROVE  SameTransfer(v, s) /\ Unlocks(v, who)
<1>1. s \in Transfers /\ WindowInv(s.sm)
    BY Untouched
<1>2. PICK brain \in BrainAnswers \ {"Err"} :
          ~VerificationFailed(brain, who) /\ v = AfterVerification(s, brain)
    BY DEF Verified
<1>3. brain \in {"Known", "Unknown"}
    BY <1>2, FileTrackerAssumption
<1>4. CASE brain = "Unknown"
    <2>1. v = [s EXCEPT !.verify = "Free"]
        BY <1>2, <1>4 DEF AfterVerification
    <2>2. /\ v \in Transfers /\ v.file = s.file /\ v.attempt = s.attempt /\ v.sm = s.sm
          /\ v.verify = "Free"
        BY <1>1, <2>1 DEF Transfers
    <2> QED
        BY <1>1, <2>2 DEF SameTransfer, Unlocks
<1>5. CASE brain = "Known"
    <2>1. v = s /\ who = "target"
        BY <1>2, <1>5 DEF AfterVerification, VerificationFailed
    <2> QED
        BY <1>1, <2>1 DEF SameTransfer, Unlocks
<1> QED
    BY <1>3, <1>4, <1>5

LEMMA ContinueAtOK ==
    ASSUME NEW s, NEW v, SameTransfer(v, s), NEW offset \in Nat, NEW who, Unlocks(v, who)
    PROVE  SameTransfer(ContinueAt(v, offset), s) /\ Unlocks(ContinueAt(v, offset), who)
<1> DEFINE w == ContinueAt(v, offset)
           sm == SetProgress(v.sm, offset)
<1>1. CASE v.status # "Prepared"
    BY <1>1 DEF ContinueAt
<1>2. CASE v.status = "Prepared"
    <2>1. w = [v EXCEPT !.progress = offset, !.sm = sm]
        BY <1>2 DEF ContinueAt
    <2>2. v.sm \in SendManagers /\ v \in Transfers /\ WindowInv(v.sm)
        BY DEF SameTransfer, Transfers
    <2>3. sm \in SendManagers /\ WindowInv(sm) /\ sm.chunk_to_index = v.sm.chunk_to_index
        BY <2>2, SetProgressKeepsWindow
    <2> HIDE DEF sm, w
    <2>4. /\ w \in Transfers /\ w.file = v.file /\ w.attempt = v.attempt /\ w.sm = sm
          /\ w.verify = v.verify
        BY <2>1, <2>2, <2>3 DEF Transfers
    <2>5. SameTransfer(w, s) /\ Unlocks(w, who)
        BY <2>3, <2>4 DEF SameTransfer, Unlocks
    <2> QED
        BY <2>5 DEF w
<1> QED
    BY <1>1, <1>2

(***************************************************************************)
(* start_sending_from_prepare: a loop goes on with the transfer, and its   *)
(* chunks, if a stale loop sent some, are waited for as before.            *)
(***************************************************************************)
LEMMA StartSendingStep ==
    ASSUME IInv, service = "Running", NEW r \in net.registry, r.kind # "Chunk",
           NEW s \in sending, NEW v, SameTransfer(v, s), NEW who \in Contacts,
           Unlocks(v, who), NEW n, Settles(n, r), StartSending(v, n, who),
           UNCHANGED <<cancelled, service>>
    PROVE  StepOK
<1>1. After(n) /\ n.nextId \in Nat /\ net.nextId <= n.nextId
    BY DEF Settles, After, NetOK
<1>2. /\ v \in Transfers /\ v.file = s.file /\ v.attempt = s.attempt
      /\ WindowInv(v.sm) /\ v.sm.chunk_to_index = s.sm.chunk_to_index
    BY DEF SameTransfer
<1>3. \A id \in DOMAIN v.sm.chunk_to_index : id < n.nextId
    <2>1. \A id \in DOMAIN s.sm.chunk_to_index : id \in Nat /\ id < net.nextId
        BY Parts, Untouched
    <2>2. net.nextId \in Nat
        BY Parts
    <2> QED
        BY <1>1, <1>2, <2>1, <2>2
<1>4. CASE v.status # "Prepared" /\ NotExpectedNow(v, n)
    BY <1>1, <1>2, <1>3, <1>4, NotExpectedStep
<1>5. CASE /\ sending' = {[v EXCEPT !.status = "Sending"]}
           /\ net' = n
           /\ UNCHANGED <<entry, pending, outcomes>>
           /\ Goes(LoopOf(who))
    <2> DEFINE w == [v EXCEPT !.status = "Sending"]
    <2>1. /\ w \in Transfers /\ w.file = s.file /\ w.attempt = s.attempt /\ w.sm = v.sm
          /\ w.verify = v.verify
        BY <1>2 DEF Transfers
    <2>2. sending' = {w}
        BY <1>5
    <2> HIDE DEF w
    <2>3. FilesInv' /\ KeepsFiles
        BY <1>1, <1>2, <1>3, <1>5, <2>1, <2>2, Parts, SlotMove
    <2>4. TasksOK' /\ tasks'[LoopOf(who)] > 0
        BY <1>5, Parts, LoopIsTask, GoesOK
    <2>5. Looping(w)'
        BY <2>1, <2>4, LoopIsTask DEF Looping, Unlocks
    <2>6. WaitInv'
        <3>1. CASE Resetting
            BY <3>1, <1>5, Parts, LoopIsTask, ResettingGoesOn, NobodyWaits
        <3>2. CASE ~Resetting
            <4>1. ChunksAwaited(net, s)
                BY <3>2, Parts DEF WaitInv
            <4>2. ChunksAwaited(n, w)
                BY <1>2, <2>1, <4>1, Parts, AnswerKeepsChunks
            <4>3. ChunksAwaited(net', w)
                BY <1>5, <4>2
            <4> QED
                BY <2>2, <2>5, <4>3 DEF WaitInv, ChunksAwaited, Looping
        <3> QED
            BY <3>1, <3>2
    <2> QED
        BY <2>3, <2>4, <2>6, KeepsIsEnough DEF StepOK
<1> QED
    BY <1>4, <1>5 DEF StartSending

LEMMA RejectedByStep ==
    ASSUME IInv, NEW n, After(n), NEW who, RejectedBy(who, n), cancelled' = cancelled
    PROVE  StepOK
<1>1. PICK s \in sending :
          \/ NotVerified(s, who, n)
          \/ /\ CompleteFile(s.file, "Rejected", n)
             /\ UNCHANGED tasks
    BY DEF RejectedBy
<1>2. CASE NotVerified(s, who, n)
    BY <1>2, NotVerifiedStep
<1>3. CASE CompleteFile(s.file, "Rejected", n) /\ UNCHANGED tasks
    <2>1. "Rejected" \in Outcomes
        BY DEF Outcomes
    <2>2. TasksOK'
        BY <1>3, Parts, TasksStay
    <2> QED
        BY <1>3, <2>1, <2>2, CompleteStep
<1> QED
    BY <1>1, <1>2, <1>3

(***************************************************************************)
(* The ConfirmChunk arm: the chunk is taken out of the window, the others  *)
(* are still waited for, and a loop goes on.                               *)
(***************************************************************************)
LEMMA ConfirmChunkStep ==
    ASSUME IInv, service = "Running", NEW r \in net.registry, NEW who \in Contacts,
           ConfirmChunk(r, Answered(r), who), cancelled' = cancelled
    PROVE  StepOK
<1> DEFINE n == Answered(r)
<1>1. After(n) /\ n.nextId \in Nat /\ net.nextId <= n.nextId
    BY Parts, AnsweredOK DEF After, NetOK
<1>2. CASE Unexpected(n) /\ UNCHANGED service
    <2> HIDE DEF n
    <2> QED
        BY <1>1, <1>2, UnexpectedStep
<1>3. ASSUME NEW s \in sending, ResetAndStop(s, n), UNCHANGED tasks
      PROVE  StepOK
    <2> HIDE DEF n
    <2> QED
        BY <1>1, <1>3, Parts, TasksStay, StopStep, Untouched
<1>4. ASSUME NEW s \in sending
      PROVE  /\ s \in Transfers /\ s.sm \in SendManagers /\ WindowInv(s.sm)
             /\ \A id \in DOMAIN s.sm.chunk_to_index : id < n.nextId
    <2>1. /\ s \in Transfers /\ WindowInv(s.sm)
          /\ \A id \in DOMAIN s.sm.chunk_to_index : id \in Nat /\ id < net.nextId
        BY Parts, Untouched
    <2>2. net.nextId \in Nat
        BY Parts
    <2>3. \A id \in DOMAIN s.sm.chunk_to_index : id < n.nextId
        BY <1>1, <2>1, <2>2
    <2> QED
        BY <2>1, <2>3 DEF Transfers
<1>5. ASSUME NEW s \in sending, NotExpectedNow(s, n)
      PROVE  StepOK
    <2> HIDE DEF n
    <2> QED
        BY <1>1, <1>4, <1>5, NotExpectedStep
<1>6. ASSUME service' = "Aborted", Ignore(n), UNCHANGED tasks
      PROVE  StepOK
    <2> HIDE DEF n
    <2>1. FilesInv' /\ KeepsFiles
        BY <1>1, <1>6, Parts, IgnoreMove
    <2> QED
        BY <1>6, <2>1, Parts, TasksStay, NobodyWaits, KeepsIsEnough DEF StepOK
<1>7. ASSUME NEW s \in sending, Unlocks(s, who), CanMarkDone(s.sm, r.id),
             sending' = {[s EXCEPT !.sm = MarkDone(s.sm, r.id),
                                   !.progress = MarkDone(s.sm, r.id).progress]},
             net' = n, Goes(LoopOf(who)),
             UNCHANGED <<entry, pending, outcomes, service>>
      PROVE  StepOK
    <2> DEFINE sm == MarkDone(s.sm, r.id)
               w == [s EXCEPT !.sm = sm, !.progress = sm.progress]
    <2>1. /\ sm \in SendManagers /\ WindowInv(sm)
          /\ DOMAIN sm.chunk_to_index = DOMAIN s.sm.chunk_to_index \ {r.id}
        BY <1>4, <1>7, MarkDoneKeepsWindow
    <2>2. sending' = {w}
        BY <1>7
    <2> HIDE DEF sm
    <2>3. sm.progress \in Nat
        BY <2>1 DEF SendManagers
    <2>4. /\ w \in Transfers /\ w.file = s.file /\ w.attempt = s.attempt /\ w.sm = sm
          /\ w.verify = s.verify
        BY <1>4, <2>1, <2>3 DEF Transfers
    <2> HIDE DEF w
    <2>5. \A id \in DOMAIN w.sm.chunk_to_index : id < n.nextId
        BY <1>4, <2>1, <2>4
    <2>6. FilesInv' /\ KeepsFiles
        <3> HIDE DEF n
        <3> QED
            BY <1>1, <1>7, <2>1, <2>2, <2>4, <2>5, Parts, SlotMove
    <2>7. TasksOK' /\ tasks'[LoopOf(who)] > 0
        BY <1>7, Parts, LoopIsTask, GoesOK
    <2>8. Looping(w)'
        BY <1>7, <2>4, <2>7, LoopIsTask DEF Looping, Unlocks
    <2>9. WaitInv'
        <3>1. CASE Resetting
            BY <3>1, <1>7, Parts, LoopIsTask, ResettingGoesOn, NobodyWaits
        <3>2. CASE ~Resetting
            <4>1. ChunksAwaited(net, s)
                BY <3>2, Parts DEF WaitInv
            <4>2. ChunksAwaited(Answered(r), w)
                <5>1. Settles(Answered(r), r)
                    BY Parts, AnsweredOK DEF Settles
                <5> QED
                    BY <2>1, <2>4, <4>1, <5>1, AnswerKeepsChunks
            <4>3. ChunksAwaited(net', w)
                BY <1>7, <4>2
            <4> QED
                BY <2>2, <2>8, <4>3 DEF WaitInv, ChunksAwaited, Looping
        <3> QED
            BY <3>1, <3>2
    <2> QED
        BY <2>6, <2>7, <2>9, KeepsIsEnough DEF StepOK
<1> HIDE DEF n
<1>8. CASE \E s \in sending : ~Unlocks(s, who) /\ ResetAndStop(s, n) /\ UNCHANGED tasks
    BY <1>8, <1>3
<1>9. CASE \E s \in sending : NotExpectedNow(s, n)
    BY <1>9, <1>5
<1>10. ASSUME NEW s \in sending, Unlocks(s, who), CanMarkDone(s.sm, r.id),
              LET sm == MarkDone(s.sm, r.id)
              IN  sending' = {[s EXCEPT !.sm = sm, !.progress = sm.progress]},
              net' = n, Goes(LoopOf(who)),
              UNCHANGED <<entry, pending, outcomes, service>>
       PROVE  StepOK
    BY <1>7, <1>10
<1>11. CASE service' = "Aborted" /\ Ignore(n) /\ UNCHANGED tasks
    BY <1>6, <1>11
<1> QED
    BY <1>2, <1>8, <1>9, <1>10, <1>11 DEF ConfirmChunk, n

LEMMA ConfirmUnknownStep ==
    ASSUME IInv, NEW n, After(n), ConfirmUnknown(n), UNCHANGED <<cancelled, service>>
    PROVE  StepOK
<1>1. CASE Unexpected(n)
    BY <1>1, UnexpectedStep
<1>2. CASE Ignore(n) /\ Goes("ResetOnInternalError")
    <2>1. FilesInv' /\ KeepsFiles
        BY <1>2, Parts, IgnoreMove
    <2>2. "ResetOnInternalError" \in ResetTasks
        BY DEF ResetTasks
    <2>3. TasksOK' /\ WaitInv'
        BY <1>2, <2>2, Parts, ResetGoes
    <2> QED
        BY <2>1, <2>3, KeepsIsEnough DEF StepOK
<1> QED
    BY <1>1, <1>2 DEF ConfirmUnknown

LEMMA RejectChunkStep ==
    ASSUME IInv, NEW n, After(n), RejectChunk(n), "RejectChunk" \in OddAnswers,
           UNCHANGED <<cancelled, service>>
    PROVE  StepOK
<1>1. CASE Unexpected(n)
    BY <1>1, UnexpectedStep
<1>2. ASSUME NEW s \in sending, CompleteFile(s.file, "Rejected", n), UNCHANGED tasks
      PROVE  StepOK
    <2>1. "Rejected" \in Outcomes
        BY DEF Outcomes
    <2>2. TasksOK'
        BY <1>2, Parts, TasksStay
    <2> QED
        BY <1>2, <2>1, <2>2, CompleteStep
<1>3. ASSUME NEW s \in sending, s.status # "Sending", sending' = {}, net' = n,
             UNCHANGED <<entry, pending, outcomes>>, Goes("ResetOnProtocolViolation")
      PROVE  StepOK
    <2>1. FilesInv'
        BY <1>3, Parts, DropMove
    <2>2. TasksOK' /\ WaitInv'
        BY <1>3, Parts, ResetGoes DEF ResetTasks
    <2>3. LosesNoFile
        <3> SUFFICES ASSUME NEW f \in Files, Tracked(f)
                     PROVE  Tracked(f)' \/ ChunkRejectedEarly(f)
            BY DEF LosesNoFile
        <3>1. CASE \E i \in 1 .. Len(pending) : pending[i].file = f
            BY <3>1, <1>3 DEF Tracked
        <3>2. CASE \E t \in sending : t.file = f
            <4>1. s.file = f
                BY <3>2, Parts, Untouched
            <4> QED
                BY <4>1, <1>3 DEF ChunkRejectedEarly
        <3> QED
            BY <3>1, <3>2 DEF Tracked
    <2> QED
        BY <2>1, <2>2, <2>3 DEF StepOK
<1> QED
    BY <1>1, <1>2, <1>3 DEF RejectChunk

LEMMA AnswerDoneStep ==
    ASSUME IInv, NEW n, After(n), NEW outcome \in Outcomes, AnswerDone(n, outcome),
           UNCHANGED <<cancelled, service>>
    PROVE  StepOK
<1>1. CASE Unexpected(n)
    BY <1>1, UnexpectedStep
<1>2. ASSUME NEW s \in sending, CompleteFile(s.file, outcome, n), UNCHANGED tasks
      PROVE  StepOK
    <2>1. TasksOK'
        BY <1>2, Parts, TasksStay
    <2> QED
        BY <1>2, <2>1, CompleteStep
<1>3. ASSUME NEW s \in sending, NotExpectedNow(s, n)
      PROVE  StepOK
    <2>1. n.nextId \in Nat /\ net.nextId <= n.nextId
        BY DEF After, NetOK
    <2>2. /\ s \in Transfers /\ WindowInv(s.sm)
          /\ \A id \in DOMAIN s.sm.chunk_to_index : id \in Nat /\ id < net.nextId
        BY Parts, Untouched
    <2>3. net.nextId \in Nat
        BY Parts
    <2>4. \A id \in DOMAIN s.sm.chunk_to_index : id < n.nextId
        BY <2>1, <2>2, <2>3
    <2> QED
        BY <1>3, <2>2, <2>4, NotExpectedStep
<1> QED
    BY <1>1, <1>2, <1>3 DEF AnswerDone

(***************************************************************************)
(* Handlers that only put the file back, end it, or find the slot empty.   *)
(***************************************************************************)
LEMMA EmptySlotStep ==
    ASSUME IInv, NEW n, After(n), sending = {}, Ignore(n), cancelled' = cancelled, TasksOK'
    PROVE  StepOK
<1>1. FilesInv' /\ KeepsFiles
    BY Parts, IgnoreMove
<1>2. sending' = {}
    BY DEF Ignore
<1> QED
    BY <1>1, <1>2, NobodyWaits, KeepsIsEnough DEF StepOK

LEMMA OneMoreFailure ==
    ASSUME FilesInv, NEW s \in sending
    PROVE  [s EXCEPT !.retry = @ + 1] \in Transfers /\ [s EXCEPT !.retry = @ + 1].file = s.file
<1>1. s \in Transfers
    BY Untouched
<1>2. s.retry + 1 \in Nat
    BY <1>1 DEF Transfers
<1> QED
    BY <1>1, <1>2 DEF Transfers

LEMMA RetryStep ==
    ASSUME IInv, NEW n, After(n), NEW s \in sending, NEW v \in Transfers,
           v.file = s.file, ResetAndRetry(v, n), cancelled' = cancelled, TasksOK'
    PROVE  StepOK
<1>1. "Failed" \in Outcomes
    BY DEF Outcomes
<1>2. CASE CompleteFile(v.file, "Failed", n)
    BY <1>1, <1>2, CompleteStep
<1>3. CASE ResetAndStop(v, n)
    BY <1>3, StopStep
<1> QED
    BY <1>2, <1>3 DEF ResetAndRetry

LEMMA StartStep ==
    ASSUME IInv, NEW n, After(n), sending = {}, entry = "Occupied",
           SendNext(pending, outcomes, n), cancelled' = cancelled, TasksOK'
    PROVE  StepOK
<1>1. FilesInv' /\ KeepsFiles /\ FreshSlot
    BY Parts, StartMove
<1> QED
    BY <1>1, NobodyWaits, KeepsIsEnough DEF StepOK

(***************************************************************************)
(* Which request a response can belong to.                                 *)
(***************************************************************************)
LEMMA AnswersFit ==
    ASSUME NEW r \in Requests, NEW response \in Answers(r.kind) \cup OddAnswers
    PROVE  /\ response \in {"AcceptNewTransfer", "RestartContinueTransfer",
                            "AcceptContinueTransfer"} => r.kind # "Chunk"
           /\ response = "ConfirmAbort" => r.kind = "AbortTransfer"
           /\ response = "AcknowledgeProtocolViolation" => r.kind = "ProtocolViolation"
           /\ response = "RejectChunk" => "RejectChunk" \in OddAnswers
<1>1. r.kind \in Kinds
    BY DEF Requests
<1>2. CASE response \in OddAnswers
    BY <1>2, FileTrackerAssumption
<1>3. CASE response \in Answers(r.kind)
    BY <1>1, <1>3 DEF Answers, Kinds
<1> QED
    BY <1>2, <1>3

LEMMA ReceiveResponseStep ==
    ASSUME IInv, NEW r \in net.registry, NEW who \in Contacts, NEW offset \in Nat,
           NEW response \in Answers(r.kind) \cup OddAnswers,
           ReceiveResponse(r, response, offset, who)
    PROVE  StepOK
<1>1. service = "Running" /\ cancelled' = cancelled
    BY DEF ReceiveResponse
<1>0. PICK n \in AfterResponse(r) :
           \/ /\ response \in {"AcceptNewTransfer", "RestartContinueTransfer"}
              /\ AcceptNewTransfer(n, who)
           \/ /\ response = "AcceptContinueTransfer"
              /\ AcceptContinueTransfer(n, who, offset)
           \/ response = "RejectNewTransfer" /\ RejectNewTransfer(n, who)
           \/ response = "RejectContinueTransfer" /\ RejectContinueTransfer(n, who)
           \/ /\ response = "ConfirmChunk"
              /\ \/ n = Answered(r) /\ ConfirmChunk(r, n, who)
                 \/ n = Failed(r) /\ ConfirmUnknown(n) /\ UNCHANGED service
           \/ /\ \/ response = "RejectChunk" /\ RejectChunk(n)
                 \/ response = "ConfirmDone" /\ AnswerDone(n, "Sent")
                 \/ response = "RejectDone" /\ AnswerDone(n, "Rejected")
              /\ UNCHANGED service
           \/ /\ \/ response = "ConfirmAbort" /\ ConfirmAbort(n)
                 \/ /\ response = "AcknowledgeProtocolViolation"
                    /\ AcknowledgeProtocolViolation(n)
                 \/ response = "ProtocolViolation" /\ PeerReportsViolation(n)
                 \/ response = "InternalError" /\ PeerReportsInternalError(n)
              /\ UNCHANGED <<tasks, service>>
    BY DEF ReceiveResponse
<1>2. r \in Requests /\ Settles(n, r) /\ After(n)
    BY Parts, AfterResponseOK DEF NetOK, Settles
<1>3. /\ response \in {"AcceptNewTransfer", "RestartContinueTransfer",
                       "AcceptContinueTransfer"} => r.kind # "Chunk"
      /\ response = "ConfirmAbort" => r.kind = "AbortTransfer"
      /\ response = "AcknowledgeProtocolViolation" => r.kind = "ProtocolViolation"
      /\ response = "RejectChunk" => "RejectChunk" \in OddAnswers
    BY <1>2, AnswersFit
<1>4. CASE /\ response \in {"AcceptNewTransfer", "RestartContinueTransfer"}
           /\ AcceptNewTransfer(n, who)
    <2>1. CASE Unexpected(n) /\ UNCHANGED service
        BY <1>1, <1>2, <2>1, UnexpectedStep
    <2>2. ASSUME NEW s \in sending, NotVerified(s, who, n) PROVE StepOK
        BY <1>1, <1>2, <2>2, NotVerifiedStep
    <2>3. ASSUME NEW s \in sending, NEW v \in Verified(s, who), StartSending(v, n, who),
                 UNCHANGED service
          PROVE  StepOK
        <3>1. SameTransfer(v, s) /\ Unlocks(v, who)
            BY Parts, VerifiedOK
        <3> QED
            BY <1>1, <1>2, <1>3, <1>4, <2>3, <3>1, StartSendingStep
    <2> QED
        BY <1>4, <2>1, <2>2, <2>3 DEF AcceptNewTransfer
<1>5. CASE response = "AcceptContinueTransfer" /\ AcceptContinueTransfer(n, who, offset)
    <2>1. CASE Unexpected(n) /\ UNCHANGED service
        BY <1>1, <1>2, <2>1, UnexpectedStep
    <2>2. ASSUME NEW s \in sending, NotVerified(s, who, n) PROVE StepOK
        BY <1>1, <1>2, <2>2, NotVerifiedStep
    <2>3. ASSUME NEW s \in sending, NEW v \in Verified(s, who),
                 StartSending(ContinueAt(v, offset), n, who), UNCHANGED service
          PROVE  StepOK
        <3>1. SameTransfer(v, s) /\ Unlocks(v, who)
            BY Parts, VerifiedOK
        <3>2. PICK w : w = ContinueAt(v, offset)
            OBVIOUS
        <3>3. SameTransfer(w, s) /\ Unlocks(w, who)
            BY <3>1, <3>2, ContinueAtOK
        <3>4. StartSending(w, n, who)
            BY <2>3, <3>2
        <3> QED
            BY <1>1, <1>2, <1>3, <1>5, <2>3, <3>3, <3>4, StartSendingStep
    <2> QED
        BY <1>5, <2>1, <2>2, <2>3 DEF AcceptContinueTransfer
<1>6. CASE RejectNewTransfer(n, who)
    <2>1. CASE Unexpected(n) /\ UNCHANGED service
        BY <1>1, <1>2, <2>1, UnexpectedStep
    <2>2. CASE RejectedBy(who, n)
        BY <1>1, <1>2, <2>2, RejectedByStep
    <2> QED
        BY <1>6, <2>1, <2>2 DEF RejectNewTransfer
<1>7. CASE RejectContinueTransfer(n, who)
    <2>1. CASE entry = "Vacant" /\ Ignore(n) /\ UNCHANGED <<tasks, service>>
        <3>1. sending = {}
            BY <2>1, Parts DEF FilesInv, EntryInv
        <3>2. TasksOK'
            BY <2>1, Parts, TasksStay
        <3> QED
            BY <1>1, <1>2, <2>1, <3>1, <3>2, EmptySlotStep
    <2>2. CASE Hangs(n)
        BY <1>1, <1>2, <2>2, HangsStep
    <2>3. CASE RejectedBy(who, n)
        BY <1>1, <1>2, <2>3, RejectedByStep
    <2> QED
        BY <1>7, <2>1, <2>2, <2>3 DEF RejectContinueTransfer
<1>8. CASE \/ n = Answered(r) /\ ConfirmChunk(r, n, who)
           \/ ConfirmUnknown(n) /\ UNCHANGED service
    BY <1>1, <1>2, <1>8, ConfirmChunkStep, ConfirmUnknownStep
<1>9. CASE response = "RejectChunk" /\ RejectChunk(n) /\ UNCHANGED service
    BY <1>1, <1>2, <1>3, <1>9, RejectChunkStep
<1>10. CASE AnswerDone(n, "Sent") /\ UNCHANGED service
    <2>1. "Sent" \in Outcomes
        BY DEF Outcomes
    <2> QED
        BY <1>1, <1>2, <1>10, <2>1, AnswerDoneStep
<1>11. CASE AnswerDone(n, "Rejected") /\ UNCHANGED service
    <2>1. "Rejected" \in Outcomes
        BY DEF Outcomes
    <2> QED
        BY <1>1, <1>2, <1>11, <2>1, AnswerDoneStep
<1>12. ASSUME r.attempt = NoAttempt, Ignore(n), UNCHANGED <<tasks, service>>
       PROVE  StepOK
    <2>1. FilesInv' /\ KeepsFiles
        BY <1>1, <1>2, <1>12, Parts, IgnoreMove
    <2>2. WaitInv'
        BY <1>1, <1>2, <1>12, OtherAnswerKeepsWait
    <2> QED
        BY <1>12, <2>1, <2>2, Parts, TasksStay, KeepsIsEnough DEF StepOK
<1>13. CASE response = "ConfirmAbort" /\ ConfirmAbort(n) /\ UNCHANGED <<tasks, service>>
    <2>1. r.attempt = NoAttempt
        BY <1>3, <1>13, Parts DEF NetOK
    <2>2. CASE Ignore(n)
        BY <1>12, <1>13, <2>1, <2>2
    <2>3. CASE entry = "Occupied" /\ sending = {} /\ SendNext(pending, outcomes, n)
        BY <1>1, <1>2, <1>13, <2>3, Parts, TasksStay, StartStep
    <2> QED
        BY <1>13, <2>2, <2>3 DEF ConfirmAbort
<1>14. CASE /\ response = "AcknowledgeProtocolViolation"
            /\ AcknowledgeProtocolViolation(n) /\ UNCHANGED <<tasks, service>>
    <2>1. r.attempt = NoAttempt
        BY <1>3, <1>14, Parts DEF NetOK
    <2> QED
        BY <1>12, <1>14, <2>1 DEF AcknowledgeProtocolViolation
<1>15. CASE PeerReportsViolation(n) /\ UNCHANGED <<tasks, service>>
    <2>1. TasksOK'
        BY <1>15, Parts, TasksStay
    <2>2. CASE sending = {} /\ Ignore(n)
        BY <1>1, <1>2, <2>1, <2>2, EmptySlotStep
    <2>3. ASSUME NEW s \in sending, ResetAndRetry([s EXCEPT !.retry = @ + 1], n)
          PROVE  StepOK
        <3>1. PICK v : v = [s EXCEPT !.retry = @ + 1]
            OBVIOUS
        <3>2. v \in Transfers /\ v.file = s.file
            BY <3>1, Parts, OneMoreFailure
        <3>3. ResetAndRetry(v, n)
            BY <2>3, <3>1
        <3> QED
            BY <1>1, <1>2, <2>1, <3>2, <3>3, RetryStep
    <2> QED
        BY <1>15, <2>2, <2>3 DEF PeerReportsViolation
<1>16. CASE PeerReportsInternalError(n) /\ UNCHANGED <<tasks, service>>
    <2>1. TasksOK'
        BY <1>16, Parts, TasksStay
    <2>2. CASE sending = {} /\ Ignore(n)
        BY <1>1, <1>2, <2>1, <2>2, EmptySlotStep
    <2>3. ASSUME NEW s \in sending, ResetAndStop([s EXCEPT !.retry = @ + 1], n)
          PROVE  StepOK
        <3>1. PICK v : v = [s EXCEPT !.retry = @ + 1]
            OBVIOUS
        <3>2. v \in Transfers /\ v.file = s.file
            BY <3>1, Parts, OneMoreFailure
        <3>3. ResetAndStop(v, n)
            BY <2>3, <3>1
        <3> QED
            BY <1>1, <1>2, <2>1, <3>2, <3>3, StopStep
    <2> QED
        BY <1>16, <2>2, <2>3 DEF PeerReportsInternalError
<1> QED
    BY <1>0, <1>4, <1>5, <1>6, <1>7, <1>8, <1>9, <1>10, <1>11, <1>13, <1>14, <1>15, <1>16

-----------------------------------------------------------------------------
(* Errors and timeouts. *)

LEMMA ErrorStep ==
    ASSUME IInv, NEW n, After(n), NEW error, ErrorHandled(error, n),
           UNCHANGED <<tasks, cancelled>>
    PROVE  StepOK
<1>1. TasksOK'
    BY Parts, TasksStay
<1>2. CASE sending = {} /\ Ignore(n)
    BY <1>1, <1>2, EmptySlotStep
<1>3. ASSUME NEW s \in sending
      PROVE  s \in Transfers
    BY Parts, Untouched
<1>4. ASSUME NEW s \in sending, ResetAndStop(s, n) PROVE StepOK
    BY <1>1, <1>3, <1>4, StopStep
<1>5. ASSUME NEW s \in sending, ResetAndRetry(s, n) PROVE StepOK
    BY <1>1, <1>3, <1>5, RetryStep
<1>6. ASSUME NEW s \in sending, CompleteFile(s.file, "Rejected", n) PROVE StepOK
    <2>1. "Rejected" \in Outcomes
        BY DEF Outcomes
    <2> QED
        BY <1>1, <1>6, <2>1, CompleteStep
<1> QED
    BY <1>2, <1>4, <1>5, <1>6 DEF ErrorHandled

LEMMA PeerDisconnectedStep ==
    ASSUME IInv, PeerDisconnected
    PROVE  StepOK
<1>1. Ignore(net) /\ Goes("ResetForDisconnectedPeer") /\ cancelled' = cancelled
    BY DEF PeerDisconnected
<1>2. FilesInv' /\ KeepsFiles
    <2>1. PICK n : n = net
        OBVIOUS
    <2> QED
        BY <1>1, <2>1, Parts, IgnoreMove
<1>3. TasksOK' /\ WaitInv'
    BY <1>1, Parts, ResetGoes DEF ResetTasks
<1> QED
    BY <1>2, <1>3, KeepsIsEnough DEF StepOK

LEMMA SomeFailureStep ==
    ASSUME IInv, SomeFailure
    PROVE  StepOK
<1>1. ASSUME NEW r \in net.registry, NEW error, HandleReceiveError(r, error)
      PROVE  StepOK
    <2>1. After(Failed(r))
        BY Parts, MarkedOK DEF Failed
    <2> QED
        BY <1>1, <2>1, ErrorStep DEF HandleReceiveError
<1>2. ASSUME NEW r \in net.registry, HandleUndecryptable(r)
      PROVE  StepOK
    <2>1. After(Answered(r))
        BY Parts, AnsweredOK
    <2> QED
        BY <1>2, <2>1, ErrorStep DEF HandleUndecryptable
<1>3. ASSUME NEW r \in net.registry, HandleTimeout(r)
      PROVE  StepOK
    <2>1. After(TimedOut(r))
        BY Parts, MarkedOK DEF TimedOut
    <2> QED
        BY <1>3, <2>1, ErrorStep DEF HandleTimeout
<1> QED
    BY <1>1, <1>2, <1>3, PeerDisconnectedStep DEF SomeFailure

-----------------------------------------------------------------------------
(* send_chunks_loop. *)

LEMMA LoopEnds ==
    ASSUME IInv, NEW who \in Contacts, tasks[LoopOf(who)] > 0, Ends(LoopOf(who))
    PROVE  TasksOK' /\ (Resetting => Resetting')
<1>1. TasksOK' /\ \A u \in Tasks : u # LoopOf(who) => tasks'[u] = tasks[u]
    BY Parts, LoopIsTask, EndsOK
<1>2. ResetTasks \subseteq Tasks /\ LoopOf(who) \notin ResetTasks
    BY DEF Tasks, ResetTasks, LoopOf
<1> QED
    BY <1>1, <1>2 DEF Resetting

\* One more request of the attempt of s, of this kind, is open.
LEMMA RequestOfAttempt ==
    ASSUME FilesInv, NEW s \in sending, NEW kind \in {"Chunk", "Done"},
           net' = Register(net, kind, s.attempt)
    PROVE  /\ After(net') /\ net'.nextId = net.nextId + 1
           /\ \A q \in net.registry : q \in net'.registry
           /\ \E q \in net'.registry : /\ q.id = net.nextId /\ q.kind = kind
                                       /\ q.attempt = s.attempt /\ q.state = "Open"
<1>1. s.attempt \in Attempts
    BY Untouched DEF Transfers
<1>2. kind \in Kinds /\ kind \notin {"AbortTransfer", "ProtocolViolation"}
    BY DEF Kinds
<1>3. NetOK(net) /\ net.nextId \in Nat
    BY NetStays DEF FilesInv
<1> DEFINE q == [id |-> net.nextId, kind |-> kind, attempt |-> s.attempt, state |-> "Open"]
<1>4. /\ NetOK(net') /\ net'.nextId = net.nextId + 1
      /\ net'.registry = net.registry \cup {q}
    BY <1>1, <1>2, <1>3, RegisterOK
<1>5. /\ q.id = net.nextId /\ q.kind = kind /\ q.attempt = s.attempt /\ q.state = "Open"
    OBVIOUS
<1> HIDE DEF q
<1> QED
    BY <1>3, <1>4, <1>5 DEF After

LEMMA LoopSentStep ==
    ASSUME IInv, service = "Running", NEW s \in sending, HasChunkToSend(s.sm), LoopSent(s),
           UNCHANGED <<tasks, cancelled, service>>
    PROVE  StepOK
<1> DEFINE id == net.nextId
           sm == ChunkSent(s.sm, id)
           w == [s EXCEPT !.sm = sm]
<1>1. /\ s \in Transfers /\ s.sm \in SendManagers /\ WindowInv(s.sm)
      /\ \A i \in DOMAIN s.sm.chunk_to_index : i \in Nat /\ i < id
    BY Parts, Untouched DEF Transfers
<1>2. id \in Nat /\ id \notin DOMAIN s.sm.chunk_to_index
    BY <1>1, Parts
<1>3. /\ net' = Register(net, "Chunk", s.attempt) /\ sending' = {w}
      /\ UNCHANGED <<entry, pending, outcomes>>
    BY DEF LoopSent
<1>4. /\ sm \in SendManagers /\ WindowInv(sm)
      /\ DOMAIN sm.chunk_to_index = DOMAIN s.sm.chunk_to_index \cup {id}
    BY <1>1, <1>2, ChunkSentKeepsWindow
<1> HIDE DEF sm
<1>5. /\ w \in Transfers /\ w.file = s.file /\ w.attempt = s.attempt /\ w.sm = sm
      /\ w.verify = s.verify
    BY <1>1, <1>4 DEF Transfers
<1> HIDE DEF w
<1>6. /\ After(net') /\ net'.nextId = id + 1
      /\ \A q \in net.registry : q \in net'.registry
      /\ \E q \in net'.registry : /\ q.id = id /\ q.kind = "Chunk"
                                  /\ q.attempt = s.attempt /\ q.state = "Open"
    BY <1>3, Parts, RequestOfAttempt
<1>7. \A i \in DOMAIN w.sm.chunk_to_index : i < net'.nextId
    BY <1>1, <1>2, <1>4, <1>5, <1>6
<1>8. FilesInv' /\ KeepsFiles
    <2>1. PICK n : n = net'
        OBVIOUS
    <2> QED
        BY <2>1, <1>3, <1>4, <1>5, <1>6, <1>7, Parts, SlotMove
<1>9. Awaited(net', w)
    BY <1>5, <1>6 DEF Awaited
<1>10. Resetting' \/ ChunksAwaited(net', w)
    <2>1. CASE Resetting
        BY <2>1, Parts, TasksStay
    <2>2. CASE ChunksAwaited(net, s)
        <3> SUFFICES ASSUME NEW i \in DOMAIN w.sm.chunk_to_index
                     PROVE  \E q \in net'.registry :
                                /\ q.id = i /\ q.kind = "Chunk"
                                /\ q.attempt = w.attempt /\ q.state = "Open"
            BY DEF ChunksAwaited
        <3>1. CASE i = id
            BY <3>1, <1>5, <1>6
        <3>2. CASE i \in DOMAIN s.sm.chunk_to_index
            BY <2>2, <3>2, <1>5, <1>6 DEF ChunksAwaited
        <3> QED
            BY <1>4, <1>5, <3>1, <3>2
    <2> QED
        BY <2>1, <2>2, Parts DEF WaitInv
<1>11. WaitInv'
    BY <1>3, <1>9, <1>10 DEF WaitInv, Awaited, ChunksAwaited
<1> QED
    BY <1>8, <1>11, Parts, TasksStay, KeepsIsEnough DEF StepOK

LEMMA LoopDoneStep ==
    ASSUME IInv, service = "Running", NEW s \in sending, LoopDone(s),
           UNCHANGED <<cancelled, service>>, TasksOK', Resetting => Resetting'
    PROVE  StepOK
<1> DEFINE w == [s EXCEPT !.status = IF @ = "Sending" THEN "PendingSent" ELSE @]
<1>1. /\ s \in Transfers /\ WindowInv(s.sm)
      /\ \A i \in DOMAIN s.sm.chunk_to_index : i \in Nat /\ i < net.nextId
    BY Parts, Untouched
<1>2. CASE ResetAndStop(s, net)
    BY <1>1, <1>2, Parts, StopStep
<1>3. CASE /\ net' = Register(net, "Done", s.attempt) /\ sending' = {w}
           /\ UNCHANGED <<entry, pending, outcomes>>
    <2>1. /\ w \in Transfers /\ w.file = s.file /\ w.attempt = s.attempt /\ w.sm = s.sm
          /\ w.verify = s.verify
        BY <1>1 DEF Transfers
    <2> HIDE DEF w
    <2>2. /\ After(net') /\ net'.nextId = net.nextId + 1
          /\ \A q \in net.registry : q \in net'.registry
          /\ \E q \in net'.registry : /\ q.id = net.nextId /\ q.kind = "Done"
                                      /\ q.attempt = s.attempt /\ q.state = "Open"
        BY <1>3, Parts, RequestOfAttempt
    <2>3. \A i \in DOMAIN w.sm.chunk_to_index : i < net'.nextId
        BY <1>1, <2>1, <2>2, Parts
    <2>4. FilesInv' /\ KeepsFiles
        <3>1. PICK n : n = net'
            OBVIOUS
        <3> QED
            BY <3>1, <1>1, <1>3, <2>1, <2>2, <2>3, Parts, SlotMove
    <2>5. Awaited(net', w)
        BY <2>1, <2>2 DEF Awaited
    <2>6. Resetting' \/ ChunksAwaited(net', w)
        <3>1. Resetting \/ ChunksAwaited(net, s)
            BY Parts DEF WaitInv
        <3>2. ChunksAwaited(net, s) => ChunksAwaited(net', w)
            BY <2>1, <2>2 DEF ChunksAwaited
        <3> QED
            BY <3>1, <3>2
    <2>7. WaitInv'
        BY <1>3, <2>5, <2>6 DEF WaitInv, Awaited, ChunksAwaited
    <2> QED
        BY <2>4, <2>7, KeepsIsEnough DEF StepOK
<1> QED
    BY <1>2, <1>3 DEF LoopDone

(***************************************************************************)
(* A loop that has nothing to send and nothing to report ends, and a chunk *)
(* is waited for; one that may not touch the transfer leaves it to others. *)
(***************************************************************************)
LEMMA LoopIdleStep ==
    ASSUME IInv, service = "Running", NEW who \in Contacts, tasks[LoopOf(who)] > 0,
           Ends(LoopOf(who)), NEW s \in sending,
           ~Unlocks(s, who) \/ (~HasChunkToSend(s.sm) /\ ~ReportsDone(s.sm)),
           Ignore(net), UNCHANGED <<cancelled, service>>
    PROVE  StepOK
<1>1. FilesInv' /\ KeepsFiles
    <2>1. PICK n : n = net
        OBVIOUS
    <2> QED
        BY <2>1, Parts, IgnoreMove
<1>2. TasksOK' /\ (Resetting => Resetting')
    BY LoopEnds
<1>3. net' = net /\ sending' = sending /\ \A t \in sending : t = s
    BY Parts, Untouched DEF Ignore
<1>4. Resetting \/ (ChunksAwaited(net, s) /\ (Awaited(net, s) \/ Looping(s)))
    BY Parts DEF WaitInv
<1>5. ASSUME ChunksAwaited(net, s), Looping(s) PROVE Awaited(net, s) \/ Looping(s)'
    <2>1. CASE ~Unlocks(s, who)
        <3>1. who # "target" /\ s.verify # "Free"
            BY <2>1 DEF Unlocks
        <3>2. tasks["LoopTarget"] > 0 /\ LoopOf(who) = "LoopOther"
            BY <1>5, <3>1, LoopIsTask DEF Looping
        <3>3. "LoopTarget" \in Tasks /\ "LoopOther" \in Tasks
            BY DEF Tasks
        <3>4. tasks'["LoopTarget"] = tasks["LoopTarget"]
            BY <3>2, <3>3, Parts, EndsOK
        <3> QED
            BY <3>2, <3>4 DEF Looping
    <2>2. CASE ~HasChunkToSend(s.sm) /\ ~ReportsDone(s.sm)
        <3>1. s.sm \in SendManagers /\ WindowInv(s.sm)
            BY Parts, Untouched DEF Transfers
        <3>2. DOMAIN s.sm.chunk_to_index # {}
            BY <2>2, <3>1, IdleLoopWaits
        <3> QED
            BY <1>5, <3>2 DEF ChunksAwaited, Awaited
    <2> QED
        BY <2>1, <2>2
<1>6. Resetting' \/ (ChunksAwaited(net, s) /\ (Awaited(net, s) \/ Looping(s)'))
    BY <1>2, <1>4, <1>5
<1>7. WaitInv'
    BY <1>3, <1>6 DEF WaitInv, Awaited, ChunksAwaited, Looping
<1> QED
    BY <1>1, <1>2, <1>7, KeepsIsEnough DEF StepOK

LEMMA SendChunksLoopStep ==
    ASSUME IInv, NEW who \in Contacts, SendChunksLoop(who)
    PROVE  StepOK
<1>1. /\ service = "Running" /\ tasks[LoopOf(who)] > 0 /\ UNCHANGED <<cancelled, service>>
    BY DEF SendChunksLoop
<1>2. Ends(LoopOf(who)) => TasksOK' /\ (Resetting => Resetting')
    BY <1>1, LoopEnds
<1>3. CASE sending = {} /\ Ignore(net) /\ Ends(LoopOf(who))
    BY <1>1, <1>2, <1>3, Parts, EmptySlotStep
<1>4. ASSUME NEW s \in sending, HasChunkToSend(s.sm), LoopSent(s), UNCHANGED tasks
      PROVE  StepOK
    BY <1>1, <1>4, LoopSentStep
<1>5. ASSUME NEW s \in sending, LoopIoError(s), Ends(LoopOf(who))
      PROVE  StepOK
    <2>1. PICK n \in Send(net, "AbortTransfer", NoAttempt) : CompleteFile(s.file, "IoError", n)
        BY <1>5 DEF LoopIoError
    <2>2. After(n)
        BY Parts, SendOK
    <2>3. "IoError" \in Outcomes
        BY DEF Outcomes
    <2> QED
        BY <1>1, <1>2, <1>5, <2>1, <2>2, <2>3, CompleteStep
<1>6. ASSUME NEW s \in sending, LoopInterrupt(s), Ends(LoopOf(who))
      PROVE  StepOK
    <2>1. s \in Transfers
        BY Parts, Untouched
    <2>2. PICK p : p = [ResetFile(s) EXCEPT !.status = "Interrupted", !.transfer = s.transfer]
        OBVIOUS
    <2>3. p \in PendingFiles /\ p.file = s.file
        BY <2>1, <2>2, ResetFileOK DEF Transfers, PendingFiles
    <2>4. pending' = Append(pending, p) /\ sending' = {} /\ UNCHANGED <<net, entry, outcomes>>
        BY <1>6, <2>2 DEF LoopInterrupt
    <2>5. FilesInv' /\ KeepsFiles
        <3>1. PICK n : n = net
            OBVIOUS
        <3> QED
            BY <3>1, <1>1, <2>3, <2>4, Parts, ResetMove
    <2> QED
        BY <1>2, <1>6, <2>4, <2>5, NobodyWaits, KeepsIsEnough DEF StepOK
<1>7. ASSUME NEW s \in sending, LoopDone(s), Ends(LoopOf(who))
      PROVE  StepOK
    BY <1>1, <1>2, <1>7, LoopDoneStep
<1>8. ASSUME NEW s \in sending, Ends(LoopOf(who)), Ignore(net),
             ~Unlocks(s, who) \/ (~HasChunkToSend(s.sm) /\ ~ReportsDone(s.sm))
      PROVE  StepOK
    BY <1>1, <1>8, LoopIdleStep
<1> QED
    BY <1>3, <1>4, <1>5, <1>6, <1>7, <1>8 DEF SendChunksLoop

-----------------------------------------------------------------------------
(* The other tasks and the commands of the brain. *)

LEMMA ResetOnProtocolViolationStep ==
    ASSUME IInv, ResetOnProtocolViolation
    PROVE  StepOK
<1>1. PICK n \in Send(net, "ProtocolViolation", NoAttempt) :
          \/ sending = {} /\ Ignore(n)
          \/ \E s \in sending : ResetAndStop([s EXCEPT !.retry = @ + 1], n)
    BY DEF ResetOnProtocolViolation
<1>2. After(n)
    BY Parts, SendOK
<1>3. "ResetOnProtocolViolation" \in Tasks
    BY DEF Tasks
<1>4. TasksOK' /\ cancelled' = cancelled
    BY <1>3, Parts, EndsOK DEF ResetOnProtocolViolation
<1>5. CASE sending = {} /\ Ignore(n)
    BY <1>2, <1>4, <1>5, EmptySlotStep
<1>6. ASSUME NEW s \in sending, ResetAndStop([s EXCEPT !.retry = @ + 1], n)
      PROVE  StepOK
    <2>1. PICK v : v = [s EXCEPT !.retry = @ + 1]
        OBVIOUS
    <2>2. v \in Transfers /\ v.file = s.file
        BY <2>1, Parts, OneMoreFailure
    <2>3. ResetAndStop(v, n)
        BY <1>6, <2>1
    <2> QED
        BY <1>2, <1>4, <2>2, <2>3, StopStep
<1> QED
    BY <1>1, <1>5, <1>6

LEMMA ResetOnInternalErrorStep ==
    ASSUME IInv, ResetOnInternalError
    PROVE  StepOK
<1>1. PICK n \in Send(net, "AbortTransfer", NoAttempt) :
          \/ sending = {} /\ Ignore(n)
          \/ \E s \in sending : ResetAndStop([s EXCEPT !.retry = @ + 1], n)
    BY DEF ResetOnInternalError
<1>2. After(n)
    BY Parts, SendOK
<1>3. "ResetOnInternalError" \in Tasks
    BY DEF Tasks
<1>4. TasksOK' /\ cancelled' = cancelled
    BY <1>3, Parts, EndsOK DEF ResetOnInternalError
<1>5. CASE sending = {} /\ Ignore(n)
    BY <1>2, <1>4, <1>5, EmptySlotStep
<1>6. ASSUME NEW s \in sending, ResetAndStop([s EXCEPT !.retry = @ + 1], n)
      PROVE  StepOK
    <2>1. PICK v : v = [s EXCEPT !.retry = @ + 1]
        OBVIOUS
    <2>2. v \in Transfers /\ v.file = s.file
        BY <2>1, Parts, OneMoreFailure
    <2>3. ResetAndStop(v, n)
        BY <1>6, <2>1
    <2> QED
        BY <1>2, <1>4, <2>2, <2>3, StopStep
<1> QED
    BY <1>1, <1>5, <1>6

LEMMA ResetForDisconnectedPeerStep ==
    ASSUME IInv, ResetForDisconnectedPeer
    PROVE  StepOK
<1>1. "ResetForDisconnectedPeer" \in Tasks
    BY DEF Tasks
<1>2. TasksOK' /\ cancelled' = cancelled
    BY <1>1, Parts, EndsOK DEF ResetForDisconnectedPeer
<1>3. PICK n : n = net
    OBVIOUS
<1>4. CASE sending = {} /\ Ignore(n)
    BY <1>2, <1>3, <1>4, Parts, EmptySlotStep
<1>5. ASSUME NEW s \in sending, ResetAndStop(s, n)
      PROVE  StepOK
    BY <1>2, <1>3, <1>5, Parts, Untouched, StopStep
<1> QED
    BY <1>3, <1>4, <1>5 DEF ResetForDisconnectedPeer, ResetAll

LEMMA AddPendingFileStep ==
    ASSUME IInv, NEW f \in Files, AddPendingFile(f)
    PROVE  StepOK
<1>1. PICK p \in [file : {f}, status : {"Pending"}, progress : {0},
                  transfer : {NoTransfer}, retry : {0}]
                 \cup [file : {f}, status : {"Interrupted"}, progress : InterruptedAt,
                       transfer : {EarlierTransfer}, retry : {0}] :
          pending' = Append(pending, p)
    BY DEF AddPendingFile
<1>2. InterruptedAt \subseteq Nat
    BY FileTrackerAssumption
<1>3. p \in PendingFiles /\ p.file = f
    <2>1. NoTransfer \in Int /\ EarlierTransfer \in Int /\ 0 \in Nat
        BY DEF NoTransfer, EarlierTransfer
    <2>2. CASE p \in [file : {f}, status : {"Pending"}, progress : {0},
                      transfer : {NoTransfer}, retry : {0}]
        BY <2>1, <2>2 DEF PendingFiles
    <2>3. CASE p \in [file : {f}, status : {"Interrupted"}, progress : InterruptedAt,
                      transfer : {EarlierTransfer}, retry : {0}]
        BY <1>2, <2>1, <2>3 DEF PendingFiles
    <2> QED
        BY <2>2, <2>3
<1>4. /\ ~Tracked(f) /\ ~Left(f) /\ entry' = "Occupied"
      /\ UNCHANGED <<sending, tasks, net, outcomes, cancelled, service>>
    BY DEF AddPendingFile
<1>5. FilesInv' /\ KeepsFiles
    BY <1>1, <1>3, <1>4, Parts, AddMove
<1>6. WaitInv'
    BY <1>4, Parts DEF WaitInv, Resetting, Looping, Awaited, ChunksAwaited
<1> QED
    BY <1>4, <1>5, <1>6, Parts, TasksStay, KeepsIsEnough DEF StepOK

LEMMA TriggerStep ==
    ASSUME IInv, TriggerInteractionWith
    PROVE  StepOK
<1>1. PICK n : n = net
    OBVIOUS
<1>2. /\ entry = "Occupied" /\ sending = {} /\ SendNext(pending, outcomes, n)
      /\ UNCHANGED <<tasks, cancelled>>
    BY <1>1 DEF TriggerInteractionWith
<1> QED
    BY <1>1, <1>2, Parts, TasksStay, StartStep

LEMMA CancelStep ==
    ASSUME IInv, NEW fs, Cancel(fs)
    PROVE  StepOK
<1>1. UNCHANGED <<tasks, service>> /\ TasksOK'
    BY Parts, TasksStay DEF Cancel
<1>2. ASSUME NEW s \in sending, NEW n \in Send(net, "AbortTransfer", NoAttempt),
             SendNext(pending, outcomes, n), cancelled' = cancelled \cup {s.file}
      PROVE  StepOK
    <2>1. After(n)
        BY Parts, SendOK
    <2>2. FilesInv' /\ KeepsFiles /\ FreshSlot
        BY <1>2, <2>1, Parts, CancelSlotMove
    <2> QED
        BY <1>1, <2>2, NobodyWaits, KeepsIsEnough DEF StepOK
<1>3. CASE /\ \A s \in sending : s.file \notin fs
           /\ pending' = Without(pending, fs)
           /\ cancelled' = cancelled \cup
                  {pending[i].file : i \in {j \in 1 .. Len(pending) : pending[j].file \in fs}}
           /\ UNCHANGED <<entry, sending, net, outcomes>>
    <2>1. FilesInv' /\ KeepsFiles
        BY <1>3, Parts, CancelQueueMove
    <2>2. WaitInv'
        BY <1>1, <1>3, Parts DEF WaitInv, Resetting, Looping, Awaited, ChunksAwaited
    <2> QED
        BY <1>1, <2>1, <2>2, KeepsIsEnough DEF StepOK
<1> QED
    BY <1>2, <1>3 DEF Cancel

(***************************************************************************)
(* Every step keeps the invariant and loses no file.                       *)
(***************************************************************************)
LEMMA EveryStep ==
    ASSUME IInv, Next
    PROVE  StepOK
<1>1. CASE SomeResponse
    <2>1. PICK r \in net.registry, who \in Contacts :
              \/ \E response \in (Answers(r.kind) \cup OddAnswers) \ {"AcceptContinueTransfer"} :
                    ReceiveResponse(r, response, 0, who)
              \/ /\ "AcceptContinueTransfer" \in Answers(r.kind)
                 /\ \E offset \in 0 .. FileUnits :
                       ReceiveResponse(r, "AcceptContinueTransfer", offset, who)
        BY <1>1 DEF SomeResponse
    <2>2. CASE \E response \in (Answers(r.kind) \cup OddAnswers) \ {"AcceptContinueTransfer"} :
                  ReceiveResponse(r, response, 0, who)
        BY <2>2, ReceiveResponseStep
    <2>3. CASE /\ "AcceptContinueTransfer" \in Answers(r.kind)
               /\ \E offset \in 0 .. FileUnits :
                     ReceiveResponse(r, "AcceptContinueTransfer", offset, who)
        <3>1. PICK offset \in 0 .. FileUnits :
                  ReceiveResponse(r, "AcceptContinueTransfer", offset, who)
            BY <2>3
        <3>2. offset \in Nat /\ "AcceptContinueTransfer" \in Answers(r.kind) \cup OddAnswers
            BY <2>3, FileTrackerAssumption
        <3> QED
            BY <3>1, <3>2, ReceiveResponseStep
    <2> QED
        BY <2>1, <2>2, <2>3
<1>2. CASE SomeFailure
    BY <1>2, SomeFailureStep
<1>3. CASE LocalStep
    <2>1. CASE \E who \in Contacts : SendChunksLoop(who)
        BY <2>1, SendChunksLoopStep
    <2>2. CASE ResetOnProtocolViolation \/ ResetOnInternalError
        BY <2>2, ResetOnProtocolViolationStep, ResetOnInternalErrorStep
    <2>3. CASE ResetForDisconnectedPeer
        BY <2>3, ResetForDisconnectedPeerStep
    <2>4. CASE \E f \in Files : AddPendingFile(f)
        BY <2>4, AddPendingFileStep
    <2>5. CASE TriggerInteractionWith
        BY <2>5, TriggerStep
    <2>6. CASE \E id \in Ids : CancelFile(id)
        BY <2>6, CancelStep DEF CancelFile
    <2>7. CASE \E t \in Targets : CancelFileByTarget(t)
        BY <2>7, CancelStep DEF CancelFileByTarget
    <2> QED
        BY <1>3, <2>1, <2>2, <2>3, <2>4, <2>5, <2>6, <2>7 DEF LocalStep
<1> QED
    BY <1>1, <1>2, <1>3 DEF Next

LEMMA InitOK ==
    ASSUME Init PROVE IInv
<1>1. NetOK(net)
    BY DEF Init, NetOK
<1>2. QueueInv /\ SlotOK /\ EntryInv
    BY DEF Init, QueueInv, SlotOK, EntryInv
<1>3. OutcomesInv
    BY DEF Init, OutcomesInv, Left, Tracked
<1>4. TasksOK /\ WaitInv
    BY DEF Init, TasksOK, WaitInv
<1> QED
    BY <1>1, <1>2, <1>3, <1>4 DEF IInv, FilesInv

LEMMA StutterOK ==
    ASSUME IInv, UNCHANGED vars
    PROVE  IInv'
<1>1. FilesInv'
    <2>1. Ignore(net) /\ cancelled' = cancelled
        BY DEF vars, Ignore
    <2>2. PICK n : n = net
        OBVIOUS
    <2> QED
        BY <2>1, <2>2, Parts, IgnoreMove
<1>2. TasksOK' /\ WaitInv'
    BY Parts DEF vars, TasksOK, WaitInv, Resetting, Looping, Awaited, ChunksAwaited
<1> QED
    BY <1>1, <1>2 DEF IInv

LEMMA Invariance == Spec => []IInv
<1>1. Init => IInv
    BY InitOK
<1>2. IInv /\ [Next]_vars => IInv'
    BY EveryStep, StutterOK DEF StepOK, IInv
<1> QED
    BY <1>1, <1>2, PTL DEF Spec

(***************************************************************************)
(* A file that is tracked stays tracked or leaves with an outcome or a     *)
(* cancel, whatever responses, failures, timeouts, tasks and commands come *)
(* in which order; the two exceptions are those NoFileVanishes names.      *)
(***************************************************************************)
THEOREM FilesDoNotVanish == Spec => NoFileVanishes
<1>1. IInv /\ [Next]_vars =>
          [\A f \in Files : Tracked(f) =>
              \/ (Tracked(f) \/ Left(f))'
              \/ ContinueTransferNotSent(f) \/ ChunkRejectedEarly(f)]_vars
    BY EveryStep DEF StepOK, LosesNoFile
<1> QED
    BY <1>1, Invariance, PTL DEF Spec, NoFileVanishes

(***************************************************************************)
(* A transfer in the sending slot never waits for nothing: a request of its*)
(* own attempt is open, or a task is about to deal with it.                *)
(***************************************************************************)
THEOREM SlotsAreServed == Spec => []SlotNeverStranded
<1>1. IInv => SlotNeverStranded
    <2> SUFFICES ASSUME IInv, service = "Running", NEW s \in sending
                 PROVE  \/ \E r \in net.registry : r.attempt = s.attempt /\ r.state = "Open"
                        \/ \E t \in Tasks : tasks[t] > 0
        BY DEF SlotNeverStranded
    <2>1. Resetting \/ Awaited(net, s) \/ Looping(s)
        BY DEF IInv, WaitInv
    <2> QED
        BY <2>1 DEF Resetting, ResetTasks, Awaited, Looping, Tasks
<1> QED
    BY <1>1, Invariance, PTL

(***************************************************************************)
(* What one call of add_pending_file queued is in one place only: in the   *)
(* queue once, in the slot, or gone with one outcome or one cancel,        *)
(* whatever ids the calls are for.                                         *)
(***************************************************************************)
THEOREM FilesHaveOneFate == Spec => []OneFate
<1>1. IInv => OneFate
    <2> SUFFICES ASSUME IInv, NEW f \in Files
                 PROVE  Cardinality({i \in 1 .. Len(pending) : pending[i].file = f})
                          + Cardinality({s \in sending : s.file = f})
                          + Len(outcomes[f])
                          + Cardinality(cancelled \cap {f}) <= 1
        BY DEF OneFate
    <2> DEFINE queued == {i \in 1 .. Len(pending) : pending[i].file = f}
               slots == {s \in sending : s.file = f}
               called == cancelled \cap {f}
    <2>1. \A x : Cardinality({x}) = 1
        BY FS_Singleton, Zenon
    <2>2. Cardinality({}) = 0
        BY FS_EmptySet, Zenon
    <2>3. queued = {} \/ \E i : queued = {i}
        <3>1. \A i, j \in queued : i = j
            BY DEF IInv, FilesInv, QueueInv
        <3> HIDE DEF queued
        <3> QED
            BY <3>1
    <2>4. slots = {} \/ \E s : slots = {s}
        <3>1. \A s, t \in slots : s = t
            BY DEF IInv, FilesInv, SlotOK
        <3> HIDE DEF slots
        <3> QED
            BY <3>1
    <2>5. called = {} \/ called = {f}
        OBVIOUS
    <2>6. queued # {} => slots = {}
        BY DEF IInv, FilesInv, SlotOK
    <2>7. queued # {} \/ slots # {} => outcomes[f] = <<>> /\ called = {}
        BY DEF IInv, FilesInv, OutcomesInv, Left, Tracked
    <2>8. called # {} => outcomes[f] = <<>>
        BY DEF IInv, FilesInv, OutcomesInv
    <2>9. Len(outcomes[f]) \in Nat /\ Len(outcomes[f]) <= 1
        BY DEF IInv, FilesInv, OutcomesInv
    <2>10. outcomes[f] = <<>> => Len(outcomes[f]) = 0
        OBVIOUS
    <2> HIDE DEF queued, slots, called
    <2>11. Cardinality(queued) = IF queued = {} THEN 0 ELSE 1
        BY <2>1, <2>2, <2>3
    <2>12. Cardinality(slots) = IF slots = {} THEN 0 ELSE 1
        BY <2>1, <2>2, <2>4
    <2>13. Cardinality(called) = IF called = {} THEN 0 ELSE 1
        BY <2>1, <2>2, <2>5
    <2>14. Cardinality(queued) + Cardinality(slots) + Len(outcomes[f]) + Cardinality(called) <= 1
        <3>1. CASE queued # {}
            <4>1. slots = {} /\ called = {} /\ Len(outcomes[f]) = 0
                BY <3>1, <2>6, <2>7, <2>10
            <4>2. /\ Cardinality(queued) = 1 /\ Cardinality(slots) = 0
                  /\ Cardinality(called) = 0
                BY <3>1, <4>1, <2>11, <2>12, <2>13
            <4> QED
                BY <4>1, <4>2
        <3>2. CASE queued = {} /\ slots # {}
            BY <3>2, <2>7, <2>10, <2>11, <2>12, <2>13
        <3>3. CASE queued = {} /\ slots = {} /\ called # {}
            BY <3>3, <2>8, <2>10, <2>11, <2>12, <2>13
        <3>4. CASE queued = {} /\ slots = {} /\ called = {}
            BY <3>4, <2>9, <2>11, <2>12, <2>13
        <3> QED
            BY <3>1, <3>2, <3>3, <3>4
    <2> QED
        BY <2>14 DEF queued, slots, called
<1> QED
    BY <1>1, Invariance, PTL
=============================================================================
