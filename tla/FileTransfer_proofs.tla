------------------------- MODULE FileTransfer_proofs -------------------------
(***************************************************************************)
(* Proofs about both ends of a transfer together: the files reported sent  *)
(* have arrived, what is in a part file is the beginning of the file, and  *)
(* the progress that the tracker counts is in the part file.               *)
(* The invariants of the two halves are taken from their own proofs; here  *)
(* are the ones of the requests and responses between them.                *)
(***************************************************************************)
EXTENDS FileTransfer, FileTracker_proofs, FiniteSetTheorems

\* The proofs about the receiver, for what this sender asks of it.
RP == INSTANCE FilerequestReceiver_proofs
    WITH Transfers <- Int, DeclaredUnits <- FileUnits, Payloads <- Nat,
         Requesters <- {Sender}, OldTransfers <- {},
         Elsewhere <- {}

-----------------------------------------------------------------------------
(* The receiver of FileTransfer is the one that those proofs are about. *)

LEMMA SameInit ==
    ASSUME Receiver!Init PROVE RP!Init
BY Zenon DEF Receiver!Init, RP!Init, Receiver!EmptyBag, RP!EmptyBag,
    Receiver!SetToBag, RP!SetToBag

LEMMA SameUpdate ==
    ASSUME NEW t, NEW status, Receiver!UpdateReceivedFileStatus(t, status)
    PROVE  RP!UpdateReceivedFileStatus(t, status)
BY Zenon DEF Receiver!UpdateReceivedFileStatus, RP!UpdateReceivedFileStatus,
    Receiver!BagCardinality, RP!BagCardinality, Receiver!(+), RP!(+),
    Receiver!SetToBag, RP!SetToBag

LEMMA SameRows ==
    /\ \A t : Receiver!GetReceivedFile(t) = RP!GetReceivedFile(t)
    /\ \A t, c : Receiver!MayContinue(t, c) <=> RP!MayContinue(t, c)
    /\ \A t, completed : Receiver!StoreReceivedFile(t, completed)
                             => RP!StoreReceivedFile(t, completed)
BY Zenon DEF Receiver!GetReceivedFile, RP!GetReceivedFile, Receiver!MayContinue, RP!MayContinue,
    Receiver!StoreReceivedFile, RP!StoreReceivedFile,
    Receiver!CompleteReceivedFile, RP!CompleteReceivedFile

LEMMA SameEntry ==
    /\ \A t, c, progress : Receiver!NewEntry(t, c, progress) = RP!NewEntry(t, c, progress)
    /\ \A name : Receiver!PartOpened(name) = RP!PartOpened(name)
BY Zenon DEF Receiver!NewEntry, RP!NewEntry, Receiver!InPart, RP!InPart,
    Receiver!NewReceiveManager, RP!NewReceiveManager, Receiver!NoChunk, RP!NoChunk,
    Receiver!WindowSlots, RP!WindowSlots, Receiver!PartOpened, RP!PartOpened,
    Receiver!With, RP!With

LEMMA SameReplies ==
    /\ \A response : Receiver!Reply(response) = RP!Reply(response)
    /\ \A offset : Receiver!ContinueAt(offset) = RP!ContinueAt(offset)
BY Zenon DEF Receiver!Reply, RP!Reply, Receiver!ContinueAt, RP!ContinueAt

LEMMA SameNewTransfer ==
    ASSUME NEW t, NEW c, NEW r, Receiver!NewTransfer(t, c, r)
    PROVE  RP!NewTransfer(t, c, r)
BY SameReplies, SameEntry, Zenon DEF Receiver!NewTransfer, RP!NewTransfer,
    Receiver!receiver_vars, RP!receiver_vars,
    Receiver!CreateIncomingFile, RP!CreateIncomingFile, Receiver!With, RP!With

LEMMA SameContinueTransfer ==
    ASSUME NEW t, NEW c, NEW r, Receiver!ContinueTransfer(t, c, r)
    PROVE  RP!ContinueTransfer(t, c, r)
<1>1. CASE Receiver!ContinueInMemory(t, c, r)
    <2>1. RP!ContinueInMemory(t, c, r)
        BY <1>1, SameReplies, Zenon DEF Receiver!ContinueInMemory, RP!ContinueInMemory,
            Receiver!StillInMemory, RP!StillInMemory,
            Receiver!ResetReceiveManager, RP!ResetReceiveManager,
            Receiver!NoChunk, RP!NoChunk, Receiver!WindowSlots, RP!WindowSlots
    <2> QED
        BY <2>1, Zenon DEF RP!ContinueTransfer
<1>2. CASE Receiver!StillInMemory(t, c) = {} /\ Receiver!ContinueFromDisk(t, c, r)
    <2>1. RP!ContinueFromDisk(t, c, r)
        BY <1>2, SameReplies, SameRows, SameEntry, SameUpdate, Zenon
           DEF Receiver!ContinueFromDisk, RP!ContinueFromDisk,
            Receiver!receiver_vars, RP!receiver_vars
    <2>2. RP!StillInMemory(t, c) = {}
        BY <1>2, Zenon DEF Receiver!StillInMemory, RP!StillInMemory
    <2> QED
        BY <2>1, <2>2, Zenon DEF RP!ContinueTransfer
<1> QED
    BY <1>1, <1>2, Zenon DEF Receiver!ContinueTransfer

LEMMA SameAbortTransfer ==
    ASSUME NEW t, NEW c, NEW r, Receiver!AbortTransfer(t, c, r)
    PROVE  RP!AbortTransfer(t, c, r)
BY SameReplies, SameUpdate, Zenon DEF Receiver!AbortTransfer, RP!AbortTransfer,
    Receiver!Aborts, RP!Aborts, Receiver!NoTransfer, RP!NoTransfer,
    Receiver!Without, RP!Without, Receiver!Restrict, RP!Restrict

LEMMA SameStore ==
    /\ \A rm, chunk : Receiver!StoreResult(rm, chunk) = RP!StoreResult(rm, chunk)
    /\ \A rm, chunk : Receiver!AppendedByStore(rm, chunk) = RP!AppendedByStore(rm, chunk)
    /\ \A rm, chunk : Receiver!AfterStore(rm, chunk) = RP!AfterStore(rm, chunk)
<1>1. /\ \A n : Receiver!SlotIndex(n) = RP!SlotIndex(n)
      /\ Receiver!NoChunk = RP!NoChunk /\ Receiver!WindowSlots = RP!WindowSlots
    BY Zenon DEF Receiver!SlotIndex, RP!SlotIndex, Receiver!NoChunk, RP!NoChunk,
        Receiver!WindowSlots, RP!WindowSlots
<1>2. \A rm, chunk :
         /\ Receiver!BeyondWindow(rm, chunk) <=> RP!BeyondWindow(rm, chunk)
         /\ Receiver!AlreadySeen(rm, chunk) <=> RP!AlreadySeen(rm, chunk)
         /\ Receiver!StartsRun(rm, chunk) <=> RP!StartsRun(rm, chunk)
         /\ Receiver!BufferChunk(rm, chunk) = RP!BufferChunk(rm, chunk)
    BY <1>1, Zenon DEF Receiver!BeyondWindow, RP!BeyondWindow, Receiver!AlreadySeen,
        RP!AlreadySeen, Receiver!StartsRun, RP!StartsRun, Receiver!BufferChunk, RP!BufferChunk
<1>3. ASSUME NEW rm PROVE Receiver!FittingUpTo(rm) = RP!FittingUpTo(rm) 
                          /\ Receiver!BufferedUpTo(rm) = RP!BufferedUpTo(rm)
    BY Zenon DEF Receiver!FittingUpTo, RP!FittingUpTo, Receiver!BufferedUpTo, RP!BufferedUpTo,
        Receiver!SlotIndex, RP!SlotIndex, Receiver!NoChunk, RP!NoChunk
<1>4. ASSUME NEW rm, NEW k PROVE Receiver!Drain(rm, k) = RP!Drain(rm, k)
    BY Zenon DEF Receiver!Drain, RP!Drain, Receiver!SlotIndex, RP!SlotIndex,
        Receiver!NoChunk, RP!NoChunk, Receiver!WindowSlots, RP!WindowSlots
<1>5. ASSUME NEW rm, NEW k PROVE Receiver!UnitsUpTo(rm, k) = RP!UnitsUpTo(rm, k)
    BY Zenon DEF Receiver!UnitsUpTo, RP!UnitsUpTo, Receiver!SlotIndex, RP!SlotIndex
<1>6. ASSUME NEW rm, NEW chunk
      PROVE  /\ Receiver!StoreResult(rm, chunk) = RP!StoreResult(rm, chunk)
             /\ Receiver!AppendedByStore(rm, chunk) = RP!AppendedByStore(rm, chunk)
             /\ Receiver!AfterStore(rm, chunk) = RP!AfterStore(rm, chunk)
    BY <1>2, <1>3, <1>4, <1>5 DEF Receiver!StoreResult, RP!StoreResult,
        Receiver!AppendedByStore, RP!AppendedByStore, Receiver!AfterStore, RP!AfterStore
<1> QED
    BY <1>6

LEMMA SameChunk ==
    ASSUME NEW t, NEW k, NEW c, NEW r, Receiver!Chunk(t, k, c, r)
    PROVE  RP!Chunk(t, k, c, r)
<1>1. \A e, units : Receiver!Written(e, units) => RP!Written(e, units)
    BY Zenon DEF Receiver!Written, RP!Written, Receiver!InPart, RP!InPart
<1>2. ASSUME NEW e, Receiver!ChunkStored(e, k, r) PROVE RP!ChunkStored(e, k, r)
    BY <1>1, <1>2, SameStore, SameReplies, SameUpdate, Zenon
       DEF Receiver!ChunkStored, RP!ChunkStored
<1> QED
    BY <1>2, SameReplies, Zenon DEF Receiver!Chunk, RP!Chunk

LEMMA SameDone ==
    ASSUME NEW t, NEW c, NEW r, Receiver!Done(t, c, r)
    PROVE  RP!Done(t, c, r)
BY SameReplies, SameRows, Zenon DEF Receiver!Done, RP!Done, Receiver!Finalized, RP!Finalized,
    Receiver!IsComplete, RP!IsComplete, Receiver!Without, RP!Without,
    Receiver!Restrict, RP!Restrict, Receiver!InPart, RP!InPart

LEMMA SamePeerViolation ==
    ASSUME NEW r, Receiver!PeerViolation(r) PROVE RP!PeerViolation(r)
BY SameReplies, Zenon DEF Receiver!PeerViolation, RP!PeerViolation

LEMMA SameLocalSteps ==
    /\ Receiver!Expire => RP!Expire
    /\ Receiver!Restart => RP!Restart
    /\ \A u : Receiver!ApplyUpdate(u) => RP!ApplyUpdate(u)
BY SameRows, Zenon DEF Receiver!Expire, RP!Expire, Receiver!Restart, RP!Restart,
    Receiver!EmptyBag, RP!EmptyBag, Receiver!SetToBag, RP!SetToBag,
    Receiver!ApplyUpdate, RP!ApplyUpdate, Receiver!StatusUpdated, RP!StatusUpdated,
    Receiver!(-), RP!(-)

-----------------------------------------------------------------------------
(***************************************************************************)
(* What a step of the sender can do, as far as the receiver can tell: the  *)
(* requests it adds, what becomes of the slot and of the loops, and which  *)
(* files are sent.                                                         *)
(***************************************************************************)
Offers == {"NewTransfer", "ContinueTransfer"}

Plain == {"AbortTransfer", "ProtocolViolation", "Done"}

\* What n has that the registry has not is of these kinds.
Since(n, kinds) ==
    /\ net.nextId <= n.nextId
    /\ \A r \in n.registry :
          \/ \E q \in net.registry : q.id = r.id /\ q.kind = r.kind
          \/ r.id >= net.nextId /\ r.kind \in kinds

\* The slot is emptied, or keeps its transfer and window.
SlotStays ==
    \A t \in sending' :
        \E s \in sending : /\ t.transfer = s.transfer /\ t.sm = s.sm
                           /\ t.status = "Prepared" <=> s.status = "Prepared"

Stays == SlotStays /\ Since(net', Plain)

\* A file is offered by the last of the new requests.
Offered ==
    /\ \A t \in sending' : t.status = "Prepared" /\ t.sm = NewSendManager(FileUnits)
    /\ Since(net', Plain \cup Offers)
    /\ \A r \in net'.registry :
          r.id >= net.nextId /\ r.kind \in Offers => r.id = net'.nextId - 1
    /\ \E r \in net'.registry : r.id >= net.nextId /\ r.kind \in Offers
    /\ \A r \in net'.registry : r.id >= net.nextId /\ r.kind = "NewTransfer" =>
          \A t \in sending' : t.transfer >= net.nextId
    /\ sending' # {}

LoopsStay ==
    /\ tasks'["LoopTarget"] <= tasks["LoopTarget"]
    /\ tasks'["LoopOther"] <= tasks["LoopOther"]

NothingSent == SentFiles' \subseteq SentFiles

Moves == (Stays \/ Offered) /\ NothingSent

LEMMA SinceNet ==
    ASSUME IInv PROVE Since(net, Plain)
BY Parts DEF Since

LEMMA SinceAnswered ==
    ASSUME IInv, NEW r \in net.registry
    PROVE  Since(Answered(r), Plain)
<1>1. Answered(r).registry = net.registry \ {r} /\ After(Answered(r))
    BY Parts, AnsweredOK
<1> QED
    BY <1>1 DEF Since, After

LEMMA SinceMarked ==
    ASSUME IInv, NEW r \in net.registry, NEW state \in {"Failed", "TimedOut"}
    PROVE  Since(Marked(r, state), Plain)
<1> DEFINE n == Marked(r, state)
           s == [r EXCEPT !.state = state]
           new == {[m EXCEPT !.state = state] : m \in {q \in {r} : q.state = "Open"}}
<1>1. /\ net.registry \subseteq Requests
      /\ net = [registry |-> net.registry, nextId |-> net.nextId]
    BY Parts DEF NetOK
<1>2. n = [net EXCEPT !.registry = (@ \ {r}) \cup new]
    BY DEF Marked
<1>3. new \subseteq {s}
    OBVIOUS
<1>4. s.id = r.id /\ s.kind = r.kind
    BY <1>1 DEF Requests
<1>5. After(n)
    BY Parts, MarkedOK
<1> HIDE DEF n, new, s
<1>6. n.registry = (net.registry \ {r}) \cup new
    BY <1>1, <1>2
<1>7. \A q \in n.registry : q \in net.registry \/ q = s
    BY <1>3, <1>6
<1> QED
    BY <1>4, <1>5, <1>7 DEF Since, After, n

LEMMA SinceRegister ==
    ASSUME IInv, NEW n, NetOK(n), NEW kinds, Since(n, kinds), NEW more, kinds \subseteq more,
           NEW kind \in more, NEW a
    PROVE  /\ Since(Register(n, kind, a), more)
           /\ Register(n, kind, a).nextId = n.nextId + 1
           /\ \E r \in Register(n, kind, a).registry : r.id = n.nextId /\ r.kind = kind
           /\ \A r \in Register(n, kind, a).registry :
                 r \in n.registry \/ (r.id = n.nextId /\ r.kind = kind)
<1> DEFINE m == Register(n, kind, a)
           r == [id |-> n.nextId, kind |-> kind, attempt |-> a, state |-> "Open"]
<1>1. m = [registry |-> n.registry \cup {r}, nextId |-> n.nextId + 1]
    BY DEF Register
<1>2. net.nextId \in Nat /\ n.nextId \in Nat /\ net.nextId <= n.nextId
    BY Parts DEF NetOK, Since
<1>3. r.id = n.nextId /\ r.kind = kind
    OBVIOUS
<1> HIDE DEF m, r
<1>4. m.registry = n.registry \cup {r} /\ m.nextId = n.nextId + 1
    BY <1>1
<1>5. Since(m, more)
    BY <1>2, <1>3, <1>4 DEF Since
<1> QED
    BY <1>3, <1>4, <1>5 DEF m

LEMMA SinceSend ==
    ASSUME IInv, NEW n, NetOK(n), Since(n, Plain), NEW kind \in {"AbortTransfer", "ProtocolViolation"},
           NEW m \in Send(n, kind, NoAttempt)
    PROVE  Since(m, Plain) /\ NetOK(m)
<1>1. m = n \/ m = Register(n, kind, NoAttempt)
    BY DEF Send
<1>2. kind \in Plain /\ kind \in Kinds
    BY DEF Plain, Kinds
<1>3. Since(Register(n, kind, NoAttempt), Plain)
    BY <1>2, SinceRegister
<1>4. NetOK(Register(n, kind, NoAttempt))
    BY <1>2, RegisterOK
<1> QED
    BY <1>1, <1>3, <1>4

-----------------------------------------------------------------------------
(* The methods that run under the caller's lock. *)

LEMMA OnlySentIsSent ==
    ASSUME NEW x \in Seq(Outcomes), NEW outcome \in Outcomes, outcome # "Sent"
    PROVE  Append(x, outcome) # <<"Sent">>
<1>1. Len(Append(x, outcome)) = Len(x) + 1 /\ Append(x, outcome)[Len(x) + 1] = outcome
    OBVIOUS
<1>2. Len(<<"Sent">>) = 1 /\ <<"Sent">>[1] = "Sent" /\ Len(x) \in Nat
    OBVIOUS
<1>3. PICK y : y = Append(x, outcome)
    OBVIOUS
<1>4. PICK z : z = <<"Sent">>
    OBVIOUS
<1>5. Len(y) = Len(x) + 1 /\ y[Len(x) + 1] = outcome /\ Len(z) = 1 /\ z[1] = "Sent"
    BY <1>1, <1>2, <1>3, <1>4
<1>6. y # z
    BY <1>2, <1>5
<1> QED
    BY <1>3, <1>4, <1>6

LEMMA SlotEmptied ==
    ASSUME NEW n, Since(n, Plain), net' = n, sending' = {}
    PROVE  Stays
BY DEF Stays, SlotStays

LEMMA IgnoreMoves ==
    ASSUME NEW n, Since(n, Plain), Ignore(n)
    PROVE  Stays /\ NothingSent
BY DEF Stays, SlotStays, Ignore, NothingSent, SentFiles

LEMMA StopMoves ==
    ASSUME NEW n, Since(n, Plain), NEW s, ResetAndStop(s, n)
    PROVE  Stays /\ NothingSent
BY SlotEmptied DEF ResetAndStop, NothingSent, SentFiles

LEMMA OfferMoves ==
    ASSUME IInv, NEW n, NetOK(n), Since(n, Plain), NEW p \in PendingFiles, NEW rest, Offer(p, rest, n)
    PROVE  Stays \/ Offered
<1> DEFINE kind == IF p.status = "Pending" THEN "NewTransfer" ELSE "ContinueTransfer"
           transfer == IF p.status = "Pending" THEN n.nextId ELSE p.transfer
           t == LockedSendData(p, transfer, Attempt(n, p))
<1>1. CASE net' = Register(n, kind, Attempt(n, p)) /\ sending' = {t}
    <2>1. kind \in Plain \cup Offers /\ Plain \subseteq Plain \cup Offers /\ kind \in Offers
        BY DEF Offers
    <2>2. /\ Since(net', Plain \cup Offers) /\ net'.nextId = n.nextId + 1
          /\ \E r \in net'.registry : r.id = n.nextId /\ r.kind = kind
          /\ \A r \in net'.registry : r \in n.registry \/ (r.id = n.nextId /\ r.kind = kind)
        BY <1>1, <2>1, SinceRegister
    <2>3. t.status = "Prepared" /\ t.sm = NewSendManager(FileUnits)
        BY DEF LockedSendData
    <2>4. /\ n.nextId \in Nat /\ net.nextId \in Nat /\ net.nextId <= n.nextId
          /\ net.registry \subseteq Requests
          /\ \A r \in net.registry : r.id < net.nextId
        BY Parts DEF NetOK, Since
    <2>5. \A r \in n.registry : r.id >= net.nextId => r.kind \in Plain
        <3>1. \A q \in net.registry : q.id \in Nat /\ q.id < net.nextId
            BY <2>4 DEF Requests
        <3> QED
            BY <3>1, <2>4 DEF Since
    <2>6. \A r \in net'.registry :
              r.id >= net.nextId /\ r.kind \in Offers => r.id = net'.nextId - 1
        BY <2>2, <2>4, <2>5 DEF Plain, Offers
    <2> HIDE DEF t, kind
    <2>7. \E r \in net'.registry : r.id >= net.nextId /\ r.kind \in Offers
        BY <2>1, <2>2, <2>4
    <2>8. ASSUME NEW r \in net'.registry, r.id >= net.nextId, r.kind = "NewTransfer"
          PROVE  t.transfer >= net.nextId
        <3>1. r.kind = kind
            BY <2>2, <2>5, <2>8 DEF Plain
        <3>2. p.status = "Pending" /\ t.transfer = n.nextId
            BY <2>8, <3>1 DEF kind, t, LockedSendData
        <3> QED
            BY <2>4, <3>2
    <2> QED
        BY <1>1, <2>2, <2>3, <2>6, <2>7, <2>8 DEF Offered
<1>2. CASE net' = n /\ sending' = {}
    BY <1>2, SlotEmptied
<1> QED
    BY <1>1, <1>2 DEF Offer

LEMMA SendNextMoves ==
    ASSUME IInv, NEW n, NetOK(n), Since(n, Plain), NEW out \in [Files -> Seq(Outcomes)],
           SendNext(pending, out, n)
    PROVE  /\ Stays \/ Offered
           /\ SentFiles' \subseteq {f \in Files : out[f] = <<"Sent">>}
<1>1. PICK k \in 0 .. Len(pending) :
        /\ outcomes' = [f \in Files |->
               IF \E i \in 1 .. k : pending[i].file = f
               THEN Append(out[f], "Missing") ELSE out[f]]
        /\ \/ sending' = {} /\ net' = n
           \/ /\ k < Len(pending)
              /\ Offer(pending[k + 1], SubSeq(pending, k + 2, Len(pending)), n)
    BY DEF SendNext
<1>2. Stays \/ Offered
    <2>1. CASE sending' = {} /\ net' = n
        BY <2>1, SlotEmptied
    <2>2. CASE k < Len(pending) /\ Offer(pending[k + 1], SubSeq(pending, k + 2, Len(pending)), n)
        <3>1. pending \in Seq(PendingFiles) /\ k \in Nat
            BY Parts DEF FilesInv, QueueInv
        <3>2. pending[k + 1] \in PendingFiles
            BY <2>2, <3>1
        <3> QED
            BY <2>2, <3>2, OfferMoves
    <2> QED
        BY <1>1, <2>1, <2>2
<1>3. ASSUME NEW f \in SentFiles'
      PROVE  f \in Files /\ out[f] = <<"Sent">>
    <2>1. f \in Files /\ outcomes'[f] = <<"Sent">> /\ out[f] \in Seq(Outcomes)
        BY <1>3 DEF SentFiles
    <2>2. "Missing" \in Outcomes /\ "Missing" # "Sent"
        BY DEF Outcomes
    <2>3. Append(out[f], "Missing") # <<"Sent">>
        BY <2>1, <2>2, OnlySentIsSent
    <2> QED
        BY <1>1, <2>1, <2>3
<1> QED
    BY <1>2, <1>3

LEMMA CompleteMoves ==
    ASSUME IInv, NEW n, NetOK(n), Since(n, Plain), NEW f \in Files, NEW outcome \in Outcomes,
           CompleteFile(f, outcome, n)
    PROVE  /\ Stays \/ Offered
           /\ SentFiles' \subseteq SentFiles \cup {f}
           /\ outcome # "Sent" => NothingSent
<1> DEFINE out == [outcomes EXCEPT ![f] = Append(@, outcome)]
<1>1. outcomes \in [Files -> Seq(Outcomes)]
    BY Parts DEF FilesInv, OutcomesInv
<1>2. Append(outcomes[f], outcome) \in Seq(Outcomes)
    BY <1>1
<1>3. /\ out \in [Files -> Seq(Outcomes)] /\ out[f] = Append(outcomes[f], outcome)
      /\ \A g \in Files : g # f => out[g] = outcomes[g]
    BY <1>1, <1>2
<1>4. SendNext(pending, out, n)
    BY DEF CompleteFile
<1> HIDE DEF out
<1>5. /\ Stays \/ Offered
      /\ SentFiles' \subseteq {g \in Files : out[g] = <<"Sent">>}
    BY <1>3, <1>4, SendNextMoves
<1>6. outcome # "Sent" => out[f] # <<"Sent">>
    BY <1>1, <1>3, OnlySentIsSent
<1> QED
    BY <1>3, <1>5, <1>6 DEF SentFiles, NothingSent

LEMMA StartMoves ==
    ASSUME IInv, NEW n, NetOK(n), Since(n, Plain), SendNext(pending, outcomes, n)
    PROVE  Moves
<1>1. outcomes \in [Files -> Seq(Outcomes)]
    BY Parts DEF FilesInv, OutcomesInv
<1> QED
    BY <1>1, SendNextMoves DEF Moves, NothingSent, SentFiles

-----------------------------------------------------------------------------
(* Failures, and what happens without the peer. *)

LEMMA ErrorMoves ==
    ASSUME IInv, NEW n, NetOK(n), Since(n, Plain), NEW error, ErrorHandled(error, n)
    PROVE  Moves
<1>1. ASSUME NEW s \in sending, CompleteFile(s.file, "Rejected", n) PROVE Moves
    <2>1. s.file \in Files /\ "Rejected" \in Outcomes /\ "Rejected" # "Sent"
        BY Parts, Untouched DEF Transfers, Outcomes
    <2> QED
        BY <1>1, <2>1, CompleteMoves DEF Moves
<1>2. ASSUME NEW s \in sending, CompleteFile(s.file, "Failed", n) PROVE Moves
    <2>1. s.file \in Files /\ "Failed" \in Outcomes /\ "Failed" # "Sent"
        BY Parts, Untouched DEF Transfers, Outcomes
    <2> QED
        BY <1>2, <2>1, CompleteMoves DEF Moves
<1>3. ASSUME NEW s, ResetAndStop(s, n) PROVE Moves
    BY <1>3, StopMoves DEF Moves
<1>4. ASSUME Ignore(n) PROVE Moves
    BY <1>4, IgnoreMoves DEF Moves
<1> QED
    BY <1>1, <1>2, <1>3, <1>4 DEF ErrorHandled, ResetAndRetry

\* A loop sends the next chunk of the transfer in the slot.
ChunkGoes ==
    \E s \in sending, who \in Contacts :
        /\ tasks[LoopOf(who)] > 0 /\ UNCHANGED tasks
        /\ sending' = {[s EXCEPT !.sm = ChunkSent(@, net.nextId)]}
        /\ net' = Register(net, "Chunk", s.attempt)

LEMMA EndsStays ==
    ASSUME TasksOK, NEW t \in Tasks, tasks[t] > 0, Ends(t)
    PROVE  LoopsStay
<1>1. tasks' = [tasks EXCEPT ![t] = @ - 1] /\ tasks \in [Tasks -> Nat]
    BY DEF Ends, TasksOK
<1>2. "LoopTarget" \in Tasks /\ "LoopOther" \in Tasks
    BY DEF Tasks
<1>3. \A u \in Tasks : tasks[u] \in Nat /\ tasks'[u] = IF u = t THEN tasks[u] - 1 ELSE tasks[u]
    BY <1>1
<1> QED
    BY <1>2, <1>3 DEF LoopsStay

LEMMA GoesStays ==
    ASSUME TasksOK, NEW t \in ResetTasks, Goes(t)
    PROVE  LoopsStay
<1>1. tasks' = [tasks EXCEPT ![t] = @ + 1] /\ tasks \in [Tasks -> Nat]
    BY DEF Goes, TasksOK
<1>2. /\ tasks["LoopTarget"] \in Nat /\ tasks'["LoopTarget"] = tasks["LoopTarget"]
      /\ tasks["LoopOther"] \in Nat /\ tasks'["LoopOther"] = tasks["LoopOther"]
    BY <1>1 DEF Tasks, ResetTasks
<1> QED
    BY <1>2 DEF LoopsStay

LEMMA SameTasksStay ==
    ASSUME TasksOK, UNCHANGED tasks
    PROVE  LoopsStay
<1>1. tasks["LoopTarget"] \in Nat /\ tasks["LoopOther"] \in Nat
    BY DEF TasksOK, Tasks
<1> QED
    BY <1>1 DEF LoopsStay

LEMMA FailureMoves ==
    ASSUME IInv, SomeFailure
    PROVE  Moves /\ LoopsStay
<1>1. ASSUME NEW r \in net.registry, NEW error, HandleReceiveError(r, error)
      PROVE  Moves /\ LoopsStay
    <2>1. NetOK(Failed(r)) /\ Since(Failed(r), Plain)
        BY Parts, MarkedOK, SinceMarked DEF Failed, After
    <2> QED
        BY <1>1, <2>1, Parts, ErrorMoves, SameTasksStay DEF HandleReceiveError
<1>2. ASSUME NEW r \in net.registry, HandleUndecryptable(r)
      PROVE  Moves /\ LoopsStay
    <2>1. NetOK(Answered(r)) /\ Since(Answered(r), Plain)
        BY Parts, AnsweredOK, SinceAnswered DEF After
    <2> QED
        BY <1>2, <2>1, Parts, ErrorMoves, SameTasksStay DEF HandleUndecryptable
<1>3. ASSUME NEW r \in net.registry, HandleTimeout(r)
      PROVE  Moves /\ LoopsStay
    <2>1. NetOK(TimedOut(r)) /\ Since(TimedOut(r), Plain)
        BY Parts, MarkedOK, SinceMarked DEF TimedOut, After
    <2> QED
        BY <1>3, <2>1, Parts, ErrorMoves, SameTasksStay DEF HandleTimeout
<1>4. CASE PeerDisconnected
    BY <1>4, Parts, SinceNet, IgnoreMoves, GoesStays DEF ResetTasks, PeerDisconnected, Moves
<1> QED
    BY <1>1, <1>2, <1>3, <1>4 DEF SomeFailure

LEMMA DoneMoves ==
    ASSUME IInv, NEW s \in sending, LoopDone(s)
    PROVE  Moves
<1>1. CASE ResetAndStop(s, net)
    BY <1>1, SinceNet, StopMoves DEF Moves
<1>2. CASE /\ net' = Register(net, "Done", s.attempt)
           /\ sending' = {[s EXCEPT !.status = IF @ = "Sending" THEN "PendingSent" ELSE @]}
           /\ UNCHANGED outcomes
    <2> DEFINE t == [s EXCEPT !.status = IF @ = "Sending" THEN "PendingSent" ELSE @]
    <2>1. "Done" \in Plain /\ Plain \subseteq Plain
        BY DEF Plain
    <2>2. Since(net', Plain)
        BY <1>2, <2>1, Parts, SinceNet, SinceRegister
    <2>3. s \in Transfers
        BY Parts, Untouched
    <2>4. /\ t.transfer = s.transfer /\ t.sm = s.sm
          /\ t.status = "Prepared" <=> s.status = "Prepared"
        BY <2>3 DEF Transfers
    <2>5. sending' = {t}
        BY <1>2
    <2> HIDE DEF t
    <2>6. SlotStays
        BY <2>4, <2>5 DEF SlotStays
    <2> QED
        BY <1>2, <2>2, <2>6 DEF Moves, Stays, NothingSent, SentFiles
<1> QED
    BY <1>1, <1>2 DEF LoopDone

LEMMA LoopMoves ==
    ASSUME IInv, NEW who \in Contacts, SendChunksLoop(who)
    PROVE  (Moves /\ LoopsStay) \/ (ChunkGoes /\ NothingSent)
<1>1. LoopOf(who) \in Tasks /\ tasks[LoopOf(who)] > 0 /\ TasksOK
    BY Parts, LoopIsTask DEF SendChunksLoop
<1>2. Ends(LoopOf(who)) => LoopsStay
    BY <1>1, EndsStays
<1>3. CASE Ignore(net) /\ Ends(LoopOf(who))
    BY <1>2, <1>3, SinceNet, IgnoreMoves DEF Moves
<1>4. ASSUME NEW s \in sending, LoopSent(s), UNCHANGED tasks
      PROVE  ChunkGoes /\ NothingSent
    BY <1>1, <1>4 DEF ChunkGoes, NothingSent, LoopSent, SentFiles
<1>5. ASSUME NEW s \in sending, LoopIoError(s)
      PROVE  Moves
    <2>1. PICK n \in Send(net, "AbortTransfer", NoAttempt) : CompleteFile(s.file, "IoError", n)
        BY <1>5 DEF LoopIoError
    <2>2. Since(n, Plain) /\ NetOK(n)
        BY Parts, SinceNet, SinceSend
    <2>3. s.file \in Files /\ "IoError" \in Outcomes /\ "IoError" # "Sent"
        BY Parts, Untouched DEF Transfers, Outcomes
    <2> QED
        BY <2>1, <2>2, <2>3, CompleteMoves DEF Moves
<1>6. ASSUME NEW s \in sending, LoopInterrupt(s)
      PROVE  Moves
    BY <1>6, SinceNet, SlotEmptied DEF LoopInterrupt, Moves, NothingSent, SentFiles
<1>7. ASSUME NEW s \in sending, LoopDone(s)
      PROVE  Moves
    BY <1>7, DoneMoves
<1> QED
    BY <1>2, <1>3, <1>4, <1>5, <1>6, <1>7 DEF SendChunksLoop

LEMMA CancelMoves ==
    ASSUME IInv, NEW fs, Cancel(fs)
    PROVE  Moves /\ UNCHANGED tasks
<1>1. UNCHANGED tasks
    BY DEF Cancel
<1>2. ASSUME NEW n \in Send(net, "AbortTransfer", NoAttempt), SendNext(pending, outcomes, n)
      PROVE  Moves
    <2>1. Since(n, Plain) /\ NetOK(n)
        BY Parts, SinceNet, SinceSend
    <2> QED
        BY <1>2, <2>1, StartMoves
<1>3. CASE UNCHANGED <<entry, sending, net, outcomes>>
    <2>1. sending' = sending /\ net' = net /\ outcomes' = outcomes
        BY <1>3
    <2> QED
        BY <1>1, <2>1, SinceNet DEF Moves, Stays, SlotStays, NothingSent, SentFiles
<1>4. \/ \E n \in Send(net, "AbortTransfer", NoAttempt) : SendNext(pending, outcomes, n)
      \/ UNCHANGED <<entry, sending, net, outcomes>>
    BY DEF Cancel
<1> QED
    BY <1>1, <1>2, <1>3, <1>4

LEMMA LocalMoves ==
    ASSUME IInv, LocalStep
    PROVE  (Moves /\ LoopsStay) \/ (ChunkGoes /\ NothingSent)
<1>1. CASE \E who \in Contacts : SendChunksLoop(who)
    BY <1>1, LoopMoves
<1>2. CASE ResetOnProtocolViolation
    <2>1. PICK n \in Send(net, "ProtocolViolation", NoAttempt) :
              \/ Ignore(n)
              \/ \E s \in sending : ResetAndStop([s EXCEPT !.retry = @ + 1], n)
        BY <1>2 DEF ResetOnProtocolViolation
    <2>2. Since(n, Plain)
        BY Parts, SinceNet, SinceSend
    <2>3. Moves
        BY <2>1, <2>2, IgnoreMoves, StopMoves DEF Moves
    <2>4. LoopsStay
        BY <1>2, Parts, EndsStays DEF ResetOnProtocolViolation, Tasks
    <2> QED
        BY <2>3, <2>4
<1>3. CASE ResetOnInternalError
    <2>1. PICK n \in Send(net, "AbortTransfer", NoAttempt) :
              \/ Ignore(n)
              \/ \E s \in sending : ResetAndStop([s EXCEPT !.retry = @ + 1], n)
        BY <1>3 DEF ResetOnInternalError
    <2>2. Since(n, Plain)
        BY Parts, SinceNet, SinceSend
    <2>3. Moves
        BY <2>1, <2>2, IgnoreMoves, StopMoves DEF Moves
    <2>4. LoopsStay
        BY <1>3, Parts, EndsStays DEF ResetOnInternalError, Tasks
    <2> QED
        BY <2>3, <2>4
<1>4. CASE ResetForDisconnectedPeer
    <2>1. Moves
        BY <1>4, SinceNet, IgnoreMoves, StopMoves DEF ResetForDisconnectedPeer, ResetAll, Moves
    <2>2. LoopsStay
        BY <1>4, Parts, EndsStays DEF ResetForDisconnectedPeer, Tasks
    <2> QED
        BY <2>1, <2>2
<1>5. CASE \E f \in Files : AddPendingFile(f)
    <2>1. UNCHANGED <<sending, tasks, net, outcomes>>
        BY <1>5 DEF AddPendingFile
    <2> QED
        BY <2>1, Parts, SinceNet, SameTasksStay DEF Moves, Stays, SlotStays, NothingSent, SentFiles
<1>6. CASE TriggerInteractionWith
    BY <1>6, Parts, SinceNet, StartMoves, SameTasksStay DEF TriggerInteractionWith
<1>7. CASE \E id \in Ids : CancelFile(id)
    BY <1>7, Parts, CancelMoves, SameTasksStay DEF CancelFile
<1>8. CASE \E t \in Targets : CancelFileByTarget(t)
    BY <1>8, Parts, CancelMoves, SameTasksStay DEF CancelFileByTarget
<1> QED
    BY <1>1, <1>2, <1>3, <1>4, <1>5, <1>6, <1>7, <1>8 DEF LocalStep

-----------------------------------------------------------------------------
(* Responses. *)

Accepts == {"AcceptNewTransfer", "RestartContinueTransfer", "AcceptContinueTransfer"}

\* The transfer in the slot is accepted, and its chunks will follow.
Begins(response, offset) ==
    \E s \in sending, t \in sending' :
        /\ response \in Accepts
        /\ s.status = "Prepared" /\ t.status = "Sending" /\ t.transfer = s.transfer
        /\ t.sm = IF response = "AcceptContinueTransfer" THEN SetProgress(s.sm, offset) ELSE s.sm
        /\ sending' = {t}
        /\ tasks'["LoopOther"] = tasks["LoopOther"]

\* The chunk of request id is acknowledged.
Acks(id) ==
    \E s \in sending, t \in sending' :
        /\ s.status = "Sending" /\ t.status = "Sending" /\ t.transfer = s.transfer
        /\ CanMarkDone(s.sm, id) /\ t.sm = MarkDone(s.sm, id)
        /\ sending' = {t}
        /\ tasks'["LoopOther"] = tasks["LoopOther"]

\* Everything else that a response can lead to.
OtherMoves == (Stays \/ Offered) /\ LoopsStay

LEMMA LoopGoes ==
    ASSUME TasksOK, Goes(LoopOf("target"))
    PROVE  tasks'["LoopOther"] = tasks["LoopOther"]
<1>1. tasks' = [tasks EXCEPT !["LoopTarget"] = @ + 1] /\ tasks \in [Tasks -> Nat]
    BY DEF Goes, LoopOf, TasksOK
<1> QED
    BY <1>1 DEF Tasks

LEMMA UnexpectedMoves ==
    ASSUME IInv, NEW n, NetOK(n), Since(n, Plain), Unexpected(n)
    PROVE  OtherMoves /\ NothingSent
<1>1. ASSUME NEW m \in Send(n, "ProtocolViolation", NoAttempt), Ignore(m), UNCHANGED tasks
      PROVE  OtherMoves /\ NothingSent
    <2>1. Since(m, Plain)
        BY SinceSend
    <2> QED
        BY <1>1, <2>1, Parts, IgnoreMoves, SameTasksStay DEF OtherMoves
<1>2. CASE Ignore(n) /\ Goes("ResetOnProtocolViolation")
    BY <1>2, Parts, IgnoreMoves, GoesStays DEF ResetTasks, OtherMoves
<1> QED
    BY <1>1, <1>2 DEF Unexpected

LEMMA NotVerifiedMoves ==
    ASSUME IInv, NEW n, Since(n, Plain), NEW s, NEW who, NotVerified(s, who, n)
    PROVE  OtherMoves /\ NothingSent
<1>1. UNCHANGED tasks
    BY DEF NotVerified, Hangs
<1>2. Ignore(n) \/ ResetAndStop(s, n)
    BY DEF NotVerified, Hangs
<1> QED
    BY <1>1, <1>2, Parts, IgnoreMoves, StopMoves, SameTasksStay DEF OtherMoves

LEMMA NotExpectedMoves ==
    ASSUME IInv, NEW n, Since(n, Plain), NEW s \in sending, NEW v,
           v.transfer = s.transfer, v.sm = s.sm, v.status = s.status, NotExpectedNow(v, n)
    PROVE  OtherMoves /\ NothingSent
<1>1. LoopsStay
    BY Parts, GoesStays DEF ResetTasks, NotExpectedNow
<1>2. Stays
    BY DEF NotExpectedNow, Stays, SlotStays
<1> QED
    BY <1>1, <1>2 DEF OtherMoves, NotExpectedNow, NothingSent, SentFiles

LEMMA VerifiedSame ==
    ASSUME IInv, NEW s \in sending, NEW who, NEW v \in Verified(s, who)
    PROVE  /\ v \in Transfers
           /\ v.transfer = s.transfer /\ v.sm = s.sm /\ v.status = s.status
<1>1. s \in Transfers
    BY Parts, Untouched
<1>2. v = s \/ v = [s EXCEPT !.verify = "Free"]
    BY DEF Verified, AfterVerification
<1> QED
    BY <1>1, <1>2 DEF Transfers

LEMMA StartSendingMoves ==
    ASSUME IInv, NEW n, Since(n, Plain), NEW s \in sending, NEW v \in Transfers,
           v.transfer = s.transfer, v.status = s.status, s.status # "Prepared" => v.sm = s.sm,
           NEW response \in Accepts, NEW offset,
           s.status = "Prepared" =>
               v.sm = IF response = "AcceptContinueTransfer" THEN SetProgress(s.sm, offset) ELSE s.sm,
           StartSending(v, n, "target")
    PROVE  (OtherMoves \/ (Begins(response, offset) /\ Since(net', Plain))) /\ NothingSent
<1>1. CASE v.status # "Prepared" /\ NotExpectedNow(v, n)
    BY <1>1, NotExpectedMoves
<1>2. CASE /\ v.status = "Prepared"
           /\ sending' = {[v EXCEPT !.status = "Sending"]}
           /\ net' = n
           /\ UNCHANGED <<entry, pending, outcomes>>
           /\ Goes(LoopOf("target"))
    <2> DEFINE t == [v EXCEPT !.status = "Sending"]
    <2>1. t.status = "Sending" /\ t.transfer = s.transfer /\ t.sm = v.sm
        BY DEF Transfers
    <2>2. sending' = {t}
        BY <1>2
    <2>3. tasks'["LoopOther"] = tasks["LoopOther"]
        BY <1>2, Parts, LoopGoes
    <2> HIDE DEF t
    <2>4. Begins(response, offset)
        BY <1>2, <2>1, <2>2, <2>3 DEF Begins
    <2> QED
        BY <1>2, <2>4 DEF NothingSent, SentFiles
<1> QED
    BY <1>1, <1>2 DEF StartSending

LEMMA AcceptMoves ==
    ASSUME IInv, NEW n, NetOK(n), Since(n, Plain), NEW response \in Accepts, NEW offset \in Nat,
           \/ response # "AcceptContinueTransfer" /\ AcceptNewTransfer(n, "target")
           \/ /\ response = "AcceptContinueTransfer"
              /\ AcceptContinueTransfer(n, "target", offset)
    PROVE  (OtherMoves \/ (Begins(response, offset) /\ Since(net', Plain))) /\ NothingSent
<1>1. CASE Unexpected(n)
    BY <1>1, UnexpectedMoves
<1>2. ASSUME NEW s \in sending, NotVerified(s, "target", n)
      PROVE  OtherMoves /\ NothingSent
    BY <1>2, NotVerifiedMoves
<1>3. ASSUME NEW s \in sending, NEW v \in Verified(s, "target"), StartSending(v, n, "target"),
             response # "AcceptContinueTransfer"
      PROVE  (OtherMoves \/ (Begins(response, offset) /\ Since(net', Plain))) /\ NothingSent
    BY <1>3, VerifiedSame, StartSendingMoves
<1>4. ASSUME NEW s \in sending, NEW v \in Verified(s, "target"),
             StartSending(ContinueAt(v, offset), n, "target"),
             response = "AcceptContinueTransfer"
      PROVE  (OtherMoves \/ (Begins(response, offset) /\ Since(net', Plain))) /\ NothingSent
    <2> DEFINE w == ContinueAt(v, offset)
    <2>1. /\ v \in Transfers /\ v.transfer = s.transfer /\ v.sm = s.sm /\ v.status = s.status
          /\ SameTransfer(v, s) /\ Unlocks(v, "target")
        BY Parts, VerifiedSame, VerifiedOK
    <2>2. w \in Transfers
        BY <2>1, ContinueAtOK DEF SameTransfer
    <2>3. w.transfer = s.transfer /\ w.status = s.status
        BY <2>1 DEF ContinueAt, Transfers
    <2>4. s.status # "Prepared" => w.sm = s.sm
        BY <2>1 DEF ContinueAt
    <2>5. s.status = "Prepared" => w.sm = SetProgress(s.sm, offset)
        BY <2>1 DEF ContinueAt, Transfers
    <2>6. StartSending(w, n, "target")
        BY <1>4
    <2> HIDE DEF w
    <2> QED
        BY <1>4, <2>2, <2>3, <2>4, <2>5, <2>6, StartSendingMoves
<1> QED
    BY <1>1, <1>2, <1>3, <1>4 DEF AcceptNewTransfer, AcceptContinueTransfer

LEMMA RejectedMoves ==
    ASSUME IInv, NEW n, NetOK(n), Since(n, Plain),
           \/ Unexpected(n) \/ RejectedBy("target", n) \/ RejectContinueTransfer(n, "target")
           \/ RejectChunk(n)
    PROVE  OtherMoves /\ NothingSent
<1>1. ASSUME NEW s \in sending, CompleteFile(s.file, "Rejected", n), UNCHANGED tasks
      PROVE  OtherMoves /\ NothingSent
    <2>1. s.file \in Files /\ "Rejected" \in Outcomes /\ "Rejected" # "Sent"
        BY Parts, Untouched DEF Transfers, Outcomes
    <2> QED
        BY <1>1, <2>1, Parts, CompleteMoves, SameTasksStay DEF OtherMoves
<1>2. CASE Unexpected(n)
    BY <1>2, UnexpectedMoves
<1>3. CASE RejectedBy("target", n)
    BY <1>1, <1>3, NotVerifiedMoves DEF RejectedBy
<1>4. CASE RejectContinueTransfer(n, "target")
    <2>1. CASE Ignore(n) /\ UNCHANGED tasks
        BY <2>1, Parts, IgnoreMoves, SameTasksStay DEF OtherMoves
    <2> QED
        BY <1>3, <1>4, <2>1 DEF RejectContinueTransfer, Hangs
<1>5. CASE RejectChunk(n)
    <2>1. CASE /\ sending' = {} /\ net' = n /\ UNCHANGED <<entry, pending, outcomes>>
               /\ Goes("ResetOnProtocolViolation")
        BY <2>1, Parts, SlotEmptied, GoesStays DEF ResetTasks, OtherMoves, NothingSent, SentFiles
    <2> QED
        BY <1>1, <1>2, <1>5, <2>1 DEF RejectChunk
<1> QED
    BY <1>2, <1>3, <1>4, <1>5

LEMMA ConfirmChunkMoves ==
    ASSUME IInv, NEW n, NetOK(n), Since(n, Plain), NEW r, ConfirmChunk(r, n, "target")
    PROVE  (OtherMoves \/ (Acks(r.id) /\ Since(net', Plain))) /\ NothingSent
<1>1. CASE Unexpected(n)
    BY <1>1, UnexpectedMoves
<1>2. ASSUME NEW s \in sending, ResetAndStop(s, n), UNCHANGED tasks
      PROVE  OtherMoves /\ NothingSent
    BY <1>2, Parts, StopMoves, SameTasksStay DEF OtherMoves
<1>3. ASSUME NEW s \in sending, NotExpectedNow(s, n)
      PROVE  OtherMoves /\ NothingSent
    BY <1>3, NotExpectedMoves
<1>4. CASE Ignore(n) /\ UNCHANGED tasks
    BY <1>4, Parts, IgnoreMoves, SameTasksStay DEF OtherMoves
<1>5. ASSUME NEW s \in sending, s.status = "Sending", CanMarkDone(s.sm, r.id),
             sending' = {[s EXCEPT !.sm = MarkDone(s.sm, r.id),
                                   !.progress = MarkDone(s.sm, r.id).progress]},
             net' = n, Goes(LoopOf("target")), UNCHANGED <<entry, pending, outcomes, service>>
      PROVE  Acks(r.id) /\ Since(net', Plain) /\ NothingSent
    <2> DEFINE sm == MarkDone(s.sm, r.id)
               t == [s EXCEPT !.sm = sm, !.progress = sm.progress]
    <2>1. s \in Transfers
        BY Parts, Untouched
    <2>2. sending' = {t}
        BY <1>5
    <2>3. tasks'["LoopOther"] = tasks["LoopOther"]
        BY <1>5, Parts, LoopGoes
    <2> HIDE DEF sm
    <2>4. t.status = "Sending" /\ t.transfer = s.transfer /\ t.sm = sm
        BY <1>5, <2>1 DEF Transfers
    <2> HIDE DEF t
    <2>5. Acks(r.id)
        BY <1>5, <2>2, <2>3, <2>4 DEF Acks, sm
    <2> QED
        BY <1>5, <2>5 DEF NothingSent, SentFiles
<1>6. \/ Unexpected(n)
      \/ Ignore(n) /\ UNCHANGED tasks
      \/ \E s \in sending :
            \/ ResetAndStop(s, n) /\ UNCHANGED tasks
            \/ NotExpectedNow(s, n)
            \/ /\ s.status = "Sending" /\ CanMarkDone(s.sm, r.id)
               /\ sending' = {[s EXCEPT !.sm = MarkDone(s.sm, r.id),
                                       !.progress = MarkDone(s.sm, r.id).progress]}
               /\ net' = n /\ Goes(LoopOf("target"))
               /\ UNCHANGED <<entry, pending, outcomes, service>>
    BY Zenon DEF ConfirmChunk
<1> QED
    BY <1>1, <1>2, <1>3, <1>4, <1>5, <1>6, Zenon

LEMMA AnswerDoneMoves ==
    ASSUME IInv, NEW n, NetOK(n), Since(n, Plain), NEW outcome \in Outcomes, AnswerDone(n, outcome)
    PROVE  /\ OtherMoves
           /\ outcome # "Sent" => NothingSent
           /\ \E f : SentFiles' \subseteq SentFiles \cup {f}
<1>1. CASE Unexpected(n)
    BY <1>1, UnexpectedMoves DEF NothingSent
<1>2. ASSUME NEW s \in sending, NotExpectedNow(s, n)
      PROVE  OtherMoves /\ NothingSent
    BY <1>2, NotExpectedMoves
<1>3. ASSUME NEW s \in sending, CompleteFile(s.file, outcome, n), UNCHANGED tasks
      PROVE  /\ OtherMoves
             /\ outcome # "Sent" => NothingSent
             /\ SentFiles' \subseteq SentFiles \cup {s.file}
    <2>1. s.file \in Files
        BY Parts, Untouched DEF Transfers
    <2> QED
        BY <1>3, <2>1, Parts, CompleteMoves, SameTasksStay DEF OtherMoves
<1> QED
    BY <1>1, <1>2, <1>3 DEF AnswerDone, NothingSent

\* What a response leads to when the registry is left as n.
Handled(r, n, response, offset, who) ==
    \/ /\ response \in {"AcceptNewTransfer", "RestartContinueTransfer"}
       /\ AcceptNewTransfer(n, who)
    \/ /\ response = "AcceptContinueTransfer"
       /\ AcceptContinueTransfer(n, who, offset)
    \/ response = "RejectNewTransfer" /\ RejectNewTransfer(n, who)
    \/ response = "RejectContinueTransfer" /\ RejectContinueTransfer(n, who)
    \/ /\ response = "ConfirmChunk"
       /\ \/ n = Answered(r) /\ ConfirmChunk(r, n, who)
          \/ n = Failed(r) /\ ConfirmUnknown(n) /\ UNCHANGED service
    \/ /\ \/ response = "RejectChunk" /\ RejectChunk(n)
          \/ response = "ConfirmDone" /\ AnswerDone(n, "Sent")
          \/ response = "RejectDone" /\ AnswerDone(n, "Rejected")
       /\ UNCHANGED service
    \/ /\ \/ response = "ConfirmAbort" /\ ConfirmAbort(n)
          \/ /\ response = "AcknowledgeProtocolViolation"
             /\ AcknowledgeProtocolViolation(n)
          \/ response = "ProtocolViolation" /\ PeerReportsViolation(n)
          \/ response = "InternalError" /\ PeerReportsInternalError(n)
       /\ UNCHANGED <<tasks, service>>

LEMMA ResponseIsHandled ==
    ASSUME IInv, NEW r \in net.registry, NEW response, NEW offset, NEW who,
           ReceiveResponse(r, response, offset, who)
    PROVE  \E n : /\ Handled(r, n, response, offset, who)
                  /\ n = Answered(r) \/ n = Failed(r)
                  /\ NetOK(n) /\ Since(n, Plain)
<1>1. PICK n \in AfterResponse(r) : Handled(r, n, response, offset, who)
    BY Zenon DEF ReceiveResponse, Handled
<1>2. n = Answered(r) \/ n = Failed(r)
    BY DEF AfterResponse
<1>3. NetOK(n)
    BY Parts, AfterResponseOK DEF Settles, After
<1>4. Since(n, Plain)
    BY <1>2, SinceAnswered, SinceMarked DEF Failed
<1> QED
    BY <1>1, <1>2, <1>3, <1>4

LEMMA UnknownMoves ==
    ASSUME IInv, NEW n, NetOK(n), Since(n, Plain), ConfirmUnknown(n)
    PROVE  OtherMoves /\ NothingSent
<1>1. CASE Unexpected(n)
    BY <1>1, UnexpectedMoves
<1>2. CASE Ignore(n) /\ Goes("ResetOnInternalError")
    BY <1>2, Parts, IgnoreMoves, GoesStays DEF OtherMoves, ResetTasks
<1> QED
    BY <1>1, <1>2 DEF ConfirmUnknown

(***************************************************************************)
(* A response of the target leads to a start, an acknowledgement or to one *)
(* of the other moves, and only ConfirmDone makes a file sent.             *)
(***************************************************************************)
LEMMA ReceiveMoves ==
    ASSUME IInv, NEW r \in net.registry, NEW response, NEW offset \in Nat,
           ReceiveResponse(r, response, offset, "target")
    PROVE  /\ \/ OtherMoves
              \/ Begins(response, offset) /\ Since(net', Plain)
              \/ response = "ConfirmChunk" /\ Acks(r.id) /\ Since(net', Plain)
           /\ response # "ConfirmDone" => NothingSent
           /\ \E f : SentFiles' \subseteq SentFiles \cup {f}
<1> DEFINE Goal == /\ \/ OtherMoves
                      \/ Begins(response, offset) /\ Since(net', Plain)
                      \/ response = "ConfirmChunk" /\ Acks(r.id) /\ Since(net', Plain)
                   /\ response # "ConfirmDone" => NothingSent
                   /\ \E f : SentFiles' \subseteq SentFiles \cup {f}
<1> SUFFICES Goal
    OBVIOUS
<1>1. PICK n : Handled(r, n, response, offset, "target") /\ NetOK(n) /\ Since(n, Plain)
    BY ResponseIsHandled
<1>2. OtherMoves /\ NothingSent => Goal
    BY DEF NothingSent
<1>3. CASE \/ /\ response \in {"AcceptNewTransfer", "RestartContinueTransfer"}
              /\ AcceptNewTransfer(n, "target")
           \/ /\ response = "AcceptContinueTransfer"
              /\ AcceptContinueTransfer(n, "target", offset)
    <2>1. response \in Accepts
        BY <1>3 DEF Accepts
    <2>2. (OtherMoves \/ (Begins(response, offset) /\ Since(net', Plain))) /\ NothingSent
        BY <1>1, <1>3, <2>1, AcceptMoves
    <2> QED
        BY <2>2 DEF NothingSent
<1>4. CASE RejectNewTransfer(n, "target")
    BY <1>1, <1>2, <1>4, RejectedMoves DEF RejectNewTransfer
<1>5. CASE RejectContinueTransfer(n, "target")
    BY <1>1, <1>2, <1>5, RejectedMoves
<1>6. CASE response = "ConfirmChunk" /\ ConfirmChunk(r, n, "target")
    <2>1. (OtherMoves \/ (Acks(r.id) /\ Since(net', Plain))) /\ NothingSent
        BY <1>1, <1>6, ConfirmChunkMoves
    <2> QED
        BY <1>6, <2>1 DEF NothingSent
<1>7. CASE RejectChunk(n) \/ ConfirmUnknown(n)
    BY <1>1, <1>2, <1>7, RejectedMoves, UnknownMoves
<1>8. CASE \/ response = "ConfirmDone" /\ AnswerDone(n, "Sent")
           \/ response = "RejectDone" /\ AnswerDone(n, "Rejected")
    <2>1. "Sent" \in Outcomes /\ "Rejected" \in Outcomes
        BY DEF Outcomes
    <2> QED
        BY <1>1, <1>8, <2>1, AnswerDoneMoves
<1>9. ASSUME UNCHANGED tasks, Moves
      PROVE  Goal
    BY <1>2, <1>9, Parts, SameTasksStay DEF OtherMoves, Moves
<1>10. CASE /\ \/ ConfirmAbort(n) \/ AcknowledgeProtocolViolation(n)
               \/ PeerReportsViolation(n) \/ PeerReportsInternalError(n)
            /\ UNCHANGED <<tasks, service>>
    <2>1. CASE Ignore(n)
        BY <1>1, <2>1, IgnoreMoves, <1>9, <1>10 DEF Moves
    <2>2. CASE SendNext(pending, outcomes, n)
        BY <1>1, <2>2, StartMoves, <1>9, <1>10
    <2>3. ASSUME NEW s, ResetAndStop(s, n) PROVE Goal
        BY <1>1, <2>3, StopMoves, <1>9, <1>10 DEF Moves
    <2>4. ASSUME NEW s \in sending, ResetAndRetry([s EXCEPT !.retry = @ + 1], n) PROVE Goal
        <3> DEFINE v == [s EXCEPT !.retry = @ + 1]
        <3>1. v.file = s.file /\ s.file \in Files /\ "Failed" \in Outcomes /\ "Failed" # "Sent"
            BY Parts, Untouched DEF Transfers, Outcomes
        <3>2. CompleteFile(v.file, "Failed", n) \/ ResetAndStop(v, n)
            BY <2>4 DEF ResetAndRetry
        <3> HIDE DEF v, Goal
        <3>3. CASE CompleteFile(v.file, "Failed", n)
            BY <1>1, <3>1, <3>3, CompleteMoves, <1>9, <1>10 DEF Moves
        <3> QED
            BY <2>3, <3>2, <3>3
    <2> QED
        BY <1>10, <2>1, <2>2, <2>3, <2>4
        DEF ConfirmAbort, AcknowledgeProtocolViolation, PeerReportsViolation,
            PeerReportsInternalError
<1> HIDE DEF Goal
<1> QED
    BY <1>1, <1>3, <1>4, <1>5, <1>6, <1>7, <1>8, <1>10 DEF Handled

-----------------------------------------------------------------------------
(***************************************************************************)
(* What is under way fits the registry: a request on the wire is of the    *)
(* kind that is registered under its id, and a response is one that the    *)
(* receiver gives to such a request.                                       *)
(***************************************************************************)
Messages ==
    [id : Nat, kind : Kinds, transfer : Int, chunk : [idx : Nat, unit : Nat]]

WireOK ==
    /\ wire \subseteq Messages
    /\ \A q \in wire : /\ q.id < net.nextId
                       /\ \A r \in net.registry : r.id = q.id => r.kind = q.kind

RepliesOK ==
    /\ IsFiniteSet(replies)
    /\ \A m \in replies :
          /\ m.id \in Nat /\ m.offset \in Nat /\ m.id < net.nextId
          /\ \A r \in net.registry : r.id = m.id => m.response \in Answers(r.kind)

Confirms == {m \in replies : m.response = "ConfirmDone"}

\* Every file that is sent or confirmed has a file that was received.
SentInv ==
    /\ IsFiniteSet(SentFiles)
    /\ Cardinality(SentFiles) + Cardinality(Confirms) <= Len(received)

BothEndsInv == IInv /\ RP!IInv /\ WireOK /\ RepliesOK /\ SentInv

AnyKind == Plain \cup Offers \cup {"Chunk"}

LEMMA MessageOK ==
    ASSUME IInv, IInv', NEW r \in NewRequests, r.kind = "Chunk" => sending # {}
    PROVE  Message(r) \in Messages /\ Message(r).id = r.id /\ Message(r).kind = r.kind
<1>1. r \in Requests
    BY DEF NewRequests, IInv, FilesInv, NetOK
<1>2. sending \subseteq Transfers /\ sending' \subseteq Transfers
    BY DEF IInv, FilesInv, SlotOK
<1> DEFINE slot == IF r.kind \in {"NewTransfer", "ContinueTransfer"} THEN sending' ELSE sending
           transfer == IF slot = {} THEN NoTransfer ELSE (CHOOSE s \in slot : TRUE).transfer
           chunk == IF r.kind = "Chunk" THEN NextChunk((CHOOSE s \in sending : TRUE).sm)
                                        ELSE [idx |-> 0, unit |-> 0]
<1>3. Message(r) = [id |-> r.id, kind |-> r.kind, transfer |-> transfer, chunk |-> chunk]
    BY DEF Message
<1>4. transfer \in Int
    <2>1. CASE slot = {}
        BY <2>1 DEF NoTransfer
    <2>2. CASE slot # {}
        <3>1. (CHOOSE s \in slot : TRUE) \in slot
            BY <2>2
        <3>2. slot \subseteq Transfers
            BY <1>2
        <3> HIDE DEF slot
        <3>3. (CHOOSE s \in slot : TRUE) \in Transfers
            BY <3>1, <3>2
        <3>4. (CHOOSE s \in slot : TRUE).transfer \in Int
            BY <3>3 DEF Transfers
        <3> QED
            BY <2>2, <3>4
    <2> QED
        BY <2>1, <2>2
<1>5. chunk \in [idx : Nat, unit : Nat]
    <2>1. CASE r.kind # "Chunk"
        BY <2>1
    <2>2. CASE r.kind = "Chunk"
        <3> DEFINE s == CHOOSE s \in sending : TRUE
        <3>1. s \in sending
            BY <2>2
        <3> HIDE DEF s
        <3>2. s \in Transfers
            BY <1>2, <3>1
        <3>3. s.sm \in SendManagers
            BY <3>2 DEF Transfers
        <3>4. NextChunk(s.sm) \in [idx : Nat, unit : Nat]
            BY <3>3 DEF NextChunk, SendManagers
        <3> QED
            BY <2>2, <3>4 DEF s
    <2> QED
        BY <2>1, <2>2
<1>6. r.id \in Nat /\ r.kind \in Kinds
    BY <1>1 DEF Requests
<1> HIDE DEF transfer, chunk
<1> QED
    BY <1>3, <1>4, <1>5, <1>6 DEF Messages

(***************************************************************************)
(* Transport keeps that, whatever kinds of requests the step adds.         *)
(***************************************************************************)
LEMMA TransportKeeps ==
    ASSUME IInv, IInv', WireOK, RepliesOK, Since(net', AnyKind), NEW answered,
           Transport(answered),
           \A r \in NewRequests : r.kind = "Chunk" => sending # {}
    PROVE  /\ WireOK' /\ RepliesOK' /\ replies' \subseteq replies \ answered
           /\ UNCHANGED receiver_vars
<1>1. /\ wire' = wire \cup {Message(r) : r \in NewRequests}
      /\ replies' = {m \in replies \ answered : Waiting(net', m.id)}
      /\ UNCHANGED receiver_vars
    BY DEF Transport
<1>2. /\ net.nextId \in Nat /\ net'.nextId \in Nat /\ net.nextId <= net'.nextId
      /\ \A q, r \in net'.registry : q.id = r.id => q = r
      /\ \A r \in net'.registry : r.id \in Nat /\ r.id < net'.nextId
      /\ \A r \in net.registry : r.id \in Nat /\ r.id < net.nextId
    BY DEF IInv, FilesInv, NetOK, Requests, Since
<1>3. \A r \in net'.registry : r.id < net.nextId =>
          \E o \in net.registry : o.id = r.id /\ o.kind = r.kind
    BY <1>2 DEF Since
<1>4. ASSUME NEW q \in wire'
      PROVE  /\ q \in Messages /\ q.id < net'.nextId
             /\ \A r \in net'.registry : r.id = q.id => r.kind = q.kind
    <2>1. CASE q \in wire
        <3>1. q \in Messages /\ q.id \in Nat /\ q.id < net.nextId
            BY <2>1 DEF WireOK, Messages
        <3>2. \A r \in net.registry : r.id = q.id => r.kind = q.kind
            BY <2>1 DEF WireOK
        <3> QED
            BY <1>2, <1>3, <3>1, <3>2
    <2>2. ASSUME NEW r \in NewRequests, q = Message(r)
          PROVE  /\ q \in Messages /\ q.id < net'.nextId
                 /\ \A o \in net'.registry : o.id = q.id => o.kind = q.kind
        <3>1. q \in Messages /\ q.id = r.id /\ q.kind = r.kind
            BY <2>2, MessageOK
        <3>2. r \in net'.registry
            BY DEF NewRequests
        <3> QED
            BY <1>2, <3>1, <3>2
    <2> QED
        BY <1>1, <2>1, <2>2
<1>5. ASSUME NEW m \in replies'
      PROVE  /\ m.id \in Nat /\ m.offset \in Nat /\ m.id < net'.nextId
             /\ \A r \in net'.registry : r.id = m.id => m.response \in Answers(r.kind)
    <2>1. m \in replies
        BY <1>1
    <2>2. /\ m.id \in Nat /\ m.offset \in Nat /\ m.id < net.nextId
          /\ \A r \in net.registry : r.id = m.id => m.response \in Answers(r.kind)
        BY <2>1 DEF RepliesOK
    <2> QED
        BY <1>2, <1>3, <2>2
<1>6. IsFiniteSet(replies')
    <2>1. replies' \subseteq replies /\ IsFiniteSet(replies)
        BY <1>1 DEF RepliesOK
    <2> QED
        BY <2>1, FS_Subset
<1>7. WireOK'
    BY <1>4 DEF WireOK
<1>8. RepliesOK'
    BY <1>5, <1>6 DEF RepliesOK
<1> QED
    BY <1>1, <1>7, <1>8

-----------------------------------------------------------------------------
(* What the receiver does with a request. *)

LEMMA RepliesType ==
    ASSUME NEW reply \in Receiver!Replies
    PROVE  reply.offset \in Nat
BY FileTrackerAssumption DEF Receiver!Replies, Receiver!Reply, Receiver!ContinueAt

LEMMA ReceiverAnswers ==
    ASSUME RP!IInv, NEW q \in Messages, NEW reply,
           \/ q.kind = "NewTransfer" /\ Receiver!NewTransfer(q.transfer, Sender, reply)
           \/ q.kind = "ContinueTransfer" /\ Receiver!ContinueTransfer(q.transfer, Sender, reply)
           \/ q.kind = "AbortTransfer" /\ Receiver!AbortTransfer(q.transfer, Sender, reply)
           \/ q.kind = "Chunk" /\ Receiver!Chunk(q.transfer, q.chunk, Sender, reply)
           \/ q.kind = "Done" /\ Receiver!Done(q.transfer, Sender, reply)
           \/ q.kind = "ProtocolViolation" /\ Receiver!PeerViolation(reply)
    PROVE  /\ RP!IInv'
           /\ received' = received \/ \E file : received' = Append(received, file)
           /\ reply.response \in Answers(q.kind)
           /\ reply.response = "ConfirmDone" => \E file : received' = Append(received, file)
<1> DEFINE Grows == \E file : received' = Append(received, file)
<1>1. q.transfer \in Int /\ q.chunk \in RP!Chunks /\ Sender \in {Sender}
    BY DEF Messages, RP!Chunks
<1>2. \A response : Receiver!Reply(response).response = response
    BY DEF Receiver!Reply
<1>3. CASE q.kind = "NewTransfer" /\ Receiver!NewTransfer(q.transfer, Sender, reply)
    <2>1. RP!IInv'
        BY <1>1, <1>3, SameNewTransfer, RP!NewTransferKeepsIInv,
           FileTrackerAssumption, TransferAssumption, ParallelChunksAssumption
    <2>2. UNCHANGED received
        BY <1>3 DEF Receiver!NewTransfer, Receiver!receiver_vars
    <2>3. reply.response \in {"AcceptNewTransfer", "RejectNewTransfer", "InternalError"}
        BY <1>2, <1>3 DEF Receiver!NewTransfer
    <2> QED
        BY <1>3, <2>1, <2>2, <2>3 DEF Answers
<1>4. CASE q.kind = "ContinueTransfer" /\ Receiver!ContinueTransfer(q.transfer, Sender, reply)
    <2>1. RP!IInv'
        BY <1>1, <1>4, SameContinueTransfer, RP!ContinueInMemoryKeepsIInv,
           RP!ContinueFromDiskKeepsIInv,
           FileTrackerAssumption, TransferAssumption, ParallelChunksAssumption
           DEF RP!ContinueTransfer
    <2>2. UNCHANGED received
        BY <1>4 DEF Receiver!ContinueTransfer, Receiver!ContinueInMemory,
                    Receiver!ContinueFromDisk, Receiver!receiver_vars
    <2>3. \A offset : Receiver!ContinueAt(offset).response = "AcceptContinueTransfer"
        BY DEF Receiver!ContinueAt
    <2>4. reply.response \in {"AcceptContinueTransfer", "RestartContinueTransfer", "InternalError"}
        BY <1>2, <1>4, <2>3 DEF Receiver!ContinueTransfer, Receiver!ContinueInMemory,
                    Receiver!ContinueFromDisk
    <2> QED
        BY <1>4, <2>1, <2>2, <2>4 DEF Answers
<1>5. CASE q.kind = "AbortTransfer" /\ Receiver!AbortTransfer(q.transfer, Sender, reply)
    <2>1. RP!IInv'
        BY <1>5, SameAbortTransfer, RP!AbortTransferKeepsIInv,
           FileTrackerAssumption, TransferAssumption, ParallelChunksAssumption
    <2>2. UNCHANGED received
        BY <1>5 DEF Receiver!AbortTransfer
    <2>3. reply.response \in {"ConfirmAbort", "ProtocolViolation", "InternalError"}
        BY <1>2, <1>5 DEF Receiver!AbortTransfer
    <2> QED
        BY <1>5, <2>1, <2>2, <2>3 DEF Answers
<1>6. CASE q.kind = "Chunk" /\ Receiver!Chunk(q.transfer, q.chunk, Sender, reply)
    <2>1. RP!IInv' /\ RP!ReceivedGrows
        BY <1>1, <1>6, SameChunk, RP!ChunkKeepsIInv,
           FileTrackerAssumption, TransferAssumption, ParallelChunksAssumption
    <2>2. \A e \in receiving : e.contact = Sender
        BY DEF RP!IInv, RP!ReceivingTypeOK, RP!Entries
    <2>3. reply.response \in {"ConfirmChunk", "ProtocolViolation", "InternalError"}
        BY <1>2, <1>6, <2>2 DEF Receiver!Chunk, Receiver!ChunkStored
    <2> QED
        BY <1>6, <2>1, <2>3 DEF Answers, RP!ReceivedGrows
<1>7. CASE q.kind = "Done" /\ Receiver!Done(q.transfer, Sender, reply)
    <2>1. RP!IInv' /\ RP!ReceivedGrows
        BY <1>1, <1>7, SameDone, RP!DoneKeepsIInv,
           FileTrackerAssumption, TransferAssumption, ParallelChunksAssumption
    <2>2. reply.response \in {"ConfirmDone", "ProtocolViolation", "InternalError"}
        BY <1>2, <1>7 DEF Receiver!Done
    <2>3. reply.response = "ConfirmDone" => Grows
        BY <1>2, <1>7 DEF Receiver!Done, Receiver!Finalized
    <2> QED
        BY <1>7, <2>1, <2>2, <2>3 DEF Answers, RP!ReceivedGrows
<1>8. CASE q.kind = "ProtocolViolation" /\ Receiver!PeerViolation(reply)
    <2>1. receiving' = {} /\ UNCHANGED <<parts, rows, received>>
        BY <1>8 DEF Receiver!PeerViolation
    <2>2. RP!IInv'
        BY <2>1, RP!Unchanged, RP!DropKeepsIInv,
           FileTrackerAssumption, TransferAssumption, ParallelChunksAssumption
    <2>3. reply.response = "AcknowledgeProtocolViolation"
        BY <1>2, <1>8 DEF Receiver!PeerViolation
    <2> QED
        BY <1>8, <2>1, <2>2, <2>3 DEF Answers
<1> QED
    BY <1>3, <1>4, <1>5, <1>6, <1>7, <1>8

LEMMA ReceiverAlone ==
    ASSUME RP!IInv,
           \/ Receiver!Expire \/ Receiver!Restart
           \/ \E u \in DOMAIN updates : Receiver!ApplyUpdate(u)
           \/ UNCHANGED receiver_vars
    PROVE  RP!IInv' /\ UNCHANGED received
<1>1. CASE Receiver!Expire \/ Receiver!Restart
    <2>1. receiving' = {} /\ UNCHANGED <<parts, rows, received>>
        BY <1>1 DEF Receiver!Expire, Receiver!Restart
    <2> QED
        BY <2>1, RP!Unchanged, RP!DropKeepsIInv,
           FileTrackerAssumption, TransferAssumption, ParallelChunksAssumption
<1>2. ASSUME NEW u, Receiver!ApplyUpdate(u) PROVE RP!IInv' /\ UNCHANGED received
    <2>1. /\ UNCHANGED <<receiving, parts, received>>
          /\ \/ UNCHANGED rows
             \/ /\ u.transfer \in DOMAIN rows
                /\ rows' = [rows EXCEPT ![u.transfer].status = u.status]
        BY <1>2 DEF Receiver!ApplyUpdate, Receiver!StatusUpdated, Receiver!GetReceivedFile
    <2>2. RP!RowsShrink
        BY <2>1, RP!Unchanged, RP!StatusKeepsContact,
           FileTrackerAssumption, TransferAssumption, ParallelChunksAssumption
    <2> QED
        BY <2>1, <2>2, RP!RowsStepKeepsIInv,
           FileTrackerAssumption, TransferAssumption, ParallelChunksAssumption
<1>3. CASE UNCHANGED receiver_vars
    <2>1. UNCHANGED <<receiving, parts, rows, received>>
        BY <1>3 DEF receiver_vars
    <2> QED
        BY <2>1, RP!Unchanged, RP!RowsStepKeepsIInv,
           FileTrackerAssumption, TransferAssumption, ParallelChunksAssumption
<1> QED
    BY <1>1, <1>2, <1>3

-----------------------------------------------------------------------------
(* Counting. *)

LEMMA CountFewer ==
    ASSUME NEW S, IsFiniteSet(S), NEW T, T \subseteq S
    PROVE  /\ IsFiniteSet(T) /\ Cardinality(S) \in Nat /\ Cardinality(T) \in Nat
           /\ Cardinality(T) <= Cardinality(S)
<1>1. IsFiniteSet(T) /\ Cardinality(T) <= Cardinality(S)
    BY FS_Subset
<1> QED
    BY <1>1, FS_CardinalityType

LEMMA CountOneMore ==
    ASSUME NEW S, IsFiniteSet(S), NEW x, NEW T, T \subseteq S \cup {x}
    PROVE  /\ IsFiniteSet(T) /\ Cardinality(S) \in Nat /\ Cardinality(T) \in Nat
           /\ Cardinality(T) <= Cardinality(S) + 1
<1>1. /\ IsFiniteSet(S \cup {x}) /\ Cardinality(S) \in Nat
      /\ Cardinality(S \cup {x}) = IF x \in S THEN Cardinality(S) ELSE Cardinality(S) + 1
    BY FS_AddElement, FS_CardinalityType
<1>2. /\ IsFiniteSet(T) /\ Cardinality(T) \in Nat
      /\ Cardinality(T) <= Cardinality(S \cup {x})
    BY <1>1, CountFewer
<1> QED
    BY <1>1, <1>2

LEMMA CountOneLess ==
    ASSUME NEW S, IsFiniteSet(S), NEW x \in S, NEW T, T \subseteq S \ {x}
    PROVE  /\ IsFiniteSet(T) /\ Cardinality(S) \in Nat /\ Cardinality(T) \in Nat
           /\ Cardinality(T) + 1 <= Cardinality(S)
<1>1. /\ IsFiniteSet(S \ {x}) /\ Cardinality(S) \in Nat
      /\ Cardinality(S \ {x}) = Cardinality(S) - 1
    BY FS_RemoveElement, FS_CardinalityType
<1>2. /\ IsFiniteSet(T) /\ Cardinality(T) \in Nat
      /\ Cardinality(T) <= Cardinality(S \ {x})
    BY <1>1, CountFewer
<1> QED
    BY <1>1, <1>2

LEMMA CountParts ==
    ASSUME RP!IInv, RepliesOK
    PROVE  /\ IsFiniteSet(Confirms) /\ Cardinality(Confirms) \in Nat
           /\ Len(received) \in Nat
           /\ \A file : Len(Append(received, file)) = Len(received) + 1
<1>1. Confirms \subseteq replies /\ IsFiniteSet(replies)
    BY DEF Confirms, RepliesOK
<1>2. IsFiniteSet(Confirms) /\ Cardinality(Confirms) \in Nat
    BY <1>1, CountFewer
<1>3. received \in Seq([transfer : Int, units : Seq(RP!Units)])
    BY DEF RP!IInv, RP!ReceivedTypeOK
<1>4. Len(received) \in Nat
    BY <1>3
<1>5. \A file : Len(Append(received, file)) = Len(received) + 1
    BY <1>3
<1> QED
    BY <1>2, <1>4, <1>5

\* A step that makes no file sent and adds no confirmation.
LEMMA SentSame ==
    ASSUME RP!IInv, RepliesOK, SentInv, NothingSent, Confirms' \subseteq Confirms,
           Len(received') \in Nat, Len(received) <= Len(received')
    PROVE  SentInv'
<1>1. IsFiniteSet(SentFiles) /\ Cardinality(SentFiles) + Cardinality(Confirms) <= Len(received)
    BY DEF SentInv
<1>2. /\ IsFiniteSet(SentFiles') /\ Cardinality(SentFiles) \in Nat
      /\ Cardinality(SentFiles') \in Nat /\ Cardinality(SentFiles') <= Cardinality(SentFiles)
    BY <1>1, CountFewer DEF NothingSent
<1>3. /\ Cardinality(Confirms) \in Nat /\ Cardinality(Confirms') \in Nat
      /\ Cardinality(Confirms') <= Cardinality(Confirms) /\ Len(received) \in Nat
    BY CountParts, CountFewer
<1>4. Cardinality(SentFiles') + Cardinality(Confirms') <= Len(received')
    BY <1>1, <1>2, <1>3
<1> QED
    BY <1>2, <1>4 DEF SentInv

\* A confirmation is taken, and a file is sent.
LEMMA SentByConfirm ==
    ASSUME RP!IInv, RepliesOK, SentInv, UNCHANGED received, NEW m \in Confirms, NEW f,
           SentFiles' \subseteq SentFiles \cup {f}, Confirms' \subseteq Confirms \ {m}
    PROVE  SentInv'
<1>1. IsFiniteSet(SentFiles) /\ Cardinality(SentFiles) + Cardinality(Confirms) <= Len(received)
    BY DEF SentInv
<1>2. /\ IsFiniteSet(SentFiles') /\ Cardinality(SentFiles) \in Nat
      /\ Cardinality(SentFiles') \in Nat /\ Cardinality(SentFiles') <= Cardinality(SentFiles) + 1
    BY <1>1, CountOneMore
<1>3. /\ Cardinality(Confirms) \in Nat /\ Cardinality(Confirms') \in Nat
      /\ Cardinality(Confirms') + 1 <= Cardinality(Confirms) /\ Len(received) \in Nat
    BY CountParts, CountOneLess
<1>4. Cardinality(SentFiles') + Cardinality(Confirms') <= Len(received')
    BY <1>1, <1>2, <1>3
<1> QED
    BY <1>2, <1>4 DEF SentInv

\* A file is received and confirmed.
LEMMA ConfirmedByFile ==
    ASSUME RP!IInv, RepliesOK, SentInv, NothingSent, NEW x, Confirms' \subseteq Confirms \cup {x},
           NEW file, received' = Append(received, file)
    PROVE  SentInv'
<1>1. IsFiniteSet(SentFiles) /\ Cardinality(SentFiles) + Cardinality(Confirms) <= Len(received)
    BY DEF SentInv
<1>2. /\ IsFiniteSet(SentFiles') /\ Cardinality(SentFiles) \in Nat
      /\ Cardinality(SentFiles') \in Nat /\ Cardinality(SentFiles') <= Cardinality(SentFiles)
    BY <1>1, CountFewer DEF NothingSent
<1>3. /\ Cardinality(Confirms) \in Nat /\ Cardinality(Confirms') \in Nat
      /\ Cardinality(Confirms') <= Cardinality(Confirms) + 1
    BY CountParts, CountOneMore
<1>4. Len(received) \in Nat /\ Len(received') = Len(received) + 1
    BY CountParts
<1>5. Cardinality(SentFiles') + Cardinality(Confirms') <= Len(received')
    BY <1>1, <1>2, <1>3, <1>4
<1> QED
    BY <1>2, <1>5 DEF SentInv

-----------------------------------------------------------------------------
(* Every step keeps the invariant. *)

LEMMA NewKinds ==
    ASSUME IInv, NEW kinds, Since(net', kinds), NEW r \in NewRequests
    PROVE  r.kind \in kinds
BY DEF NewRequests, Since, IInv, FilesInv, NetOK, Requests

LEMMA SinceMore ==
    ASSUME NEW n, NEW kinds, Since(n, kinds), NEW more, kinds \subseteq more
    PROVE  Since(n, more)
BY DEF Since

LEMMA SinceStep ==
    ASSUME IInv, Stays \/ Offered \/ Since(net', Plain) \/ ChunkGoes
    PROVE  /\ Since(net', AnyKind)
           /\ \A r \in NewRequests : r.kind = "Chunk" => sending # {}
<1>1. ASSUME NEW kinds, Since(net', kinds), kinds \subseteq Plain \cup Offers
      PROVE  /\ Since(net', AnyKind)
             /\ \A r \in NewRequests : r.kind = "Chunk" => sending # {}
    <2>1. kinds \subseteq AnyKind /\ "Chunk" \notin kinds
        BY <1>1 DEF AnyKind, Plain, Offers
    <2> QED
        BY <1>1, <2>1, NewKinds, SinceMore
<1>2. CASE Stays \/ Offered \/ Since(net', Plain)
    BY <1>1, <1>2 DEF Stays, Offered
<1>3. CASE ChunkGoes
    <2>1. PICK s \in sending : net' = Register(net, "Chunk", s.attempt)
        BY <1>3 DEF ChunkGoes
    <2>2. "Chunk" \in AnyKind /\ Plain \subseteq AnyKind
        BY DEF AnyKind
    <2>3. Since(net', AnyKind)
        BY <2>1, <2>2, Parts, SinceNet, SinceRegister
    <2> QED
        BY <2>1, <2>3
<1> QED
    BY <1>2, <1>3

LEMMA SenderKeeps ==
    ASSUME BothEndsInv, IInv', NEW answered, Transport(answered),
           Stays \/ Offered \/ Since(net', Plain) \/ ChunkGoes
    PROVE  /\ RP!IInv' /\ WireOK' /\ RepliesOK' /\ UNCHANGED received
           /\ Confirms' \subseteq Confirms \ answered
           /\ NothingSent => SentInv'
<1>1. IInv /\ RP!IInv /\ WireOK /\ RepliesOK /\ SentInv
    BY DEF BothEndsInv
<1>2. /\ Since(net', AnyKind)
      /\ \A r \in NewRequests : r.kind = "Chunk" => sending # {}
    BY <1>1, SinceStep
<1>3. /\ WireOK' /\ RepliesOK' /\ replies' \subseteq replies \ answered
      /\ UNCHANGED receiver_vars
    BY <1>1, <1>2, TransportKeeps
<1>4. RP!IInv' /\ UNCHANGED received
    BY <1>1, <1>3, ReceiverAlone
<1>5. Confirms' \subseteq Confirms \ answered
    BY <1>3 DEF Confirms
<1>6. NothingSent => SentInv'
    BY <1>1, <1>4, <1>5, SentSame, CountParts
<1> QED
    BY <1>3, <1>4, <1>5, <1>6

LEMMA SenderActsKeeps ==
    ASSUME BothEndsInv, SenderActs \/ RequestFails
    PROVE  BothEndsInv'
<1>1. IInv /\ (LocalStep \/ SomeFailure) /\ Transport({})
    BY DEF BothEndsInv, SenderActs, RequestFails
<1>2. IInv'
    BY <1>1, EveryStep DEF Next, StepOK, IInv
<1>3. (Stays \/ Offered \/ ChunkGoes) /\ NothingSent
    BY <1>1, LocalMoves, FailureMoves DEF Moves
<1> QED
    BY <1>1, <1>2, <1>3, SenderKeeps DEF BothEndsInv

LEMMA SenderReceivesKeeps ==
    ASSUME BothEndsInv, NEW m \in replies, SenderReceives(m)
    PROVE  BothEndsInv'
<1>1. IInv /\ RP!IInv /\ RepliesOK /\ SentInv /\ Transport({m})
    BY DEF BothEndsInv, SenderReceives
<1>2. PICK r \in net.registry :
          r.id = m.id /\ ReceiveResponse(r, m.response, m.offset, "target")
    BY DEF SenderReceives
<1>3. m.offset \in Nat /\ m.response \in Answers(r.kind) \cup OddAnswers
    BY <1>1, <1>2 DEF RepliesOK
<1>4. "target" \in Contacts
    BY TransferAssumption
<1>5. IInv'
    BY <1>1, <1>2, <1>3, <1>4, ReceiveResponseStep DEF StepOK, IInv
<1>6. /\ Stays \/ Offered \/ Since(net', Plain)
      /\ m.response # "ConfirmDone" => NothingSent
      /\ \E f : SentFiles' \subseteq SentFiles \cup {f}
    BY <1>1, <1>2, <1>3, ReceiveMoves DEF OtherMoves
<1>7. /\ RP!IInv' /\ WireOK' /\ RepliesOK' /\ UNCHANGED received
      /\ Confirms' \subseteq Confirms \ {m}
      /\ NothingSent => SentInv'
    BY <1>1, <1>5, <1>6, SenderKeeps
<1>8. SentInv'
    <2>1. CASE m.response = "ConfirmDone"
        <3>1. m \in Confirms
            BY <2>1 DEF Confirms
        <3> QED
            BY <1>1, <1>6, <1>7, <3>1, SentByConfirm
    <2> QED
        BY <1>6, <1>7, <2>1
<1> QED
    BY <1>5, <1>7, <1>8 DEF BothEndsInv

LEMMA ReceiverRespondsKeeps ==
    ASSUME BothEndsInv, NEW q \in wire, ReceiverResponds(q)
    PROVE  BothEndsInv'
<1>1. IInv /\ RP!IInv /\ WireOK /\ RepliesOK /\ SentInv
    BY DEF BothEndsInv
<1>2. q \in Messages /\ q.id \in Nat /\ q.id < net.nextId
    BY <1>1 DEF WireOK, Messages
<1>3. \A r \in net.registry : r.id = q.id => r.kind = q.kind
    BY <1>1 DEF WireOK
<1>4. PICK reply \in Receiver!Replies :
        /\ \/ q.kind = "NewTransfer" /\ Receiver!NewTransfer(q.transfer, Sender, reply)
           \/ /\ q.kind = "ContinueTransfer"
              /\ Receiver!ContinueTransfer(q.transfer, Sender, reply)
           \/ q.kind = "AbortTransfer" /\ Receiver!AbortTransfer(q.transfer, Sender, reply)
           \/ q.kind = "Chunk" /\ Receiver!Chunk(q.transfer, q.chunk, Sender, reply)
           \/ q.kind = "Done" /\ Receiver!Done(q.transfer, Sender, reply)
           \/ q.kind = "ProtocolViolation" /\ Receiver!PeerViolation(reply)
        /\ wire' = wire \ {q}
        /\ replies' = replies \cup
               {[id |-> id, response |-> reply.response, offset |-> reply.offset] :
                   id \in {i \in {q.id} : Waiting(net, i)}}
        /\ UNCHANGED <<vars, failures, disturbed>>
    BY DEF ReceiverResponds
<1> DEFINE x == [id |-> q.id, response |-> reply.response, offset |-> reply.offset]
<1>5. /\ RP!IInv'
      /\ received' = received \/ \E file : received' = Append(received, file)
      /\ reply.response \in Answers(q.kind)
      /\ reply.response = "ConfirmDone" => \E file : received' = Append(received, file)
    BY <1>1, <1>2, <1>4, ReceiverAnswers
<1>6. IInv' /\ net' = net /\ outcomes' = outcomes
    BY <1>1, <1>4, StutterOK DEF vars
<1>7. replies' \subseteq replies \cup {x}
    BY <1>4
<1>8. x.id = q.id /\ x.response = reply.response /\ x.offset \in Nat
    BY <1>4, RepliesType
<1> HIDE DEF x
<1>9. WireOK'
    BY <1>1, <1>4, <1>6 DEF WireOK
<1>10. IsFiniteSet(replies')
    BY <1>1, <1>7, CountOneMore DEF RepliesOK
<1>11. RepliesOK'
    <2> SUFFICES ASSUME NEW m \in replies'
                 PROVE  /\ m.id \in Nat /\ m.offset \in Nat /\ m.id < net'.nextId
                        /\ \A r \in net'.registry : r.id = m.id => m.response \in Answers(r.kind)
        BY <1>10 DEF RepliesOK
    <2>1. CASE m \in replies
        BY <1>1, <1>6, <2>1 DEF RepliesOK
    <2>2. CASE m = x
        BY <1>2, <1>3, <1>5, <1>6, <1>8, <2>2
    <2> QED
        BY <1>7, <2>1, <2>2
<1>12. NothingSent
    BY <1>6 DEF NothingSent, SentFiles
<1>13. SentInv'
    <2>1. CASE reply.response = "ConfirmDone"
        <3>1. Confirms' \subseteq Confirms \cup {x}
            BY <1>7 DEF Confirms
        <3> QED
            BY <1>1, <1>5, <1>12, <2>1, <3>1, ConfirmedByFile
    <2>2. CASE reply.response # "ConfirmDone"
        <3>1. Confirms' \subseteq Confirms
            BY <1>7, <1>8, <2>2 DEF Confirms
        <3>2. Len(received') \in Nat /\ Len(received) <= Len(received')
            BY <1>1, <1>5, CountParts
        <3> QED
            BY <1>1, <1>12, <3>1, <3>2, SentSame
    <2> QED
        BY <2>1, <2>2
<1> QED
    BY <1>5, <1>6, <1>9, <1>11, <1>13 DEF BothEndsInv

LEMMA OthersKeep ==
    ASSUME BothEndsInv,
           ReceiverActs \/ (\E q \in wire : Lose(q)) \/ UNCHANGED all_vars
    PROVE  BothEndsInv'
<1>1. IInv /\ RP!IInv /\ WireOK /\ RepliesOK /\ SentInv
    BY DEF BothEndsInv
<1>2. UNCHANGED vars /\ wire' \subseteq wire /\ replies' = replies
    BY DEF ReceiverActs, Lose, all_vars
<1>3. RP!IInv' /\ UNCHANGED received
    BY <1>1, ReceiverAlone DEF ReceiverActs, Lose, all_vars
<1>4. IInv' /\ net' = net /\ outcomes' = outcomes
    BY <1>1, <1>2, StutterOK DEF vars
<1>5. WireOK' /\ RepliesOK'
    BY <1>1, <1>2, <1>4 DEF WireOK, RepliesOK
<1>6. SentInv'
    BY <1>1, <1>2, <1>3, <1>4 DEF SentInv, SentFiles, Confirms
<1> QED
    BY <1>3, <1>4, <1>5, <1>6 DEF BothEndsInv

LEMMA TransferInitOK ==
    ASSUME TransferInit PROVE BothEndsInv
<1>1. IInv /\ RP!IInv
    BY InitOK, SameInit, RP!IInvInit,
       FileTrackerAssumption, TransferAssumption, ParallelChunksAssumption DEF TransferInit
<1>2. wire = {} /\ replies = {} /\ received = <<>> /\ outcomes = [f \in Files |-> <<>>]
    BY DEF TransferInit, Init, Receiver!Init
<1>3. WireOK /\ RepliesOK
    BY <1>2, FS_EmptySet DEF WireOK, RepliesOK
<1>4. SentFiles = {} /\ Confirms = {}
    BY <1>2 DEF SentFiles, Confirms
<1>5. Cardinality({}) = 0 /\ IsFiniteSet({})
    BY FS_EmptySet
<1>6. SentInv
    BY <1>2, <1>4, <1>5 DEF SentInv
<1> QED
    BY <1>1, <1>3, <1>6 DEF BothEndsInv

LEMMA BothEndsInvariance == TransferSpec => []BothEndsInv
<1>1. TransferInit => BothEndsInv
    BY TransferInitOK
<1>2. BothEndsInv /\ [TransferNext]_all_vars => BothEndsInv'
    BY SenderActsKeeps, SenderReceivesKeeps, ReceiverRespondsKeeps, OthersKeep DEF TransferNext
<1> QED
    BY <1>1, <1>2, PTL DEF TransferSpec

(***************************************************************************)
(* As many files as handle_receive reports to the brain as sent were       *)
(* renamed whole into the receiver's directory: every ConfirmDone stands   *)
(* for one finalized file, and it is used up by the one file it reports,   *)
(* however requests and responses are lost, late, or answered after the    *)
(* transfer they belong to is gone.                                        *)
(***************************************************************************)
THEOREM SentFilesArrived == TransferSpec => []SentMeansReceived
<1>1. BothEndsInv => SentMeansReceived
    <2> SUFFICES ASSUME BothEndsInv PROVE SentMeansReceived
        OBVIOUS
    <2>1. RP!IInv /\ RepliesOK /\ SentInv
        BY DEF BothEndsInv
    <2>2. ArrivedWhole = 1 .. Len(received)
        BY <2>1 DEF ArrivedWhole, RP!IInv, RP!ReceivedWhole
    <2>3. Len(received) \in Nat /\ Cardinality(Confirms) \in Nat
        BY <2>1, CountParts
    <2>4. Cardinality(1 .. Len(received)) = Len(received)
        <3>1. \A n \in Nat : Cardinality(1 .. n) = n
            <4> TAKE n \in Nat
            <4>1. Cardinality(1 .. n) = IF 1 > n THEN 0 ELSE n - 1 + 1
                BY FS_Interval
            <4> QED
                BY <4>1
        <3> QED
            BY <2>3, <3>1
    <2>5. Cardinality(SentFiles) \in Nat
        BY <2>1, FS_CardinalityType DEF SentInv
    <2> QED
        BY <2>1, <2>2, <2>3, <2>4, <2>5 DEF SentInv, SentMeansReceived
<1> QED
    BY <1>1, BothEndsInvariance, PTL
-----------------------------------------------------------------------------
(***************************************************************************)
(* Where the units of chunks go: between the index of a chunk and its      *)
(* place in the file lies what was written before the window began.        *)
(***************************************************************************)
Base(rm) == rm.byte_progress - rm.earliest_not_received

InPlace(rm, chunk) == chunk.unit = chunk.idx + Base(rm)

\* What is buffered lies in the window, in its slot and in its place.
Aligned(rm) ==
    \A x \in WindowSlots :
        rm.chunks_in_flight[x] # RP!NoChunk =>
            /\ rm.chunks_in_flight[x].idx \in rm.earliest_not_received
                                               .. rm.earliest_not_received + ParallelChunks - 1
            /\ SlotIndex(rm.chunks_in_flight[x].idx) = x
            /\ InPlace(rm, rm.chunks_in_flight[x])

LEMMA SameSlots ==
    /\ RP!WindowSlots = WindowSlots
    /\ \A n : RP!SlotIndex(n) = SlotIndex(n)
BY Zenon DEF RP!WindowSlots, WindowSlots, RP!SlotIndex, SlotIndex

LEMMA NothingBuffered ==
    ASSUME NEW rm, \A x \in WindowSlots : rm.chunks_in_flight[x] = RP!NoChunk
    PROVE  Aligned(rm)
BY DEF Aligned

LEMMA BufferAligned ==
    ASSUME NEW m \in RP!Managers, NEW chunk \in RP!Chunks, Aligned(m), InPlace(m, chunk),
           ~RP!BeyondWindow(m, chunk), ~RP!AlreadySeen(m, chunk)
    PROVE  /\ Aligned(RP!BufferChunk(m, chunk))
           /\ RP!BufferChunk(m, chunk).byte_progress = m.byte_progress
           /\ RP!BufferChunk(m, chunk).earliest_not_received = m.earliest_not_received
           /\ RP!BufferChunk(m, chunk).declared_file_size = m.declared_file_size
           /\ DOMAIN RP!BufferChunk(m, chunk).chunks_in_flight = WindowSlots
<1> DEFINE b == RP!BufferChunk(m, chunk)
           c == [m.chunks_in_flight EXCEPT ![SlotIndex(chunk.idx)] = chunk]
<1>1. b = [chunks_in_flight |-> c, earliest_not_received |-> m.earliest_not_received,
           declared_file_size |-> m.declared_file_size, byte_progress |-> m.byte_progress]
    BY SameSlots DEF RP!BufferChunk
<1>2. chunk.idx \in Nat /\ chunk.unit \in Nat
    BY DEF RP!Chunks
<1>3. m.earliest_not_received \in Nat /\ DOMAIN m.chunks_in_flight = WindowSlots
    BY SameSlots DEF RP!Managers, RP!Slots
<1>4. chunk.idx \in m.earliest_not_received .. m.earliest_not_received + ParallelChunks - 1
    BY <1>2, <1>3, ParallelChunksAssumption DEF RP!BeyondWindow, RP!AlreadySeen
<1>5. /\ DOMAIN c = WindowSlots
      /\ \A x \in WindowSlots :
            c[x] = IF x = SlotIndex(chunk.idx) THEN chunk ELSE m.chunks_in_flight[x]
    BY <1>3
<1> HIDE DEF c
<1>6. /\ b.chunks_in_flight = c /\ b.earliest_not_received = m.earliest_not_received
      /\ b.byte_progress = m.byte_progress /\ b.declared_file_size = m.declared_file_size
    BY <1>1
<1> HIDE DEF b
<1>7. Aligned(b)
    <2> SUFFICES ASSUME NEW x \in WindowSlots, c[x] # RP!NoChunk
                 PROVE  /\ c[x].idx \in m.earliest_not_received
                                            .. m.earliest_not_received + ParallelChunks - 1
                        /\ SlotIndex(c[x].idx) = x
                        /\ InPlace(m, c[x])
        BY <1>6 DEF Aligned, InPlace, Base
    <2> QED
        BY <1>4, <1>5 DEF Aligned
<1> QED
    BY <1>5, <1>6, <1>7 DEF b

LEMMA DrainAligned ==
    ASSUME NEW b, Aligned(b), b.earliest_not_received \in Nat, b.byte_progress \in Nat,
           DOMAIN b.chunks_in_flight = WindowSlots,
           NEW k \in b.earliest_not_received .. b.earliest_not_received + ParallelChunks,
           \A j \in b.earliest_not_received .. k - 1 :
               b.chunks_in_flight[SlotIndex(j)] # RP!NoChunk
    PROVE  /\ Aligned(RP!Drain(b, k)) /\ Base(RP!Drain(b, k)) = Base(b)
           /\ Len(RP!UnitsUpTo(b, k)) = k - b.earliest_not_received
           /\ \A i \in 1 .. k - b.earliest_not_received :
                 RP!UnitsUpTo(b, k)[i] = b.byte_progress + i - 1
<1> DEFINE e == b.earliest_not_received
           c == [x \in WindowSlots |-> IF \E j \in e .. k - 1 : x = SlotIndex(j)
                                       THEN RP!NoChunk ELSE b.chunks_in_flight[x]]
           d == RP!Drain(b, k)
<1>1. d = [chunks_in_flight |-> c, earliest_not_received |-> k,
           declared_file_size |-> b.declared_file_size,
           byte_progress |-> b.byte_progress + (k - e)]
    BY SameSlots DEF RP!Drain
<1>2. e \in Nat /\ k \in Nat /\ e <= k /\ b.byte_progress \in Nat
    BY ParallelChunksAssumption
<1>3. \A x \in WindowSlots : c[x] # RP!NoChunk =>
          c[x] = b.chunks_in_flight[x] /\ ~\E j \in e .. k - 1 : x = SlotIndex(j)
    OBVIOUS
<1> HIDE DEF c
<1>4. d.chunks_in_flight = c /\ d.earliest_not_received = k
      /\ d.byte_progress = b.byte_progress + (k - e)
    BY <1>1
<1> HIDE DEF d
<1>5. Base(d) = Base(b)
    BY <1>2, <1>4 DEF Base
<1>6. Aligned(d)
    <2> SUFFICES ASSUME NEW x \in WindowSlots, c[x] # RP!NoChunk
                 PROVE  /\ c[x].idx \in k .. k + ParallelChunks - 1
                        /\ SlotIndex(c[x].idx) = x
                        /\ c[x].unit = c[x].idx + Base(b)
        BY <1>4, <1>5 DEF Aligned, InPlace
    <2>1. /\ c[x].idx \in e .. e + ParallelChunks - 1 /\ SlotIndex(c[x].idx) = x
          /\ c[x].unit = c[x].idx + Base(b)
        BY <1>3 DEF Aligned, InPlace
    <2>2. c[x].idx \notin e .. k - 1
        BY <1>3, <2>1
    <2> QED
        BY <1>2, <2>1, <2>2, ParallelChunksAssumption
<1>7. RP!UnitsUpTo(b, k) = [i \in 1 .. k - e |-> b.chunks_in_flight[SlotIndex(e + i - 1)].unit]
    BY SameSlots DEF RP!UnitsUpTo
<1>8. ASSUME NEW i \in 1 .. k - e
      PROVE  b.chunks_in_flight[SlotIndex(e + i - 1)].unit = b.byte_progress + i - 1
    <2> DEFINE j == e + i - 1
    <2>1. j \in e .. k - 1 /\ j \in e .. e + ParallelChunks - 1 /\ j \in Nat
        BY <1>2, ParallelChunksAssumption
    <2> HIDE DEF j
    <2>2. SlotIndex(j) \in WindowSlots /\ b.chunks_in_flight[SlotIndex(j)] # RP!NoChunk
        BY <2>1, SlotFacts
    <2> DEFINE h == b.chunks_in_flight[SlotIndex(j)]
    <2>3. /\ h.idx \in e .. e + ParallelChunks - 1 /\ SlotIndex(h.idx) = SlotIndex(j)
          /\ h.unit = h.idx + Base(b)
        BY <2>2 DEF Aligned, InPlace
    <2> HIDE DEF h
    <2>4. h.idx = j
        <3>1. PICK n \in Nat : n = e + ParallelChunks
            BY <1>2, ParallelChunksAssumption
        <3>2. n <= e + ParallelChunks /\ j \in e .. n - 1 /\ h.idx \in e .. n - 1
            BY <1>2, <2>1, <2>3, <3>1, ParallelChunksAssumption
        <3> HIDE DEF e
        <3> QED
            BY <1>2, <2>3, <3>2, SlotsOfWindowDiffer
    <2>5. h.unit = b.byte_progress + i - 1
        BY <1>2, <2>3, <2>4 DEF Base, j
    <2> QED
        BY <2>5 DEF h, j
<1>9. k - e \in Nat
    BY <1>2
<1>10. Len(RP!UnitsUpTo(b, k)) = k - e
    BY <1>7, <1>9
<1>11. \A i \in 1 .. k - e : RP!UnitsUpTo(b, k)[i] = b.byte_progress + i - 1
    BY <1>7, <1>8
<1> QED
    BY <1>5, <1>6, <1>10, <1>11 DEF d

LEMMA StoreAligned ==
    ASSUME NEW m \in RP!Managers, NEW chunk \in RP!Chunks, Aligned(m), InPlace(m, chunk)
    PROVE  /\ Aligned(RP!AfterStore(m, chunk))
           /\ Base(RP!AfterStore(m, chunk)) = Base(m)
           /\ Len(RP!AppendedByStore(m, chunk)) \in Nat
           /\ \A i \in 1 .. Len(RP!AppendedByStore(m, chunk)) :
                 RP!AppendedByStore(m, chunk)[i] = m.byte_progress + i - 1
<1> DEFINE b == RP!BufferChunk(m, chunk)
           k == RP!FittingUpTo(b)
<1>1. /\ m.earliest_not_received \in Nat /\ m.byte_progress \in Nat
      /\ m.byte_progress <= FileUnits /\ m.declared_file_size = FileUnits
    BY FileTrackerAssumption DEF RP!Managers
<1>2. CASE RP!BeyondWindow(m, chunk) \/ RP!AlreadySeen(m, chunk)
    BY <1>2 DEF RP!AppendedByStore, RP!AfterStore
<1>3. CASE ~RP!BeyondWindow(m, chunk) /\ ~RP!AlreadySeen(m, chunk)
    <2>1. /\ Aligned(b) /\ b.byte_progress = m.byte_progress
          /\ b.earliest_not_received = m.earliest_not_received
          /\ b.declared_file_size = m.declared_file_size
          /\ DOMAIN b.chunks_in_flight = WindowSlots
        BY <1>3, BufferAligned
    <2>2. CASE ~RP!StartsRun(m, chunk)
        <3>1. RP!AppendedByStore(m, chunk) = <<>> /\ RP!AfterStore(m, chunk) = b
            BY <1>3, <2>2 DEF RP!AppendedByStore, RP!AfterStore
        <3> HIDE DEF b
        <3> QED
            BY <2>1, <3>1 DEF Base
    <2>3. CASE RP!StartsRun(m, chunk)
        <3>1. /\ RP!AppendedByStore(m, chunk) = RP!UnitsUpTo(b, k)
              /\ RP!AfterStore(m, chunk) = RP!Drain(b, k)
            BY <1>3, <2>3 DEF RP!AppendedByStore, RP!AfterStore
        <3> HIDE DEF b
        <3> DEFINE e == b.earliest_not_received
        <3>2. /\ RP!BufferedUpTo(b) \in e .. e + ParallelChunks
              /\ \A j \in e .. RP!BufferedUpTo(b) - 1 :
                    b.chunks_in_flight[SlotIndex(j)] # RP!NoChunk
            BY <1>1, <2>1, SameSlots, RP!BufferedUpToInTurn,
               FileTrackerAssumption, TransferAssumption, ParallelChunksAssumption
        <3>3. k \in e .. RP!BufferedUpTo(b)
            BY <1>1, <2>1, <3>2, FileTrackerAssumption, ParallelChunksAssumption
               DEF RP!FittingUpTo
        <3> HIDE DEF k
        <3>4. /\ k \in e .. e + ParallelChunks
              /\ \A j \in e .. k - 1 : b.chunks_in_flight[SlotIndex(j)] # RP!NoChunk
            BY <1>1, <2>1, <3>2, <3>3, ParallelChunksAssumption
        <3>5. /\ Aligned(RP!Drain(b, k)) /\ Base(RP!Drain(b, k)) = Base(b)
              /\ Len(RP!UnitsUpTo(b, k)) = k - e
              /\ \A i \in 1 .. k - e : RP!UnitsUpTo(b, k)[i] = b.byte_progress + i - 1
            BY <1>1, <2>1, <3>4, DrainAligned
        <3>6. k - e \in Nat /\ Base(b) = Base(m)
            BY <1>1, <2>1, <3>4, ParallelChunksAssumption DEF Base
        <3> QED
            BY <2>1, <3>1, <3>5, <3>6
    <2> QED
        BY <2>2, <2>3
<1> QED
    BY <1>2, <1>3
-----------------------------------------------------------------------------
(***************************************************************************)
(* When files are offered only while all is quiet, offer, acceptance and   *)
(* chunks follow one another: while an offer is under way there are no     *)
(* chunks and no acceptance, and who accepts begins where the other end    *)
(* then begins to send.                                                    *)
(***************************************************************************)
Offering == {q \in wire : q.kind \in Offers}

ChunksOnWire == {q \in wire : q.kind = "Chunk"}

Accepted == {m \in replies : m.response \in Accepts}

\* Where an acceptance lets the sender begin.
Start(m) == IF m.response = "AcceptContinueTransfer" THEN m.offset ELSE 0

LoopInv ==
    /\ tasks["LoopOther"] = 0
    /\ \A s \in sending : s.status = "Prepared" =>
          tasks["LoopTarget"] = 0 /\ s.sm = NewSendManager(FileUnits)

OfferInv ==
    \A q \in Offering :
        /\ ChunksOnWire = {} /\ Accepted = {}
        /\ \A p \in Offering : p = q
        /\ \A s \in sending : s.status = "Prepared" /\ s.transfer = q.transfer

AcceptInv ==
    \A m \in Accepted, s \in sending, e \in receiving :
        s.status = "Prepared" /\ e.transfer = s.transfer => Base(e.rm) = Start(m)

LiveInv ==
    \A s \in sending, e \in receiving :
        s.status # "Prepared" /\ e.transfer = s.transfer =>
            Base(e.rm) = s.sm.position - s.sm.next_slot

ChunkInv ==
    \A q \in ChunksOnWire, e \in receiving :
        e.transfer = q.transfer => InPlace(e.rm, q.chunk)

BufferInv == \A e \in receiving : Aligned(e.rm)

PrefixInv ==
    /\ LoopInv /\ OfferInv /\ AcceptInv /\ LiveInv /\ ChunkInv /\ BufferInv
    /\ PartIsPrefix

LEMMA EntriesStay ==
    ASSUME PrefixInv, UNCHANGED vars, wire' \subseteq wire, Accepted' \subseteq Accepted,
           PartIsPrefix',
           \A d \in receiving' : \E e \in receiving :
               d.transfer = e.transfer /\ Base(d.rm) = Base(e.rm) /\ Aligned(d.rm)
    PROVE  PrefixInv'
<1>1. sending' = sending /\ tasks' = tasks
    BY DEF vars
<1>2. Offering' \subseteq Offering /\ ChunksOnWire' \subseteq ChunksOnWire
    BY DEF Offering, ChunksOnWire
<1>3. LoopInv'
    BY <1>1 DEF PrefixInv, LoopInv
<1>4. OfferInv'
    BY <1>1, <1>2 DEF PrefixInv, OfferInv
<1>5. AcceptInv'
    BY <1>1 DEF PrefixInv, AcceptInv
<1>6. LiveInv'
    BY <1>1 DEF PrefixInv, LiveInv
<1>7. ChunkInv'
    BY <1>2 DEF PrefixInv, ChunkInv, InPlace
<1>8. BufferInv'
    BY DEF BufferInv
<1> QED
    BY <1>3, <1>4, <1>5, <1>6, <1>7, <1>8 DEF PrefixInv

LEMMA OfferAnswered ==
    ASSUME PrefixInv, UNCHANGED vars, NEW q \in wire, q.kind \in Offers, wire' = wire \ {q},
           NEW x, replies' \subseteq replies \cup {x}, PartIsPrefix',
           \A d \in receiving' :
               /\ Aligned(d.rm)
               /\ x.response \in Accepts /\ d.transfer = q.transfer => Base(d.rm) = Start(x)
    PROVE  PrefixInv'
<1>1. sending' = sending /\ tasks' = tasks
    BY DEF vars
<1>2. /\ q \in Offering /\ ChunksOnWire = {} /\ Accepted = {}
      /\ \A p \in Offering : p = q
      /\ \A s \in sending : s.status = "Prepared" /\ s.transfer = q.transfer
    BY DEF PrefixInv, OfferInv, Offering
<1>3. Offering' = {} /\ ChunksOnWire' = {}
    BY <1>2 DEF Offering, ChunksOnWire
<1>4. \A m \in Accepted' : m = x /\ x.response \in Accepts
    BY <1>2 DEF Accepted
<1>5. LoopInv'
    BY <1>1 DEF PrefixInv, LoopInv
<1>6. OfferInv' /\ ChunkInv'
    BY <1>3 DEF OfferInv, ChunkInv
<1>7. AcceptInv'
    BY <1>1, <1>2, <1>4 DEF AcceptInv
<1>8. LiveInv'
    BY <1>1, <1>2 DEF LiveInv
<1>9. BufferInv'
    BY DEF BufferInv
<1> QED
    BY <1>5, <1>6, <1>7, <1>8, <1>9 DEF PrefixInv

-----------------------------------------------------------------------------
(* The part files. *)

LEMMA PrefixShrinks ==
    ASSUME PartIsPrefix, RP!PartsShrink
    PROVE  PartIsPrefix'
BY DEF PartIsPrefix, RP!PartsShrink

LEMMA PrefixOpened ==
    ASSUME PartIsPrefix, RP!IInv, NEW name \in Int \X {Sender}, parts' = RP!PartOpened(name)
    PROVE  PartIsPrefix'
<1>1. /\ DOMAIN RP!PartOpened(name) = DOMAIN parts \cup {name}
      /\ \A n \in DOMAIN parts : RP!PartOpened(name)[n] = parts[n]
      /\ name \notin DOMAIN parts => RP!PartOpened(name)[name] = <<>>
    BY RP!OpenedFacts, FileTrackerAssumption, TransferAssumption, ParallelChunksAssumption
<1>2. ASSUME NEW n \in DOMAIN parts', NEW i \in 1 .. Len(parts'[n])
      PROVE  parts'[n][i] = i - 1
    <2>1. CASE n \in DOMAIN parts
        BY <1>1, <1>2, <2>1 DEF PartIsPrefix
    <2>2. CASE n \notin DOMAIN parts
        <3>1. n = name /\ parts'[n] = <<>>
            BY <1>1, <2>2
        <3>2. Len(<<>>) = 0
            OBVIOUS
        <3> QED
            BY <1>2, <3>1, <3>2
    <2> QED
        BY <2>1, <2>2
<1> QED
    BY <1>2 DEF PartIsPrefix

LEMMA ConcatElement ==
    ASSUME NEW S, NEW a \in Seq(S), NEW b \in Seq(S), NEW i \in 1 .. Len(a \o b)
    PROVE  /\ Len(a \o b) = Len(a) + Len(b) /\ Len(a) \in Nat /\ Len(b) \in Nat
           /\ (a \o b)[i] = IF i <= Len(a) THEN a[i] ELSE b[i - Len(a)]
OBVIOUS

LEMMA PrefixWritten ==
    ASSUME PartIsPrefix, RP!IInv, NEW e \in receiving, NEW units \in Seq(RP!Units),
           RP!Written(e, units), \A i \in 1 .. Len(units) : units[i] = e.rm.byte_progress + i - 1
    PROVE  PartIsPrefix'
<1> DEFINE name == <<e.transfer, e.contact>>
<1>1. CASE e.handle # RP!InPart
    BY <1>1 DEF RP!Written, PartIsPrefix
<1>2. CASE e.handle = RP!InPart
    <2>1. name \in DOMAIN parts /\ Len(parts[name]) = e.rm.byte_progress
          /\ parts[name] \in Seq(RP!Units)
        BY <1>2 DEF RP!IInv, RP!BooksMatchDisk, RP!PartsTypeOK
    <2>2. parts' = [parts EXCEPT ![name] = @ \o units]
        BY <1>2 DEF RP!Written
    <2> DEFINE old == parts[name]
               new == old \o units
    <2>3. ASSUME NEW i \in 1 .. Len(new) PROVE new[i] = i - 1
        <3>1. /\ Len(new) = Len(old) + Len(units) /\ Len(old) \in Nat /\ Len(units) \in Nat
              /\ new[i] = IF i <= Len(old) THEN old[i] ELSE units[i - Len(old)]
            BY <2>1, <2>3, ConcatElement
        <3> HIDE DEF new
        <3>2. CASE i <= Len(old)
            BY <2>1, <2>3, <3>1, <3>2 DEF PartIsPrefix
        <3>3. CASE i > Len(old)
            <4>1. i - Len(old) \in 1 .. Len(units)
                BY <2>3, <3>1, <3>3
            <4>2. units[i - Len(old)] = e.rm.byte_progress + (i - Len(old)) - 1
                <5> DEFINE j == i - Len(old)
                <5> HIDE DEF j
                <5>1. j \in 1 .. Len(units)
                    BY <4>1 DEF j
                <5>2. units[j] = e.rm.byte_progress + j - 1
                    BY <5>1
                <5> QED
                    BY <5>2 DEF j
            <4> QED
                BY <2>1, <3>1, <3>3, <4>2
        <3> QED
            BY <2>3, <3>1, <3>2, <3>3
    <2> HIDE DEF name, new
    <2>4. DOMAIN parts' = DOMAIN parts
          /\ \A n \in DOMAIN parts : parts'[n] = IF n = name THEN new ELSE parts[n]
        BY <2>1, <2>2 DEF new
    <2> QED
        BY <2>3, <2>4 DEF PartIsPrefix
<1> QED
    BY <1>1, <1>2
-----------------------------------------------------------------------------
(* The answers of the receiver. *)

LEMMA EntryType ==
    ASSUME RP!IInv, NEW e \in receiving
    PROVE  /\ e \in RP!Entries /\ e.rm \in RP!Managers /\ e.contact = Sender
           /\ \A d \in receiving : d = e
BY DEF RP!IInv, RP!ReceivingTypeOK, RP!Entries

LEMMA SameEntries ==
    ASSUME PrefixInv, receiving' \subseteq receiving
    PROVE  \A d \in receiving' : \E e \in receiving :
               d.transfer = e.transfer /\ Base(d.rm) = Base(e.rm) /\ Aligned(d.rm)
BY DEF PrefixInv, BufferInv

LEMMA ChunkInPlace ==
    ASSUME RP!IInv, PrefixInv, UNCHANGED vars, NEW q \in wire, q \in Messages, q.kind = "Chunk",
           wire' \subseteq wire, Accepted' \subseteq Accepted,
           NEW reply, RP!Chunk(q.transfer, q.chunk, Sender, reply)
    PROVE  PrefixInv'
<1>1. PartIsPrefix
    BY DEF PrefixInv
<1>2. CASE receiving' = {} /\ UNCHANGED parts
    BY <1>1, <1>2, EntriesStay DEF PartIsPrefix
<1>3. ASSUME NEW e \in receiving, e.transfer = q.transfer, RP!ChunkStored(e, q.chunk, reply)
      PROVE  PrefixInv'
    <2> DEFINE A == RP!AppendedByStore(e.rm, q.chunk)
               m == RP!AfterStore(e.rm, q.chunk)
    <2>1. e \in RP!Entries /\ e.rm \in RP!Managers /\ q.chunk \in RP!Chunks
        BY EntryType DEF Messages, RP!Chunks
    <2>2. Aligned(e.rm) /\ InPlace(e.rm, q.chunk)
        BY <1>3 DEF PrefixInv, BufferInv, ChunkInv, ChunksOnWire
    <2>3. /\ Aligned(m) /\ Base(m) = Base(e.rm) /\ Len(A) \in Nat
          /\ \A i \in 1 .. Len(A) : A[i] = e.rm.byte_progress + i - 1
        BY <2>1, <2>2, StoreAligned
    <2>4. A \in Seq(RP!Units)
        BY <2>1, RP!StoreCounts, FileTrackerAssumption, TransferAssumption, ParallelChunksAssumption
    <2>5. \/ /\ RP!Written(e, A)
             /\ receiving' = {[e EXCEPT !.rm = m]} \/ receiving' = {}
          \/ /\ \E k \in 0 .. Len(A) - 1 : RP!Written(e, SubSeq(A, 1, k))
             /\ receiving' = {}
        BY <1>3 DEF RP!ChunkStored
    <2> HIDE DEF A, m
    <2>6. PartIsPrefix'
        <3>1. CASE RP!Written(e, A)
            BY <1>1, <2>3, <2>4, <3>1, PrefixWritten
        <3>2. ASSUME NEW k \in 0 .. Len(A) - 1, RP!Written(e, SubSeq(A, 1, k))
              PROVE  PartIsPrefix'
            <4>1. /\ SubSeq(A, 1, k) \in Seq(RP!Units) /\ Len(SubSeq(A, 1, k)) = k
                  /\ \A i \in 1 .. k : SubSeq(A, 1, k)[i] = A[i]
                BY <2>3, <2>4
            <4>2. \A i \in 1 .. Len(SubSeq(A, 1, k)) :
                      SubSeq(A, 1, k)[i] = e.rm.byte_progress + i - 1
                BY <2>3, <4>1
            <4> QED
                BY <1>1, <3>2, <4>1, <4>2, PrefixWritten
        <3> QED
            BY <2>5, <3>1, <3>2
    <2> DEFINE d == [e EXCEPT !.rm = m]
    <2>7. d.transfer = e.transfer /\ d.rm = m
        BY <2>1 DEF RP!Entries
    <2>8. receiving' \subseteq {d}
        BY <2>5
    <2> HIDE DEF d
    <2> QED
        BY <2>3, <2>6, <2>7, <2>8, EntriesStay
<1> QED
    BY <1>2, <1>3 DEF RP!Chunk

LEMMA WithoutShrinks ==
    ASSUME NEW names, parts' = RP!Without(parts, names)
    PROVE  RP!PartsShrink
BY DEF RP!PartsShrink, RP!Without, RP!Restrict

LEMMA DoneInPlace ==
    ASSUME RP!IInv, PrefixInv, UNCHANGED vars, NEW t,
           wire' \subseteq wire, Accepted' \subseteq Accepted,
           NEW reply, RP!Done(t, Sender, reply)
    PROVE  PrefixInv'
<1>1. PartIsPrefix
    BY DEF PrefixInv
<1>2. CASE receiving' \subseteq receiving /\ UNCHANGED parts
    <2>1. PartIsPrefix'
        BY <1>1, <1>2 DEF PartIsPrefix
    <2> QED
        BY <1>2, <2>1, SameEntries, EntriesStay
<1>3. ASSUME NEW e \in receiving, NEW name, RP!Finalized(e, name)
      PROVE  PrefixInv'
    <2>1. PICK h : receiving' = {[e EXCEPT !.handle = h]}
        BY <1>3 DEF RP!Finalized
    <2> DEFINE d == [e EXCEPT !.handle = h]
    <2>2. d.transfer = e.transfer /\ d.rm = e.rm
        BY EntryType DEF RP!Entries
    <2>3. PartIsPrefix'
        BY <1>1, <1>3, PrefixShrinks, WithoutShrinks DEF RP!Finalized
    <2>4. receiving' = {d} /\ Aligned(e.rm)
        BY <2>1 DEF PrefixInv, BufferInv
    <2> HIDE DEF d
    <2> QED
        BY <2>2, <2>3, <2>4, EntriesStay
<1> QED
    BY <1>2, <1>3 DEF RP!Done

LEMMA AbortInPlace ==
    ASSUME RP!IInv, PrefixInv, UNCHANGED vars, NEW t,
           wire' \subseteq wire, Accepted' \subseteq Accepted,
           NEW reply, RP!AbortTransfer(t, Sender, reply)
    PROVE  PrefixInv'
<1>1. PartIsPrefix
    BY DEF PrefixInv
<1>2. receiving' = {} /\ (UNCHANGED parts \/ \E names : parts' = RP!Without(parts, names))
    BY DEF RP!AbortTransfer
<1>3. PartIsPrefix'
    BY <1>1, <1>2, PrefixShrinks, WithoutShrinks DEF PartIsPrefix
<1> QED
    BY <1>2, <1>3, EntriesStay

LEMMA EntryBegins ==
    ASSUME NEW t, NEW progress \in Nat
    PROVE  LET d == RP!NewEntry(t, Sender, progress)
           IN  d.transfer = t /\ Aligned(d.rm) /\ Base(d.rm) = progress
<1> DEFINE c == [x \in WindowSlots |-> RP!NoChunk]
           m == [chunks_in_flight |-> c, earliest_not_received |-> 0,
                 declared_file_size |-> FileUnits, byte_progress |-> progress]
           d == RP!NewEntry(t, Sender, progress)
<1>1. d = [transfer |-> t, contact |-> Sender, handle |-> RP!InPart, rm |-> m]
    BY SameSlots DEF RP!NewEntry, RP!NewReceiveManager
<1>2. d.transfer = t /\ d.rm = m
    BY <1>1
<1>3. m.chunks_in_flight = c /\ Base(m) = progress
    BY DEF Base
<1>4. \A x \in WindowSlots : c[x] = RP!NoChunk
    OBVIOUS
<1> HIDE DEF m, c, d
<1>5. Aligned(m)
    BY <1>3, <1>4, NothingBuffered
<1> QED
    BY <1>2, <1>3, <1>5 DEF d

LEMMA ResetAligned ==
    ASSUME NEW m \in RP!Managers
    PROVE  /\ Aligned(RP!ResetReceiveManager(m))
           /\ Base(RP!ResetReceiveManager(m)) = m.byte_progress
<1> DEFINE c == [x \in WindowSlots |-> RP!NoChunk]
           r == RP!ResetReceiveManager(m)
<1>1. r = [m EXCEPT !.chunks_in_flight = c, !.earliest_not_received = 0]
    BY SameSlots DEF RP!ResetReceiveManager
<1>2. \A x \in WindowSlots : c[x] = RP!NoChunk
    OBVIOUS
<1> HIDE DEF c
<1>3. /\ r.chunks_in_flight = c /\ r.earliest_not_received = 0
      /\ r.byte_progress = m.byte_progress /\ m.byte_progress \in Int
    BY <1>1, FileTrackerAssumption DEF RP!Managers
<1> HIDE DEF r
<1>4. Aligned(r) /\ Base(r) = m.byte_progress
    BY <1>2, <1>3, NothingBuffered DEF Base
<1> QED
    BY <1>4 DEF r

LEMMA NewTransferInPlace ==
    ASSUME RP!IInv, PrefixInv, UNCHANGED vars, NEW q \in wire, q \in Messages,
           q.kind \in Offers, wire' = wire \ {q},
           NEW reply, RP!NewTransfer(q.transfer, Sender, reply),
           NEW x, x.response = reply.response, x.offset = reply.offset,
           replies' \subseteq replies \cup {x}
    PROVE  PrefixInv'
<1>1. PartIsPrefix /\ q.transfer \in Int /\ \A e \in receiving : Aligned(e.rm)
    BY DEF PrefixInv, BufferInv, Messages
<1>2. \A response : RP!Reply(response).response = response
    BY DEF RP!Reply
<1>3. CASE reply.response \notin Accepts /\ UNCHANGED <<receiving, parts>>
    <2>1. PartIsPrefix'
        BY <1>1, <1>3 DEF PartIsPrefix
    <2> QED
        BY <1>1, <1>3, <2>1, OfferAnswered
<1>4. CASE /\ reply.response = "AcceptNewTransfer"
           /\ parts' = RP!PartOpened(<<q.transfer, Sender>>)
           /\ receiving' = {RP!NewEntry(q.transfer, Sender, 0)}
    <2>1. PartIsPrefix'
        BY <1>1, <1>4, PrefixOpened
    <2> DEFINE d == RP!NewEntry(q.transfer, Sender, 0)
    <2>2. d.transfer = q.transfer /\ Aligned(d.rm) /\ Base(d.rm) = 0
        BY EntryBegins
    <2>3. receiving' = {d} /\ Start(x) = 0
        BY <1>4 DEF Start
    <2> HIDE DEF d
    <2> QED
        BY <2>1, <2>2, <2>3, OfferAnswered
<1> QED
    BY <1>2, <1>3, <1>4 DEF RP!NewTransfer, RP!receiver_vars, Accepts

LEMMA ContinueInPlace ==
    ASSUME RP!IInv, PrefixInv, UNCHANGED vars, NEW q \in wire, q \in Messages,
           q.kind \in Offers, wire' = wire \ {q},
           NEW reply, RP!ContinueTransfer(q.transfer, Sender, reply),
           NEW x, x.response = reply.response, x.offset = reply.offset,
           replies' \subseteq replies \cup {x}
    PROVE  PrefixInv'
<1>1. PartIsPrefix /\ q.transfer \in Int /\ \A e \in receiving : Aligned(e.rm)
    BY DEF PrefixInv, BufferInv, Messages
<1>2. /\ \A response : RP!Reply(response).response = response
      /\ \A offset : /\ RP!ContinueAt(offset).response = "AcceptContinueTransfer"
                     /\ RP!ContinueAt(offset).offset = offset
    BY DEF RP!Reply, RP!ContinueAt
<1>3. ASSUME NEW e \in receiving, e.transfer = q.transfer, UNCHANGED parts,
             reply = RP!ContinueAt(e.rm.byte_progress),
             receiving' = {[e EXCEPT !.rm = RP!ResetReceiveManager(@)]}
      PROVE  PrefixInv'
    <2> DEFINE m == RP!ResetReceiveManager(e.rm)
               d == [e EXCEPT !.rm = m]
    <2>1. e \in RP!Entries /\ e.rm \in RP!Managers
        BY EntryType
    <2>2. Aligned(m) /\ Base(m) = e.rm.byte_progress
        BY <2>1, ResetAligned
    <2> HIDE DEF m
    <2>3. d.transfer = e.transfer /\ d.rm = m
        BY <2>1 DEF RP!Entries
    <2>4. receiving' = {d}
        BY <1>3 DEF m
    <2> HIDE DEF d
    <2>5. PartIsPrefix'
        BY <1>1, <1>3 DEF PartIsPrefix
    <2>6. Start(x) = e.rm.byte_progress
        BY <1>2, <1>3 DEF Start
    <2> QED
        BY <2>2, <2>3, <2>4, <2>5, <2>6, OfferAnswered
<1>4. CASE /\ RP!StillInMemory(q.transfer, Sender) = {}
           /\ reply.response \in {"RestartContinueTransfer", "InternalError"}
           /\ UNCHANGED receiving
           /\ UNCHANGED parts \/ parts' = RP!PartOpened(<<q.transfer, Sender>>)
    <2>1. PartIsPrefix'
        BY <1>1, <1>4, PrefixOpened DEF PartIsPrefix
    <2>2. \A e \in receiving : e.transfer # q.transfer
        BY <1>4, EntryType DEF RP!StillInMemory
    <2> QED
        BY <1>1, <1>4, <2>1, <2>2, OfferAnswered
<1>5. ASSUME NEW length \in Nat, reply = RP!ContinueAt(length),
             parts' = RP!PartOpened(<<q.transfer, Sender>>),
             receiving' = {RP!NewEntry(q.transfer, Sender, length)}
      PROVE  PrefixInv'
    <2>1. PartIsPrefix'
        BY <1>1, <1>5, PrefixOpened
    <2> DEFINE d == RP!NewEntry(q.transfer, Sender, length)
    <2>2. d.transfer = q.transfer /\ Aligned(d.rm) /\ Base(d.rm) = length
        BY EntryBegins
    <2>3. receiving' = {d} /\ Start(x) = length
        BY <1>2, <1>5 DEF Start
    <2> HIDE DEF d
    <2> QED
        BY <2>1, <2>2, <2>3, OfferAnswered
<1>6. CASE RP!ContinueInMemory(q.transfer, Sender, reply)
    BY <1>3, <1>6 DEF RP!ContinueInMemory, RP!StillInMemory
<1>7. CASE /\ RP!StillInMemory(q.transfer, Sender) = {}
           /\ RP!ContinueFromDisk(q.transfer, Sender, reply)
    <2> DEFINE name == <<q.transfer, Sender>>
               length == Len(RP!PartOpened(name)[name])
    <2>1. length \in Nat
        <3>1. name \in Int \X {Sender}
            BY <1>1
        <3>2. /\ DOMAIN RP!PartOpened(name) = DOMAIN parts \cup {name}
              /\ \A n \in DOMAIN RP!PartOpened(name) :
                    Len(RP!PartOpened(name)[n]) \in 0 .. FileUnits
            BY <3>1, RP!OpenedFacts, FileTrackerAssumption, TransferAssumption,
               ParallelChunksAssumption
        <3> QED
            BY <3>2, FileTrackerAssumption
    <2>2. \/ /\ RP!StillInMemory(q.transfer, Sender) = {}
             /\ reply.response \in {"RestartContinueTransfer", "InternalError"}
             /\ UNCHANGED receiving
             /\ UNCHANGED parts \/ parts' = RP!PartOpened(name)
          \/ /\ reply = RP!ContinueAt(length) /\ parts' = RP!PartOpened(name)
             /\ receiving' = {RP!NewEntry(q.transfer, Sender, length)}
        BY <1>2, <1>7 DEF RP!ContinueFromDisk, RP!receiver_vars
    <2> HIDE DEF length
    <2> QED
        BY <1>4, <1>5, <2>1, <2>2
<1> QED
    BY <1>6, <1>7 DEF RP!ContinueTransfer

LEMMA ReceiverRespondsInPlace ==
    ASSUME BothEndsInv, PrefixInv, NEW q \in wire, ReceiverResponds(q)
    PROVE  PrefixInv'
<1>1. RP!IInv /\ q \in Messages
    BY DEF BothEndsInv, WireOK
<1>2. PICK reply \in Receiver!Replies :
        /\ \/ q.kind = "NewTransfer" /\ Receiver!NewTransfer(q.transfer, Sender, reply)
           \/ /\ q.kind = "ContinueTransfer"
              /\ Receiver!ContinueTransfer(q.transfer, Sender, reply)
           \/ q.kind = "AbortTransfer" /\ Receiver!AbortTransfer(q.transfer, Sender, reply)
           \/ q.kind = "Chunk" /\ Receiver!Chunk(q.transfer, q.chunk, Sender, reply)
           \/ q.kind = "Done" /\ Receiver!Done(q.transfer, Sender, reply)
           \/ q.kind = "ProtocolViolation" /\ Receiver!PeerViolation(reply)
        /\ wire' = wire \ {q}
        /\ replies' = replies \cup
               {[id |-> id, response |-> reply.response, offset |-> reply.offset] :
                   id \in {i \in {q.id} : Waiting(net, i)}}
        /\ UNCHANGED <<vars, failures, disturbed>>
    BY DEF ReceiverResponds
<1> DEFINE x == [id |-> q.id, response |-> reply.response, offset |-> reply.offset]
<1>3. reply.response \in Answers(q.kind)
    BY <1>1, <1>2, ReceiverAnswers
<1>4. /\ replies' \subseteq replies \cup {x}
      /\ x.response = reply.response /\ x.offset = reply.offset
    BY <1>2
<1>5. UNCHANGED vars /\ wire' \subseteq wire /\ wire' = wire \ {q}
    BY <1>2
<1> HIDE DEF x
<1>6. q.kind \in {"AbortTransfer", "Chunk", "Done", "ProtocolViolation"} =>
          Accepted' \subseteq Accepted
    <2>1. q.kind \in {"AbortTransfer", "Chunk", "Done", "ProtocolViolation"} =>
              x.response \notin Accepts
        BY <1>3, <1>4 DEF Answers, Accepts
    <2> QED
        BY <1>4, <2>1 DEF Accepted
<1>7. CASE q.kind = "NewTransfer" /\ Receiver!NewTransfer(q.transfer, Sender, reply)
    BY <1>1, <1>4, <1>5, <1>7, SameNewTransfer, NewTransferInPlace DEF Offers
<1>8. CASE q.kind = "ContinueTransfer" /\ Receiver!ContinueTransfer(q.transfer, Sender, reply)
    BY <1>1, <1>4, <1>5, <1>8, SameContinueTransfer, ContinueInPlace DEF Offers
<1>9. CASE q.kind = "AbortTransfer" /\ Receiver!AbortTransfer(q.transfer, Sender, reply)
    BY <1>1, <1>5, <1>6, <1>9, SameAbortTransfer, AbortInPlace
<1>10. CASE q.kind = "Chunk" /\ Receiver!Chunk(q.transfer, q.chunk, Sender, reply)
    BY <1>1, <1>5, <1>6, <1>10, SameChunk, ChunkInPlace
<1>11. CASE q.kind = "Done" /\ Receiver!Done(q.transfer, Sender, reply)
    BY <1>1, <1>5, <1>6, <1>11, SameDone, DoneInPlace
<1>12. CASE q.kind = "ProtocolViolation" /\ Receiver!PeerViolation(reply)
    <2>1. receiving' = {} /\ parts' = parts
        BY <1>12 DEF Receiver!PeerViolation
    <2>2. PartIsPrefix'
        BY <2>1 DEF PrefixInv, PartIsPrefix
    <2> QED
        BY <1>5, <1>6, <1>12, <2>1, <2>2, EntriesStay
<1> QED
    BY <1>2, <1>7, <1>8, <1>9, <1>10, <1>11, <1>12

LEMMA OthersInPlace ==
    ASSUME PrefixInv, ReceiverActs \/ (\E q \in wire : Lose(q)) \/ UNCHANGED all_vars
    PROVE  PrefixInv'
<1>1. /\ UNCHANGED vars /\ wire' \subseteq wire /\ replies' = replies /\ parts' = parts
      /\ receiving' = {} \/ receiving' = receiving
    BY DEF ReceiverActs, Lose, all_vars, receiver_vars, Receiver!Expire, Receiver!Restart,
           Receiver!ApplyUpdate
<1>2. PartIsPrefix' /\ Accepted' \subseteq Accepted
    BY <1>1 DEF PrefixInv, PartIsPrefix, Accepted
<1> QED
    BY <1>1, <1>2, SameEntries, EntriesStay

-----------------------------------------------------------------------------
(* The steps of the sender. *)

\* Where the messages of a step come from.
LEMMA MessagesOfStep ==
    ASSUME IInv, IInv', NEW answered, Transport(answered),
           \A r \in NewRequests : r.kind = "Chunk" => sending # {}
    PROVE  /\ \A q \in wire' : q \in wire \/ \E r \in NewRequests :
                  q = Message(r) /\ q.kind = r.kind /\ q.id = r.id
           /\ Accepted' \subseteq Accepted \ answered
           /\ replies' \subseteq replies \ answered
           /\ UNCHANGED <<receiving, parts>>
<1>1. /\ wire' = wire \cup {Message(r) : r \in NewRequests}
      /\ replies' = {m \in replies \ answered : Waiting(net', m.id)}
      /\ UNCHANGED receiver_vars
    BY DEF Transport
<1>2. \A r \in NewRequests : Message(r).id = r.id /\ Message(r).kind = r.kind
    BY MessageOK
<1> QED
    BY <1>1, <1>2 DEF Accepted, receiver_vars

\* Nothing is offered and no chunk is sent.
LEMMA StaysInPlace ==
    ASSUME IInv, IInv', PrefixInv, NEW answered, Transport(answered), Stays, LoopsStay
    PROVE  PrefixInv'
<1>1. /\ Since(net', AnyKind)
      /\ \A r \in NewRequests : r.kind = "Chunk" => sending # {}
    BY SinceStep
<1>2. \A r \in NewRequests : r.kind \in Plain
    BY NewKinds DEF Stays
<1>3. /\ \A q \in wire' : q \in wire \/ q.kind \in Plain
      /\ Accepted' \subseteq Accepted /\ UNCHANGED <<receiving, parts>>
    BY <1>1, <1>2, MessagesOfStep
<1>4. Offering' \subseteq Offering /\ ChunksOnWire' \subseteq ChunksOnWire
    BY <1>3 DEF Offering, ChunksOnWire, Plain, Offers
<1>5. \A t \in sending' : \E s \in sending :
          /\ t.transfer = s.transfer /\ t.sm = s.sm
          /\ t.status = "Prepared" <=> s.status = "Prepared"
    BY DEF Stays, SlotStays
<1>6. /\ tasks'["LoopOther"] = 0
      /\ tasks["LoopTarget"] = 0 => tasks'["LoopTarget"] = 0
    <2>1. /\ tasks["LoopOther"] = 0 /\ tasks["LoopTarget"] \in Nat
          /\ tasks'["LoopOther"] \in Nat /\ tasks'["LoopTarget"] \in Nat
        BY DEF PrefixInv, LoopInv, IInv, TasksOK, Tasks
    <2> QED
        BY <2>1 DEF LoopsStay
<1>7. LoopInv'
    BY <1>5, <1>6 DEF PrefixInv, LoopInv
<1>8. OfferInv'
    BY <1>3, <1>4, <1>5 DEF PrefixInv, OfferInv
<1>9. AcceptInv' /\ LiveInv'
    BY <1>3, <1>5 DEF PrefixInv, AcceptInv, LiveInv
<1>10. ChunkInv' /\ BufferInv' /\ PartIsPrefix'
    BY <1>3, <1>4 DEF PrefixInv, ChunkInv, BufferInv, PartIsPrefix
<1> QED
    BY <1>7, <1>8, <1>9, <1>10 DEF PrefixInv

\* No file was offered before an earlier attempt was over.
Apart == "overlap" \notin disturbed

LEMMA StaysApart ==
    ASSUME Apart', TransferNext \/ UNCHANGED all_vars
    PROVE  Apart
<1>1. disturbed \subseteq disturbed'
    BY DEF TransferNext, SenderActs, RequestFails, SenderReceives, Transport, ReceiverResponds,
           Lose, ReceiverActs, all_vars
<1> QED
    BY <1>1 DEF Apart

\* A file is offered, as nothing is under way.
LEMMA OfferedInPlace ==
    ASSUME Apart', IInv, IInv', PrefixInv, NEW answered, Transport(answered),
           Offered, LoopsStay
    PROVE  PrefixInv'
<1>1. /\ Since(net', AnyKind)
      /\ \A r \in NewRequests : r.kind = "Chunk" => sending # {}
    BY SinceStep
<1>2. \A r \in NewRequests : r.kind \in Plain \cup Offers
    BY NewKinds DEF Offered
<1>3. wire = {} /\ replies \subseteq answered /\ tasks'["LoopTarget"] = 0
    <2>1. \E r \in NewRequests : r.kind \in {"NewTransfer", "ContinueTransfer"}
        BY DEF Offered, NewRequests, Offers
    <2> QED
        BY <2>1 DEF Apart, Transport, Overlaps, Quiet
<1>4. /\ \A q \in wire' : \E r \in NewRequests :
            q = Message(r) /\ q.kind = r.kind /\ q.id = r.id
      /\ Accepted' = {} /\ UNCHANGED <<receiving, parts>>
    BY <1>1, <1>3, MessagesOfStep DEF Accepted
<1>5. ChunksOnWire' = {}
    BY <1>2, <1>4 DEF ChunksOnWire, Plain, Offers
<1>6. \A s, t \in sending' : s = t
    BY DEF IInv, FilesInv, SlotOK
<1>7. /\ \A t \in sending' : t.status = "Prepared" /\ t.sm = NewSendManager(FileUnits)
      /\ sending' # {}
      /\ \A r \in NewRequests : r.kind \in Offers => r.id = net'.nextId - 1
    BY DEF Offered, NewRequests
<1>8. \A q, r \in NewRequests : q.id = r.id => q = r
    BY DEF NewRequests, IInv, FilesInv, NetOK
<1>9. ASSUME NEW r \in NewRequests, r.kind \in Offers, NEW t \in sending'
      PROVE  Message(r).transfer = t.transfer
    <2>1. (CHOOSE s \in sending' : TRUE) = t
        BY <1>6
    <2>2. Message(r).transfer = (CHOOSE s \in sending' : TRUE).transfer
        BY <1>7, <1>9 DEF Message, Offers
    <2> QED
        BY <2>1, <2>2
<1>10. OfferInv'
    <2> SUFFICES ASSUME NEW q \in Offering'
                 PROVE  /\ \A p \in Offering' : p = q
                        /\ \A s \in sending' : s.status = "Prepared" /\ s.transfer = q.transfer
        BY <1>4, <1>5 DEF OfferInv
    <2>1. PICK r \in NewRequests : q = Message(r) /\ r.kind \in Offers
        BY <1>4 DEF Offering
    <2>2. ASSUME NEW p \in Offering' PROVE p = q
        <3>1. PICK o \in NewRequests : p = Message(o) /\ o.kind \in Offers
            BY <1>4 DEF Offering
        <3>2. o = r
            BY <1>7, <1>8, <2>1, <3>1
        <3> QED
            BY <2>1, <3>1, <3>2
    <2> QED
        BY <1>7, <1>9, <2>1, <2>2
<1>11. LoopInv'
    <2>1. /\ tasks["LoopOther"] = 0
          /\ tasks'["LoopOther"] \in Nat
        BY DEF PrefixInv, LoopInv, IInv, TasksOK, Tasks
    <2> QED
        BY <1>3, <1>7, <2>1 DEF LoopInv, LoopsStay
<1>12. AcceptInv' /\ ChunkInv' /\ LiveInv'
    BY <1>4, <1>5, <1>7 DEF AcceptInv, ChunkInv, LiveInv
<1>13. BufferInv' /\ PartIsPrefix'
    BY <1>4 DEF PrefixInv, BufferInv, PartIsPrefix
<1> QED
    BY <1>10, <1>11, <1>12, <1>13 DEF PrefixInv

\* The next chunk of the transfer is sent.
LEMMA ChunkGoesInPlace ==
    ASSUME IInv, IInv', PrefixInv, NEW answered, Transport(answered), ChunkGoes
    PROVE  PrefixInv'
<1>1. /\ Since(net', AnyKind)
      /\ \A r \in NewRequests : r.kind = "Chunk" => sending # {}
    BY SinceStep
<1>2. PICK s \in sending, who \in Contacts :
        /\ tasks[LoopOf(who)] > 0 /\ UNCHANGED tasks
        /\ sending' = {[s EXCEPT !.sm = ChunkSent(@, net.nextId)]}
        /\ net' = Register(net, "Chunk", s.attempt)
    BY DEF ChunkGoes
<1>3. s \in Transfers /\ s.sm \in SendManagers /\ \A t \in sending : t = s
    BY DEF IInv, FilesInv, SlotOK, Transfers
<1>4. s.status # "Prepared"
    BY <1>2, LoopIsTask DEF PrefixInv, LoopInv
<1>5. Offering = {}
    BY <1>4 DEF PrefixInv, OfferInv
<1>6. \A r \in NewRequests : r.kind = "Chunk"
    <2>1. /\ \A r \in net'.registry : r \in net.registry \/ r.kind = "Chunk"
          /\ \A r \in net.registry : r.id \in Nat /\ r.id < net.nextId
          /\ net.nextId \in Nat
        <3>1. Since(net, Plain) /\ NetOK(net) /\ "Chunk" \in AnyKind /\ Plain \subseteq AnyKind
            BY SinceNet DEF IInv, FilesInv, AnyKind
        <3>2. \A r \in net'.registry : r \in net.registry \/ r.kind = "Chunk"
            BY <1>2, <3>1, SinceRegister
        <3> QED
            BY <3>1, <3>2 DEF NetOK, Requests
    <2> QED
        BY <2>1 DEF NewRequests
<1>7. /\ \A q \in wire' : q \in wire \/ \E r \in NewRequests : q = Message(r) /\ q.kind = "Chunk"
      /\ Accepted' \subseteq Accepted /\ UNCHANGED <<receiving, parts>>
    BY <1>1, <1>6, MessagesOfStep
<1>8. ASSUME NEW r \in NewRequests
      PROVE  /\ Message(r).transfer = s.transfer
             /\ Message(r).chunk.idx = s.sm.next_slot /\ Message(r).chunk.unit = s.sm.position
    <2>1. (CHOOSE t \in sending : TRUE) = s /\ sending # {}
        BY <1>3
    <2>2. r.kind = "Chunk" /\ r.kind \notin {"NewTransfer", "ContinueTransfer"}
        BY <1>6
    <2>3. /\ Message(r).transfer = (CHOOSE t \in sending : TRUE).transfer
          /\ Message(r).chunk = NextChunk((CHOOSE t \in sending : TRUE).sm)
        BY <2>1, <2>2 DEF Message
    <2>4. NextChunk(s.sm).idx = s.sm.next_slot /\ NextChunk(s.sm).unit = s.sm.position
        BY DEF NextChunk
    <2>5. PICK u : u = (CHOOSE t \in sending : TRUE)
        OBVIOUS
    <2>6. Message(r).transfer = u.transfer /\ Message(r).chunk = NextChunk(u.sm) /\ u = s
        BY <2>1, <2>3, <2>5
    <2> QED
        BY <2>4, <2>6
<1> DEFINE sm == ChunkSent(s.sm, net.nextId)
           t == [s EXCEPT !.sm = sm]
<1>9. sm.position = s.sm.position + 1 /\ sm.next_slot = s.sm.next_slot + 1
    BY DEF ChunkSent
<1> HIDE DEF sm
<1>10. t.transfer = s.transfer /\ t.status = s.status /\ t.sm = sm
    BY <1>3 DEF Transfers
<1>11. sending' = {t}
    BY <1>2 DEF sm
<1> HIDE DEF t
<1>12. s.sm.position \in Nat /\ s.sm.next_slot \in Nat
    BY <1>3 DEF SendManagers
<1>13. \A e \in receiving : e.transfer = s.transfer =>
          Base(e.rm) = s.sm.position - s.sm.next_slot
    BY <1>4 DEF PrefixInv, LiveInv
<1>14. LoopInv'
    BY <1>2, <1>4, <1>10, <1>11 DEF PrefixInv, LoopInv
<1>15. Offering' = {}
    BY <1>5, <1>7 DEF Offering, Offers
<1>16. OfferInv' /\ AcceptInv'
    BY <1>4, <1>10, <1>11, <1>15 DEF OfferInv, AcceptInv
<1>17. LiveInv'
    BY <1>7, <1>9, <1>10, <1>11, <1>12, <1>13 DEF LiveInv
<1>18. ChunkInv'
    <2> SUFFICES ASSUME NEW q \in ChunksOnWire', NEW e \in receiving, e.transfer = q.transfer
                 PROVE  InPlace(e.rm, q.chunk)
        BY <1>7 DEF ChunkInv
    <2>1. CASE q \in wire
        BY <2>1 DEF ChunksOnWire, PrefixInv, ChunkInv
    <2>2. ASSUME NEW r \in NewRequests, q = Message(r) PROVE InPlace(e.rm, q.chunk)
        BY <1>8, <1>12, <1>13, <2>2 DEF InPlace
    <2> QED
        BY <1>7, <2>1, <2>2 DEF ChunksOnWire
<1>19. BufferInv' /\ PartIsPrefix'
    BY <1>7 DEF PrefixInv, BufferInv, PartIsPrefix
<1> QED
    BY <1>14, <1>16, <1>17, <1>18, <1>19 DEF PrefixInv

\* An acceptance lets the sender begin, or a confirmation go on.
LEMMA AnsweredInPlace ==
    ASSUME IInv, IInv', PrefixInv, NEW m \in replies, m.offset \in Nat, Transport({m}),
           Since(net', Plain), NEW id, Begins(m.response, m.offset) \/ Acks(id)
    PROVE  PrefixInv'
<1>1. /\ Since(net', AnyKind)
      /\ \A r \in NewRequests : r.kind = "Chunk" => sending # {}
    BY SinceStep
<1>2. \A r \in NewRequests : r.kind \in Plain
    BY NewKinds
<1>3. /\ \A q \in wire' : q \in wire \/ q.kind \in Plain
      /\ Accepted' \subseteq Accepted /\ UNCHANGED <<receiving, parts>>
    BY <1>1, <1>2, MessagesOfStep
<1>4. Offering' \subseteq Offering /\ ChunksOnWire' \subseteq ChunksOnWire
    BY <1>3 DEF Offering, ChunksOnWire, Plain, Offers
<1>5. PICK s \in sending, t \in sending' :
        /\ t.status = "Sending" /\ t.transfer = s.transfer /\ sending' = {t}
        /\ tasks'["LoopOther"] = tasks["LoopOther"]
        /\ \/ /\ m.response \in Accepts /\ s.status = "Prepared"
              /\ t.sm = IF m.response = "AcceptContinueTransfer"
                        THEN SetProgress(s.sm, m.offset) ELSE s.sm
           \/ s.status = "Sending" /\ CanMarkDone(s.sm, id) /\ t.sm = MarkDone(s.sm, id)
    BY DEF Begins, Acks
<1>6. Offering = {}
    <2>1. CASE m.response \in Accepts
        BY <2>1 DEF PrefixInv, OfferInv, Accepted
    <2>2. CASE s.status = "Sending"
        BY <2>2 DEF PrefixInv, OfferInv
    <2> QED
        BY <1>5, <2>1, <2>2
<1>7. ASSUME NEW e \in receiving, e.transfer = s.transfer
      PROVE  Base(e.rm) = t.sm.position - t.sm.next_slot
    <2>1. CASE m.response \in Accepts /\ s.status = "Prepared"
        <3>1. s.sm = NewSendManager(FileUnits) /\ Base(e.rm) = Start(m)
            BY <1>7, <2>1 DEF PrefixInv, LoopInv, AcceptInv, Accepted
        <3>2. s.sm.position = 0 /\ s.sm.next_slot = 0
            BY <3>1 DEF NewSendManager
        <3>3. /\ SetProgress(s.sm, m.offset).position = m.offset
              /\ SetProgress(s.sm, m.offset).next_slot = 0
            BY <3>1 DEF SetProgress, NewSendManager
        <3>4. t.sm = IF m.response = "AcceptContinueTransfer"
                     THEN SetProgress(s.sm, m.offset) ELSE s.sm
            BY <1>5, <2>1
        <3> QED
            BY <3>1, <3>2, <3>3, <3>4 DEF Start
    <2>2. CASE s.status = "Sending" /\ t.sm = MarkDone(s.sm, id)
        <3>1. Base(e.rm) = s.sm.position - s.sm.next_slot
            BY <1>7, <2>2 DEF PrefixInv, LiveInv
        <3>2. /\ MarkDone(s.sm, id).position = s.sm.position
              /\ MarkDone(s.sm, id).next_slot = s.sm.next_slot
            BY DEF MarkDone, SlideSendWindow, Acknowledge
        <3> QED
            BY <2>2, <3>1, <3>2
    <2> QED
        BY <1>5, <2>1, <2>2
<1>8. LoopInv'
    BY <1>5 DEF PrefixInv, LoopInv
<1>9. OfferInv' /\ AcceptInv'
    BY <1>4, <1>5, <1>6 DEF OfferInv, AcceptInv
<1>10. LiveInv'
    BY <1>3, <1>5, <1>7 DEF LiveInv
<1>11. ChunkInv' /\ BufferInv' /\ PartIsPrefix'
    BY <1>3, <1>4 DEF PrefixInv, ChunkInv, BufferInv, PartIsPrefix
<1> QED
    BY <1>8, <1>9, <1>10, <1>11 DEF PrefixInv

LEMMA SenderInPlace ==
    ASSUME Apart', BothEndsInv, PrefixInv,
           SenderActs \/ RequestFails \/ \E m \in replies : SenderReceives(m)
    PROVE  PrefixInv'
<1>1. IInv /\ RepliesOK
    BY DEF BothEndsInv
<1>2. IInv'
    BY SenderActsKeeps, SenderReceivesKeeps DEF BothEndsInv
<1>3. ASSUME NEW answered, Transport(answered), Stays \/ Offered, LoopsStay
      PROVE  PrefixInv'
    BY <1>1, <1>2, <1>3, StaysInPlace, OfferedInPlace
<1>4. CASE SenderActs
    <2>1. LocalStep /\ Transport({})
        BY <1>4 DEF SenderActs
    <2> QED
        BY <1>1, <1>2, <1>3, <2>1, LocalMoves, ChunkGoesInPlace DEF Moves
<1>5. CASE RequestFails
    <2>1. SomeFailure /\ Transport({})
        BY <1>5 DEF RequestFails
    <2> QED
        BY <1>1, <1>3, <2>1, FailureMoves DEF Moves
<1>6. ASSUME NEW m \in replies, SenderReceives(m) PROVE PrefixInv'
    <2>1. PICK r \in net.registry :
              ReceiveResponse(r, m.response, m.offset, "target") /\ Transport({m})
        BY <1>6 DEF SenderReceives
    <2>2. m.offset \in Nat
        BY <1>1 DEF RepliesOK
    <2>3. \/ OtherMoves
          \/ (Begins(m.response, m.offset) \/ Acks(r.id)) /\ Since(net', Plain)
        BY <1>1, <2>1, <2>2, ReceiveMoves
    <2> QED
        BY <1>1, <1>2, <1>3, <2>1, <2>2, <2>3, AnsweredInPlace DEF OtherMoves
<1> QED
    BY <1>4, <1>5, <1>6

LEMMA PrefixInvariance == TransferSpec => [](BothEndsInv /\ (Apart => PrefixInv))
<1>1. TransferInit => BothEndsInv /\ (Apart => PrefixInv)
    <2> SUFFICES ASSUME TransferInit PROVE PrefixInv
        BY TransferInitOK
    <2>1. /\ wire = {} /\ replies = {} /\ receiving = {} /\ DOMAIN parts = {}
          /\ sending = {} /\ tasks = [t \in Tasks |-> 0]
        BY DEF TransferInit, Init, Receiver!Init
    <2>2. LoopInv
        BY <2>1 DEF LoopInv, Tasks
    <2>3. OfferInv /\ AcceptInv /\ LiveInv /\ ChunkInv /\ BufferInv /\ PartIsPrefix
        BY <2>1 DEF OfferInv, AcceptInv, LiveInv, ChunkInv, BufferInv, PartIsPrefix,
                    Offering, Accepted
    <2> QED
        BY <2>2, <2>3 DEF PrefixInv
<1>2. BothEndsInv /\ (Apart => PrefixInv) /\ [TransferNext]_all_vars
          => (BothEndsInv /\ (Apart => PrefixInv))'
    <2> SUFFICES ASSUME BothEndsInv, Apart => PrefixInv, [TransferNext]_all_vars
                 PROVE  BothEndsInv' /\ (Apart' => PrefixInv')
        OBVIOUS
    <2>1. BothEndsInv'
        BY SenderActsKeeps, SenderReceivesKeeps, ReceiverRespondsKeeps, OthersKeep
           DEF TransferNext
    <2>2. ASSUME Apart' PROVE PrefixInv'
        BY <2>2, StaysApart, SenderInPlace, ReceiverRespondsInPlace, OthersInPlace DEF TransferNext
    <2> QED
        BY <2>1, <2>2
<1> QED
    BY <1>1, <1>2, PTL DEF TransferSpec

(***************************************************************************)
(* As long as no file is offered before the attempt before it is over,     *)
(* what is in a part file is the beginning of the file: however often a    *)
(* transfer is interrupted, expires at the receiver or is continued, and   *)
(* whatever order its chunks arrive in, send_next goes on with the unit at *)
(* which the part file ends.                                               *)
(***************************************************************************)
THEOREM PartsArePrefixes == TransferSpec => []PartIsPrefixWithoutOverlap
<1>1. BothEndsInv /\ (Apart => PrefixInv) => PartIsPrefixWithoutOverlap
    BY DEF PrefixInv, Apart, PartIsPrefixWithoutOverlap
<1> QED
    BY <1>1, PrefixInvariance, PTL

-----------------------------------------------------------------------------
(***************************************************************************)
(* What the tracker counts as progress, file by file: no step of the       *)
(* sender counts what was not counted before, except for the transfer in   *)
(* the slot, whose window says so.                                         *)
(***************************************************************************)
Queued == {pending[i] : i \in 1 .. Len(pending)}

Items == Queued \cup sending

\* A file without progress is offered anew, the others have their transfer.
Well(x) ==
    /\ x.status = "Pending" => x.progress = 0
    /\ x.status # "Pending" => x.transfer >= 0

\* A transfer that this program began is the transfer of one file.
ItemsInv ==
    /\ \A x \in Items : Well(x) /\ x.transfer < net.nextId
    /\ \A x, y \in Items : x.transfer = y.transfer /\ x.transfer >= 1 => x.file = y.file

Same(x, y) == x.file = y.file /\ x.transfer = y.transfer /\ x.progress = y.progress

\* Where x of the next state comes from.
Follows(x) ==
    /\ Well(x)
    /\ \/ \E y \in Items : Same(x, y)
       \/ x.progress = 0 /\ x.transfer <= 0
       \/ /\ x \in sending'
          /\ \/ x.progress = 0 /\ x.transfer >= net.nextId /\ x.transfer < net'.nextId
             \/ /\ x.status # "Prepared" /\ x.progress = x.sm.progress
                /\ \E s \in sending : x.file = s.file /\ x.transfer = s.transfer

ItemsFollow == \A x \in Items' : Follows(x)

\* Nothing that n has and the registry has not is an abort.
NoAborts(n) ==
    /\ net.nextId <= n.nextId
    /\ \A r \in n.registry : r.kind = "AbortTransfer" => r.id < net.nextId

Passes == ItemsFollow /\ NoAborts(net')

LEMMA ItemTypes ==
    ASSUME IInv
    PROVE  /\ \A x \in Queued : x \in PendingFiles
           /\ \A x \in sending : x \in Transfers
           /\ \A x \in Items : /\ x.file \in Files /\ x.progress \in Nat
                               /\ x.transfer \in Int
           /\ net.nextId \in Nat
<1>1. /\ pending \in Seq(PendingFiles) /\ sending \subseteq Transfers /\ net.nextId \in Nat
    BY Parts DEF FilesInv, QueueInv, SlotOK
<1>2. \A x \in Queued : x \in PendingFiles
    BY <1>1 DEF Queued
<1> QED
    BY <1>1, <1>2 DEF Items, PendingFiles, Transfers

LEMMA OldFollows ==
    ASSUME ItemsInv, NEW x \in Items
    PROVE  Follows(x)
<1>1. Well(x) /\ Same(x, x)
    BY DEF ItemsInv, Same
<1> QED
    BY <1>1 DEF Follows

LEMMA FollowParts ==
    ASSUME \A i \in 1 .. Len(pending') : Follows(pending'[i]), \A t \in sending' : Follows(t)
    PROVE  ItemsFollow
BY DEF ItemsFollow, Items, Queued

LEMMA SlotOnly ==
    ASSUME ItemsInv, UNCHANGED pending, \A t \in sending' : Follows(t)
    PROVE  ItemsFollow
<1>1. \A i \in 1 .. Len(pending') : pending'[i] \in Items
    BY DEF Items, Queued
<1> QED
    BY <1>1, OldFollows, FollowParts

LEMMA SlotSame ==
    ASSUME IInv, ItemsInv, UNCHANGED pending, NEW s \in sending, NEW t, t.status # "Pending",
           sending' = {t}, Same(t, s)
    PROVE  ItemsFollow
<1>1. Well(s) /\ s \in Transfers /\ s \in Items
    BY ItemTypes DEF ItemsInv, Items
<1>2. s.status # "Pending"
    BY <1>1 DEF Transfers
<1>3. Follows(t)
    BY <1>1, <1>2 DEF Follows, Well, Same
<1> QED
    BY <1>3, SlotOnly

LEMMA IgnoreFollows ==
    ASSUME ItemsInv, NEW n, NoAborts(n), Ignore(n)
    PROVE  Passes
<1>1. UNCHANGED pending /\ UNCHANGED sending /\ net' = n
    BY DEF Ignore
<1>2. \A t \in sending' : t \in Items
    BY <1>1 DEF Items
<1> QED
    BY <1>1, <1>2, OldFollows, SlotOnly DEF Passes

LEMMA AppendedFollows ==
    ASSUME IInv, ItemsInv, NEW p \in PendingFiles, Follows(p), pending' = Append(pending, p),
           \A t \in sending' : t \in sending
    PROVE  ItemsFollow
<1>1. pending \in Seq(PendingFiles)
    BY Parts DEF FilesInv, QueueInv
<1>2. \A i \in 1 .. Len(pending') : pending'[i] = p \/ pending'[i] \in Items
    BY <1>1 DEF Items, Queued
<1>3. \A t \in sending' : t \in Items
    BY DEF Items
<1> QED
    BY <1>2, <1>3, OldFollows, FollowParts

LEMMA ResetFollows ==
    ASSUME IInv, ItemsInv, NEW y \in sending, NEW s \in Transfers, Same(s, y), s.status = y.status
    PROVE  /\ Follows(ResetFile(s))
           /\ s.status # "Prepared" => Follows([ResetFile(s) EXCEPT !.status = "Interrupted"])
<1> DEFINE p == ResetFile(s)
           q == [p EXCEPT !.status = "Interrupted"]
           fresh == s.status = "Prepared" /\ s.progress = 0
<1>1. /\ p.file = s.file /\ p.progress = s.progress
      /\ fresh => p.status = "Pending" /\ p.transfer = NoTransfer
      /\ ~fresh => p.status = "Interrupted" /\ p.transfer = s.transfer
    BY DEF ResetFile
<1>2. p \in PendingFiles
    BY ResetFileOK
<1>3. q.status = "Interrupted" /\ q.transfer = p.transfer /\ q.file = p.file /\ q.progress = p.progress
    BY <1>2 DEF PendingFiles
<1>4. y \in Items /\ Well(y) /\ y.status # "Pending" /\ y.transfer >= 0
    BY ItemTypes DEF ItemsInv, Items, Well, Transfers
<1> HIDE DEF p, q
<1>5. CASE fresh
    BY <1>1, <1>5 DEF Follows, Well, NoTransfer, p
<1>6. CASE ~fresh
    <2>1. Same(p, y) /\ Well(p) /\ Same(q, y) /\ Well(q)
        BY <1>1, <1>3, <1>4, <1>6 DEF Same, Well
    <2> QED
        BY <1>4, <2>1 DEF Follows, p, q
<1> QED
    BY <1>5, <1>6

LEMMA StopFollows ==
    ASSUME IInv, ItemsInv, NEW n, NoAborts(n), NEW y \in sending, NEW s \in Transfers,
           Same(s, y), s.status = y.status, ResetAndStop(s, n)
    PROVE  Passes
<1>1. ResetFile(s) \in PendingFiles /\ Follows(ResetFile(s))
    BY ResetFileOK, ResetFollows
<1>2. pending' = Append(pending, ResetFile(s)) /\ sending' = {} /\ net' = n
    BY DEF ResetAndStop
<1> QED
    BY <1>1, <1>2, AppendedFollows DEF Passes

LEMMA SlotStops ==
    ASSUME IInv, ItemsInv, NEW n, NoAborts(n), NEW s \in sending,
           \/ ResetAndStop(s, n)
           \/ ResetAndStop([s EXCEPT !.retry = @ + 1], n)
    PROVE  Passes
<1> DEFINE v == [s EXCEPT !.retry = @ + 1]
<1>1. s \in Transfers /\ Same(s, s)
    BY ItemTypes DEF Same
<1>2. v \in Transfers /\ Same(v, s) /\ v.status = s.status
    BY <1>1 DEF Transfers, Same
<1> HIDE DEF v
<1> QED
    BY <1>1, <1>2, StopFollows DEF v

LEMMA RegisterNoAborts ==
    ASSUME NEW n, n.nextId \in Nat, net.nextId \in Nat, NEW kind, kind # "AbortTransfer", NEW a,
           net.nextId <= n.nextId
    PROVE  /\ Register(n, kind, a).nextId = n.nextId + 1
           /\ NoAborts(n) => NoAborts(Register(n, kind, a))
<1> DEFINE r == [id |-> n.nextId, kind |-> kind, attempt |-> a, state |-> "Open"]
           m == Register(n, kind, a)
<1>1. m.registry = n.registry \cup {r} /\ m.nextId = n.nextId + 1 /\ r.kind = kind
    BY DEF Register
<1> HIDE DEF r, m
<1>2. NoAborts(n) => NoAborts(m)
    BY <1>1 DEF NoAborts
<1> QED
    BY <1>1, <1>2 DEF m

LEMMA OfferFollows ==
    ASSUME IInv, ItemsInv, NEW n, NetOK(n), net.nextId <= n.nextId,
           NEW p \in Queued, NEW rest \in Seq(PendingFiles),
           \A i \in 1 .. Len(rest) : rest[i] \in Queued,
           \A i \in 1 .. Len(<<p>> \o rest) : (<<p>> \o rest)[i] \in Queued,
           Offer(p, rest, n)
    PROVE  ItemsFollow /\ (NoAborts(n) => NoAborts(net'))
<1> DEFINE kind == IF p.status = "Pending" THEN "NewTransfer" ELSE "ContinueTransfer"
           transfer == IF p.status = "Pending" THEN n.nextId ELSE p.transfer
           t == LockedSendData(p, transfer, Attempt(n, p))
<1>0. /\ p \in Items /\ p \in PendingFiles /\ Well(p) /\ n.nextId \in Nat /\ net.nextId \in Nat
      /\ Queued \subseteq Items
    BY ItemTypes DEF Items, ItemsInv, NetOK
<1>1. CASE /\ net' = Register(n, kind, Attempt(n, p))
           /\ sending' = {t} /\ pending' = rest
    <2>1. /\ t.status = "Prepared" /\ t.progress = p.progress /\ t.transfer = transfer
          /\ t.file = p.file
        BY DEF LockedSendData
    <2>2. kind # "AbortTransfer"
        OBVIOUS
    <2>3. net'.nextId = n.nextId + 1 /\ (NoAborts(n) => NoAborts(net'))
        BY <1>0, <1>1, <2>2, RegisterNoAborts
    <2> HIDE DEF t
    <2>4. ASSUME p.status = "Pending" PROVE Follows(t)
        <3>1. t.progress = 0 /\ t.transfer = n.nextId
            BY <1>0, <2>1, <2>4 DEF Well
        <3>2. t \in sending' /\ t.transfer >= net.nextId /\ t.transfer < net'.nextId /\ t.transfer >= 0
            BY <1>0, <1>1, <2>3, <3>1
        <3> QED
            BY <2>1, <3>1, <3>2 DEF Follows, Well
    <2>5. ASSUME p.status # "Pending" PROVE Follows(t)
        <3>1. Same(t, p) /\ Well(t)
            BY <1>0, <2>1, <2>5 DEF Same, Well
        <3> QED
            BY <1>0, <3>1 DEF Follows
    <2>6. Follows(t)
        BY <2>4, <2>5
    <2>7. \A i \in 1 .. Len(pending') : Follows(pending'[i])
        BY <1>0, <1>1, OldFollows
    <2> QED
        BY <1>1, <2>3, <2>6, <2>7, FollowParts
<1>2. CASE /\ net' = n /\ sending' = {}
           /\ pending' = IF kind = "NewTransfer" THEN <<p>> \o rest ELSE rest
    <2>1. \A i \in 1 .. Len(pending') : pending'[i] \in Items
        BY <1>0, <1>2
    <2> QED
        BY <1>2, <2>1, OldFollows, FollowParts
<1> QED
    BY <1>1, <1>2 DEF Offer

LEMMA SendNextFollows ==
    ASSUME IInv, ItemsInv, NEW n, NetOK(n), net.nextId <= n.nextId, NEW out,
           SendNext(pending, out, n)
    PROVE  ItemsFollow /\ (NoAborts(n) => NoAborts(net'))
<1>0. pending \in Seq(PendingFiles)
    BY Parts DEF FilesInv, QueueInv
<1>1. PICK k \in 0 .. Len(pending) :
        \/ pending' = <<>> /\ sending' = {} /\ net' = n
        \/ /\ k < Len(pending)
           /\ Offer(pending[k + 1], SubSeq(pending, k + 2, Len(pending)), n)
    BY DEF SendNext
<1>2. CASE pending' = <<>> /\ sending' = {} /\ net' = n
    BY <1>2 DEF ItemsFollow, Items, Queued
<1>3. CASE /\ k < Len(pending)
           /\ Offer(pending[k + 1], SubSeq(pending, k + 2, Len(pending)), n)
    <2> DEFINE rest == SubSeq(pending, k + 2, Len(pending))
               all == <<pending[k + 1]>> \o rest
    <2>1. k \in Nat /\ Len(pending) \in Nat
        BY <1>0
    <2>2. /\ rest \in Seq(PendingFiles) /\ Len(rest) = Len(pending) - (k + 1)
          /\ \A i \in 1 .. Len(rest) : rest[i] = pending[k + 1 + i]
          /\ Len(all) = Len(pending) - k
          /\ \A i \in 1 .. Len(all) : all[i] = pending[k + i]
        BY <1>0, <1>3, <2>1, RestOfQueue
    <2> HIDE DEF rest, all
    <2>3. \A i \in 1 .. Len(rest) : rest[i] \in Queued
        BY <1>3, <2>1, <2>2 DEF Queued
    <2>4. ASSUME NEW i \in 1 .. Len(all) PROVE all[i] \in Queued
        <3>0. all[i] = pending[k + i]
            BY <2>2, <2>4
        <3>2. Len(all) = Len(pending) - k
            BY <2>2
        <3>1. k + i \in 1 .. Len(pending)
            BY <1>3, <2>1, <3>2, <2>4
        <3> QED
            BY <3>0, <3>1 DEF Queued
    <2>5. pending[k + 1] \in Queued
        BY <1>3, <2>1 DEF Queued
    <2>6. Offer(pending[k + 1], rest, n)
        BY <1>3 DEF rest
    <2> QED
        BY <2>2, <2>3, <2>4, <2>5, <2>6, OfferFollows DEF all
<1> QED
    BY <1>1, <1>2, <1>3

LEMMA NextPasses ==
    ASSUME IInv, ItemsInv, NEW n, NetOK(n), NoAborts(n), NEW out, SendNext(pending, out, n)
    PROVE  Passes
BY SendNextFollows DEF Passes, NoAborts

LEMMA CompletePasses ==
    ASSUME IInv, ItemsInv, NEW n, NetOK(n), NoAborts(n), NEW f, NEW outcome,
           CompleteFile(f, outcome, n)
    PROVE  Passes
BY NextPasses DEF CompleteFile

LEMMA RetryPasses ==
    ASSUME IInv, ItemsInv, NEW n, NetOK(n), NoAborts(n), NEW s \in sending,
           \/ ResetAndRetry(s, n)
           \/ ResetAndRetry([s EXCEPT !.retry = @ + 1], n)
    PROVE  Passes
<1> DEFINE v == [s EXCEPT !.retry = @ + 1]
<1>1. \/ \E f : CompleteFile(f, "Failed", n)
      \/ ResetAndStop(s, n)
      \/ ResetAndStop(v, n)
    BY DEF ResetAndRetry
<1> HIDE DEF v
<1> QED
    BY <1>1, SlotStops, CompletePasses DEF v

(* The registries that handlers go on with have no new abort. *)

LEMMA NetNoAborts ==
    ASSUME IInv
    PROVE  /\ NoAborts(net)
           /\ \A r \in net.registry : /\ NoAborts(Answered(r)) /\ NetOK(Answered(r))
                                      /\ NoAborts(Failed(r)) /\ NetOK(Failed(r))
                                      /\ NoAborts(TimedOut(r)) /\ NetOK(TimedOut(r))
<1>1. /\ NetOK(net) /\ net.nextId \in Nat /\ net.registry \subseteq Requests
      /\ \A r \in net.registry : r.id < net.nextId
    BY Parts DEF NetOK
<1>2. ASSUME NEW n, Since(n, Plain), n.nextId = net.nextId, NetOK(n)
      PROVE  NoAborts(n)
    <2>1. \A r \in n.registry : r.id < net.nextId
        BY <1>2 DEF NetOK
    <2> QED
        BY <1>1, <1>2, <2>1 DEF NoAborts
<1>3. NoAborts(net)
    BY <1>1, <1>2, SinceNet
<1>4. ASSUME NEW r \in net.registry
      PROVE  /\ NoAborts(Answered(r)) /\ NetOK(Answered(r))
             /\ NoAborts(Failed(r)) /\ NetOK(Failed(r))
             /\ NoAborts(TimedOut(r)) /\ NetOK(TimedOut(r))
    <2>1. Answered(r).nextId = net.nextId
        BY <1>1 DEF Answered, NetOK
    <2>2. \A state : Marked(r, state).nextId = net.nextId
        BY <1>1 DEF Marked, NetOK
    <2>3. /\ NetOK(Answered(r)) /\ Since(Answered(r), Plain)
          /\ NetOK(Failed(r)) /\ Since(Failed(r), Plain)
          /\ NetOK(TimedOut(r)) /\ Since(TimedOut(r), Plain)
        BY Parts, AnsweredOK, SinceAnswered, MarkedOK, SinceMarked DEF After, Failed, TimedOut
    <2> QED
        BY <1>2, <2>1, <2>2, <2>3 DEF Failed, TimedOut
<1> QED
    BY <1>3, <1>4

LEMMA ViolationNoAborts ==
    ASSUME IInv, NEW n, NetOK(n), NoAborts(n), NEW m \in Send(n, "ProtocolViolation", NoAttempt)
    PROVE  NoAborts(m)
<1>1. m = n \/ m = Register(n, "ProtocolViolation", NoAttempt)
    BY DEF Send
<1>2. n.nextId \in Nat /\ net.nextId \in Nat /\ net.nextId <= n.nextId
    BY Parts DEF NetOK, NoAborts
<1> QED
    BY <1>1, <1>2, RegisterNoAborts

LEMMA ErrorPasses ==
    ASSUME IInv, ItemsInv, NEW n, NetOK(n), NoAborts(n), NEW error, ErrorHandled(error, n)
    PROVE  Passes
<1>1. \/ Ignore(n)
      \/ \E s \in sending : \/ ResetAndStop(s, n)
                            \/ ResetAndRetry(s, n)
                            \/ CompleteFile(s.file, "Rejected", n)
    BY DEF ErrorHandled
<1> QED
    BY <1>1, IgnoreFollows, SlotStops, RetryPasses, CompletePasses

LEMMA FailurePasses ==
    ASSUME IInv, ItemsInv, SomeFailure
    PROVE  Passes
<1>1. CASE PeerDisconnected
    BY <1>1, NetNoAborts, IgnoreFollows DEF PeerDisconnected
<1>2. ASSUME ~PeerDisconnected
      PROVE  \E r \in net.registry,
                error \in {"Transport", "Remote", "Resend", "UnsupportedProtocols",
                          "Session", "Timeout"} :
                 \/ ErrorHandled(error, Failed(r))
                 \/ ErrorHandled(error, Answered(r))
                 \/ ErrorHandled(error, TimedOut(r))
    BY <1>2 DEF SomeFailure, HandleReceiveError, HandleUndecryptable, HandleTimeout
<1> QED
    BY <1>1, <1>2, NetNoAborts, ErrorPasses

LEMMA UnexpectedPasses ==
    ASSUME IInv, ItemsInv, NEW n, NetOK(n), NoAborts(n), Unexpected(n)
    PROVE  Passes
<1>1. Ignore(n) \/ \E m \in Send(n, "ProtocolViolation", NoAttempt) : Ignore(m)
    BY DEF Unexpected
<1> QED
    BY <1>1, ViolationNoAborts, IgnoreFollows

LEMMA NotVerifiedPasses ==
    ASSUME IInv, ItemsInv, NEW n, NoAborts(n), NEW s \in sending, NEW who, NotVerified(s, who, n)
    PROVE  Passes
<1>1. Ignore(n) \/ ResetAndStop(s, n)
    BY DEF NotVerified, Hangs
<1> QED
    BY <1>1, IgnoreFollows, SlotStops

LEMMA NotExpectedPasses ==
    ASSUME IInv, ItemsInv, NEW n, NoAborts(n), NEW s \in sending, NEW v \in Transfers,
           Same(v, s), NotExpectedNow(v, n)
    PROVE  Passes
<1>1. sending' = {v} /\ net' = n /\ UNCHANGED pending /\ v.status # "Pending"
    BY DEF NotExpectedNow, Transfers
<1> QED
    BY <1>1, SlotSame DEF Passes

\* The slot goes on with its own progress or with the one of its window.
LEMMA StartSendingPasses ==
    ASSUME IInv, ItemsInv, NEW n, NoAborts(n), NEW s \in sending, NEW v \in Transfers,
           v.file = s.file, v.transfer = s.transfer, v.status = s.status,
           \/ v.progress = s.progress
           \/ v.status = "Prepared" /\ v.progress = v.sm.progress,
           StartSending(v, n, "target")
    PROVE  Passes
<1>1. CASE v.status # "Prepared" /\ NotExpectedNow(v, n)
    BY <1>1, NotExpectedPasses DEF Same
<1>2. CASE /\ v.status = "Prepared"
           /\ sending' = {[v EXCEPT !.status = "Sending"]}
           /\ net' = n
           /\ UNCHANGED <<entry, pending, outcomes>>
    <2> DEFINE t == [v EXCEPT !.status = "Sending"]
    <2>1. /\ t.status = "Sending" /\ t.transfer = v.transfer /\ t.sm = v.sm /\ t.file = v.file
          /\ t.progress = v.progress
        BY DEF Transfers
    <2>2. sending' = {t} /\ UNCHANGED pending /\ net' = n
        BY <1>2
    <2> HIDE DEF t
    <2>3. CASE v.progress = s.progress
        BY <2>1, <2>2, <2>3, SlotSame DEF Same, Passes
    <2>4. CASE v.progress = v.sm.progress
        <3>1. s \in Items /\ Well(s) /\ s.status # "Pending" /\ s.transfer >= 0
            BY ItemTypes DEF ItemsInv, Items, Well, Transfers
        <3>2. Well(t) /\ t \in sending' /\ t.status # "Prepared" /\ t.progress = t.sm.progress
            BY <2>1, <2>2, <2>4, <3>1 DEF Well
        <3>3. Follows(t)
            BY <2>1, <3>2 DEF Follows
        <3> QED
            BY <2>2, <3>3, SlotOnly DEF Passes
    <2> QED
        BY <2>3, <2>4
<1> QED
    BY <1>1, <1>2 DEF StartSending

LEMMA VerifiedItem ==
    ASSUME IInv, NEW s \in sending, NEW who, NEW v \in Verified(s, who)
    PROVE  v \in Transfers /\ Same(v, s) /\ v.status = s.status
<1>1. s \in Transfers
    BY Parts, Untouched
<1>2. v = s \/ v = [s EXCEPT !.verify = "Free"]
    BY DEF Verified, AfterVerification
<1> QED
    BY <1>1, <1>2 DEF Transfers, Same

LEMMA AcceptPasses ==
    ASSUME IInv, ItemsInv, NEW n, NetOK(n), NoAborts(n), NEW offset \in Nat,
           AcceptNewTransfer(n, "target") \/ AcceptContinueTransfer(n, "target", offset)
    PROVE  Passes
<1>1. CASE Unexpected(n)
    BY <1>1, UnexpectedPasses
<1>2. ASSUME NEW s \in sending, NotVerified(s, "target", n)
      PROVE  Passes
    BY <1>2, NotVerifiedPasses
<1>3. ASSUME NEW s \in sending, NEW v \in Verified(s, "target"), StartSending(v, n, "target")
      PROVE  Passes
    BY <1>3, VerifiedItem, StartSendingPasses DEF Same
<1>4. ASSUME NEW s \in sending, NEW v \in Verified(s, "target"),
             StartSending(ContinueAt(v, offset), n, "target")
      PROVE  Passes
    <2> DEFINE w == ContinueAt(v, offset)
    <2>1. /\ v \in Transfers /\ Same(v, s) /\ v.status = s.status
          /\ SameTransfer(v, s) /\ Unlocks(v, "target")
        BY Parts, VerifiedItem, VerifiedOK
    <2>2. w \in Transfers
        BY <2>1, ContinueAtOK DEF SameTransfer
    <2>3. w.transfer = s.transfer /\ w.status = s.status /\ w.file = s.file
        BY <2>1 DEF ContinueAt, Transfers, Same
    <2>4. \/ w.progress = s.progress
          \/ w.status = "Prepared" /\ w.progress = w.sm.progress
        BY <2>1 DEF ContinueAt, Transfers, SendManagers, SetProgress, Same
    <2>5. StartSending(w, n, "target")
        BY <1>4
    <2> HIDE DEF w
    <2> QED
        BY <2>2, <2>3, <2>4, <2>5, StartSendingPasses
<1> QED
    BY <1>1, <1>2, <1>3, <1>4 DEF AcceptNewTransfer, AcceptContinueTransfer

LEMMA RejectedPasses ==
    ASSUME IInv, ItemsInv, NEW n, NetOK(n), NoAborts(n),
           \/ Unexpected(n) \/ RejectedBy("target", n) \/ RejectContinueTransfer(n, "target")
           \/ RejectChunk(n)
    PROVE  Passes
<1>1. \/ Unexpected(n) \/ Ignore(n)
      \/ \E s \in sending : NotVerified(s, "target", n) \/ CompleteFile(s.file, "Rejected", n)
      \/ sending' = {} /\ net' = n /\ UNCHANGED pending
    BY DEF RejectedBy, RejectContinueTransfer, RejectChunk, Hangs
<1>2. CASE sending' = {} /\ net' = n /\ UNCHANGED pending
    BY <1>2, SlotOnly DEF Passes
<1> QED
    BY <1>1, <1>2, UnexpectedPasses, IgnoreFollows, NotVerifiedPasses, CompletePasses

LEMMA ConfirmChunkPasses ==
    ASSUME IInv, ItemsInv, NEW n, NetOK(n), NoAborts(n), NEW r, ConfirmChunk(r, n, "target")
    PROVE  Passes
<1>1. CASE Unexpected(n) \/ Ignore(n)
    BY <1>1, UnexpectedPasses, IgnoreFollows
<1>2. ASSUME NEW s \in sending, ResetAndStop(s, n) PROVE Passes
    BY <1>2, SlotStops
<1>3. ASSUME NEW s \in sending, NotExpectedNow(s, n) PROVE Passes
    BY <1>3, ItemTypes, NotExpectedPasses DEF Same
<1>4. ASSUME NEW s \in sending, s.status = "Sending",
             sending' = {[s EXCEPT !.sm = MarkDone(s.sm, r.id),
                                   !.progress = MarkDone(s.sm, r.id).progress]},
             net' = n, UNCHANGED pending
      PROVE  Passes
    <2> DEFINE sm == MarkDone(s.sm, r.id)
               t == [s EXCEPT !.sm = sm, !.progress = sm.progress]
    <2>1. s \in Transfers /\ s \in Items /\ Well(s) /\ s.status # "Pending" /\ s.transfer >= 0
        BY ItemTypes DEF ItemsInv, Items, Well, Transfers
    <2>2. sending' = {t}
        BY <1>4
    <2> HIDE DEF sm
    <2>3. /\ t.status = "Sending" /\ t.transfer = s.transfer /\ t.sm = sm /\ t.file = s.file
          /\ t.progress = sm.progress
        BY <1>4, <2>1 DEF Transfers
    <2> HIDE DEF t
    <2>4. Well(t) /\ t \in sending' /\ t.status # "Prepared" /\ t.progress = t.sm.progress
        BY <2>1, <2>2, <2>3 DEF Well
    <2>5. Follows(t)
        BY <2>3, <2>4 DEF Follows
    <2> QED
        BY <1>4, <2>2, <2>5, SlotOnly DEF Passes
<1>5. \/ Unexpected(n) \/ Ignore(n)
      \/ \E s \in sending :
            \/ ResetAndStop(s, n)
            \/ NotExpectedNow(s, n)
            \/ /\ s.status = "Sending"
               /\ sending' = {[s EXCEPT !.sm = MarkDone(s.sm, r.id),
                                       !.progress = MarkDone(s.sm, r.id).progress]}
               /\ net' = n
               /\ UNCHANGED <<entry, pending, outcomes, service>>
    BY Zenon DEF ConfirmChunk
<1>6. UNCHANGED <<entry, pending, outcomes, service>> => UNCHANGED pending
    OBVIOUS
<1> QED
    BY <1>1, <1>2, <1>3, <1>4, <1>5, <1>6, Zenon

LEMMA ReceivePasses ==
    ASSUME IInv, ItemsInv, NEW r \in net.registry, NEW response, NEW offset \in Nat,
           ReceiveResponse(r, response, offset, "target")
    PROVE  Passes
<1>0. PICK n : /\ Handled(r, n, response, offset, "target")
               /\ n = Answered(r) \/ n = Failed(r)
    BY ResponseIsHandled
<1>1. NetOK(n) /\ NoAborts(n)
    BY <1>0, NetNoAborts
<1>2. \/ AcceptNewTransfer(n, "target") \/ AcceptContinueTransfer(n, "target", offset)
      \/ RejectNewTransfer(n, "target") \/ RejectContinueTransfer(n, "target")
      \/ ConfirmChunk(r, n, "target") \/ ConfirmUnknown(n) \/ RejectChunk(n)
      \/ \E outcome : AnswerDone(n, outcome)
      \/ ConfirmAbort(n) \/ AcknowledgeProtocolViolation(n)
      \/ PeerReportsViolation(n) \/ PeerReportsInternalError(n)
    BY <1>0, Zenon DEF Handled
<1>3. CASE AcceptNewTransfer(n, "target") \/ AcceptContinueTransfer(n, "target", offset)
    BY <1>1, <1>3, AcceptPasses
<1>4. CASE \/ RejectNewTransfer(n, "target") \/ RejectContinueTransfer(n, "target")
           \/ RejectChunk(n)
    BY <1>1, <1>4, RejectedPasses DEF RejectNewTransfer
<1>5. CASE ConfirmChunk(r, n, "target") \/ ConfirmUnknown(n)
    BY <1>1, <1>5, ConfirmChunkPasses, UnexpectedPasses, IgnoreFollows DEF ConfirmUnknown
<1>6. CASE \E outcome : AnswerDone(n, outcome)
    <2>1. ASSUME NEW s \in sending, NotExpectedNow(s, n) PROVE Passes
        BY <1>1, <2>1, ItemTypes, NotExpectedPasses DEF Same
    <2> QED
        BY <1>1, <1>6, <2>1, UnexpectedPasses, CompletePasses DEF AnswerDone
<1>7. CASE ConfirmAbort(n) \/ AcknowledgeProtocolViolation(n)
    BY <1>1, <1>7, IgnoreFollows, NextPasses DEF ConfirmAbort, AcknowledgeProtocolViolation
<1>8. CASE PeerReportsViolation(n) \/ PeerReportsInternalError(n)
    BY <1>1, <1>8, IgnoreFollows, RetryPasses, SlotStops
    DEF PeerReportsViolation, PeerReportsInternalError
<1> QED
    BY <1>2, <1>3, <1>4, <1>5, <1>6, <1>7, <1>8

(* What happens without the peer; an abort leaves nothing of its file. *)

Leaves == \E s \in sending : \A x \in Items' : x.file # s.file

LEMMA AbortRegistry ==
    ASSUME IInv, NEW n \in Send(net, "AbortTransfer", NoAttempt)
    PROVE  NetOK(n) /\ net.nextId <= n.nextId
BY Parts, SinceNet, SinceSend DEF Since

LEMMA LeftLeaves ==
    ASSUME IInv', NEW s \in sending, s.file \in Files, Left(s.file)'
    PROVE  Leaves
<1>1. ~Tracked(s.file)'
    BY DEF IInv, FilesInv, OutcomesInv
<1>2. \A x \in Items' : x.file # s.file
    BY <1>1 DEF Tracked, Items, Queued
<1> QED
    BY <1>2 DEF Leaves

LEMMA IoErrorFollows ==
    ASSUME IInv, IInv', ItemsInv, NEW s \in sending, LoopIoError(s)
    PROVE  ItemsFollow /\ Leaves
<1>1. PICK n \in Send(net, "AbortTransfer", NoAttempt) : CompleteFile(s.file, "IoError", n)
    BY DEF LoopIoError
<1> DEFINE out == [outcomes EXCEPT ![s.file] = Append(@, "IoError")]
<1>2. SendNext(pending, out, n)
    BY <1>1 DEF CompleteFile
<1>3. ItemsFollow
    BY <1>2, AbortRegistry, SendNextFollows
<1>4. s.file \in Files /\ outcomes \in [Files -> Seq(Outcomes)] /\ "IoError" \in Outcomes
    BY Parts, Untouched DEF Transfers, FilesInv, OutcomesInv, Outcomes
<1>5. out[s.file] \in Seq(Outcomes) /\ Len(out[s.file]) # 0
    BY <1>4
<1> HIDE DEF out
<1>6. outcomes'[s.file] = Append(out[s.file], "Missing") \/ outcomes'[s.file] = out[s.file]
    BY <1>2, <1>4 DEF SendNext
<1>7. "Missing" \in Outcomes
    BY DEF Outcomes
<1>8. Len(outcomes'[s.file]) # 0
    BY <1>5, <1>6, <1>7
<1>9. Left(s.file)'
    BY <1>8 DEF Left
<1> QED
    BY <1>3, <1>4, <1>9, LeftLeaves

LEMMA CancelFollows ==
    ASSUME IInv, IInv', ItemsInv, NEW fs, Cancel(fs)
    PROVE  ItemsFollow /\ (NoAborts(net') \/ Leaves)
<1>1. ASSUME NEW s \in sending, NEW n \in Send(net, "AbortTransfer", NoAttempt),
             SendNext(pending, outcomes, n), cancelled' = cancelled \cup {s.file}
      PROVE  ItemsFollow /\ Leaves
    <2>1. ItemsFollow
        BY <1>1, AbortRegistry, SendNextFollows
    <2>2. s.file \in Files /\ Left(s.file)'
        BY <1>1, Parts, Untouched DEF Transfers, Left
    <2> QED
        BY <2>1, <2>2, LeftLeaves
<1>2. CASE pending' = Without(pending, fs) /\ UNCHANGED <<entry, sending, net, outcomes>>
    <2>1. /\ pending \in Seq(PendingFiles)
          /\ \A i, j \in 1 .. Len(pending) : pending[i].file = pending[j].file => i = j
        BY Parts DEF FilesInv, QueueInv
    <2>2. \A k \in 1 .. Len(pending') : \E i \in 1 .. Len(pending) : pending'[k] = pending[i]
        BY <1>2, <2>1, WithoutFacts
    <2>3. \A k \in 1 .. Len(pending') : pending'[k] \in Items
        BY <2>2 DEF Items, Queued
    <2>4. \A t \in sending' : t \in Items
        BY <1>2 DEF Items
    <2>5. NoAborts(net')
        BY <1>2, NetNoAborts
    <2> QED
        BY <2>3, <2>4, <2>5, OldFollows, FollowParts
<1> QED
    BY <1>1, <1>2 DEF Cancel

LEMMA LoopFollows ==
    ASSUME IInv, IInv', ItemsInv, LoopInv, NEW who \in Contacts, SendChunksLoop(who)
    PROVE  ItemsFollow /\ (NoAborts(net') \/ Leaves)
<1>1. NoAborts(net) /\ net.nextId \in Nat
    BY NetNoAborts, Parts
<1>2. CASE Ignore(net)
    BY <1>1, <1>2, IgnoreFollows DEF Passes
<1>3. ASSUME NEW s \in sending, LoopSent(s)
      PROVE  ItemsFollow /\ NoAborts(net')
    <2> DEFINE t == [s EXCEPT !.sm = ChunkSent(@, net.nextId)]
    <2>1. s \in Transfers
        BY ItemTypes
    <2>2. Same(t, s) /\ t.status # "Pending"
        BY <2>1 DEF Transfers, Same
    <2>3. sending' = {t} /\ UNCHANGED pending /\ net' = Register(net, "Chunk", s.attempt)
        BY <1>3 DEF LoopSent
    <2> HIDE DEF t
    <2>4. ItemsFollow
        BY <2>2, <2>3, SlotSame
    <2>5. NoAborts(net')
        BY <1>1, <2>3, RegisterNoAborts
    <2> QED
        BY <2>4, <2>5
<1>4. ASSUME NEW s \in sending, LoopInterrupt(s)
      PROVE  ItemsFollow /\ NoAborts(net')
    <2>1. s \in Transfers /\ Same(s, s)
        BY ItemTypes DEF Same
    <2>2. s.status # "Prepared"
        <3>1. tasks[LoopOf(who)] > 0 /\ TasksOK
            BY Parts DEF SendChunksLoop
        <3> QED
            BY <3>1 DEF LoopInv, LoopOf
    <2> DEFINE p == [ResetFile(s) EXCEPT !.status = "Interrupted"]
               w == [ResetFile(s) EXCEPT !.status = "Interrupted", !.transfer = s.transfer]
    <2>3. p \in PendingFiles /\ Follows(p)
        BY <2>1, <2>2, ResetFileOK, ResetFollows
    <2>4. w = p
        <3> DEFINE x == [file |-> s.file, status |-> "Interrupted", progress |-> s.progress,
                         transfer |-> s.transfer, retry |-> s.retry]
        <3>1. ResetFile(s) = x
            BY <2>2 DEF ResetFile
        <3>2. x.status = "Interrupted" /\ x.transfer = s.transfer
            OBVIOUS
        <3> QED
            BY <3>1, <3>2
    <2>5. pending' = Append(pending, p) /\ sending' = {} /\ net' = net
        BY <1>4, <2>4 DEF LoopInterrupt
    <2> HIDE DEF p
    <2> QED
        BY <1>1, <2>3, <2>5, AppendedFollows
<1>5. ASSUME NEW s \in sending, LoopDone(s)
      PROVE  ItemsFollow /\ NoAborts(net')
    <2>1. CASE ResetAndStop(s, net)
        BY <1>1, <2>1, SlotStops DEF Passes
    <2>2. CASE /\ net' = Register(net, "Done", s.attempt)
               /\ sending' = {[s EXCEPT !.status = IF @ = "Sending" THEN "PendingSent" ELSE @]}
               /\ UNCHANGED pending
        <3> DEFINE t == [s EXCEPT !.status = IF @ = "Sending" THEN "PendingSent" ELSE @]
        <3>1. s \in Transfers
            BY ItemTypes
        <3>2. Same(t, s) /\ t.status # "Pending"
            BY <3>1 DEF Transfers, Same
        <3>3. sending' = {t}
            BY <2>2
        <3> HIDE DEF t
        <3>4. ItemsFollow
            BY <2>2, <3>2, <3>3, SlotSame
        <3>5. NoAborts(net')
            BY <1>1, <2>2, RegisterNoAborts
        <3> QED
            BY <3>4, <3>5
    <2> QED
        BY <1>5, <2>1, <2>2 DEF LoopDone
<1> QED
    BY <1>2, <1>3, <1>4, <1>5, IoErrorFollows DEF SendChunksLoop

LEMMA AddFollows ==
    ASSUME IInv, ItemsInv, InterruptedAt \subseteq {0}, NEW f \in Files, AddPendingFile(f)
    PROVE  Passes
<1>1. PICK p \in [file : {f}, status : {"Pending"}, progress : {0},
                 transfer : {NoTransfer}, retry : {0}]
                \cup [file : {f}, status : {"Interrupted"}, progress : InterruptedAt,
                      transfer : {EarlierTransfer}, retry : {0}] :
          pending' = Append(pending, p) /\ UNCHANGED sending /\ UNCHANGED net
    BY DEF AddPendingFile
<1>2. \/ p = [file |-> f, status |-> "Pending", progress |-> 0, transfer |-> -1, retry |-> 0]
      \/ p = [file |-> f, status |-> "Interrupted", progress |-> 0, transfer |-> 0, retry |-> 0]
    <2>1. CASE p \in [file : {f}, status : {"Pending"}, progress : {0},
                      transfer : {NoTransfer}, retry : {0}]
        BY <2>1 DEF NoTransfer
    <2>2. CASE p \in [file : {f}, status : {"Interrupted"}, progress : InterruptedAt,
                      transfer : {EarlierTransfer}, retry : {0}]
        <3>1. p \in [file : {f}, status : {"Interrupted"}, progress : {0},
                     transfer : {0}, retry : {0}]
            BY <2>2 DEF EarlierTransfer
        <3> QED
            BY <3>1
    <2> QED
        BY <1>1, <2>1, <2>2
<1>3. p \in PendingFiles /\ Follows(p)
    BY <1>2 DEF PendingFiles, Follows, Well
<1> QED
    BY <1>1, <1>2, <1>3, AppendedFollows, NetNoAborts DEF Passes

LEMMA LocalFollows ==
    ASSUME IInv, IInv', ItemsInv, LoopInv, InterruptedAt \subseteq {0}, LocalStep,
           ~AbortsWhatItKeeps
    PROVE  ItemsFollow /\ (NoAborts(net') \/ Leaves)
<1>1. NoAborts(net) /\ NetOK(net)
    BY NetNoAborts, Parts
<1>2. CASE \E who \in Contacts : SendChunksLoop(who)
    BY <1>2, LoopFollows
<1>3. CASE ResetOnProtocolViolation
    <2>1. PICK n \in Send(net, "ProtocolViolation", NoAttempt) :
              \/ Ignore(n)
              \/ \E s \in sending : ResetAndStop([s EXCEPT !.retry = @ + 1], n)
        BY <1>3 DEF ResetOnProtocolViolation
    <2>2. NoAborts(n)
        BY <1>1, ViolationNoAborts
    <2> QED
        BY <2>1, <2>2, IgnoreFollows, SlotStops DEF Passes
<1>4. CASE ResetForDisconnectedPeer
    <2>1. Ignore(net) \/ \E s \in sending : ResetAndStop(s, net)
        BY <1>4 DEF ResetForDisconnectedPeer, ResetAll
    <2> QED
        BY <1>1, <2>1, IgnoreFollows, SlotStops DEF Passes
<1>5. CASE \E f \in Files : AddPendingFile(f)
    BY <1>5, AddFollows DEF Passes
<1>6. CASE TriggerInteractionWith
    BY <1>1, <1>6, NextPasses DEF TriggerInteractionWith, Passes
<1>7. CASE \E id \in Ids : CancelFile(id)
    BY <1>7, CancelFollows DEF CancelFile
<1>8. CASE \E t \in Targets : CancelFileByTarget(t)
    BY <1>8, CancelFollows DEF CancelFileByTarget
<1>9. ~ResetOnInternalError
    <2>1. ASSUME ResetOnInternalError PROVE AbortsWhatItKeeps
        <3>1. /\ tasks' = [tasks EXCEPT !["ResetOnInternalError"] = @ - 1]
              /\ tasks \in [Tasks -> Nat]
            BY <2>1, Parts DEF ResetOnInternalError, Ends, TasksOK
        <3>2. "ResetOnInternalError" \in Tasks
            BY DEF Tasks
        <3>3. /\ tasks["ResetOnInternalError"] \in Nat
              /\ tasks'["ResetOnInternalError"] = tasks["ResetOnInternalError"] - 1
            BY <3>1, <3>2
        <3> QED
            BY <3>3 DEF AbortsWhatItKeeps
    <2> QED
        BY <2>1
<1> QED
    BY <1>2, <1>3, <1>4, <1>5, <1>6, <1>7, <1>8, <1>9 DEF LocalStep

-----------------------------------------------------------------------------
(***************************************************************************)
(* What the sender counts, has counted as acknowledged or is about to be   *)
(* told, the receiver has: a chunk is confirmed when it is in the window   *)
(* of the receiver or on its disk, and the sender's progress moves over    *)
(* confirmed chunks only.                                                  *)
(***************************************************************************)
Kept(t, n) == n = 0 \/ HasUnits(t, n)

\* How many units of the file come before the first chunk of the window.
Before(m) == m.position - m.next_slot

\* The chunk with index j is confirmed, or its confirmation is in R.
Acked(m, R, j) ==
    \/ j < m.earliest_not_sent
    \/ j < m.next_slot /\ m.chunks_in_flight[SlotIndex(j)] = "Acknowledged"
    \/ \E c \in R : /\ c.response = "ConfirmChunk" /\ c.id \in DOMAIN m.chunk_to_index
                    /\ m.chunk_to_index[c.id] = j

KeptInv == \A x \in Items : Kept(x.transfer, x.progress)

\* Nobody will go on with a transfer whose abort is under way.
AbortInv ==
    \A q \in wire : q.kind = "AbortTransfer" =>
        /\ q.transfer >= 0 /\ q.transfer < net.nextId
        /\ \A x \in Items : x.transfer >= 1 => x.transfer # q.transfer

EntriesInv ==
    /\ \A t \in DOMAIN rows : t >= 1
    /\ \A e \in receiving :
          /\ e.transfer >= 1 /\ e.handle >= 0
          /\ e.handle > 0 => received[e.handle].transfer = e.transfer
          /\ e.rm.chunks_in_flight[SlotIndex(e.rm.earliest_not_received)] = RP!NoChunk

NewIdsInv == \A q \in wire : q.kind = "NewTransfer" => q.transfer >= 1

AcceptKeptInv ==
    \A m \in Accepted, s \in sending : s.status = "Prepared" => Kept(s.transfer, Start(m))

SendWindowInv ==
    \A s \in sending : /\ s.sm.next_slot <= s.sm.position
                       /\ s.sm.progress = Before(s.sm) + s.sm.earliest_not_sent

ConfirmInv ==
    \A q \in ChunksOnWire, s \in sending :
        /\ s.status # "Prepared" /\ q.transfer = s.transfer
        /\ q.id \in DOMAIN s.sm.chunk_to_index => s.sm.chunk_to_index[q.id] = q.chunk.idx

\* A confirmed chunk that is not written yet waits in the receiver's window.
AckInv ==
    \A s \in sending, e \in receiving :
        s.status # "Prepared" /\ e.transfer = s.transfer =>
            \A j \in Nat : Acked(s.sm, replies, j) /\ j >= e.rm.earliest_not_received =>
                e.rm.chunks_in_flight[SlotIndex(j)].idx = j

\* What was confirmed without a gap is on the receiver's disk.
GapInv ==
    \A s \in sending : s.status # "Prepared" =>
        \A k \in Nat : (\A j \in 0 .. k - 1 : Acked(s.sm, replies, j))
                           => Kept(s.transfer, Before(s.sm) + k)

SlotInv == AcceptKeptInv /\ SendWindowInv /\ ConfirmInv /\ AckInv /\ GapInv

ProgressInv == ItemsInv /\ KeptInv /\ AbortInv /\ EntriesInv /\ NewIdsInv /\ SlotInv

LEMMA SameKept ==
    ASSUME UNCHANGED receiver_vars, NEW t, NEW n
    PROVE  Kept(t, n)' <=> Kept(t, n)
<1>1. parts' = parts /\ received' = received
    BY DEF receiver_vars
<1> QED
    BY <1>1 DEF Kept, HasUnits

\* The items of the next state.
LEMMA ItemsKept ==
    ASSUME IInv, IInv', ItemsInv, ItemsFollow, net.nextId <= net'.nextId
    PROVE  /\ ItemsInv'
           /\ \A x \in Items' :
                 /\ x.transfer \in Int
                 /\ \/ x.transfer >= net.nextId
                    \/ x.transfer <= 0
                    \/ \E y \in Items : x.file = y.file /\ x.transfer = y.transfer
<1> DEFINE New(x) == x \in sending' /\ x.transfer >= net.nextId /\ x.transfer < net'.nextId
           Old(x) == \E y \in Items : x.file = y.file /\ x.transfer = y.transfer
<1>1. /\ net.nextId \in Nat \ {0} /\ net'.nextId \in Nat
      /\ \A x \in Items : x.transfer \in Int /\ x.transfer < net.nextId
      /\ \A x, y \in Items : x.transfer = y.transfer /\ x.transfer >= 1 => x.file = y.file
    BY ItemTypes DEF IInv, FilesInv, NetOK, ItemsInv
<1>2. \A x \in Items' : x.transfer \in Int
    <2>1. \A i \in 1 .. Len(pending') : pending'[i] \in PendingFiles
        BY DEF IInv, FilesInv, QueueInv
    <2>2. sending' \subseteq Transfers
        BY DEF IInv, FilesInv, SlotOK
    <2> QED
        BY <2>1, <2>2 DEF Items, Queued, PendingFiles, Transfers
<1>3. \A s, t \in sending' : s = t
    BY DEF IInv, FilesInv, SlotOK
<1>4. \A s \in sending : s \in Items
    BY DEF Items
<1>5. ASSUME NEW x \in Items'
      PROVE  Well(x) /\ (New(x) \/ x.transfer <= 0 \/ Old(x))
    <2>1. Follows(x)
        BY DEF ItemsFollow
    <2> QED
        BY <1>4, <2>1 DEF Follows, Same
<1>6. \A x \in Items' : x.transfer < net'.nextId
    BY <1>1, <1>2, <1>5
<1>7. ASSUME NEW x \in Items', NEW y \in Items', x.transfer = y.transfer, x.transfer >= 1
      PROVE  x.file = y.file
    <2>1. (New(x) \/ Old(x)) /\ (New(y) \/ Old(y))
        BY <1>2, <1>5, <1>7
    <2>2. CASE New(x) /\ New(y)
        BY <1>3, <2>2
    <2>3. CASE Old(x) /\ Old(y)
        BY <1>1, <1>7, <2>3
    <2>4. ~(New(x) /\ Old(y)) /\ ~(New(y) /\ Old(x))
        BY <1>1, <1>2, <1>7
    <2> QED
        BY <2>1, <2>2, <2>3, <2>4
<1>8. ItemsInv'
    BY <1>5, <1>6, <1>7 DEF ItemsInv
<1> QED
    BY <1>2, <1>5, <1>8

LEMMA AbortsKept ==
    ASSUME IInv, IInv', WireOK, ItemsInv, ItemsFollow, NoAborts(net') \/ Leaves, AbortInv,
           NEW answered, Transport(answered), net.nextId <= net'.nextId,
           \A r \in NewRequests : Message(r).kind = r.kind
    PROVE  AbortInv'
<1>1. wire' = wire \cup {Message(r) : r \in NewRequests}
    BY DEF Transport
<1>2. \A x \in Items' : /\ x.transfer \in Int
                        /\ \/ x.transfer >= net.nextId
                           \/ x.transfer <= 0
                           \/ \E y \in Items : x.file = y.file /\ x.transfer = y.transfer
    BY ItemsKept
<1>3. /\ net.nextId \in Nat \ {0} /\ net'.nextId \in Nat
      /\ \A x \in Items : x.transfer \in Int /\ x.transfer < net.nextId
      /\ \A x, y \in Items : x.transfer = y.transfer /\ x.transfer >= 1 => x.file = y.file
    BY ItemTypes DEF IInv, FilesInv, NetOK, ItemsInv
<1>4. ASSUME NEW q \in wire, q.kind = "AbortTransfer"
      PROVE  /\ q.transfer >= 0 /\ q.transfer < net'.nextId
             /\ \A x \in Items' : x.transfer >= 1 => x.transfer # q.transfer
    <2>1. /\ q.transfer \in Int /\ q.transfer >= 0 /\ q.transfer < net.nextId
          /\ \A x \in Items : x.transfer >= 1 => x.transfer # q.transfer
        BY <1>4 DEF AbortInv, WireOK, Messages
    <2> QED
        BY <1>2, <1>3, <2>1
<1>5. ASSUME NEW r \in NewRequests, r.kind = "AbortTransfer"
      PROVE  /\ Message(r).transfer >= 0 /\ Message(r).transfer < net'.nextId
             /\ \A x \in Items' : x.transfer >= 1 => x.transfer # Message(r).transfer
    <2>1. r \in net'.registry /\ r.id >= net.nextId /\ r.id \in Nat
        BY DEF NewRequests, IInv, FilesInv, NetOK, Requests
    <2>2. PICK s \in sending : \A x \in Items' : x.file # s.file
        BY <1>3, <1>5, <2>1 DEF NoAborts, Leaves
    <2>3. (CHOOSE t \in sending : TRUE) = s /\ sending # {}
        BY DEF IInv, FilesInv, SlotOK
    <2>4. Message(r).transfer = (CHOOSE t \in sending : TRUE).transfer
        BY <1>5, <2>3 DEF Message
    <2>5. Message(r).transfer = s.transfer
        BY <2>3, <2>4
    <2>6. s \in Items /\ s.transfer >= 0 /\ s.transfer < net.nextId
        BY ItemTypes DEF Items, ItemsInv, Well, Transfers
    <2> QED
        BY <1>2, <1>3, <2>2, <2>5, <2>6
<1> QED
    BY <1>1, <1>4, <1>5 DEF AbortInv

-----------------------------------------------------------------------------
(* The slot, as the sender moves on. *)

\* The window of t has no more confirmed than that of s.
Continues(t, s) ==
    /\ t.transfer = s.transfer /\ Before(t.sm) = Before(s.sm)
    /\ s.status # "Prepared"
    /\ \A j \in Nat : Acked(t.sm, replies', j) => Acked(s.sm, replies, j)

LEMMA SlotContinues ==
    ASSUME AckInv, GapInv, UNCHANGED receiver_vars,
           \A t \in sending' : t.status # "Prepared" => \E s \in sending : Continues(t, s)
    PROVE  AckInv' /\ GapInv'
<1>1. receiving' = receiving
    BY DEF receiver_vars
<1>2. AckInv'
    <2> SUFFICES ASSUME NEW t \in sending', NEW e \in receiving, t.status # "Prepared",
                        e.transfer = t.transfer, NEW j \in Nat,
                        Acked(t.sm, replies', j), j >= e.rm.earliest_not_received
                 PROVE  e.rm.chunks_in_flight[SlotIndex(j)].idx = j
        BY <1>1 DEF AckInv, Acked
    <2>1. PICK s \in sending : Continues(t, s)
        OBVIOUS
    <2> QED
        BY <2>1 DEF Continues, AckInv
<1>3. GapInv'
    <2> SUFFICES ASSUME NEW t \in sending', t.status # "Prepared", NEW k \in Nat,
                        \A j \in 0 .. k - 1 : Acked(t.sm, replies', j)
                 PROVE  Kept(t.transfer, Before(t.sm) + k)'
        BY DEF GapInv, Acked, Before
    <2>1. PICK s \in sending : Continues(t, s)
        OBVIOUS
    <2>2. \A j \in 0 .. k - 1 : Acked(s.sm, replies, j)
        BY <2>1 DEF Continues
    <2>3. Kept(s.transfer, Before(s.sm) + k)
        BY <2>1, <2>2 DEF GapInv, Continues
    <2>4. Kept(t.transfer, Before(t.sm) + k)
        BY <2>1, <2>3 DEF Continues
    <2> QED
        BY <2>4, SameKept
<1> QED
    BY <1>2, <1>3

LEMMA SentConfirmsNothing ==
    ASSUME NEW m \in SendManagers, NEW id, NEW R, NEW S, S \subseteq R, \A c \in R : c.id # id
    PROVE  /\ Before(ChunkSent(m, id)) = Before(m)
           /\ \A j \in Nat : Acked(ChunkSent(m, id), S, j) => Acked(m, R, j)
<1> DEFINE q == ChunkSent(m, id)
           n == m.next_slot
           v == [m.chunks_in_flight EXCEPT ![SlotIndex(n)] = "Pending"]
           d == [i \in DOMAIN m.chunk_to_index \cup {id} |->
                     IF i = id THEN n ELSE m.chunk_to_index[i]]
<1>1. n \in Nat /\ m.position \in Nat /\ DOMAIN m.chunks_in_flight = WindowSlots
    BY DEF SendManagers
<1>2. /\ q.chunk_to_index = d /\ q.chunks_in_flight = v /\ q.next_slot = n + 1
      /\ q.earliest_not_sent = m.earliest_not_sent /\ q.position = m.position + 1
    BY DEF ChunkSent
<1>3. SlotIndex(n) \in WindowSlots
    BY <1>1, SlotFacts
<1>4. /\ v[SlotIndex(n)] = "Pending"
      /\ \A x \in WindowSlots : v[x] = "Acknowledged" => m.chunks_in_flight[x] = "Acknowledged"
    BY <1>1, <1>3
<1>5. \A i \in DOMAIN d : i # id => i \in DOMAIN m.chunk_to_index /\ d[i] = m.chunk_to_index[i]
    OBVIOUS
<1> HIDE DEF q, v, d
<1>6. Before(q) = Before(m)
    BY <1>1, <1>2 DEF Before
<1>7. ASSUME NEW j \in Nat, Acked(q, S, j) PROVE Acked(m, R, j)
    <2>1. CASE j < n + 1 /\ v[SlotIndex(j)] = "Acknowledged"
        <3>1. j # n /\ SlotIndex(j) \in WindowSlots
            BY <1>4, <2>1, SlotFacts
        <3>2. j < n
            BY <1>1, <2>1, <3>1
        <3> QED
            BY <1>4, <2>1, <3>1, <3>2 DEF Acked
    <2>2. ASSUME NEW c \in S, c.response = "ConfirmChunk", c.id \in DOMAIN d, d[c.id] = j
          PROVE  Acked(m, R, j)
        BY <1>5, <2>2 DEF Acked
    <2> QED
        BY <1>2, <1>7, <2>1, <2>2 DEF Acked
<1> QED
    BY <1>6, <1>7 DEF q

LEMMA MarkingConfirmsIts ==
    ASSUME NEW m \in SendManagers, WindowInv(m), NEW R, NEW S, S \subseteq R,
           NEW c \in R, c.response = "ConfirmChunk", CanMarkDone(m, c.id)
    PROVE  /\ Before(MarkDone(m, c.id)) = Before(m)
           /\ MarkDone(m, c.id).next_slot = m.next_slot
           /\ MarkDone(m, c.id).position = m.position
           /\ MarkDone(m, c.id).progress - MarkDone(m, c.id).earliest_not_sent
                  = m.progress - m.earliest_not_sent
           /\ \A i \in DOMAIN MarkDone(m, c.id).chunk_to_index :
                 /\ i \in DOMAIN m.chunk_to_index
                 /\ MarkDone(m, c.id).chunk_to_index[i] = m.chunk_to_index[i]
           /\ \A j \in Nat : Acked(MarkDone(m, c.id), S, j) => Acked(m, R, j)
<1> DEFINE idx == m.chunk_to_index[c.id]
           e == m.earliest_not_sent
           n == m.next_slot
           d == [i \in DOMAIN m.chunk_to_index \ {c.id} |-> m.chunk_to_index[i]]
           v == [m.chunks_in_flight EXCEPT ![SlotIndex(idx)] = "Acknowledged"]
           q == Acknowledge(m, c.id, idx)
           p == SlideSendWindow(q)
           k == AckedUpTo(q)
           w == [s \in WindowSlots |-> IF \E j \in e .. k - 1 : s = SlotIndex(j)
                                       THEN "Empty" ELSE v[s]]
<1>1. /\ n \in Nat /\ e \in Nat /\ e <= n /\ n <= e + ParallelChunks
      /\ m.position \in Nat /\ m.progress \in Nat
      /\ DOMAIN m.chunks_in_flight = WindowSlots
    BY DEF SendManagers, WindowInv
<1>2. /\ c.id \in DOMAIN m.chunk_to_index /\ idx \in e .. n - 1 /\ idx \in Nat
    <2>1. c.id \in DOMAIN m.chunk_to_index /\ m.chunk_to_index \in IndexMaps
        BY DEF CanMarkDone, SendManagers
    <2>2. idx \in Nat /\ idx < n /\ idx >= e
        BY <2>1, IndexMapFacts DEF WindowInv, CanMarkDone
    <2> QED
        BY <1>1, <2>1, <2>2
<1>3. Acked(m, R, idx)
    BY <1>2 DEF Acked
<1>4. SlotIndex(idx) \in WindowSlots
    BY <1>2, SlotFacts
<1>5. \A x \in WindowSlots : v[x] = "Acknowledged" =>
          x = SlotIndex(idx) \/ m.chunks_in_flight[x] = "Acknowledged"
    BY <1>1
<1>6. /\ q.chunk_to_index = d /\ q.chunks_in_flight = v /\ q.next_slot = n
      /\ q.earliest_not_sent = e /\ q.position = m.position /\ q.progress = m.progress
    BY DEF Acknowledge
<1>7. \A i \in DOMAIN d : i \in DOMAIN m.chunk_to_index /\ d[i] = m.chunk_to_index[i]
    OBVIOUS
<1>8. /\ p.chunk_to_index = q.chunk_to_index /\ p.next_slot = q.next_slot
      /\ p.earliest_not_sent = k /\ p.position = q.position
      /\ p.progress = q.progress + (k - q.earliest_not_sent)
      /\ p.chunks_in_flight = [s \in WindowSlots |->
             IF \E j \in q.earliest_not_sent .. k - 1 : s = SlotIndex(j)
             THEN "Empty" ELSE q.chunks_in_flight[s]]
    BY DEF SlideSendWindow
<1>9. MarkDone(m, c.id) = IF idx = e THEN p ELSE q
    BY DEF MarkDone
<1> HIDE DEF q, p, v, d, idx
<1>10. /\ k \in e .. n
       /\ \A j \in e .. k - 1 : v[SlotIndex(j)] = "Acknowledged"
    BY <1>1, <1>6, AckedUpToExists
<1> HIDE DEF k
<1>11. \A x \in WindowSlots : p.chunks_in_flight[x] = "Acknowledged" => v[x] = "Acknowledged"
    BY <1>6, <1>8
<1>12. ASSUME NEW j \in Nat, j < n, v[SlotIndex(j)] = "Acknowledged"
       PROVE  Acked(m, R, j)
    <2>1. CASE j < e
        BY <2>1 DEF Acked
    <2>2. CASE j >= e
        <3>1. SlotIndex(j) \in WindowSlots /\ j \in e .. n - 1
            BY <1>1, <1>12, <2>2, SlotFacts
        <3>2. CASE SlotIndex(j) = SlotIndex(idx)
            <4>1. j = idx
                <5> HIDE DEF e, n
                <5> QED
                    BY <1>1, <1>2, <3>1, <3>2, SlotsOfWindowDiffer
            <4> QED
                BY <1>3, <4>1
        <3>3. CASE m.chunks_in_flight[SlotIndex(j)] = "Acknowledged"
            BY <1>12, <3>3 DEF Acked
        <3> QED
            BY <1>5, <1>12, <3>1, <3>2, <3>3
    <2> QED
        BY <1>1, <2>1, <2>2
<1>13. ASSUME NEW x \in S, x.response = "ConfirmChunk", x.id \in DOMAIN d, NEW j, d[x.id] = j
       PROVE  Acked(m, R, j)
    BY <1>7, <1>13 DEF Acked
<1>14. CASE idx # e
    <2>1. MarkDone(m, c.id) = q
        BY <1>9, <1>14
    <2>2. ASSUME NEW j \in Nat, Acked(q, S, j) PROVE Acked(m, R, j)
        <3>1. CASE j < e
            BY <3>1 DEF Acked
        <3> QED
            BY <1>6, <1>12, <1>13, <2>2, <3>1 DEF Acked
    <2> QED
        BY <1>1, <1>6, <1>7, <2>1, <2>2 DEF Before
<1>15. CASE idx = e
    <2>1. MarkDone(m, c.id) = p
        BY <1>9, <1>15
    <2>2. ASSUME NEW j \in Nat, Acked(p, S, j) PROVE Acked(m, R, j)
        <3>1. CASE j < e
            BY <3>1 DEF Acked
        <3>2. CASE j < k /\ j >= e
            <4>1. j \in e .. k - 1 /\ j < n
                BY <1>1, <1>10, <3>2
            <4> QED
                BY <1>10, <1>12, <4>1
        <3>3. CASE j < n /\ p.chunks_in_flight[SlotIndex(j)] = "Acknowledged"
            BY <1>11, <1>12, <3>3, SlotFacts
        <3>4. j < k \/ (j < n /\ p.chunks_in_flight[SlotIndex(j)] = "Acknowledged")
              \/ \E x \in S : x.response = "ConfirmChunk" /\ x.id \in DOMAIN d /\ d[x.id] = j
            BY <1>6, <1>8, <2>2 DEF Acked
        <3>5. j < k => j < e \/ (j < k /\ j >= e)
            BY <1>1
        <3> QED
            BY <1>13, <3>1, <3>2, <3>3, <3>4, <3>5
    <2>3. p.progress = m.progress + (k - e) /\ p.next_slot = n /\ p.position = m.position
        BY <1>6, <1>8
    <2>4. p.progress - p.earliest_not_sent = m.progress - e
        BY <1>1, <1>8, <1>10, <2>3
    <2> QED
        BY <1>1, <1>6, <1>7, <1>8, <2>1, <2>2, <2>3, <2>4 DEF Before
<1> QED
    BY <1>14, <1>15

LEMMA StaysKept ==
    ASSUME IInv, IInv', SlotInv, NewIdsInv, NEW answered, Transport(answered), Stays
    PROVE  SlotInv' /\ NewIdsInv'
<1>1. /\ Since(net', AnyKind)
      /\ \A r \in NewRequests : r.kind = "Chunk" => sending # {}
    BY SinceStep
<1>2. \A r \in NewRequests : r.kind \in Plain
    BY NewKinds DEF Stays
<1>3. /\ \A q \in wire' : q \in wire \/ q.kind \in Plain
      /\ Accepted' \subseteq Accepted /\ replies' \subseteq replies
      /\ UNCHANGED receiver_vars
    BY <1>1, <1>2, MessagesOfStep DEF Transport
<1>4. ChunksOnWire' \subseteq ChunksOnWire
    BY <1>3 DEF ChunksOnWire, Plain
<1>5. \A t \in sending' : \E s \in sending :
          /\ t.transfer = s.transfer /\ t.sm = s.sm
          /\ t.status = "Prepared" <=> s.status = "Prepared"
    BY DEF Stays, SlotStays
<1>6. NewIdsInv'
    BY <1>3 DEF NewIdsInv, Plain
<1>7. AcceptKeptInv'
    BY <1>3, <1>5, SameKept DEF SlotInv, AcceptKeptInv
<1>8. SendWindowInv' /\ ConfirmInv'
    BY <1>4, <1>5 DEF SlotInv, SendWindowInv, ConfirmInv
<1>9. ASSUME NEW t \in sending', t.status # "Prepared"
      PROVE  \E s \in sending : Continues(t, s)
    <2>1. PICK s \in sending : /\ t.transfer = s.transfer /\ t.sm = s.sm
                               /\ s.status # "Prepared"
        BY <1>5, <1>9
    <2>2. \A j \in Nat : Acked(t.sm, replies', j) => Acked(s.sm, replies, j)
        BY <1>3, <2>1 DEF Acked
    <2> QED
        BY <2>1, <2>2 DEF Continues
<1>10. AckInv' /\ GapInv'
    BY <1>3, <1>9, SlotContinues DEF SlotInv
<1> QED
    BY <1>6, <1>7, <1>8, <1>10 DEF SlotInv

LEMMA OfferedKept ==
    ASSUME Apart', IInv, IInv', NEW answered, Transport(answered), Offered
    PROVE  SlotInv' /\ NewIdsInv'
<1>1. /\ Since(net', AnyKind)
      /\ \A r \in NewRequests : r.kind = "Chunk" => sending # {}
    BY SinceStep
<1>2. \A r \in NewRequests : r.kind \in Plain \cup Offers
    BY NewKinds DEF Offered
<1>3. wire = {} /\ replies \subseteq answered
    <2>1. \E r \in NewRequests : r.kind \in {"NewTransfer", "ContinueTransfer"}
        BY DEF Offered, NewRequests, Offers
    <2> QED
        BY <2>1 DEF Apart, Transport, Overlaps, Quiet
<1>4. /\ \A q \in wire' : \E r \in NewRequests :
            q = Message(r) /\ q.kind = r.kind /\ q.id = r.id
      /\ Accepted' = {}
    BY <1>1, <1>3, MessagesOfStep DEF Accepted
<1>5. ChunksOnWire' = {}
    BY <1>2, <1>4 DEF ChunksOnWire, Plain, Offers
<1>6. \A s, t \in sending' : s = t
    BY DEF IInv, FilesInv, SlotOK
<1>7. /\ \A t \in sending' : t.status = "Prepared" /\ t.sm = NewSendManager(FileUnits)
      /\ sending' # {}
      /\ \A r \in NewRequests : r.kind = "NewTransfer" =>
            \A t \in sending' : t.transfer >= net.nextId
    BY DEF Offered, NewRequests
<1>8. ASSUME NEW r \in NewRequests, r.kind = "NewTransfer"
      PROVE  Message(r).transfer >= 1
    <2>1. PICK t \in sending' : TRUE
        BY <1>7
    <2>2. (CHOOSE s \in sending' : TRUE) = t
        BY <1>6
    <2>3. Message(r).transfer = (CHOOSE s \in sending' : TRUE).transfer
        BY <1>7, <1>8 DEF Message
    <2>4. Message(r).transfer = t.transfer
        BY <2>2, <2>3
    <2>5. t.transfer \in Int /\ net.nextId \in Nat \ {0}
        BY <2>1 DEF IInv, FilesInv, SlotOK, NetOK, Transfers
    <2> QED
        BY <1>7, <1>8, <2>1, <2>4, <2>5
<1>9. NewIdsInv'
    BY <1>4, <1>8 DEF NewIdsInv
<1>10. AcceptKeptInv' /\ ConfirmInv' /\ AckInv' /\ GapInv'
    BY <1>4, <1>5, <1>7 DEF AcceptKeptInv, ConfirmInv, AckInv, GapInv
<1>11. SendWindowInv'
    BY <1>7 DEF SendWindowInv, Before, NewSendManager
<1> QED
    BY <1>9, <1>10, <1>11 DEF SlotInv

LEMMA ChunkGoesKept ==
    ASSUME IInv, IInv', RepliesOK, WireOK, LoopInv, SlotInv, NewIdsInv,
           NEW answered, Transport(answered), ChunkGoes
    PROVE  SlotInv' /\ NewIdsInv'
<1>1. /\ Since(net', AnyKind)
      /\ \A r \in NewRequests : r.kind = "Chunk" => sending # {}
    BY SinceStep
<1>2. PICK s \in sending, who \in Contacts :
        /\ tasks[LoopOf(who)] > 0 /\ UNCHANGED tasks
        /\ sending' = {[s EXCEPT !.sm = ChunkSent(@, net.nextId)]}
        /\ net' = Register(net, "Chunk", s.attempt)
    BY DEF ChunkGoes
<1>3. s \in Transfers /\ s.sm \in SendManagers /\ \A t \in sending : t = s
    BY DEF IInv, FilesInv, SlotOK, Transfers
<1>4. s.status # "Prepared"
    BY <1>2, LoopIsTask DEF LoopInv
<1>5. /\ net.nextId \in Nat /\ \A r \in net.registry : r.id \in Nat /\ r.id < net.nextId
      /\ \A r \in net'.registry : \/ r \in net.registry
                                  \/ r.id = net.nextId /\ r.kind = "Chunk"
    <2>1. Since(net, Plain) /\ NetOK(net) /\ "Chunk" \in AnyKind /\ Plain \subseteq AnyKind
        BY SinceNet DEF IInv, FilesInv, AnyKind
    <2>2. \A r \in net'.registry : \/ r \in net.registry
                                   \/ r.id = net.nextId /\ r.kind = "Chunk"
        BY <1>2, <2>1, SinceRegister
    <2> QED
        BY <2>1, <2>2 DEF NetOK, Requests
<1>6. \A r \in NewRequests : r.kind = "Chunk" /\ r.id = net.nextId
    BY <1>5 DEF NewRequests
<1>7. /\ \A q \in wire' : q \in wire \/ \E r \in NewRequests :
            q = Message(r) /\ q.kind = "Chunk" /\ q.id = net.nextId
      /\ Accepted' \subseteq Accepted /\ replies' \subseteq replies
      /\ UNCHANGED receiver_vars
    BY <1>1, <1>6, MessagesOfStep DEF Transport
<1>8. ASSUME NEW r \in NewRequests
      PROVE  Message(r).transfer = s.transfer /\ Message(r).chunk.idx = s.sm.next_slot
    <2>1. (CHOOSE t \in sending : TRUE) = s /\ sending # {}
        BY <1>3
    <2>2. r.kind = "Chunk" /\ r.kind \notin {"NewTransfer", "ContinueTransfer"}
        BY <1>6
    <2>3. /\ Message(r).transfer = (CHOOSE t \in sending : TRUE).transfer
          /\ Message(r).chunk = NextChunk((CHOOSE t \in sending : TRUE).sm)
        BY <2>1, <2>2 DEF Message
    <2>4. NextChunk(s.sm).idx = s.sm.next_slot
        BY DEF NextChunk
    <2>5. PICK u : u = (CHOOSE t \in sending : TRUE)
        OBVIOUS
    <2>6. Message(r).transfer = u.transfer /\ Message(r).chunk = NextChunk(u.sm) /\ u = s
        BY <2>1, <2>3, <2>5
    <2> QED
        BY <2>4, <2>6
<1> DEFINE sm == ChunkSent(s.sm, net.nextId)
           t == [s EXCEPT !.sm = sm]
           c == s.sm.chunk_to_index
<1>9. /\ sm.position = s.sm.position + 1 /\ sm.next_slot = s.sm.next_slot + 1
      /\ sm.progress = s.sm.progress /\ sm.earliest_not_sent = s.sm.earliest_not_sent
    BY DEF ChunkSent
<1>10. \A i \in DOMAIN sm.chunk_to_index :
          IF i = net.nextId THEN sm.chunk_to_index[i] = s.sm.next_slot
          ELSE i \in DOMAIN c /\ sm.chunk_to_index[i] = c[i]
    BY DEF ChunkSent
<1>11. \A m \in replies : m.id # net.nextId
    BY <1>5 DEF RepliesOK
<1>12. /\ Before(sm) = Before(s.sm)
       /\ \A j \in Nat : Acked(sm, replies', j) => Acked(s.sm, replies, j)
    BY <1>3, <1>7, <1>11, SentConfirmsNothing
<1> HIDE DEF sm
<1>13. t.transfer = s.transfer /\ t.status = s.status /\ t.sm = sm
    BY <1>3 DEF Transfers
<1>14. sending' = {t}
    BY <1>2 DEF sm
<1> HIDE DEF t
<1>15. s.sm.position \in Nat /\ s.sm.next_slot \in Nat /\ s.sm.earliest_not_sent \in Nat
    BY <1>3 DEF SendManagers
<1>16. NewIdsInv'
    BY <1>7 DEF NewIdsInv
<1>17. AcceptKeptInv'
    BY <1>4, <1>13, <1>14 DEF AcceptKeptInv
<1>18. SendWindowInv'
    <2>1. /\ s.sm.next_slot <= s.sm.position
          /\ s.sm.progress = Before(s.sm) + s.sm.earliest_not_sent
        BY DEF SlotInv, SendWindowInv
    <2>2. sm.next_slot <= sm.position /\ sm.progress = Before(sm) + sm.earliest_not_sent
        BY <1>9, <1>12, <1>15, <2>1
    <2> QED
        BY <1>13, <1>14, <2>2 DEF SendWindowInv, Before
<1>19. ConfirmInv'
    <2> SUFFICES ASSUME NEW q \in ChunksOnWire'
                 PROVE  /\ q.transfer = s.transfer
                        /\ q.id \in DOMAIN sm.chunk_to_index =>
                              sm.chunk_to_index[q.id] = q.chunk.idx
        BY <1>4, <1>13, <1>14 DEF ConfirmInv
    <2>1. CASE q \in wire
        <3>1. q.id \in Nat /\ q.id < net.nextId
            BY <2>1 DEF WireOK, Messages
        <3>2. q.id # net.nextId
            BY <1>5, <3>1
        <3> QED
            BY <1>10, <2>1, <3>2 DEF ChunksOnWire, SlotInv, ConfirmInv
    <2>2. ASSUME NEW r \in NewRequests, q = Message(r), q.id = net.nextId
          PROVE  /\ q.transfer = s.transfer
                 /\ q.id \in DOMAIN sm.chunk_to_index =>
                       sm.chunk_to_index[q.id] = q.chunk.idx
        BY <1>8, <1>10, <2>2
    <2> QED
        BY <1>7, <2>1, <2>2 DEF ChunksOnWire
<1>20. AckInv' /\ GapInv'
    <2>1. Continues(t, s)
        BY <1>4, <1>12, <1>13 DEF Continues
    <2> QED
        BY <1>7, <1>14, <2>1, SlotContinues DEF SlotInv
<1> QED
    BY <1>16, <1>17, <1>18, <1>19, <1>20 DEF SlotInv

LEMMA BeginsKept ==
    ASSUME IInv, IInv', LoopInv, SlotInv, NewIdsInv, NEW m \in replies, m.offset \in Nat,
           Transport({m}), Since(net', Plain), Begins(m.response, m.offset)
    PROVE  SlotInv' /\ NewIdsInv'
<1>1. /\ Since(net', AnyKind)
      /\ \A r \in NewRequests : r.kind = "Chunk" => sending # {}
    BY SinceStep
<1>2. \A r \in NewRequests : r.kind \in Plain
    BY NewKinds
<1>3. /\ \A q \in wire' : q \in wire \/ q.kind \in Plain
      /\ UNCHANGED receiver_vars
    BY <1>1, <1>2, MessagesOfStep DEF Transport
<1>4. PICK s \in sending, t \in sending' :
        /\ m.response \in Accepts /\ s.status = "Prepared" /\ t.status = "Sending"
        /\ t.transfer = s.transfer /\ sending' = {t}
        /\ t.sm = IF m.response = "AcceptContinueTransfer"
                  THEN SetProgress(s.sm, m.offset) ELSE s.sm
    BY DEF Begins
<1>5. ChunksOnWire' = {}
    <2>1. ChunksOnWire = {}
        BY <1>4 DEF SlotInv, ConfirmInv
    <2> QED
        BY <1>3, <2>1 DEF ChunksOnWire, Plain
<1>6. /\ s.sm = NewSendManager(FileUnits)
      /\ DOMAIN NewSendManager(FileUnits).chunk_to_index = {}
    BY <1>4, NewWindow DEF LoopInv
<1>7. /\ s.sm.position = 0 /\ s.sm.next_slot = 0 /\ s.sm.progress = 0
      /\ s.sm.earliest_not_sent = 0
      /\ SetProgress(s.sm, m.offset).position = m.offset
      /\ SetProgress(s.sm, m.offset).progress = m.offset
      /\ SetProgress(s.sm, m.offset).next_slot = 0
      /\ SetProgress(s.sm, m.offset).earliest_not_sent = 0
      /\ SetProgress(s.sm, m.offset).chunk_to_index = s.sm.chunk_to_index
    BY <1>6 DEF SetProgress, NewSendManager
<1>8. /\ t.sm.position = Start(m) /\ t.sm.progress = Start(m) /\ Start(m) \in Nat
      /\ t.sm.next_slot = 0 /\ t.sm.earliest_not_sent = 0 /\ DOMAIN t.sm.chunk_to_index = {}
    BY <1>4, <1>6, <1>7 DEF Start
<1>9. Kept(t.transfer, Start(m))'
    <2>1. Kept(s.transfer, Start(m))
        BY <1>4 DEF SlotInv, AcceptKeptInv, Accepted
    <2> QED
        BY <1>3, <1>4, <2>1, SameKept
<1>10. \A R : \A j \in Nat : ~Acked(t.sm, R, j)
    BY <1>8 DEF Acked
<1>11. NewIdsInv'
    BY <1>3 DEF NewIdsInv, Plain
<1>12. AcceptKeptInv' /\ ConfirmInv'
    BY <1>4, <1>5 DEF AcceptKeptInv, ConfirmInv
<1>13. Before(t.sm) = Start(m) /\ SendWindowInv'
    <2>1. Before(t.sm) = Start(m)
        BY <1>8 DEF Before
    <2>2. t.sm.next_slot <= t.sm.position /\ t.sm.progress = Before(t.sm) + t.sm.earliest_not_sent
        BY <1>8, <2>1
    <2> QED
        BY <1>4, <2>1, <2>2 DEF SendWindowInv, Before
<1>14. AckInv'
    BY <1>4, <1>10 DEF AckInv, Acked
<1>15. GapInv'
    <2> SUFFICES ASSUME NEW k \in Nat, \A j \in 0 .. k - 1 : Acked(t.sm, replies', j)
                 PROVE  Kept(t.transfer, Before(t.sm) + k)'
        BY <1>4 DEF GapInv, Acked, Before
    <2>1. k = 0
        <3>1. k > 0 => 0 \in 0 .. k - 1
            OBVIOUS
        <3> QED
            BY <1>10, <3>1
    <2>2. Before(t.sm) + k = Start(m)
        BY <1>8, <1>13, <2>1
    <2> QED
        BY <1>9, <2>2
<1> QED
    BY <1>11, <1>12, <1>13, <1>14, <1>15 DEF SlotInv

LEMMA AcksKept ==
    ASSUME IInv, IInv', SlotInv, NewIdsInv, NEW m \in replies, m.response = "ConfirmChunk",
           Transport({m}), Since(net', Plain), Acks(m.id)
    PROVE  SlotInv' /\ NewIdsInv'
<1>1. /\ Since(net', AnyKind)
      /\ \A r \in NewRequests : r.kind = "Chunk" => sending # {}
    BY SinceStep
<1>2. \A r \in NewRequests : r.kind \in Plain
    BY NewKinds
<1>3. /\ \A q \in wire' : q \in wire \/ q.kind \in Plain
      /\ replies' \subseteq replies /\ UNCHANGED receiver_vars
    BY <1>1, <1>2, MessagesOfStep DEF Transport
<1>4. PICK s \in sending, t \in sending' :
        /\ s.status = "Sending" /\ t.status = "Sending" /\ t.transfer = s.transfer
        /\ CanMarkDone(s.sm, m.id) /\ t.sm = MarkDone(s.sm, m.id)
        /\ sending' = {t}
    BY DEF Acks
<1>5. ChunksOnWire' \subseteq ChunksOnWire
    BY <1>3 DEF ChunksOnWire, Plain
<1>6. s.sm \in SendManagers /\ WindowInv(s.sm) /\ t.sm \in SendManagers
    BY <1>4 DEF IInv, FilesInv, SlotOK, Transfers
<1>7. /\ Before(t.sm) = Before(s.sm)
      /\ t.sm.next_slot = s.sm.next_slot /\ t.sm.position = s.sm.position
      /\ t.sm.progress - t.sm.earliest_not_sent = s.sm.progress - s.sm.earliest_not_sent
      /\ \A i \in DOMAIN t.sm.chunk_to_index :
            /\ i \in DOMAIN s.sm.chunk_to_index
            /\ t.sm.chunk_to_index[i] = s.sm.chunk_to_index[i]
      /\ \A j \in Nat : Acked(t.sm, replies', j) => Acked(s.sm, replies, j)
    <2> DEFINE n == MarkDone(s.sm, m.id)
    <2>1. /\ Before(n) = Before(s.sm)
          /\ n.next_slot = s.sm.next_slot /\ n.position = s.sm.position
          /\ n.progress - n.earliest_not_sent = s.sm.progress - s.sm.earliest_not_sent
          /\ \A i \in DOMAIN n.chunk_to_index :
                /\ i \in DOMAIN s.sm.chunk_to_index
                /\ n.chunk_to_index[i] = s.sm.chunk_to_index[i]
          /\ \A j \in Nat : Acked(n, replies', j) => Acked(s.sm, replies, j)
        BY <1>3, <1>4, <1>6, MarkingConfirmsIts
    <2>2. t.sm = n
        BY <1>4
    <2> HIDE DEF n
    <2> QED
        BY <2>1, <2>2
<1>8. NewIdsInv'
    BY <1>3 DEF NewIdsInv, Plain
<1>9. AcceptKeptInv'
    BY <1>4 DEF AcceptKeptInv
<1>10. ConfirmInv'
    BY <1>4, <1>5, <1>7 DEF SlotInv, ConfirmInv
<1>11. SendWindowInv'
    <2>1. /\ s.sm.next_slot <= s.sm.position
          /\ s.sm.progress = Before(s.sm) + s.sm.earliest_not_sent
        BY DEF SlotInv, SendWindowInv
    <2>2. /\ s.sm.progress \in Nat /\ s.sm.earliest_not_sent \in Nat
          /\ t.sm.progress \in Nat /\ t.sm.earliest_not_sent \in Nat /\ Before(s.sm) \in Int
        BY <1>6 DEF SendManagers, Before
    <2>3. t.sm.next_slot <= t.sm.position /\ t.sm.progress = Before(t.sm) + t.sm.earliest_not_sent
        BY <1>7, <2>1, <2>2
    <2> QED
        BY <1>4, <2>3 DEF SendWindowInv, Before
<1>12. AckInv' /\ GapInv'
    <2>1. Continues(t, s)
        BY <1>4, <1>7 DEF Continues
    <2> QED
        BY <1>3, <1>4, <2>1, SlotContinues DEF SlotInv
<1> QED
    BY <1>8, <1>9, <1>10, <1>11, <1>12 DEF SlotInv

\* What the slot's window says is kept, and so is what the items say.
LEMMA ItemsStillKept ==
    ASSUME IInv', KeptInv, ItemsFollow, SendWindowInv', GapInv', UNCHANGED receiver_vars
    PROVE  KeptInv'
<1> SUFFICES ASSUME NEW x \in Items' PROVE Kept(x.transfer, x.progress)'
    BY DEF KeptInv
<1>1. Follows(x)
    BY DEF ItemsFollow
<1>2. ASSUME NEW y \in Items, Same(x, y) PROVE Kept(x.transfer, x.progress)'
    BY <1>2, SameKept DEF KeptInv, Same
<1>3. CASE x.progress = 0
    BY <1>3 DEF Kept
<1>4. CASE x \in sending' /\ x.status # "Prepared" /\ x.progress = x.sm.progress
    <2>1. x.sm.progress = Before(x.sm) + x.sm.earliest_not_sent
        BY <1>4 DEF SendWindowInv, Before
    <2>2. x.sm.earliest_not_sent \in Nat
        BY <1>4 DEF IInv, FilesInv, SlotOK, Transfers, SendManagers
    <2>3. \A j \in 0 .. x.sm.earliest_not_sent - 1 : Acked(x.sm, replies', j)
        BY <2>2 DEF Acked
    <2>4. Kept(x.transfer, Before(x.sm) + x.sm.earliest_not_sent)'
        BY <1>4, <2>2, <2>3 DEF GapInv, Acked, Before
    <2> QED
        BY <1>4, <2>1, <2>4
<1> QED
    BY <1>1, <1>2, <1>3, <1>4 DEF Follows

LEMMA SenderProgress ==
    ASSUME disturbed' = {}, InterruptedAt \subseteq {0}, BothEndsInv, PrefixInv, ProgressInv,
           SenderActs \/ RequestFails \/ \E m \in replies : SenderReceives(m)
    PROVE  ProgressInv'
<1>1. IInv /\ RepliesOK /\ WireOK /\ LoopInv
    BY DEF BothEndsInv, PrefixInv
<1>2. IInv'
    BY SenderActsKeeps, SenderReceivesKeeps DEF BothEndsInv
<1>3. /\ ItemsInv /\ KeptInv /\ AbortInv /\ EntriesInv /\ NewIdsInv /\ SlotInv
    BY DEF ProgressInv
<1>4. ASSUME NEW answered, Transport(answered), ItemsFollow, NoAborts(net') \/ Leaves,
             Stays \/ Offered \/ Since(net', Plain) \/ ChunkGoes, SlotInv', NewIdsInv'
      PROVE  ProgressInv'
    <2>1. /\ Since(net', AnyKind)
          /\ \A r \in NewRequests : r.kind = "Chunk" => sending # {}
        BY <1>1, <1>4, SinceStep
    <2>2. net.nextId <= net'.nextId /\ \A r \in NewRequests : Message(r).kind = r.kind
        BY <1>1, <1>2, <2>1, MessageOK DEF Since
    <2>3. UNCHANGED receiver_vars
        BY <1>4 DEF Transport
    <2>4. ItemsInv'
        BY <1>1, <1>2, <1>3, <1>4, <2>2, ItemsKept
    <2>5. AbortInv'
        BY <1>1, <1>2, <1>3, <1>4, <2>2, AbortsKept
    <2>6. KeptInv'
        BY <1>2, <1>3, <1>4, <2>3, ItemsStillKept DEF SlotInv
    <2>7. EntriesInv'
        BY <1>3, <2>3 DEF EntriesInv, receiver_vars
    <2> QED
        BY <1>4, <2>4, <2>5, <2>6, <2>7 DEF ProgressInv
<1>5. Apart' /\ \A answered : Transport(answered) => ~AbortsWhatItKeeps
    BY DEF Apart, Transport
<1>6. ASSUME NEW answered, Transport(answered), Stays \/ Offered \/ ChunkGoes
      PROVE  SlotInv' /\ NewIdsInv'
    BY <1>1, <1>2, <1>3, <1>6, <1>5, StaysKept, OfferedKept, ChunkGoesKept
<1>7. CASE SenderActs
    <2>1. LocalStep /\ Transport({})
        BY <1>7 DEF SenderActs
    <2>2. ItemsFollow /\ (NoAborts(net') \/ Leaves)
        BY <1>1, <1>2, <1>3, <1>5, <2>1, LocalFollows
    <2>3. Stays \/ Offered \/ ChunkGoes
        BY <1>1, <2>1, LocalMoves DEF Moves
    <2> QED
        BY <1>4, <1>6, <2>1, <2>2, <2>3
<1>8. CASE RequestFails
    <2>1. SomeFailure /\ Transport({})
        BY <1>8 DEF RequestFails
    <2>2. ItemsFollow /\ NoAborts(net')
        BY <1>1, <1>3, <2>1, FailurePasses DEF Passes
    <2>3. Stays \/ Offered
        BY <1>1, <2>1, FailureMoves DEF Moves
    <2> QED
        BY <1>4, <1>6, <2>1, <2>2, <2>3
<1>9. ASSUME NEW m \in replies, SenderReceives(m) PROVE ProgressInv'
    <2>1. PICK r \in net.registry :
              r.id = m.id /\ ReceiveResponse(r, m.response, m.offset, "target")
        BY <1>9 DEF SenderReceives
    <2>2. m.offset \in Nat /\ Transport({m})
        BY <1>1, <1>9 DEF RepliesOK, SenderReceives
    <2>3. ItemsFollow /\ NoAborts(net')
        BY <1>1, <1>3, <2>1, <2>2, ReceivePasses DEF Passes
    <2>4. \/ OtherMoves
          \/ Begins(m.response, m.offset) /\ Since(net', Plain)
          \/ m.response = "ConfirmChunk" /\ Acks(r.id) /\ Since(net', Plain)
        BY <1>1, <2>1, <2>2, ReceiveMoves
    <2>5. CASE Stays \/ Offered
        BY <1>4, <1>6, <2>2, <2>3, <2>5
    <2>6. CASE Begins(m.response, m.offset) /\ Since(net', Plain)
        <3>1. SlotInv' /\ NewIdsInv'
            BY <1>1, <1>2, <1>3, <2>2, <2>6, BeginsKept
        <3> QED
            BY <1>4, <2>2, <2>3, <2>6, <3>1
    <2>7. CASE m.response = "ConfirmChunk" /\ Acks(r.id) /\ Since(net', Plain)
        <3>1. SlotInv' /\ NewIdsInv'
            BY <1>1, <1>2, <1>3, <2>1, <2>2, <2>7, AcksKept
        <3> QED
            BY <1>4, <2>2, <2>3, <2>7, <3>1
    <2> QED
        BY <2>4, <2>5, <2>6, <2>7 DEF OtherMoves
<1> QED
    BY <1>7, <1>8, <1>9

-----------------------------------------------------------------------------
(* What the receiver has, as the receiver moves on. *)

\* The files of the transfers that the tracker knows lose nothing.
ItemsLast == \A x \in Items, n \in Nat : Kept(x.transfer, n) => Kept(x.transfer, n)'

LEMMA LengthTypes ==
    ASSUME RP!IInv
    PROVE  /\ \A name \in DOMAIN parts : Len(parts[name]) \in Nat
           /\ Len(received) \in Nat
           /\ \A i \in 1 .. Len(received) : Len(received[i].units) = FileUnits
<1>1. \A name \in DOMAIN parts : parts[name] \in Seq(RP!Units)
    BY DEF RP!IInv, RP!PartsTypeOK
<1>2. Len(received) \in Nat
    <2> DEFINE R == [transfer : Int, units : Seq(RP!Units)]
    <2>1. received \in Seq(R)
        BY DEF RP!IInv, RP!ReceivedTypeOK
    <2> HIDE DEF R
    <2> QED
        BY <2>1
<1> QED
    BY <1>1, <1>2 DEF RP!IInv, RP!ReceivedWhole

LEMMA PartsLast ==
    ASSUME RP!IInv, RP!IInv', UNCHANGED received,
           \A name \in DOMAIN parts :
               \/ name \in DOMAIN parts' /\ Len(parts[name]) <= Len(parts'[name])
               \/ \A x \in Items : name[1] # x.transfer
    PROVE  ItemsLast
<1>1. /\ \A name \in DOMAIN parts : Len(parts[name]) \in Nat
      /\ \A name \in DOMAIN parts' : Len(parts'[name]) \in Nat
    <2>1. /\ \A name \in DOMAIN parts : parts[name] \in Seq(RP!Units)
          /\ \A name \in DOMAIN parts' : parts'[name] \in Seq(RP!Units)
        BY DEF RP!IInv, RP!PartsTypeOK
    <2> QED
        BY <2>1
<1> SUFFICES ASSUME NEW x \in Items, NEW n \in Nat, n # 0, HasUnits(x.transfer, n)
             PROVE  HasUnits(x.transfer, n)'
    BY DEF ItemsLast, Kept
<1> DEFINE name == <<x.transfer, Sender>>
<1>2. CASE name \in DOMAIN parts /\ Len(parts[name]) >= n
    <2>1. name[1] = x.transfer
        OBVIOUS
    <2> HIDE DEF name
    <2>2. name \in DOMAIN parts' /\ Len(parts'[name]) >= n
        BY <1>1, <1>2, <2>1
    <2> QED
        BY <2>2 DEF HasUnits, name
<1>3. CASE \E i \in 1 .. Len(received) :
              received[i].transfer = x.transfer /\ Len(received[i].units) >= n
    BY <1>3 DEF HasUnits
<1> QED
    BY <1>2, <1>3 DEF HasUnits

LEMMA OpenedLast ==
    ASSUME RP!IInv, RP!IInv', NEW t \in Int, UNCHANGED received,
           UNCHANGED parts \/ parts' = RP!PartOpened(<<t, Sender>>)
    PROVE  ItemsLast
<1>1. \A name \in DOMAIN parts : Len(parts[name]) \in Nat
    BY LengthTypes
<1>2. CASE UNCHANGED parts
    BY <1>1, <1>2, PartsLast
<1>3. CASE parts' = RP!PartOpened(<<t, Sender>>)
    <2>1. <<t, Sender>> \in Int \X {Sender}
        OBVIOUS
    <2>2. /\ DOMAIN parts' = DOMAIN parts \cup {<<t, Sender>>}
          /\ \A n \in DOMAIN parts : parts'[n] = parts[n]
        BY <1>3, <2>1, RP!OpenedFacts, FileTrackerAssumption, TransferAssumption,
           ParallelChunksAssumption
    <2> QED
        BY <1>1, <2>2, PartsLast
<1> QED
    BY <1>2, <1>3

LEMMA WrittenLast ==
    ASSUME RP!IInv, RP!IInv', NEW e \in receiving, NEW units \in Seq(RP!Units),
           RP!Written(e, units), e.rm.byte_progress + Len(units) <= FileUnits
    PROVE  ItemsLast
<1>1. /\ received' = received /\ DOMAIN parts' = DOMAIN parts
      /\ \A n \in DOMAIN parts : Len(parts[n]) <= Len(parts'[n])
    BY RP!WrittenFacts, FileTrackerAssumption, TransferAssumption, ParallelChunksAssumption
<1> QED
    BY <1>1, PartsLast

LEMMA FinalizedLast ==
    ASSUME RP!IInv, NEW e \in receiving, RP!Finalized(e, <<e.transfer, Sender>>)
    PROVE  /\ ItemsLast
           /\ Len(received') = Len(received) + 1
           /\ received'[Len(received')].transfer = e.transfer
           /\ \A i \in 1 .. Len(received) : received'[i] = received[i]
<1> DEFINE name == <<e.transfer, Sender>>
           file == [transfer |-> e.transfer, units |-> parts[name]]
           R == [transfer : Int, units : Seq(RP!Units)]
<1>1. /\ name \in DOMAIN parts /\ parts' = RP!Without(parts, {name})
      /\ received' = Append(received, file)
    BY DEF RP!Finalized
<1>2. received \in Seq(R)
    BY DEF RP!IInv, RP!ReceivedTypeOK
<1>3. file.transfer = e.transfer /\ file.units = parts[name]
    OBVIOUS
<1> HIDE DEF file, R
<1>4. /\ Len(received') = Len(received) + 1 /\ Len(received) \in Nat
      /\ received'[Len(received) + 1] = file
      /\ \A i \in 1 .. Len(received) : received'[i] = received[i]
    BY <1>1, <1>2
<1>5. /\ DOMAIN parts' = DOMAIN parts \ {name}
      /\ \A n \in DOMAIN parts' : parts'[n] = parts[n]
    BY <1>1 DEF RP!Without, RP!Restrict
<1>6. ASSUME NEW x \in Items, NEW n \in Nat, HasUnits(x.transfer, n)
      PROVE  HasUnits(x.transfer, n)'
    <2> DEFINE own == <<x.transfer, Sender>>
    <2>1. CASE own \in DOMAIN parts /\ Len(parts[own]) >= n /\ own # name
        BY <1>5, <2>1 DEF HasUnits
    <2>2. CASE own \in DOMAIN parts /\ Len(parts[own]) >= n /\ own = name
        <3>1. x.transfer = e.transfer /\ Len(parts[name]) >= n
            BY <2>2
        <3>2. /\ Len(received) + 1 \in 1 .. Len(received')
              /\ received'[Len(received) + 1].transfer = x.transfer
              /\ Len(received'[Len(received) + 1].units) >= n
            BY <1>3, <1>4, <3>1
        <3> QED
            BY <3>2 DEF HasUnits
    <2>3. CASE \E i \in 1 .. Len(received) :
                  received[i].transfer = x.transfer /\ Len(received[i].units) >= n
        <3>1. PICK i \in 1 .. Len(received) :
                  received[i].transfer = x.transfer /\ Len(received[i].units) >= n
            BY <2>3
        <3>2. /\ i \in 1 .. Len(received') /\ received'[i].transfer = x.transfer
              /\ Len(received'[i].units) >= n
            BY <1>4, <3>1
        <3> QED
            BY <3>2 DEF HasUnits
    <2> QED
        BY <1>6, <2>1, <2>2, <2>3 DEF HasUnits
<1>7. ItemsLast
    BY <1>6 DEF ItemsLast, Kept
<1> QED
    BY <1>3, <1>4, <1>7

\* What a transfer in memory counts is on disk.
LEMMA EntryHasUnits ==
    RP!IInv /\ EntriesInv => \A e \in receiving : HasUnits(e.transfer, e.rm.byte_progress)
<1> SUFFICES ASSUME RP!IInv, EntriesInv, NEW e \in receiving
             PROVE  HasUnits(e.transfer, e.rm.byte_progress)
    OBVIOUS
<1>1. /\ e \in RP!Entries /\ e.rm \in RP!Managers /\ e.contact = Sender /\ e.handle \in Int
      /\ e.rm.byte_progress \in Nat
    BY EntryType, FileTrackerAssumption DEF RP!Entries, RP!Managers
<1>2. CASE e.handle = RP!InPart
    <2>1. /\ <<e.transfer, Sender>> \in DOMAIN parts
          /\ Len(parts[<<e.transfer, Sender>>]) = e.rm.byte_progress
        BY <1>1, <1>2 DEF RP!IInv, RP!BooksMatchDisk
    <2> QED
        BY <1>1, <2>1 DEF HasUnits
<1>3. CASE e.handle # RP!InPart
    <2>1. e.handle > 0 /\ received[e.handle].transfer = e.transfer
        BY <1>1, <1>3 DEF EntriesInv, RP!InPart
    <2>2. e.handle <= Len(received) /\ e.rm.byte_progress = FileUnits
        BY <2>1 DEF RP!IInv, RP!HandleInv
    <2>3. e.handle \in 1 .. Len(received) /\ Len(received[e.handle].units) = FileUnits
        BY <1>1, <2>1, <2>2, LengthTypes
    <2>4. Len(received[e.handle].units) >= e.rm.byte_progress
        BY <1>1, <2>2, <2>3
    <2> QED
        BY <2>1, <2>3, <2>4 DEF HasUnits
<1> QED
    BY <1>2, <1>3

LEMMA FewerUnits ==
    RP!IInv => \A t, n \in Int : \A k \in 0 .. n : HasUnits(t, n) => Kept(t, k)
<1> SUFFICES ASSUME RP!IInv, NEW t \in Int, NEW n \in Int, NEW k \in 0 .. n, HasUnits(t, n)
             PROVE  HasUnits(t, k)
    BY DEF Kept
<1>1. /\ \A name \in DOMAIN parts : Len(parts[name]) \in Nat
      /\ \A i \in 1 .. Len(received) : Len(received[i].units) \in Nat
    BY LengthTypes, FileTrackerAssumption
<1> QED
    BY <1>1 DEF HasUnits

-----------------------------------------------------------------------------
(* A chunk that store takes is in the window or written, and stays so. *)

LEMMA NextTurn ==
    ASSUME NEW e \in Nat
    PROVE  SlotIndex(e + ParallelChunks) = SlotIndex(e)
<1> DEFINE W == ParallelChunks
           a == e \div W
           b == (e + W) \div W
<1>0. W \in Nat \ {0}
    BY ParallelChunksAssumption
<1> HIDE DEF W
<1>1. e = W * a + (e % W) /\ a \in Nat /\ e % W \in 0 .. W - 1
    BY <1>0
<1>2. e + W = W * b + ((e + W) % W) /\ b \in Nat /\ (e + W) % W \in 0 .. W - 1
    BY <1>0
<1> HIDE DEF a, b
<1>3. PICK x \in 0 .. W - 1, y \in 0 .. W - 1 : x = e % W /\ y = (e + W) % W
    BY <1>1, <1>2
<1>4. e = W * a + x /\ e + W = W * b + y
    BY <1>1, <1>2, <1>3
<1>5. W * (b - a - 1) = x - y
    <2>1. W * b = W * a + x - y + W
        BY <1>0, <1>1, <1>2, <1>3, <1>4
    <2>2. W * (b - a - 1) = W * b - W * a - W
        BY <1>0, <1>1, <1>2
    <2> QED
        BY <1>0, <1>1, <1>2, <2>1, <2>2
<1>6. PICK d \in Int : d = b - a - 1
    BY <1>1, <1>2
<1>7. W * d = x - y /\ x - y < W /\ x - y > -W
    BY <1>0, <1>3, <1>5, <1>6
<1>8. d = 0
    <2>1. CASE d >= 1
        <3>1. W * d >= W
            BY <1>0, <2>1
        <3> QED
            BY <1>0, <1>3, <1>7, <3>1
    <2>2. CASE d <= -1
        <3>1. W * d <= -W
            BY <1>0, <2>2
        <3> QED
            BY <1>0, <1>3, <1>7, <3>1
    <2> QED
        BY <2>1, <2>2
<1>9. x = y
    BY <1>0, <1>3, <1>7, <1>8
<1> QED
    BY <1>3, <1>9 DEF SlotIndex, W

\* Two indices of the window in the same slot are the same.
LEMMA SameIndex ==
    ASSUME NEW e \in Nat, NEW i \in e .. e + ParallelChunks - 1,
           NEW j \in e .. e + ParallelChunks - 1, SlotIndex(i) = SlotIndex(j)
    PROVE  i = j
<1>1. PICK n \in Nat : n = e + ParallelChunks
    BY ParallelChunksAssumption
<1>2. n <= e + ParallelChunks /\ i \in e .. n - 1 /\ j \in e .. n - 1
    BY <1>1, ParallelChunksAssumption
<1> QED
    BY <1>2, SlotsOfWindowDiffer

LEMMA BufferKeeps ==
    ASSUME NEW m \in RP!Managers, NEW chunk \in RP!Chunks, Aligned(m),
           ~RP!BeyondWindow(m, chunk), ~RP!AlreadySeen(m, chunk)
    PROVE  LET c == RP!BufferChunk(m, chunk).chunks_in_flight
           IN  /\ c[SlotIndex(chunk.idx)] = chunk
               /\ \A x \in WindowSlots : x # SlotIndex(chunk.idx) => c[x] = m.chunks_in_flight[x]
               /\ \A j \in Nat : m.chunks_in_flight[SlotIndex(j)].idx = j
                                     => c[SlotIndex(j)].idx = j
<1> DEFINE c == RP!BufferChunk(m, chunk).chunks_in_flight
           e == m.earliest_not_received
<1>1. chunk.idx \in Nat /\ e \in Nat /\ DOMAIN m.chunks_in_flight = WindowSlots
    BY SameSlots DEF RP!Chunks, RP!Managers, RP!Slots
<1>2. c = [m.chunks_in_flight EXCEPT ![SlotIndex(chunk.idx)] = chunk]
    BY SameSlots DEF RP!BufferChunk
<1>3. chunk.idx \in e .. e + ParallelChunks - 1
    BY <1>1, ParallelChunksAssumption DEF RP!BeyondWindow, RP!AlreadySeen
<1>4. SlotIndex(chunk.idx) \in WindowSlots
    BY <1>1, SlotFacts
<1> HIDE DEF c
<1>5. /\ c[SlotIndex(chunk.idx)] = chunk
      /\ \A x \in WindowSlots : x # SlotIndex(chunk.idx) => c[x] = m.chunks_in_flight[x]
    BY <1>1, <1>2, <1>4
<1>6. ASSUME NEW j \in Nat, m.chunks_in_flight[SlotIndex(j)].idx = j
      PROVE  c[SlotIndex(j)].idx = j
    <2>1. SlotIndex(j) \in WindowSlots /\ m.chunks_in_flight[SlotIndex(j)] # RP!NoChunk
        BY <1>6, SlotFacts DEF RP!NoChunk
    <2>2. j \in e .. e + ParallelChunks - 1
        BY <1>6, <2>1 DEF Aligned
    <2>3. CASE SlotIndex(j) = SlotIndex(chunk.idx)
        <3>1. j = chunk.idx
            BY <1>1, <1>3, <2>2, <2>3, SameIndex
        <3> QED
            BY <1>5, <2>3, <3>1
    <2>4. CASE SlotIndex(j) # SlotIndex(chunk.idx)
        BY <1>5, <1>6, <2>1, <2>4
    <2> QED
        BY <2>3, <2>4
<1> QED
    BY <1>5, <1>6 DEF c

LEMMA DrainKeeps ==
    ASSUME NEW b, Aligned(b), b.earliest_not_received \in Nat,
           NEW k \in b.earliest_not_received .. b.earliest_not_received + ParallelChunks,
           \/ k = b.earliest_not_received + ParallelChunks
           \/ b.chunks_in_flight[SlotIndex(k)] = RP!NoChunk
    PROVE  LET d == RP!Drain(b, k)
           IN  /\ d.earliest_not_received = k
               /\ d.chunks_in_flight[SlotIndex(k)] = RP!NoChunk
               /\ \A j \in Nat : j >= k /\ b.chunks_in_flight[SlotIndex(j)].idx = j
                                     => d.chunks_in_flight[SlotIndex(j)].idx = j
<1> DEFINE e == b.earliest_not_received
           c == [x \in WindowSlots |-> IF \E j \in e .. k - 1 : x = SlotIndex(j)
                                       THEN RP!NoChunk ELSE b.chunks_in_flight[x]]
           d == RP!Drain(b, k)
<1>1. d = [chunks_in_flight |-> c, earliest_not_received |-> k,
           declared_file_size |-> b.declared_file_size,
           byte_progress |-> b.byte_progress + (k - e)]
    BY SameSlots DEF RP!Drain
<1>2. e \in Nat /\ k \in Nat /\ e <= k /\ k <= e + ParallelChunks
    BY ParallelChunksAssumption
<1>3. \A x \in WindowSlots :
         /\ (\E j \in e .. k - 1 : x = SlotIndex(j)) => c[x] = RP!NoChunk
         /\ ~(\E j \in e .. k - 1 : x = SlotIndex(j)) => c[x] = b.chunks_in_flight[x]
    OBVIOUS
<1> HIDE DEF c
<1>4. d.chunks_in_flight = c /\ d.earliest_not_received = k
    BY <1>1
<1> HIDE DEF d
<1>5. c[SlotIndex(k)] = RP!NoChunk
    <2>1. SlotIndex(k) \in WindowSlots
        BY <1>2, SlotFacts
    <2>2. CASE k = e + ParallelChunks
        <3>1. SlotIndex(k) = SlotIndex(e) /\ e \in e .. k - 1
            BY <1>2, <2>2, NextTurn, ParallelChunksAssumption
        <3> QED
            BY <1>3, <2>1, <3>1
    <2>3. CASE b.chunks_in_flight[SlotIndex(k)] = RP!NoChunk
        BY <1>3, <2>1, <2>3
    <2> QED
        BY <2>2, <2>3
<1>6. ASSUME NEW j \in Nat, j >= k, b.chunks_in_flight[SlotIndex(j)].idx = j
      PROVE  c[SlotIndex(j)].idx = j
    <2>1. SlotIndex(j) \in WindowSlots /\ b.chunks_in_flight[SlotIndex(j)] # RP!NoChunk
        BY <1>6, SlotFacts DEF RP!NoChunk
    <2>2. j \in e .. e + ParallelChunks - 1
        BY <1>6, <2>1 DEF Aligned
    <2>3. ASSUME NEW i \in e .. k - 1, SlotIndex(j) = SlotIndex(i) PROVE FALSE
        <3>1. i \in e .. e + ParallelChunks - 1 /\ i # j
            BY <1>2, <1>6, <2>3, ParallelChunksAssumption
        <3> HIDE DEF e
        <3> QED
            BY <1>2, <2>2, <2>3, <3>1, SameIndex
    <2> QED
        BY <1>3, <1>6, <2>1, <2>3
<1> QED
    BY <1>4, <1>5, <1>6 DEF d

LEMMA StoreKeeps ==
    ASSUME NEW m \in RP!Managers, NEW chunk \in RP!Chunks, Aligned(m), InPlace(m, chunk),
           RP!StoreResult(m, chunk) = "Received",
           m.chunks_in_flight[SlotIndex(m.earliest_not_received)] = RP!NoChunk
    PROVE  LET d == RP!AfterStore(m, chunk)
           IN  /\ d.earliest_not_received >= m.earliest_not_received
               /\ d.chunks_in_flight[SlotIndex(d.earliest_not_received)] = RP!NoChunk
               /\ \A j \in Nat :
                     (/\ j >= d.earliest_not_received
                      /\ j = chunk.idx \/ m.chunks_in_flight[SlotIndex(j)].idx = j)
                     => d.chunks_in_flight[SlotIndex(j)].idx = j
<1> DEFINE b == RP!BufferChunk(m, chunk)
           e == m.earliest_not_received
<1>1. /\ e \in Nat /\ m.byte_progress \in Nat /\ m.byte_progress <= FileUnits
      /\ m.declared_file_size = FileUnits /\ FileUnits \in Nat /\ chunk.idx \in Nat
    BY FileTrackerAssumption DEF RP!Managers, RP!Chunks
<1>2. ~RP!BeyondWindow(m, chunk)
    BY DEF RP!StoreResult
<1>3. CASE RP!AlreadySeen(m, chunk)
    <2>1. RP!AfterStore(m, chunk) = m
        BY <1>3 DEF RP!AfterStore
    <2>2. chunk.idx < e
        BY <1>3 DEF RP!AlreadySeen
    <2> QED
        BY <1>1, <2>1, <2>2
<1>4. CASE ~RP!AlreadySeen(m, chunk)
    <2>1. /\ Aligned(b) /\ b.byte_progress = m.byte_progress
          /\ b.earliest_not_received = e /\ b.declared_file_size = FileUnits
        BY <1>1, <1>2, <1>4, BufferAligned
    <2>2. /\ b.chunks_in_flight[SlotIndex(chunk.idx)] = chunk
          /\ \A x \in WindowSlots : x # SlotIndex(chunk.idx) =>
                b.chunks_in_flight[x] = m.chunks_in_flight[x]
          /\ \A j \in Nat : m.chunks_in_flight[SlotIndex(j)].idx = j
                                => b.chunks_in_flight[SlotIndex(j)].idx = j
        BY <1>2, <1>4, BufferKeeps
    <2>3. \A j \in Nat : j = chunk.idx \/ m.chunks_in_flight[SlotIndex(j)].idx = j
                             => b.chunks_in_flight[SlotIndex(j)].idx = j
        BY <2>2
    <2>4. CASE ~RP!StartsRun(m, chunk)
        <3>1. RP!AfterStore(m, chunk) = b
            BY <1>2, <1>4, <2>4 DEF RP!AfterStore
        <3>2. SlotIndex(chunk.idx) # SlotIndex(e) /\ SlotIndex(e) \in WindowSlots
            BY <1>1, <2>4, SameSlots, SlotFacts DEF RP!StartsRun
        <3>3. b.chunks_in_flight[SlotIndex(e)] = RP!NoChunk
            BY <2>2, <3>2
        <3> HIDE DEF b
        <3> QED
            BY <1>1, <2>1, <2>3, <3>1, <3>3
    <2>5. CASE RP!StartsRun(m, chunk)
        <3> DEFINE k == RP!FittingUpTo(b)
        <3>1. /\ RP!AfterStore(m, chunk) = RP!Drain(b, k)
              /\ ~(k < RP!BufferedUpTo(b))
            BY <1>2, <1>4, <2>5 DEF RP!AfterStore, RP!StoreResult
        <3> HIDE DEF b
        <3>2. /\ RP!BufferedUpTo(b) \in e .. e + ParallelChunks
              /\ \/ RP!BufferedUpTo(b) = e + ParallelChunks
                 \/ b.chunks_in_flight[SlotIndex(RP!BufferedUpTo(b))] = RP!NoChunk
            BY <1>1, <2>1, SameSlots, RP!BufferedUpToInTurn,
               FileTrackerAssumption, TransferAssumption, ParallelChunksAssumption
        <3>3. k \in e .. RP!BufferedUpTo(b)
            BY <1>1, <2>1, <3>2, FileTrackerAssumption, ParallelChunksAssumption
               DEF RP!FittingUpTo
        <3> HIDE DEF k
        <3>4. k = RP!BufferedUpTo(b)
            BY <1>1, <3>1, <3>2, <3>3, ParallelChunksAssumption
        <3>5. /\ k \in e .. e + ParallelChunks
              /\ k = e + ParallelChunks \/ b.chunks_in_flight[SlotIndex(k)] = RP!NoChunk
            BY <3>2, <3>4
        <3> DEFINE d == RP!Drain(b, k)
        <3>6. /\ d.earliest_not_received = k /\ d.chunks_in_flight[SlotIndex(k)] = RP!NoChunk
              /\ \A j \in Nat : j >= k /\ b.chunks_in_flight[SlotIndex(j)].idx = j
                                    => d.chunks_in_flight[SlotIndex(j)].idx = j
            BY <1>1, <2>1, <3>5, DrainKeeps
        <3>7. k >= e
            BY <1>1, <3>5, ParallelChunksAssumption
        <3>8. RP!AfterStore(m, chunk) = d
            BY <3>1
        <3> HIDE DEF d
        <3> QED
            BY <2>3, <3>6, <3>7, <3>8
    <2> QED
        BY <2>4, <2>5
<1> QED
    BY <1>3, <1>4

-----------------------------------------------------------------------------
(* The invariant, as the receiver moves on. *)

\* What no answer of the receiver can disturb.
LEMMA ReceiverStep ==
    ASSUME IInv, ProgressInv, UNCHANGED vars, wire' \subseteq wire, ItemsLast, EntriesInv'
    PROVE  /\ AcceptKeptInv' /\ AckInv' /\ GapInv' => ProgressInv'
           /\ \A s \in sending : /\ Before(s.sm) \in Nat
                                 /\ \A n \in Nat : Kept(s.transfer, n) => Kept(s.transfer, n)'
<1>1. sending' = sending /\ pending' = pending /\ net' = net
    BY DEF vars
<1>2. Items' = Items
    BY <1>1 DEF Items, Queued
<1>3. ItemsInv' /\ AbortInv' /\ NewIdsInv'
    BY <1>1, <1>2 DEF ProgressInv, ItemsInv, AbortInv, NewIdsInv, Well
<1>4. KeptInv'
    <2>1. \A x \in Items : x.progress \in Nat
        BY ItemTypes
    <2>2. \A x \in Items : Kept(x.transfer, x.progress)'
        BY <2>1 DEF ProgressInv, KeptInv, ItemsLast
    <2> QED
        BY <1>2, <2>2 DEF KeptInv
<1>5. ChunksOnWire' \subseteq ChunksOnWire
    BY DEF ChunksOnWire
<1>6. SendWindowInv' /\ ConfirmInv'
    BY <1>1, <1>5 DEF ProgressInv, SlotInv, SendWindowInv, ConfirmInv, Before
<1>7. ASSUME NEW s \in sending
      PROVE  /\ Before(s.sm) \in Nat
             /\ \A n \in Nat : Kept(s.transfer, n) => Kept(s.transfer, n)'
    <2>1. s \in Items /\ s \in Transfers
        BY ItemTypes DEF Items
    <2>2. s.sm.position \in Nat /\ s.sm.next_slot \in Nat
        BY <2>1 DEF Transfers, SendManagers
    <2>3. s.sm.next_slot <= s.sm.position
        BY DEF ProgressInv, SlotInv, SendWindowInv
    <2> QED
        BY <2>1, <2>2, <2>3 DEF ItemsLast, Before
<1> QED
    BY <1>3, <1>4, <1>6, <1>7 DEF ProgressInv, SlotInv

\* The receiver accepts and confirms nothing.
LEMMA NothingConfirmed ==
    ASSUME IInv, RepliesOK, ProgressInv, UNCHANGED vars, wire' \subseteq wire,
           ItemsLast, EntriesInv',
           \A m \in replies' : m \in replies \/ m.response \notin Accepts \cup {"ConfirmChunk"},
           \A d \in receiving' : \E e \in receiving : d.transfer = e.transfer /\ d.rm = e.rm
    PROVE  ProgressInv'
<1>1. sending' = sending
    BY DEF vars
<1>2. \A s \in sending : /\ Before(s.sm) \in Nat
                         /\ \A n \in Nat : Kept(s.transfer, n) => Kept(s.transfer, n)'
    BY ReceiverStep
<1>3. AcceptKeptInv'
    <2> SUFFICES ASSUME NEW m \in Accepted', NEW s \in sending, s.status = "Prepared"
                 PROVE  Kept(s.transfer, Start(m))'
        BY <1>1 DEF AcceptKeptInv
    <2>1. m \in Accepted /\ Start(m) \in Nat
        BY DEF Accepted, RepliesOK, Start
    <2> QED
        BY <1>2, <2>1 DEF ProgressInv, SlotInv, AcceptKeptInv
<1>4. ASSUME NEW m, NEW j, Acked(m, replies', j) PROVE Acked(m, replies, j)
    BY <1>4 DEF Acked
<1>5. AckInv'
    <2> SUFFICES ASSUME NEW s \in sending, NEW d \in receiving', s.status # "Prepared",
                        d.transfer = s.transfer, NEW j \in Nat,
                        Acked(s.sm, replies', j), j >= d.rm.earliest_not_received
                 PROVE  d.rm.chunks_in_flight[SlotIndex(j)].idx = j
        BY <1>1 DEF AckInv, Acked
    <2> QED
        BY <1>4 DEF ProgressInv, SlotInv, AckInv
<1>6. GapInv'
    <2> SUFFICES ASSUME NEW s \in sending, s.status # "Prepared", NEW k \in Nat,
                        \A j \in 0 .. k - 1 : Acked(s.sm, replies', j)
                 PROVE  Kept(s.transfer, Before(s.sm) + k)'
        BY <1>1 DEF GapInv, Acked, Before
    <2>1. Kept(s.transfer, Before(s.sm) + k) /\ Before(s.sm) + k \in Nat
        BY <1>2, <1>4 DEF ProgressInv, SlotInv, GapInv
    <2> QED
        BY <1>2, <2>1
<1> QED
    BY <1>3, <1>5, <1>6, ReceiverStep

\* An offer is answered.
LEMMA OfferKept ==
    ASSUME IInv, PrefixInv, ProgressInv, UNCHANGED vars, wire' \subseteq wire, ItemsLast, EntriesInv',
           NEW q \in wire, q.kind \in Offers, NEW x, replies' \subseteq replies \cup {x},
           x.response \in Accepts => Kept(q.transfer, Start(x))'
    PROVE  ProgressInv'
<1>1. sending' = sending
    BY DEF vars
<1>2. /\ q \in Offering /\ Accepted = {}
      /\ \A s \in sending : s.status = "Prepared" /\ s.transfer = q.transfer
    BY DEF PrefixInv, OfferInv, Offering
<1>3. AckInv' /\ GapInv'
    BY <1>1, <1>2 DEF AckInv, GapInv
<1>4. AcceptKeptInv'
    <2> SUFFICES ASSUME NEW m \in Accepted', NEW s \in sending
                 PROVE  Kept(s.transfer, Start(m))'
        BY <1>1 DEF AcceptKeptInv
    <2>1. m = x /\ x.response \in Accepts /\ s.transfer = q.transfer
        BY <1>2 DEF Accepted
    <2> QED
        BY <2>1
<1> QED
    BY <1>3, <1>4, ReceiverStep

\* The same of the state after a step.
LEMMA ThenToo ==
    /\ (RP!IInv /\ EntriesInv)' => (\A e \in receiving : HasUnits(e.transfer, e.rm.byte_progress))'
    /\ RP!IInv' => (\A t, n \in Int : \A k \in 0 .. n : HasUnits(t, n) => Kept(t, k))'
<1>1. (RP!IInv /\ EntriesInv)' => (\A e \in receiving : HasUnits(e.transfer, e.rm.byte_progress))'
    BY EntryHasUnits, PTL
<1>2. RP!IInv' => (\A t, n \in Int : \A k \in 0 .. n : HasUnits(t, n) => Kept(t, k))'
    BY FewerUnits, PTL
<1> QED
    BY <1>1, <1>2

\* A chunk is taken and confirmed.
LEMMA ChunkConfirmed ==
    ASSUME IInv, RP!IInv, RP!IInv', RepliesOK, PrefixInv, PrefixInv', ProgressInv, UNCHANGED vars,
           wire' \subseteq wire, ItemsLast, EntriesInv',
           NEW q \in wire, q.kind = "Chunk", q.chunk \in RP!Chunks,
           NEW x, replies' \subseteq replies \cup {x}, x.id = q.id, x.response = "ConfirmChunk",
           NEW e \in receiving, e.transfer = q.transfer,
           RP!StoreResult(e.rm, q.chunk) = "Received",
           NEW d, receiving' = {d}, d.transfer = e.transfer,
           d.rm = RP!AfterStore(e.rm, q.chunk)
    PROVE  ProgressInv'
<1>1. sending' = sending
    BY DEF vars
<1>2. \A s \in sending : /\ Before(s.sm) \in Nat
                         /\ \A n \in Nat : Kept(s.transfer, n) => Kept(s.transfer, n)'
    BY ReceiverStep
<1>3. q \in ChunksOnWire /\ Offering = {}
    BY DEF PrefixInv, OfferInv, ChunksOnWire
<1>4. e.rm \in RP!Managers /\ Aligned(e.rm) /\ InPlace(e.rm, q.chunk) /\ q.chunk.idx \in Nat
    BY <1>3, EntryType DEF PrefixInv, BufferInv, ChunkInv, RP!Chunks
<1>5. e.rm.chunks_in_flight[SlotIndex(e.rm.earliest_not_received)] = RP!NoChunk
    BY DEF ProgressInv, EntriesInv
<1>6. /\ d.rm.earliest_not_received >= e.rm.earliest_not_received
      /\ d.rm.chunks_in_flight[SlotIndex(d.rm.earliest_not_received)] = RP!NoChunk
      /\ \A j \in Nat :
            (/\ j >= d.rm.earliest_not_received
             /\ j = q.chunk.idx \/ e.rm.chunks_in_flight[SlotIndex(j)].idx = j)
            => d.rm.chunks_in_flight[SlotIndex(j)].idx = j
    <2> DEFINE m == RP!AfterStore(e.rm, q.chunk)
    <2>1. /\ m.earliest_not_received >= e.rm.earliest_not_received
          /\ m.chunks_in_flight[SlotIndex(m.earliest_not_received)] = RP!NoChunk
          /\ \A j \in Nat :
                (/\ j >= m.earliest_not_received
                 /\ j = q.chunk.idx \/ e.rm.chunks_in_flight[SlotIndex(j)].idx = j)
                => m.chunks_in_flight[SlotIndex(j)].idx = j
        BY <1>4, <1>5, StoreKeeps
    <2> HIDE DEF m
    <2>2. d.rm = m
        BY DEF m
    <2> QED
        BY <2>1, <2>2
<1>7. /\ d \in RP!Entries /\ d.rm.earliest_not_received \in Nat /\ d.rm.byte_progress \in Nat
      /\ e.rm.earliest_not_received \in Nat /\ d.transfer \in Int
    <2>1. d \in RP!Entries
        BY DEF RP!IInv, RP!ReceivingTypeOK
    <2> QED
        BY <1>4, <2>1, FileTrackerAssumption DEF RP!Entries, RP!Managers
<1>8. ASSUME NEW s \in sending
      PROVE  /\ s.status # "Prepared" /\ s.transfer = d.transfer
             /\ Base(d.rm) = Before(s.sm)
             /\ \A j \in Nat : Acked(s.sm, replies', j) /\ j >= d.rm.earliest_not_received =>
                    d.rm.chunks_in_flight[SlotIndex(j)].idx = j
    <2>1. /\ s.status # "Prepared" /\ q.transfer = s.transfer
          /\ q.id \in DOMAIN s.sm.chunk_to_index => s.sm.chunk_to_index[q.id] = q.chunk.idx
        BY <1>3 DEF ProgressInv, SlotInv, ConfirmInv
    <2>2. Base(d.rm) = Before(s.sm)
        BY <1>1, <2>1 DEF PrefixInv, LiveInv, Before
    <2>3. ASSUME NEW j \in Nat, Acked(s.sm, replies', j) PROVE Acked(s.sm, replies, j) \/ j = q.chunk.idx
        BY <2>1, <2>3 DEF Acked
    <2>4. ASSUME NEW j \in Nat, Acked(s.sm, replies', j), j >= d.rm.earliest_not_received
          PROVE  d.rm.chunks_in_flight[SlotIndex(j)].idx = j
        <3>1. j >= e.rm.earliest_not_received
            BY <1>6, <1>7, <2>4
        <3>2. CASE j = q.chunk.idx
            BY <1>6, <2>4, <3>2
        <3>3. CASE Acked(s.sm, replies, j)
            <4>1. e.rm.chunks_in_flight[SlotIndex(j)].idx = j
                BY <2>1, <3>1, <3>3 DEF ProgressInv, SlotInv, AckInv
            <4> QED
                BY <1>6, <2>4, <4>1
        <3> QED
            BY <2>3, <2>4, <3>2, <3>3
    <2> QED
        BY <2>1, <2>2, <2>4
<1>9. AcceptKeptInv'
    BY <1>1, <1>8 DEF AcceptKeptInv
<1>10. AckInv'
    <2> SUFFICES ASSUME NEW s \in sending, NEW j \in Nat,
                        Acked(s.sm, replies', j), j >= d.rm.earliest_not_received
                 PROVE  d.rm.chunks_in_flight[SlotIndex(j)].idx = j
        BY <1>1 DEF AckInv, Acked
    <2> QED
        BY <1>8
<1>11. GapInv'
    <2> SUFFICES ASSUME NEW s \in sending, NEW k \in Nat,
                        \A j \in 0 .. k - 1 : Acked(s.sm, replies', j)
                 PROVE  Kept(s.transfer, Before(s.sm) + k)'
        BY <1>1 DEF GapInv, Acked, Before
    <2> DEFINE front == d.rm.earliest_not_received
    <2>1. k <= front
        <3> SUFFICES ASSUME front < k PROVE FALSE
            BY <1>7
        <3>1. front \in 0 .. k - 1
            BY <1>7
        <3>2. Acked(s.sm, replies', front) /\ front \in Nat /\ front >= front
            BY <1>7, <3>1
        <3>3. d.rm.chunks_in_flight[SlotIndex(front)].idx = front
            BY <1>8, <3>2
        <3>4. RP!NoChunk.idx = -1
            BY DEF RP!NoChunk
        <3> QED
            BY <1>6, <1>7, <3>3, <3>4
    <2>2. Before(s.sm) + k \in 0 .. d.rm.byte_progress
        BY <1>2, <1>7, <1>8, <2>1 DEF Base
    <2>3. (\A a \in receiving : HasUnits(a.transfer, a.rm.byte_progress))'
        BY ThenToo
    <2>4. HasUnits(d.transfer, d.rm.byte_progress)'
        BY <2>3
    <2>5. (\A t, n \in Int : \A i \in 0 .. n : HasUnits(t, n) => Kept(t, i))'
        BY ThenToo
    <2>6. Kept(d.transfer, Before(s.sm) + k)'
        BY <1>7, <2>2, <2>4, <2>5
    <2> QED
        BY <1>8, <2>6
<1> QED
    BY <1>9, <1>10, <1>11, ReceiverStep

-----------------------------------------------------------------------------
(* Request by request. *)

\* No transfer enters, and no file is renamed.
LEMMA EntriesStill ==
    ASSUME EntriesInv, UNCHANGED received, DOMAIN rows' \subseteq DOMAIN rows,
           receiving' \subseteq receiving
    PROVE  EntriesInv'
BY DEF EntriesInv

\* A transfer enters with an empty window.
LEMMA EntryEnters ==
    ASSUME EntriesInv, NEW t \in Int, t >= 1, NEW progress,
           \A u \in DOMAIN rows' : u \in DOMAIN rows \/ u = t,
           receiving' = {RP!NewEntry(t, Sender, progress)}
    PROVE  EntriesInv'
<1> DEFINE c == [x \in WindowSlots |-> RP!NoChunk]
           m == [chunks_in_flight |-> c, earliest_not_received |-> 0,
                 declared_file_size |-> FileUnits, byte_progress |-> progress]
           d == RP!NewEntry(t, Sender, progress)
<1>1. d = [transfer |-> t, contact |-> Sender, handle |-> 0, rm |-> m]
    BY SameSlots DEF RP!NewEntry, RP!NewReceiveManager, RP!InPart
<1>2. d.transfer = t /\ d.handle = 0 /\ d.rm = m
    BY <1>1
<1>3. m.chunks_in_flight = c /\ m.earliest_not_received = 0
    OBVIOUS
<1>4. c[SlotIndex(0)] = RP!NoChunk
    BY SlotFacts
<1>5. receiving' = {d} /\ \A u \in DOMAIN rows' : u >= 1
    BY DEF EntriesInv
<1> HIDE DEF d, m, c
<1> QED
    BY <1>2, <1>3, <1>4, <1>5 DEF EntriesInv

LEMMA NewTransferKept ==
    ASSUME IInv, RP!IInv, RP!IInv', PrefixInv, ProgressInv, UNCHANGED vars, wire' \subseteq wire,
           NEW q \in wire, q \in Messages, q.kind = "NewTransfer",
           NEW reply, RP!NewTransfer(q.transfer, Sender, reply),
           NEW x, x.response = reply.response, replies' \subseteq replies \cup {x}
    PROVE  ProgressInv'
<1>1. q.transfer \in Int /\ q.transfer >= 1 /\ q.kind \in Offers
    BY DEF ProgressInv, NewIdsInv, Messages, Offers
<1>2. \A response : RP!Reply(response).response = response
    BY DEF RP!Reply
<1>3. UNCHANGED received /\ (UNCHANGED parts \/ parts' = RP!PartOpened(<<q.transfer, Sender>>))
    BY DEF RP!NewTransfer, RP!receiver_vars
<1>4. ItemsLast
    BY <1>1, <1>3, OpenedLast
<1>5. EntriesInv'
    <2>1. CASE UNCHANGED RP!receiver_vars
        BY <2>1, EntriesStill DEF RP!receiver_vars, ProgressInv
    <2>2. CASE /\ RP!CreateIncomingFile(q.transfer, Sender)
               /\ receiving' = {RP!NewEntry(q.transfer, Sender, 0)}
        <3>1. \A u \in DOMAIN rows' : u \in DOMAIN rows \/ u = q.transfer
            BY <2>2 DEF RP!CreateIncomingFile, RP!With
        <3> QED
            BY <1>1, <2>2, <3>1, EntryEnters DEF ProgressInv
    <2> QED
        BY <2>1, <2>2 DEF RP!NewTransfer
<1>6. x.response \in Accepts => Kept(q.transfer, Start(x))'
    <2>1. x.response \in Accepts => x.response = "AcceptNewTransfer"
        BY <1>2 DEF RP!NewTransfer, Accepts
    <2> QED
        BY <2>1 DEF Start, Kept
<1> QED
    BY <1>1, <1>4, <1>5, <1>6, OfferKept

LEMMA ContinueKept ==
    ASSUME IInv, RP!IInv, RP!IInv', PrefixInv, ProgressInv, UNCHANGED vars, wire' \subseteq wire,
           NEW q \in wire, q \in Messages, q.kind = "ContinueTransfer",
           NEW reply, RP!ContinueTransfer(q.transfer, Sender, reply),
           NEW x, x.response = reply.response, x.offset = reply.offset,
           replies' \subseteq replies \cup {x}
    PROVE  ProgressInv'
<1>1. q.transfer \in Int /\ q.kind \in Offers /\ EntriesInv
    BY DEF Messages, Offers, ProgressInv
<1>2. /\ \A response : RP!Reply(response).response = response
      /\ \A offset : /\ RP!ContinueAt(offset).response = "AcceptContinueTransfer"
                     /\ RP!ContinueAt(offset).offset = offset
    BY DEF RP!Reply, RP!ContinueAt
<1> DEFINE name == <<q.transfer, Sender>>
<1>3. /\ UNCHANGED <<rows, received>>
      /\ UNCHANGED parts \/ parts' = RP!PartOpened(name)
    BY DEF RP!ContinueTransfer, RP!ContinueInMemory, RP!ContinueFromDisk, RP!receiver_vars
<1>4. ItemsLast
    BY <1>1, <1>3, OpenedLast
<1>5. ASSUME NEW e \in receiving, e.transfer = q.transfer, UNCHANGED parts,
             reply = RP!ContinueAt(e.rm.byte_progress),
             receiving' = {[e EXCEPT !.rm = RP!ResetReceiveManager(@)]}
      PROVE  ProgressInv'
    <2> DEFINE c == [y \in WindowSlots |-> RP!NoChunk]
               m == RP!ResetReceiveManager(e.rm)
               d == [e EXCEPT !.rm = m]
    <2>1. e \in RP!Entries /\ e.rm \in RP!Managers
        BY EntryType
    <2>2. m = [e.rm EXCEPT !.chunks_in_flight = c, !.earliest_not_received = 0]
        BY SameSlots DEF RP!ResetReceiveManager
    <2>3. c[SlotIndex(0)] = RP!NoChunk
        BY SlotFacts
    <2> HIDE DEF c
    <2>4. m.chunks_in_flight = c /\ m.earliest_not_received = 0
        BY <2>1, <2>2 DEF RP!Managers
    <2>5. receiving' = {d}
        BY <1>5
    <2> HIDE DEF m
    <2>6. d.transfer = e.transfer /\ d.handle = e.handle /\ d.rm = m
        BY <2>1 DEF RP!Entries
    <2> HIDE DEF d
    <2>7. EntriesInv'
        BY <1>1, <1>3, <2>3, <2>4, <2>5, <2>6 DEF EntriesInv
    <2>8. HasUnits(e.transfer, e.rm.byte_progress)
        BY <1>1, EntryHasUnits
    <2>9. HasUnits(q.transfer, Start(x))'
        <3>1. Start(x) = e.rm.byte_progress
            BY <1>2, <1>5 DEF Start
        <3>2. HasUnits(q.transfer, Start(x))
            BY <1>5, <2>8, <3>1
        <3> QED
            BY <1>3, <1>5, <3>2 DEF HasUnits, Start
    <2>10. Kept(q.transfer, Start(x))'
        BY <2>9 DEF Kept
    <2> QED
        BY <1>1, <1>4, <2>7, <2>10, OfferKept
<1>6. CASE /\ reply.response \in {"RestartContinueTransfer", "InternalError"}
           /\ UNCHANGED receiving
    <2>1. EntriesInv'
        BY <1>1, <1>3, <1>6, EntriesStill
    <2>2. x.response \in Accepts => Kept(q.transfer, Start(x))'
        BY <1>6 DEF Accepts, Start, Kept
    <2> QED
        BY <1>1, <1>4, <2>1, <2>2, OfferKept
<1>7. ASSUME NEW length, length = Len(parts'[name]), name \in DOMAIN parts', length \in Nat,
             reply = RP!ContinueAt(length), RP!MayContinue(q.transfer, Sender),
             receiving' = {RP!NewEntry(q.transfer, Sender, length)}
      PROVE  ProgressInv'
    <2>1. q.transfer \in DOMAIN rows
        BY <1>7 DEF RP!MayContinue, RP!GetReceivedFile
    <2>2. q.transfer >= 1
        BY <1>1, <2>1 DEF EntriesInv
    <2>3. EntriesInv'
        BY <1>1, <1>3, <1>7, <2>2, EntryEnters
    <2>4. Start(x) = length
        BY <1>2, <1>7 DEF Start
    <2>5. Kept(q.transfer, Start(x))'
        BY <1>7, <2>4 DEF Kept, HasUnits, Start
    <2> QED
        BY <1>1, <1>4, <2>3, <2>5, OfferKept
<1>8. CASE RP!ContinueInMemory(q.transfer, Sender, reply)
    BY <1>5, <1>8 DEF RP!ContinueInMemory, RP!StillInMemory
<1>9. CASE RP!ContinueFromDisk(q.transfer, Sender, reply)
    <2> DEFINE length == Len(RP!PartOpened(name)[name])
    <2>1. length \in Nat /\ name \in DOMAIN RP!PartOpened(name)
        <3>1. name \in Int \X {Sender}
            BY <1>1
        <3>2. /\ DOMAIN RP!PartOpened(name) = DOMAIN parts \cup {name}
              /\ \A n \in DOMAIN RP!PartOpened(name) :
                    Len(RP!PartOpened(name)[n]) \in 0 .. FileUnits
            BY <3>1, RP!OpenedFacts, FileTrackerAssumption, TransferAssumption,
               ParallelChunksAssumption
        <3> QED
            BY <3>2, FileTrackerAssumption
    <2>2. \/ /\ reply.response \in {"RestartContinueTransfer", "InternalError"}
             /\ UNCHANGED receiving
          \/ /\ reply = RP!ContinueAt(length) /\ parts' = RP!PartOpened(name)
             /\ RP!MayContinue(q.transfer, Sender)
             /\ receiving' = {RP!NewEntry(q.transfer, Sender, length)}
        BY <1>2, <1>9 DEF RP!ContinueFromDisk, RP!receiver_vars
    <2>3. parts' = RP!PartOpened(name) => length = Len(parts'[name]) /\ name \in DOMAIN parts'
        BY <2>1
    <2> HIDE DEF length
    <2> QED
        BY <1>6, <1>7, <2>1, <2>2, <2>3
<1> QED
    BY <1>8, <1>9 DEF RP!ContinueTransfer

\* The transfer of an abort is one that the tracker has given up.
LEMMA AbortKept ==
    ASSUME IInv, RP!IInv, RP!IInv', ProgressInv, NEW q \in wire, q \in Messages,
           q.kind = "AbortTransfer", NEW reply, RP!AbortTransfer(q.transfer, Sender, reply)
    PROVE  ItemsLast /\ EntriesInv' /\ receiving' = {}
<1>1. receiving' = {} /\ UNCHANGED <<rows, received>>
    BY DEF RP!AbortTransfer
<1>2. EntriesInv'
    BY <1>1, EntriesStill DEF ProgressInv
<1>3. \A name \in DOMAIN parts : Len(parts[name]) \in Nat
    BY LengthTypes
<1>4. CASE UNCHANGED parts
    BY <1>1, <1>2, <1>3, <1>4, PartsLast
<1>5. ASSUME NEW e \in receiving, RP!Aborts(q.transfer, e),
             parts' = RP!Without(parts, {<<e.transfer, Sender>>})
      PROVE  ItemsLast
    <2>1. q.transfer \in Int /\ q.transfer >= 0
        BY DEF ProgressInv, AbortInv, Messages
    <2>2. e.transfer = q.transfer /\ e.transfer >= 1
        BY <1>5, <2>1 DEF RP!Aborts, RP!NoTransfer, ProgressInv, EntriesInv
    <2>3. \A y \in Items : y.transfer # e.transfer
        <3> TAKE y \in Items
        <3>1. y.transfer \in Int /\ (y.transfer >= 1 => y.transfer # q.transfer)
            BY ItemTypes DEF ProgressInv, AbortInv
        <3> QED
            BY <2>1, <2>2, <3>1
    <2> DEFINE own == <<e.transfer, Sender>>
    <2>4. /\ DOMAIN parts' = DOMAIN parts \ {own} /\ own[1] = e.transfer
          /\ \A n \in DOMAIN parts' : parts'[n] = parts[n]
        BY <1>5 DEF RP!Without, RP!Restrict
    <2> HIDE DEF own
    <2>5. \A n \in DOMAIN parts : \/ n \in DOMAIN parts' /\ Len(parts[n]) <= Len(parts'[n])
                                  \/ \A y \in Items : n[1] # y.transfer
        BY <1>3, <2>3, <2>4
    <2> QED
        BY <1>1, <2>5, PartsLast
<1> QED
    BY <1>1, <1>2, <1>4, <1>5 DEF RP!AbortTransfer

LEMMA DoneKept ==
    ASSUME IInv, RP!IInv, RP!IInv', ProgressInv, NEW t, NEW reply, RP!Done(t, Sender, reply)
    PROVE  /\ ItemsLast /\ EntriesInv'
           /\ \A d \in receiving' : \E e \in receiving : d.transfer = e.transfer /\ d.rm = e.rm
<1>1. EntriesInv /\ \A name \in DOMAIN parts : Len(parts[name]) \in Nat
    BY LengthTypes DEF ProgressInv
<1>2. DOMAIN rows' \subseteq DOMAIN rows
    <2>1. CASE UNCHANGED rows
        BY <2>1
    <2>2. ASSUME NEW completed \in BOOLEAN, RP!StoreReceivedFile(t, completed)
          PROVE  DOMAIN rows' \subseteq DOMAIN rows
        BY <2>2, RP!StoreReceivedFileShrinks, FileTrackerAssumption, TransferAssumption,
           ParallelChunksAssumption DEF RP!RowsShrink
    <2> QED
        BY <2>1, <2>2 DEF RP!Done
<1>3. CASE receiving' \subseteq receiving /\ UNCHANGED <<parts, received>>
    <2>1. EntriesInv'
        BY <1>1, <1>2, <1>3, EntriesStill
    <2>2. ItemsLast
        BY <1>1, <1>3, PartsLast
    <2> QED
        BY <1>3, <2>1, <2>2
<1>4. ASSUME NEW e \in receiving, e.transfer = t, RP!Finalized(e, <<t, Sender>>)
      PROVE  /\ ItemsLast /\ EntriesInv'
             /\ \A d \in receiving' : \E o \in receiving : d.transfer = o.transfer /\ d.rm = o.rm
    <2> DEFINE n == Len(received')
               d == [e EXCEPT !.handle = n]
    <2>1. e \in RP!Entries /\ e.contact = Sender /\ <<t, Sender>> \in DOMAIN parts
        BY <1>4, EntryType DEF RP!Finalized
    <2>2. e.handle = RP!InPart
        <3>1. <<t, Sender>>[1] = t
            OBVIOUS
        <3> QED
            BY <1>4, <2>1, <3>1 DEF RP!IInv, RP!HandleInv, RP!MadeAnew
    <2>3. receiving' = {d}
        BY <1>4, <2>1, <2>2 DEF RP!Finalized
    <2>4. /\ ItemsLast /\ n = Len(received) + 1 /\ received'[n].transfer = e.transfer
        BY <1>4, FinalizedLast
    <2>5. n \in Nat
        BY <2>4, LengthTypes
    <2> HIDE DEF n
    <2>6. d.transfer = e.transfer /\ d.rm = e.rm /\ d.handle = n
        BY <2>1 DEF RP!Entries
    <2> HIDE DEF d
    <2>7. EntriesInv'
        BY <1>1, <1>2, <2>3, <2>4, <2>5, <2>6 DEF EntriesInv
    <2> QED
        BY <2>3, <2>4, <2>6, <2>7
<1> QED
    BY <1>3, <1>4 DEF RP!Done

-----------------------------------------------------------------------------
LEMMA ChunkKept ==
    ASSUME IInv, RP!IInv, RP!IInv', RepliesOK, PrefixInv, PrefixInv', ProgressInv,
           UNCHANGED vars, wire' \subseteq wire,
           NEW q \in wire, q \in Messages, q.kind = "Chunk",
           NEW reply, RP!Chunk(q.transfer, q.chunk, Sender, reply),
           NEW x, x.id = q.id, x.response = reply.response, replies' \subseteq replies \cup {x}
    PROVE  ProgressInv'
<1>1. /\ EntriesInv /\ q.chunk \in RP!Chunks
      /\ \A name \in DOMAIN parts : Len(parts[name]) \in Nat
    BY LengthTypes DEF ProgressInv, Messages, RP!Chunks
<1>2. \A response : RP!Reply(response).response = response
    BY DEF RP!Reply
<1>3. ASSUME reply.response \in {"ProtocolViolation", "InternalError"}, receiving' = {},
             UNCHANGED <<rows, received>>, ItemsLast
      PROVE  ProgressInv'
    <2>1. EntriesInv'
        BY <1>1, <1>3, EntriesStill
    <2>2. \A m \in replies' : m \in replies \/ m.response \notin Accepts \cup {"ConfirmChunk"}
        BY <1>3 DEF Accepts
    <2> QED
        BY <1>3, <2>1, <2>2, NothingConfirmed
<1>4. CASE /\ reply = RP!Reply("ProtocolViolation") /\ receiving' = {}
           /\ UNCHANGED <<parts, rows, updates, received>>
    <2>1. ItemsLast
        BY <1>1, <1>4, PartsLast
    <2> QED
        BY <1>2, <1>3, <1>4, <2>1
<1>5. ASSUME NEW e \in receiving, e.transfer = q.transfer, RP!ChunkStored(e, q.chunk, reply)
      PROVE  ProgressInv'
    <2> DEFINE A == RP!AppendedByStore(e.rm, q.chunk)
               m == RP!AfterStore(e.rm, q.chunk)
    <2>1. e \in RP!Entries /\ e.rm \in RP!Managers
        BY EntryType
    <2>2. /\ A \in Seq(RP!Units) /\ m \in RP!Managers
          /\ m.byte_progress = e.rm.byte_progress + Len(A)
        BY <1>1, <2>1, RP!StoreCounts, FileTrackerAssumption, TransferAssumption,
           ParallelChunksAssumption
    <2>3. \/ /\ reply = RP!Reply("ConfirmChunk") /\ RP!StoreResult(e.rm, q.chunk) = "Received"
             /\ RP!Written(e, A) /\ receiving' = {[e EXCEPT !.rm = m]}
          \/ /\ reply = RP!Reply("ProtocolViolation")
             /\ RP!Written(e, A) /\ receiving' = {}
          \/ /\ reply = RP!Reply("InternalError")
             /\ \E k \in 0 .. Len(A) - 1 : RP!Written(e, SubSeq(A, 1, k))
             /\ receiving' = {}
        BY <1>5 DEF RP!ChunkStored
    <2>4. UNCHANGED rows
        BY <1>5 DEF RP!ChunkStored
    <2>5. /\ Len(A) \in Nat /\ e.rm.byte_progress \in Nat
          /\ e.rm.byte_progress + Len(A) <= FileUnits
        BY <2>1, <2>2, FileTrackerAssumption DEF RP!Managers
    <2>6. ASSUME NEW units \in Seq(RP!Units), RP!Written(e, units), Len(units) <= Len(A)
          PROVE  ItemsLast /\ UNCHANGED received
        <3>1. e.rm.byte_progress + Len(units) <= FileUnits
            <4>1. Len(units) \in Nat
                OBVIOUS
            <4> HIDE DEF A
            <4> QED
                BY <2>5, <2>6, <4>1, FileTrackerAssumption
        <3>2. received' = received
            BY <2>6, <3>1, RP!WrittenFacts, FileTrackerAssumption, TransferAssumption,
               ParallelChunksAssumption
        <3> QED
            BY <2>6, <3>1, <3>2, WrittenLast
    <2>7. CASE /\ reply = RP!Reply("ConfirmChunk") /\ RP!StoreResult(e.rm, q.chunk) = "Received"
               /\ RP!Written(e, A) /\ receiving' = {[e EXCEPT !.rm = m]}
        <3> HIDE DEF A
        <3> DEFINE d == [e EXCEPT !.rm = m]
        <3>1. ItemsLast /\ UNCHANGED received
            BY <2>2, <2>5, <2>6, <2>7
        <3>2. receiving' = {d}
            BY <2>7
        <3>3. Aligned(e.rm) /\ InPlace(e.rm, q.chunk)
            BY <1>5 DEF PrefixInv, BufferInv, ChunkInv, ChunksOnWire
        <3>4. e.rm.chunks_in_flight[SlotIndex(e.rm.earliest_not_received)] = RP!NoChunk
            BY <1>1 DEF EntriesInv
        <3>5. m.chunks_in_flight[SlotIndex(m.earliest_not_received)] = RP!NoChunk
            BY <1>1, <2>1, <2>7, <3>3, <3>4, StoreKeeps
        <3>6. m = RP!AfterStore(e.rm, q.chunk)
            OBVIOUS
        <3> HIDE DEF m
        <3>7. d.transfer = e.transfer /\ d.handle = e.handle /\ d.rm = m
            BY <2>1 DEF RP!Entries
        <3> HIDE DEF d
        <3>8. EntriesInv'
            BY <1>1, <2>4, <3>1, <3>2, <3>5, <3>7 DEF EntriesInv
        <3>9. x.response = "ConfirmChunk"
            BY <1>2, <2>7
        <3> QED
            BY <1>1, <1>5, <2>7, <3>1, <3>2, <3>6, <3>7, <3>8, <3>9, ChunkConfirmed
    <2>8. CASE /\ reply = RP!Reply("ProtocolViolation")
               /\ RP!Written(e, A) /\ receiving' = {}
        BY <1>2, <1>3, <2>2, <2>4, <2>5, <2>6, <2>8
    <2>9. CASE /\ reply = RP!Reply("InternalError") /\ receiving' = {}
               /\ \E k \in 0 .. Len(A) - 1 : RP!Written(e, SubSeq(A, 1, k))
        <3> HIDE DEF A
        <3>1. PICK k \in 0 .. Len(A) - 1 : RP!Written(e, SubSeq(A, 1, k))
            BY <2>9
        <3>2. SubSeq(A, 1, k) \in Seq(RP!Units) /\ Len(SubSeq(A, 1, k)) = k /\ k <= Len(A)
            BY <2>2, <2>5, <3>1
        <3>3. ItemsLast /\ UNCHANGED received
            BY <2>6, <3>1, <3>2
        <3> QED
            BY <1>2, <1>3, <2>4, <2>9, <3>3
    <2> QED
        BY <2>3, <2>7, <2>8, <2>9
<1>6. \A e \in receiving : e.contact = Sender
    BY EntryType
<1> QED
    BY <1>4, <1>5, <1>6 DEF RP!Chunk

LEMMA ReceiverProgress ==
    ASSUME BothEndsInv, PrefixInv, ProgressInv, NEW q \in wire, ReceiverResponds(q)
    PROVE  ProgressInv'
<1>1. IInv /\ RP!IInv /\ RepliesOK /\ q \in Messages
    BY DEF BothEndsInv, WireOK
<1>2. RP!IInv' /\ PrefixInv'
    BY ReceiverRespondsKeeps, ReceiverRespondsInPlace DEF BothEndsInv
<1>3. PICK reply \in Receiver!Replies :
        /\ \/ q.kind = "NewTransfer" /\ Receiver!NewTransfer(q.transfer, Sender, reply)
           \/ /\ q.kind = "ContinueTransfer"
              /\ Receiver!ContinueTransfer(q.transfer, Sender, reply)
           \/ q.kind = "AbortTransfer" /\ Receiver!AbortTransfer(q.transfer, Sender, reply)
           \/ q.kind = "Chunk" /\ Receiver!Chunk(q.transfer, q.chunk, Sender, reply)
           \/ q.kind = "Done" /\ Receiver!Done(q.transfer, Sender, reply)
           \/ q.kind = "ProtocolViolation" /\ Receiver!PeerViolation(reply)
        /\ wire' = wire \ {q}
        /\ replies' = replies \cup
               {[id |-> id, response |-> reply.response, offset |-> reply.offset] :
                   id \in {i \in {q.id} : Waiting(net, i)}}
        /\ UNCHANGED <<vars, failures, disturbed>>
    BY DEF ReceiverResponds
<1> DEFINE x == [id |-> q.id, response |-> reply.response, offset |-> reply.offset]
<1>4. reply.response \in Answers(q.kind)
    BY <1>1, <1>3, ReceiverAnswers
<1>5. /\ replies' \subseteq replies \cup {x} /\ x.id = q.id
      /\ x.response = reply.response /\ x.offset = reply.offset
    BY <1>3
<1>6. UNCHANGED vars /\ wire' \subseteq wire
    BY <1>3
<1> HIDE DEF x
<1>7. q.kind \in {"AbortTransfer", "Done", "ProtocolViolation"} =>
          \A m \in replies' : m \in replies \/ m.response \notin Accepts \cup {"ConfirmChunk"}
    <2>1. q.kind \in {"AbortTransfer", "Done", "ProtocolViolation"} =>
              x.response \notin Accepts \cup {"ConfirmChunk"}
        BY <1>4, <1>5 DEF Answers, Accepts
    <2> QED
        BY <1>5, <2>1
<1>8. CASE q.kind = "NewTransfer" /\ Receiver!NewTransfer(q.transfer, Sender, reply)
    BY <1>1, <1>2, <1>5, <1>6, <1>8, SameNewTransfer, NewTransferKept
<1>9. CASE q.kind = "ContinueTransfer" /\ Receiver!ContinueTransfer(q.transfer, Sender, reply)
    BY <1>1, <1>2, <1>5, <1>6, <1>9, SameContinueTransfer, ContinueKept
<1>10. CASE q.kind = "AbortTransfer" /\ Receiver!AbortTransfer(q.transfer, Sender, reply)
    <2>1. ItemsLast /\ EntriesInv' /\ receiving' = {}
        BY <1>1, <1>2, <1>10, SameAbortTransfer, AbortKept
    <2> QED
        BY <1>1, <1>6, <1>7, <1>10, <2>1, NothingConfirmed
<1>11. CASE q.kind = "Chunk" /\ Receiver!Chunk(q.transfer, q.chunk, Sender, reply)
    BY <1>1, <1>2, <1>5, <1>6, <1>11, SameChunk, ChunkKept
<1>12. CASE q.kind = "Done" /\ Receiver!Done(q.transfer, Sender, reply)
    <2>1. /\ ItemsLast /\ EntriesInv'
          /\ \A d \in receiving' : \E e \in receiving : d.transfer = e.transfer /\ d.rm = e.rm
        BY <1>1, <1>2, <1>12, SameDone, DoneKept
    <2> QED
        BY <1>1, <1>6, <1>7, <1>12, <2>1, NothingConfirmed
<1>13. CASE q.kind = "ProtocolViolation" /\ Receiver!PeerViolation(reply)
    <2>1. receiving' = {} /\ UNCHANGED <<parts, rows, received>>
        BY <1>13 DEF Receiver!PeerViolation
    <2>2. ItemsLast /\ EntriesInv'
        BY <1>1, <1>2, <2>1, LengthTypes, PartsLast, EntriesStill DEF ProgressInv
    <2> QED
        BY <1>1, <1>6, <1>7, <1>13, <2>1, <2>2, NothingConfirmed
<1> QED
    BY <1>3, <1>8, <1>9, <1>10, <1>11, <1>12, <1>13

LEMMA OthersProgress ==
    ASSUME BothEndsInv, ProgressInv,
           ReceiverActs \/ (\E q \in wire : Lose(q)) \/ UNCHANGED all_vars
    PROVE  ProgressInv'
<1>1. /\ UNCHANGED vars /\ wire' \subseteq wire /\ replies' = replies
      /\ UNCHANGED <<parts, received>>
      /\ receiving' = {} \/ receiving' = receiving
    BY DEF ReceiverActs, Lose, all_vars, receiver_vars, Receiver!Expire, Receiver!Restart,
           Receiver!ApplyUpdate
<1>2. IInv /\ RP!IInv /\ RP!IInv' /\ RepliesOK /\ EntriesInv
    BY OthersKeep DEF BothEndsInv, ProgressInv
<1>3. DOMAIN rows' \subseteq DOMAIN rows
    <2>1. CASE UNCHANGED rows
        BY <2>1
    <2>2. ASSUME NEW u, Receiver!ApplyUpdate(u) PROVE DOMAIN rows' \subseteq DOMAIN rows
        BY <2>2 DEF Receiver!ApplyUpdate, Receiver!StatusUpdated
    <2> QED
        BY <2>1, <2>2 DEF ReceiverActs, Lose, all_vars, receiver_vars, Receiver!Expire,
           Receiver!Restart
<1>4. ItemsLast
    BY <1>1, <1>2, LengthTypes, PartsLast
<1>5. EntriesInv'
    BY <1>1, <1>2, <1>3, EntriesStill
<1> QED
    BY <1>1, <1>2, <1>4, <1>5, NothingConfirmed

LEMMA ProgressInit ==
    ASSUME TransferInit PROVE ProgressInv
<1>1. /\ pending = <<>> /\ sending = {} /\ wire = {} /\ replies = {} /\ receiving = {}
      /\ rows = <<>>
    BY DEF TransferInit, Init, Receiver!Init
<1>2. Items = {} /\ DOMAIN rows = {} /\ Accepted = {} /\ ChunksOnWire = {}
    BY <1>1 DEF Items, Queued, Accepted, ChunksOnWire
<1>3. ItemsInv /\ KeptInv /\ AbortInv /\ EntriesInv /\ NewIdsInv
    BY <1>1, <1>2 DEF ItemsInv, KeptInv, AbortInv, EntriesInv, NewIdsInv
<1>4. SlotInv
    BY <1>1, <1>2 DEF SlotInv, AcceptKeptInv, SendWindowInv, ConfirmInv, AckInv, GapInv
<1> QED
    BY <1>3, <1>4 DEF ProgressInv

\* Neither of the two disturbances, and no progress of an earlier run.
Undisturbed == disturbed = {} /\ InterruptedAt \subseteq {0}

LEMMA StaysUndisturbed ==
    ASSUME Undisturbed', TransferNext \/ UNCHANGED all_vars
    PROVE  disturbed' = {} /\ Undisturbed /\ Apart
<1>1. disturbed \subseteq disturbed'
    BY DEF TransferNext, SenderActs, RequestFails, SenderReceives, Transport, ReceiverResponds,
           Lose, ReceiverActs, all_vars
<1> QED
    BY <1>1 DEF Undisturbed, Apart

LEMMA ProgressInvariance ==
    TransferSpec => []((BothEndsInv /\ (Apart => PrefixInv)) /\ (Undisturbed => ProgressInv))
<1> DEFINE I == BothEndsInv /\ (Apart => PrefixInv)
<1>1. TransferInit => (Undisturbed => ProgressInv)
    BY ProgressInit DEF Undisturbed
<1>2. I /\ (Undisturbed => ProgressInv) /\ [TransferNext]_all_vars
          => (Undisturbed => ProgressInv)'
    <2> SUFFICES ASSUME Undisturbed', BothEndsInv, Apart => PrefixInv,
                        Undisturbed => ProgressInv, [TransferNext]_all_vars
                 PROVE  ProgressInv'
        OBVIOUS
    <2>1. /\ disturbed' = {} /\ InterruptedAt \subseteq {0}
          /\ PrefixInv /\ ProgressInv
        BY StaysUndisturbed DEF Undisturbed
    <2>2. CASE SenderActs \/ RequestFails \/ \E m \in replies : SenderReceives(m)
        BY <2>1, <2>2, SenderProgress
    <2>3. CASE \E q \in wire : ReceiverResponds(q)
        BY <2>1, <2>3, ReceiverProgress
    <2>4. CASE ReceiverActs \/ (\E q \in wire : Lose(q)) \/ UNCHANGED all_vars
        BY <2>1, <2>4, OthersProgress
    <2> QED
        BY <2>2, <2>3, <2>4 DEF TransferNext
<1> QED
    BY <1>1, <1>2, PrefixInvariance, PTL DEF TransferSpec

(***************************************************************************)
(* What the tracker counts as progress of a file, in the slot or in the    *)
(* queue, is on the receiver's disk under that file's transfer: a chunk is *)
(* confirmed when it waits in the receiver's window or is written, the     *)
(* count moves over confirmed chunks only and in order, and a transfer is  *)
(* aborted only when nobody will go on with it, except by                  *)
(* reset_all_on_internal_error_for, which the property leaves out together *)
(* with files offered before the attempt before them is over.  No earlier  *)
(* run of the program has left progress: the receiver of TransferInit      *)
(* starts with nothing.                                                    *)
(***************************************************************************)
THEOREM ProgressKept ==
    TransferSpec => [](InterruptedAt \subseteq {0} => ProgressIsKept)
<1>1. BothEndsInv /\ (Undisturbed => ProgressInv)
          => (InterruptedAt \subseteq {0} => ProgressIsKept)
    <2> SUFFICES ASSUME BothEndsInv, Undisturbed => ProgressInv,
                        InterruptedAt \subseteq {0}, disturbed = {}
                 PROVE  ProgressIsKept
        BY DEF ProgressIsKept
    <2>1. ProgressInv
        BY DEF Undisturbed
    <2>2. \A y \in Items : y.progress \in Nat /\ Kept(y.transfer, y.progress)
        BY <2>1, ItemTypes DEF BothEndsInv, ProgressInv, KeptInv
    <2>3. \A y \in Items : y.progress > 0 => HasUnits(y.transfer, y.progress)
        BY <2>2 DEF Kept
    <2> QED
        BY <2>3 DEF ProgressIsKept, Items, Queued
<1> QED
    BY <1>1, ProgressInvariance, PTL
==============================================================================
