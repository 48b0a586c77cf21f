----------------------------- MODULE FileTracker -----------------------------
(***************************************************************************)
(* The sender's side of file transfers, for one peer:                      *)
(* fyles_service/p2p/src/event_loop/filerequest/file_tracker.rs.           *)
(*                                                                         *)
(* Each response, error, timeout and command is handled by a task of its   *)
(* own.  A handler is one action, because it holds the write lock of       *)
(* `files` from beginning to end, with two exceptions: send_chunks_loop    *)
(* takes the lock again for every chunk, and the handlers that `drop(files)`*)
(* and then call reset_all_on_protocol_violation_for or                    *)
(* reset_all_on_internal_error_for take it a second time.                  *)
(* Both are tasks here, and other handlers run between their steps.        *)
(*                                                                         *)
(* A "file" is one call of add_pending_file and the entry it puts in the   *)
(* queue.  The tracker compares ids only to cancel, and the brain may add  *)
(* one pending file twice: CreatePendingFiles adds what it inserted, and   *)
(* Ready, which may have read that row, adds it too.                       *)
(*                                                                         *)
(* Left out: notifications that are not terminal (FileSending,             *)
(* FileSendReset), the plugin (it only decides when trigger_interaction_   *)
(* with is called, which is any time here), and files whose status is      *)
(* neither Pending nor Interrupted, which add_pending_file turns away.     *)
(***************************************************************************)
EXTENDS SendManager, Sequences, FiniteSets

CONSTANTS
    Files,              \* the entries that are ever added, one per call
    Ids,                \* the ids of pending files
    IdOf,               \* the id of the pending file each entry is for
    Targets,            \* the remote filerequests
    TargetOf,           \* target_filerequest_id of each
    FileUnits,          \* the length of every file
    InterruptedAt,      \* where earlier runs of the program may have stopped
    MaxAllowedFailures, \* 1 + file_size / 1 GB
    MaxRequests,        \* bound: how many requests are ever sent
    FailingSends,       \* the kinds of requests that `send` may fail to send
    Unreadable,         \* the files that may fail to open or to be read
    BrainAnswers,       \* to IsContactKnown
    Contacts,           \* who may be behind the session of a response
    OddAnswers,         \* responses this program's receiver would not give
    EarlyAnswered       \* bound: the kinds of requests whose response may be
                        \* there before the request is registered

ASSUME FileTrackerAssumption ==
    /\ IdOf \in [Files -> Ids] /\ TargetOf \in [Files -> Targets]
    /\ FileUnits \in Nat /\ MaxAllowedFailures \in Nat /\ MaxRequests \in Nat
    /\ InterruptedAt \subseteq 0 .. FileUnits
    /\ Unreadable \subseteq Files
    /\ BrainAnswers \subseteq {"Known", "Unknown", "Err"}
    /\ Contacts \subseteq {"target", "other"}
    /\ OddAnswers \subseteq {"RejectContinueTransfer", "RejectChunk", "RejectDone"}

VARIABLES
    entry,     \* of the peer in `files`: "Vacant" or "Occupied"
    pending,   \* its queue of pending files
    sending,   \* its sending slot: a set of at most one transfer
    tasks,     \* how many tasks wait for the lock to go on, by what they do
    net,       \* the request registry and the next external request id
    outcomes,  \* history: the terminal notifications the brain got per file
    cancelled, \* history: files the brain cancelled
    service    \* "Running"; "Stuck" on its own lock; "Aborted" by a panic

vars == <<entry, pending, sending, tasks, net, outcomes, cancelled, service>>

Tasks == {"LoopTarget", "LoopOther", "ResetOnProtocolViolation",
          "ResetOnInternalError", "ResetForDisconnectedPeer"}

-----------------------------------------------------------------------------
(***************************************************************************)
(* The request registry.  A response removes its request.  An error does   *)
(* not: the timer of a request that failed goes on and reports a timeout   *)
(* later; and a request that timed out may still be answered.              *)
(***************************************************************************)
\* An attempt to send a file is known by the request that offers the file.
Attempt(n, p) == <<n.nextId, p.file>>

NoAttempt == <<0, "none">>

\* transfer_uuid is made anew for every NewTransfer and kept when the transfer
\* is continued: it is known by the request that began it.
NoTransfer == -1

EarlierTransfer == 0    \* one begun by an earlier run of the program

Register(n, kind, attempt) ==
    [registry |-> n.registry \cup
        {[id |-> n.nextId, kind |-> kind, attempt |-> attempt, state |-> "Open"]},
     nextId   |-> n.nextId + 1]

\* What `send` leads to when nobody looks at its result.
Send(n, kind, attempt) ==
    {m \in {Register(n, kind, attempt)} : n.nextId <= MaxRequests}
        \cup {m \in {n} : kind \in FailingSends}

Answered(r) == [net EXCEPT !.registry = @ \ {r}]

\* The first of an error and the timeout leaves the other to come.
Marked(r, state) ==
    [net EXCEPT !.registry = (@ \ {r}) \cup
        {[m EXCEPT !.state = state] : m \in {q \in {r} : q.state = "Open"}}]

Failed(r) == Marked(r, "Failed")

TimedOut(r) == Marked(r, "TimedOut")

-----------------------------------------------------------------------------
\* What send_next puts into the slot.
LockedSendData(p, transfer, attempt) ==
    [file |-> p.file, status |-> "Prepared", progress |-> p.progress,
     transfer |-> transfer, retry |-> p.retry, verify |-> "Must",
     attempt |-> attempt, sm |-> NewSendManager(FileUnits)]

\* unlock_mut: a known contact must be the one the file is meant for.
Unlocks(s, who) == s.verify = "Free" \/ who = "target"

\* compute_reset_status
ResetFile(s) ==
    LET fresh == s.status = "Prepared" /\ s.progress = 0
    IN  [file     |-> s.file,
         status   |-> IF fresh THEN "Pending" ELSE "Interrupted",
         progress |-> s.progress,
         transfer |-> IF fresh THEN NoTransfer ELSE s.transfer,
         retry    |-> s.retry]

-----------------------------------------------------------------------------
(***************************************************************************)
(* The methods of CoreFileTrackerRef, which run under the caller's lock.   *)
(* They determine entry', pending', sending', outcomes' and net'.          *)
(***************************************************************************)
\* The next file p is offered to the peer; `rest` is queued behind it.  A file
\* that could not be continued is not put back.
Offer(p, rest, n) ==
    LET kind     == IF p.status = "Pending" THEN "NewTransfer" ELSE "ContinueTransfer"
        transfer == IF p.status = "Pending" THEN n.nextId ELSE p.transfer
    IN  \/ /\ n.nextId <= MaxRequests
           /\ net' = Register(n, kind, Attempt(n, p))
           /\ sending' = {LockedSendData(p, transfer, Attempt(n, p))}
           /\ pending' = rest
        \/ /\ kind \in FailingSends
           /\ net' = n
           /\ sending' = {}
           /\ pending' = IF kind = "NewTransfer" THEN <<p>> \o rest ELSE rest

\* The first k files of the queue cannot be opened, the one after them can.
SendNext(queue, out, n) ==
    \E k \in 0 .. Len(queue) :
        /\ \A i \in 1 .. k : queue[i].file \in Unreadable
        /\ outcomes' = [f \in Files |->
               IF \E i \in 1 .. k : queue[i].file = f
               THEN Append(out[f], "Missing") ELSE out[f]]
        /\ \/ /\ k = Len(queue)
              /\ entry' = "Vacant" /\ pending' = <<>> /\ sending' = {}
              /\ net' = n
           \/ /\ k < Len(queue)
              /\ UNCHANGED entry
              /\ Offer(queue[k + 1], SubSeq(queue, k + 2, Len(queue)), n)

CompleteFile(f, outcome, n) ==
    SendNext(pending, [outcomes EXCEPT ![f] = Append(@, outcome)], n)

\* Slip: the slot is emptied, the file not pushed back.
ResetWithoutPushBack(s, n) ==
    /\ sending' = {}
    /\ net' = n
    /\ UNCHANGED <<entry, pending, outcomes>>

ResetAndStop(s, n) ==
    /\ pending' = Append(pending, ResetFile(s))
    /\ sending' = {}
    /\ net' = n
    /\ UNCHANGED <<entry, outcomes>>

ResetAndRetry(s, n) ==
    \/ s.retry > MaxAllowedFailures /\ CompleteFile(s.file, "Failed", n)
    \/ s.retry <= MaxAllowedFailures /\ ResetAndStop(s, n)

\* Nothing happens to the files.
Ignore(n) == net' = n /\ UNCHANGED <<entry, pending, sending, outcomes>>

ResetAll(n) ==
    \/ sending = {} /\ Ignore(n)
    \/ \E s \in sending : ResetAndStop(s, n)

Goes(t) == tasks' = [tasks EXCEPT ![t] = @ + 1]

Ends(t) == tasks' = [tasks EXCEPT ![t] = @ - 1]

LoopOf(who) == IF who = "target" THEN "LoopTarget" ELSE "LoopOther"

-----------------------------------------------------------------------------
(***************************************************************************)
(* receive_response, arm by arm.  In each, r is the request answered, n is *)
(* the registry without it and `who` the contact behind the session.       *)
(***************************************************************************)
\* A response that fits nothing: no entry, or an entry that does not expect it.
Unexpected(n) ==
    \/ /\ entry = "Vacant"
       /\ \E m \in Send(n, "ProtocolViolation", NoAttempt) : Ignore(m)
       /\ UNCHANGED tasks
    \/ /\ entry = "Occupied" /\ sending = {}
       /\ Ignore(n)
       /\ Goes("ResetOnProtocolViolation")

NotExpectedNow(s, n) ==
    /\ sending' = {s}
    /\ net' = n
    /\ UNCHANGED <<entry, pending, outcomes>>
    /\ Goes("ResetOnProtocolViolation")

\* verify_target_contact_id asks for the lock its caller holds when the brain
\* reports an error, and never returns.
Hangs(n) == service' = "Stuck" /\ Ignore(n) /\ UNCHANGED tasks

VerificationFailed(brain, who) == brain = "Known" /\ who # "target"

\* The slot once the contact is verified, or found to be unknown.
AfterVerification(s, brain) ==
    IF brain = "Unknown" THEN [s EXCEPT !.verify = "Free"] ELSE s

\* The slots that an arm goes on with once it has verified the contact.
Verified(s, who) ==
    {AfterVerification(s, brain) :
        brain \in {b \in BrainAnswers \ {"Err"} : ~VerificationFailed(b, who)}}

\* And what becomes of the slot if it has not.
NotVerified(s, who, n) ==
    \E brain \in BrainAnswers :
        \/ brain = "Err" /\ Hangs(n)
        \/ /\ VerificationFailed(brain, who)
           /\ ResetAndStop(s, n)
           /\ UNCHANGED <<tasks, service>>

\* Slip: the transfer is accepted and nobody starts to send.
StartSendingWithoutLoop(s, n, who) ==
    \/ /\ s.status = "Prepared"
       /\ sending' = {[s EXCEPT !.status = "Sending"]}
       /\ net' = n
       /\ UNCHANGED <<entry, pending, outcomes, tasks>>
    \/ s.status # "Prepared" /\ NotExpectedNow(s, n)

StartSending(s, n, who) ==
    \/ /\ s.status = "Prepared"
       /\ sending' = {[s EXCEPT !.status = "Sending"]}
       /\ net' = n
       /\ UNCHANGED <<entry, pending, outcomes>>
       /\ Goes(LoopOf(who))
    \/ s.status # "Prepared" /\ NotExpectedNow(s, n)

\* AcceptNewTransfer and RestartContinueTransfer
AcceptNewTransfer(n, who) ==
    \/ Unexpected(n) /\ UNCHANGED service
    \/ \E s \in sending :
          \/ NotVerified(s, who, n)
          \/ \E v \in Verified(s, who) : StartSending(v, n, who) /\ UNCHANGED service

ContinueAt(s, offset) ==
    IF s.status # "Prepared" THEN s
    ELSE [s EXCEPT !.progress = offset, !.sm = SetProgress(@, offset)]

AcceptContinueTransfer(n, who, offset) ==
    \/ Unexpected(n) /\ UNCHANGED service
    \/ \E s \in sending :
          \/ NotVerified(s, who, n)
          \/ \E v \in Verified(s, who) :
                StartSending(ContinueAt(v, offset), n, who) /\ UNCHANGED service

\* The file of the slot is rejected by a contact that is verified.
RejectedBy(who, n) ==
    \E s \in sending :
        \/ NotVerified(s, who, n)
        \/ /\ Verified(s, who) # {}
           /\ CompleteFile(s.file, "Rejected", n)
           /\ UNCHANGED <<tasks, service>>

RejectNewTransfer(n, who) ==
    \/ Unexpected(n) /\ UNCHANGED service
    \/ RejectedBy(who, n)

\* Without a transfer in the slot, the handler asks for the lock it holds.
RejectContinueTransfer(n, who) ==
    \/ entry = "Vacant" /\ Ignore(n) /\ UNCHANGED <<tasks, service>>
    \/ entry = "Occupied" /\ sending = {} /\ Hangs(n)
    \/ RejectedBy(who, n)

\* A response whose request id is not known.
ConfirmUnknown(n) ==
    \/ entry = "Vacant" /\ Unexpected(n)
    \/ entry = "Occupied" /\ Ignore(n) /\ Goes("ResetOnInternalError")

ConfirmChunk(r, n, who) ==
    \/ Unexpected(n) /\ UNCHANGED service
    \/ \E s \in sending :
          \/ /\ ~Unlocks(s, who)
             /\ ResetAndStop(s, n)
             /\ UNCHANGED <<tasks, service>>
          \/ /\ Unlocks(s, who) /\ s.status # "Sending"
             /\ NotExpectedNow(s, n)
             /\ UNCHANGED service
          \/ /\ Unlocks(s, who) /\ s.status = "Sending"
             /\ CanMarkDone(s.sm, r.id)
             /\ LET sm == MarkDone(s.sm, r.id)
                IN  sending' = {[s EXCEPT !.sm = sm, !.progress = sm.progress]}
             /\ net' = n
             /\ Goes(LoopOf(who))
             /\ UNCHANGED <<entry, pending, outcomes, service>>
          \/ /\ Unlocks(s, who) /\ s.status = "Sending"
             /\ ~CanMarkDone(s.sm, r.id)
             /\ service' = "Aborted"
             /\ Ignore(n) /\ UNCHANGED tasks

\* A slot that is not sending is emptied all the same.
RejectChunk(n) ==
    \/ Unexpected(n)
    \/ \E s \in sending :
          \/ /\ s.status = "Sending"
             /\ CompleteFile(s.file, "Rejected", n)
             /\ UNCHANGED tasks
          \/ /\ s.status # "Sending"
             /\ sending' = {} /\ net' = n
             /\ UNCHANGED <<entry, pending, outcomes>>
             /\ Goes("ResetOnProtocolViolation")

\* ConfirmDone and RejectDone
AnswerDone(n, outcome) ==
    \/ Unexpected(n)
    \/ \E s \in sending :
          \/ /\ s.status = "PendingSent"
             /\ CompleteFile(s.file, outcome, n)
             /\ UNCHANGED tasks
          \/ s.status # "PendingSent" /\ NotExpectedNow(s, n)

ConfirmAbort(n) ==
    \/ entry = "Occupied" /\ sending = {} /\ SendNext(pending, outcomes, n)
    \/ (entry = "Vacant" \/ sending # {}) /\ Ignore(n)

AcknowledgeProtocolViolation(n) == Ignore(n)

\* The peer reports a ProtocolViolation or an InternalError: the file has one
\* more failure, and only the first of the two is held against it.
PeerReportsViolation(n) ==
    \/ sending = {} /\ Ignore(n)
    \/ \E s \in sending : ResetAndRetry([s EXCEPT !.retry = @ + 1], n)

PeerReportsInternalError(n) ==
    \/ sending = {} /\ Ignore(n)
    \/ \E s \in sending : ResetAndStop([s EXCEPT !.retry = @ + 1], n)

\* The answers of FilerequestReceiver::respond_to, by request.
Answers(kind) ==
    CASE kind = "NewTransfer" ->
            {"AcceptNewTransfer", "RejectNewTransfer", "InternalError"}
      [] kind = "ContinueTransfer" ->
            {"AcceptContinueTransfer", "RestartContinueTransfer", "InternalError"}
      [] kind = "AbortTransfer" ->
            {"ConfirmAbort", "ProtocolViolation", "InternalError"}
      [] kind = "Chunk" -> {"ConfirmChunk", "ProtocolViolation", "InternalError"}
      [] kind = "Done" -> {"ConfirmDone", "ProtocolViolation", "InternalError"}
      [] kind = "ProtocolViolation" -> {"AcknowledgeProtocolViolation"}

\* The registry when a response is handled.  If it was there before its request
\* was registered, its id is not known; the registration stays, and times out.
AfterResponse(r) ==
    {Answered(r)} \cup {n \in {Failed(r)} : r.kind \in EarlyAnswered}

ReceiveResponse(r, response, offset, who) ==
    /\ service = "Running"
    /\ r.state # "Failed"
    /\ \E n \in AfterResponse(r) :
           \/ /\ response \in {"AcceptNewTransfer", "RestartContinueTransfer"}
              /\ AcceptNewTransfer(n, who)
           \/ /\ response = "AcceptContinueTransfer"
              /\ AcceptContinueTransfer(n, who, offset)
           \/ response = "RejectNewTransfer" /\ RejectNewTransfer(n, who)
           \/ response = "RejectContinueTransfer" /\ RejectContinueTransfer(n, who)
           \/ /\ response = "ConfirmChunk"
              /\ \/ n = Answered(r) /\ ConfirmChunk(r, n, who)
                 \/ n = Failed(r) /\ ConfirmUnknown(n) /\ UNCHANGED service
           \/ /\ \/ response = "RejectChunk" /\ RejectChunk(n)
                 \/ response = "ConfirmDone" /\ AnswerDone(n, "Sent")
                 \/ response = "RejectDone" /\ AnswerDone(n, "Rejected")
              /\ UNCHANGED service
           \/ /\ \/ response = "ConfirmAbort" /\ ConfirmAbort(n)
                 \/ /\ response = "AcknowledgeProtocolViolation"
                    /\ AcknowledgeProtocolViolation(n)
                 \/ response = "ProtocolViolation" /\ PeerReportsViolation(n)
                 \/ response = "InternalError" /\ PeerReportsInternalError(n)
              /\ UNCHANGED <<tasks, service>>
    /\ UNCHANGED cancelled

-----------------------------------------------------------------------------
\* handle_receive_error: errors that push the file back, that count against
\* it, and the one that ends it.  Which request failed makes no difference.
ErrorHandled(error, n) ==
    \/ sending = {} /\ Ignore(n)
    \/ \E s \in sending :
          \/ error \in {"Timeout", "Transport"} /\ ResetAndStop(s, n)
          \/ error \in {"Remote", "Session", "Resend"} /\ ResetAndRetry(s, n)
          \/ error = "UnsupportedProtocols" /\ CompleteFile(s.file, "Rejected", n)

HandleReceiveError(r, error) ==
    /\ service = "Running"
    /\ r.state # "Failed"
    /\ ErrorHandled(error, Failed(r))
    /\ UNCHANGED <<tasks, cancelled, service>>

\* A response that no session decrypts is taken out of the registry first.
HandleUndecryptable(r) ==
    /\ service = "Running"
    /\ r.state # "Failed"
    /\ ErrorHandled("Session", Answered(r))
    /\ UNCHANGED <<tasks, cancelled, service>>

HandleTimeout(r) ==
    /\ service = "Running"
    /\ r.state # "TimedOut"
    /\ ErrorHandled("Timeout", TimedOut(r))
    /\ UNCHANGED <<tasks, cancelled, service>>

-----------------------------------------------------------------------------
(***************************************************************************)
(* One round of send_chunks_loop.  It takes whatever transfer it finds in  *)
(* the slot, in whatever status.                                           *)
(***************************************************************************)
LoopDone(s) ==
    \/ /\ net.nextId <= MaxRequests
       /\ net' = Register(net, "Done", s.attempt)
       /\ sending' = {[s EXCEPT !.status = IF @ = "Sending" THEN "PendingSent" ELSE @]}
       /\ UNCHANGED <<entry, pending, outcomes>>
    \/ "Done" \in FailingSends /\ ResetAndStop(s, net)

LoopIoError(s) ==
    /\ s.file \in Unreadable
    /\ \E n \in Send(net, "AbortTransfer", NoAttempt) : CompleteFile(s.file, "IoError", n)

LoopInterrupt(s) ==
    /\ "Chunk" \in FailingSends
    /\ pending' = Append(pending, [ResetFile(s) EXCEPT !.status = "Interrupted",
                                                       !.transfer = s.transfer])
    /\ sending' = {}
    /\ UNCHANGED <<net, entry, outcomes>>

LoopSent(s) ==
    /\ net.nextId <= MaxRequests
    /\ net' = Register(net, "Chunk", s.attempt)
    /\ sending' = {[s EXCEPT !.sm = ChunkSent(@, net.nextId)]}
    /\ UNCHANGED <<entry, pending, outcomes>>

SendChunksLoop(who) ==
    /\ service = "Running"
    /\ tasks[LoopOf(who)] > 0
    /\ \/ sending = {} /\ Ignore(net) /\ Ends(LoopOf(who))
       \/ \E s \in sending :
             LET goes_on == Unlocks(s, who)
             IN  \/ /\ goes_on /\ HasChunkToSend(s.sm)
                    /\ LoopSent(s)
                    /\ UNCHANGED tasks
                 \/ /\ goes_on /\ HasChunkToSend(s.sm)
                    /\ LoopIoError(s) \/ LoopInterrupt(s)
                    /\ Ends(LoopOf(who))
                 \/ /\ goes_on /\ ReportsDone(s.sm)
                    /\ LoopDone(s)
                    /\ Ends(LoopOf(who))
                 \/ /\ \/ ~goes_on
                       \/ ~HasChunkToSend(s.sm) /\ ~ReportsDone(s.sm)
                    /\ Ignore(net)
                    /\ Ends(LoopOf(who))
    /\ UNCHANGED <<cancelled, service>>

\* reset_all_on_protocol_violation_for, once it has the lock again
ResetOnProtocolViolation ==
    /\ service = "Running"
    /\ tasks["ResetOnProtocolViolation"] > 0
    /\ Ends("ResetOnProtocolViolation")
    /\ \E n \in Send(net, "ProtocolViolation", NoAttempt) :
          \/ sending = {} /\ Ignore(n)
          \/ \E s \in sending : ResetAndStop([s EXCEPT !.retry = @ + 1], n)
    /\ UNCHANGED <<cancelled, service>>

\* reset_all_on_internal_error_for, likewise: the file keeps its progress,
\* the peer is told to abort the transfer.
ResetOnInternalError ==
    /\ service = "Running"
    /\ tasks["ResetOnInternalError"] > 0
    /\ Ends("ResetOnInternalError")
    /\ \E n \in Send(net, "AbortTransfer", NoAttempt) :
          \/ sending = {} /\ Ignore(n)
          \/ \E s \in sending : ResetAndStop([s EXCEPT !.retry = @ + 1], n)
    /\ UNCHANGED <<cancelled, service>>

\* reset_for_disconnected_peer looks first, and takes the write lock later.
PeerDisconnected ==
    /\ service = "Running"
    /\ sending # {}
    /\ tasks["ResetForDisconnectedPeer"] = 0
    /\ Ignore(net)
    /\ Goes("ResetForDisconnectedPeer")
    /\ UNCHANGED <<cancelled, service>>

ResetForDisconnectedPeer ==
    /\ service = "Running"
    /\ tasks["ResetForDisconnectedPeer"] > 0
    /\ Ends("ResetForDisconnectedPeer")
    /\ ResetAll(net)
    /\ UNCHANGED <<cancelled, service>>

-----------------------------------------------------------------------------
Tracked(f) ==
    \/ \E i \in 1 .. Len(pending) : pending[i].file = f
    \/ \E s \in sending : s.file = f

Left(f) == outcomes[f] # <<>> \/ f \in cancelled

\* Each call is its own entry, whatever else is queued under its id; the file
\* may have been interrupted in an earlier run of the program.
AddPendingFile(f) ==
    /\ service = "Running"
    /\ ~Tracked(f) /\ ~Left(f)
    /\ \E p \in [file : {f}, status : {"Pending"}, progress : {0},
               transfer : {NoTransfer}, retry : {0}]
              \cup [file : {f}, status : {"Interrupted"}, progress : InterruptedAt,
                    transfer : {EarlierTransfer}, retry : {0}] :
          pending' = Append(pending, p)
    /\ entry' = "Occupied"
    /\ UNCHANGED <<sending, tasks, net, outcomes, cancelled, service>>

TriggerInteractionWith ==
    /\ service = "Running"
    /\ entry = "Occupied" /\ sending = {}
    /\ SendNext(pending, outcomes, net)
    /\ UNCHANGED <<tasks, cancelled, service>>

\* Slip: what was cancelled is what is retained.
RetainedTheWrongWay(queue, fs) == SelectSeq(queue, LAMBDA p : p.file \in fs)

\* retain: the queue without the files fs, in its order.
Without(queue, fs) ==
    LET Kept[i \in 0 .. Len(queue)] ==
            IF i = 0 THEN <<>>
            ELSE IF queue[i].file \in fs THEN Kept[i - 1]
            ELSE Append(Kept[i - 1], queue[i])
    IN  Kept[Len(queue)]

\* Both cancels, of the files fs.  The slot alone is looked at if it matches.
Cancel(fs) ==
    /\ service = "Running"
    /\ \/ \E s \in sending :
             /\ s.file \in fs
             /\ \E n \in Send(net, "AbortTransfer", NoAttempt) : SendNext(pending, outcomes, n)
             /\ cancelled' = cancelled \cup {s.file}
       \/ /\ \A s \in sending : s.file \notin fs
          /\ \E i \in 1 .. Len(pending) : pending[i].file \in fs
          /\ pending' = Without(pending, fs)
          /\ cancelled' = cancelled \cup
                 {pending[i].file : i \in {j \in 1 .. Len(pending) : pending[j].file \in fs}}
          /\ UNCHANGED <<entry, sending, net, outcomes>>
    /\ UNCHANGED <<tasks, service>>

CancelFile(id) == Cancel({f \in Files : IdOf[f] = id})

CancelFileByTarget(t) == Cancel({f \in Files : TargetOf[f] = t})

-----------------------------------------------------------------------------
Init ==
    /\ entry = "Vacant"
    /\ pending = <<>>
    /\ sending = {}
    /\ tasks = [t \in Tasks |-> 0]
    /\ net = [registry |-> {}, nextId |-> 1]
    /\ outcomes = [f \in Files |-> <<>>]
    /\ cancelled = {}
    /\ service = "Running"

\* A response that a peer could give to one of the requests.
SomeResponse ==
    \E r \in net.registry, who \in Contacts :
        \/ \E response \in (Answers(r.kind) \cup OddAnswers) \ {"AcceptContinueTransfer"} :
              ReceiveResponse(r, response, 0, who)
        \/ /\ "AcceptContinueTransfer" \in Answers(r.kind)
           /\ \E offset \in 0 .. FileUnits :
                 ReceiveResponse(r, "AcceptContinueTransfer", offset, who)

SomeFailure ==
    \/ \E r \in net.registry :
          \/ \E error \in {"Transport", "Remote", "Resend", "UnsupportedProtocols"} :
                HandleReceiveError(r, error)
          \/ HandleUndecryptable(r)
          \/ HandleTimeout(r)
    \/ PeerDisconnected

\* What happens without the peer.
LocalStep ==
    \/ \E who \in Contacts : SendChunksLoop(who)
    \/ ResetOnProtocolViolation
    \/ ResetOnInternalError
    \/ ResetForDisconnectedPeer
    \/ \E f \in Files : AddPendingFile(f)
    \/ TriggerInteractionWith
    \/ \E id \in Ids : CancelFile(id)
    \/ \E t \in Targets : CancelFileByTarget(t)

Next == SomeResponse \/ SomeFailure \/ LocalStep

Spec == Init /\ [][Next]_vars

-----------------------------------------------------------------------------
\* What one call of add_pending_file queued is in one place only: in the queue
\* once, in the slot, or gone with one outcome or one cancel (doc of
\* FileOutcome: "exactly one"), also if its id was queued twice.
OneFate ==
    \A f \in Files :
        Cardinality({i \in 1 .. Len(pending) : pending[i].file = f})
          + Cardinality({s \in sending : s.file = f})
          + Len(outcomes[f])
          + Cardinality(cancelled \cap {f}) <= 1

\* Two ways out that lead nowhere, which README.md describes: the request that
\* should continue a file cannot be sent, and a chunk is rejected before any
\* chunk was asked for.
ContinueTransferNotSent(f) ==
    /\ "ContinueTransfer" \in FailingSends
    /\ \E i \in 1 .. Len(pending) : pending[i].file = f /\ pending[i].status = "Interrupted"
    /\ sending' = {}

ChunkRejectedEarly(f) ==
    /\ "RejectChunk" \in OddAnswers
    /\ \E s \in sending : s.file = f /\ s.status # "Sending"
    /\ sending' = {} /\ Goes("ResetOnProtocolViolation")

\* A file that leaves the tracker leaves with an outcome, unless the brain
\* cancelled it (doc of FileOutcome: "Every file that leaves the tracker").
NoFileVanishes ==
    [][\A f \in Files : Tracked(f) =>
          \/ (Tracked(f) \/ Left(f))'
          \/ ContinueTransferNotSent(f) \/ ChunkRejectedEarly(f)]_vars

\* A transfer never waits for nothing: while the slot is taken, a request of
\* this very attempt is open, or a task is about to deal with the slot.
SlotNeverStranded ==
    \A s \in sending :
        \/ \E r \in net.registry : r.attempt = s.attempt /\ r.state = "Open"
        \/ \E t \in Tasks : tasks[t] > 0
        \/ service # "Running"
=============================================================================
