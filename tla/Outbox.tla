------------------------------- MODULE Outbox -------------------------------
(***************************************************************************)
(* The brain's side of sending (core/src/core/brain/handle_action.rs): the *)
(* rows of the files that are to be sent, what the clients do to them, the *)
(* status updates of the file tracker, the removal of temporary source     *)
(* files, and the start of the program.                                    *)
(*                                                                         *)
(* The brain handles every action in a task of its own, so whatever the    *)
(* tracker reports is applied in any order (`actions`), and a handler with *)
(* several statements is interrupted by others between any two of them     *)
(* (`tasks`).  The tracker is the one of module FileTracker, reduced to    *)
(* what the brain sees of it: a queue, a slot and their reports.           *)
(***************************************************************************)
EXTENDS PendingFilesTable, Sequences, SequencesExt, Bags

CONSTANTS
    Files, Targets, Paths,
    TargetOf,            \* the remote filerequest each file is for
    PathOf,              \* its source; several files may share one
    Size,                \* units in a file
    MaxAllowedFailures,  \* of reset_and_retry
    MaxOffers,           \* bounds: files taken into the slot,
    MaxLate,             \* reports that wait at a time,
    MaxTroubles          \* and restarts, deletions and sweeps together

NoFile == "none"

ASSUME OutboxAssumption ==
    /\ IsFiniteSet(Files) /\ NoFile \notin Files \cup Targets
    /\ TargetOf \in [Files -> Targets]
    /\ PathOf \in [Files -> Paths]
    /\ Size \in Nat \ {0} /\ MaxAllowedFailures \in Nat
    /\ MaxOffers \in Nat /\ MaxLate \in Nat /\ MaxTroubles \in Nat

VARIABLES
    remotes,   \* the rows of remote_filerequests
    rows,      \* the rows of pending_files
    sources,   \* the temporary source files that exist
    queue,     \* the tracker: files that wait
    slot,      \* and the one that is sent, if any
    actions,   \* bag of reports the brain has not handled
    tasks,     \* bag of handlers that are between two statements
    ready,     \* the handler of Ready: its stage and what it has read
    used,      \* ids that were given out: they are never given again
    seen,      \* history: files that ended, were dropped, deleted, came late; paths swept
    aborted,   \* history: why the program has aborted, if it has
    count      \* offers and troubles so far

vars == <<remotes, rows, sources, queue, slot, actions, tasks, ready, used, seen, aborted, count>>

tracker == <<queue, slot>>
disk    == <<remotes, rows, sources, used>>

FilesOf(t) == {f \in Files : TargetOf[f] = t}

\* A file in the tracker.
PendingFile(f, status, retry) == [file |-> f, status |-> status, retry |-> retry]

\* A report of the tracker.
Report(kind, f, status, n) == [kind |-> kind, file |-> f, status |-> status, count |-> n]

Task(do, f, t) == [do |-> do, file |-> f, target |-> t]

Adds(bag, x) == bag (+) SetToBag({x})

Takes(bag, x) == bag (-) SetToBag({x})

Becomes(old, new) == tasks' = Adds(Takes(tasks, old), new)

Finishes(old) == tasks' = Takes(tasks, old)

Running == ready.stage # "starting"

\* One of the troubles that are bounded.
Trouble ==
    /\ count.troubles < MaxTroubles
    /\ count' = [count EXCEPT !.troubles = @ + 1]

Idle(stage) == [stage |-> stage, remotes |-> {}, files |-> {}]

\* The end of the process: only the disk is left.
Stops ==
    /\ queue' = <<>> /\ slot' = {}
    /\ actions' = EmptyBag /\ tasks' = EmptyBag
    /\ ready' = Idle("starting")
    /\ seen' = [seen EXCEPT !.dropped = {}]

\* A handler panics; the release build aborts the process then.
Aborts(why) == Stops /\ aborted' = why

-----------------------------------------------------------------------------
(***************************************************************************)
(* What clients ask for.                                                   *)
(***************************************************************************)
CreateRemoteFilerequest(t) ==
    /\ t \notin used
    /\ remotes' = remotes \cup {t}
    /\ used' = used \cup {t}
    /\ UNCHANGED <<rows, sources, tracker, actions, tasks, ready, seen, aborted, count>>

CreatePendingFiles(t) ==
    /\ t \in remotes
    /\ FilesOf(t) \cap used = {}
    /\ used' = used \cup FilesOf(t)
    /\ tasks' = Adds(tasks, Task("Insert", NoFile, t))
    /\ UNCHANGED <<remotes, rows, sources, tracker, actions, ready, seen, aborted, count>>

\* The copy of the source is gone, or will be by a cleanup that has counted.
SourceGoing(path) ==
    \/ path \notin sources
    \/ \E f \in Files : PathOf[f] = path /\ BagIn(Task("Remove", f, NoFile), tasks)

\* Nothing is inserted, and nothing sent, if the remote filerequest is gone.
InsertPendingFiles(t) ==
    /\ BagIn(Task("Insert", NoFile, t), tasks)
    /\ \/ /\ t \in remotes
          /\ rows' = CreateRows(rows, FilesOf(t), t, PathOf)
          /\ seen' = [seen EXCEPT !.late = @ \cup {f \in FilesOf(t) : SourceGoing(PathOf[f])}]
          /\ Becomes(Task("Insert", NoFile, t), Task("Send", NoFile, t))
       \/ /\ t \notin remotes
          /\ Finishes(Task("Insert", NoFile, t))
          /\ UNCHANGED <<rows, seen>>
    /\ UNCHANGED <<remotes, sources, tracker, actions, ready, used, aborted, count>>

\* P2pCommand::SendFiles waits until the event loop runs.
SendFiles(t) ==
    /\ BagIn(Task("Send", NoFile, t), tasks)
    /\ Running
    /\ queue' = queue \o SetToSeq({PendingFile(f, SendStatus("Pending", NoData), 0) :
                                      f \in FilesOf(t)})
    /\ Finishes(Task("Send", NoFile, t))
    /\ UNCHANGED <<disk, slot, actions, ready, seen, aborted, count>>

\* retain: the queue without the files fs, in its order.
Retained(fs) ==
    LET Kept[i \in 0 .. Len(queue)] ==
            IF i = 0 THEN <<>>
            ELSE IF queue[i].file \in fs THEN Kept[i - 1]
            ELSE Append(Kept[i - 1], queue[i])
    IN  Kept[Len(queue)]

\* An active file is cancelled in the tracker first.
DeletePendingFile(f) ==
    /\ f \in DOMAIN rows
    /\ ~\E do \in {"Cancel", "Delete"} : BagIn(Task(do, f, NoFile), tasks)
    /\ tasks' = Adds(tasks, Task(IF rows[f].tag \in ActiveTags THEN "Cancel" ELSE "Delete",
                                 f, NoFile))
    /\ Trouble
    /\ UNCHANGED <<disk, tracker, actions, ready, seen, aborted>>

\* The row is deleted whether the tracker had the file or not.
CancelFile(f) ==
    /\ BagIn(Task("Cancel", f, NoFile), tasks)
    /\ Running
    /\ \/ /\ \E s \in slot : s.file = f
          /\ slot' = {} /\ UNCHANGED queue
       \/ /\ \A s \in slot : s.file # f
          /\ queue' = Retained({f})
          /\ UNCHANGED slot
    /\ Becomes(Task("Cancel", f, NoFile), Task("Delete", f, NoFile))
    /\ UNCHANGED <<disk, actions, ready, seen, aborted, count>>

DeletePendingFileRow(f) ==
    /\ BagIn(Task("Delete", f, NoFile), tasks)
    /\ rows' = DeleteRow(rows, f)
    /\ seen' = [seen EXCEPT !.deleted = @ \cup {f}]
    /\ Finishes(Task("Delete", f, NoFile))
    /\ UNCHANGED <<remotes, sources, tracker, actions, ready, used, aborted, count>>

DeleteRemoteFilerequest(t) ==
    /\ t \in remotes
    /\ ~\E do \in {"CancelTarget", "DeleteTarget"} : BagIn(Task(do, NoFile, t), tasks)
    /\ tasks' = Adds(tasks, Task("CancelTarget", NoFile, t))
    /\ Trouble
    /\ UNCHANGED <<disk, tracker, actions, ready, seen, aborted>>

\* The queue is looked at only if the slot does not match.
CancelFilesForRemoteFilerequest(t) ==
    /\ BagIn(Task("CancelTarget", NoFile, t), tasks)
    /\ Running
    /\ \/ /\ \E s \in slot : TargetOf[s.file] = t
          /\ slot' = {} /\ UNCHANGED queue
       \/ /\ \A s \in slot : TargetOf[s.file] # t
          /\ queue' = Retained(FilesOf(t))
          /\ UNCHANGED slot
    /\ Becomes(Task("CancelTarget", NoFile, t), Task("DeleteTarget", NoFile, t))
    /\ UNCHANGED <<disk, actions, ready, seen, aborted, count>>

DeleteRemoteFilerequestRow(t) ==
    /\ BagIn(Task("DeleteTarget", NoFile, t), tasks)
    /\ remotes' = remotes \ {t}
    /\ rows' = DeleteRowsOf(rows, t)
    /\ seen' = [seen EXCEPT !.deleted = @ \cup {f \in DOMAIN rows : rows[f].target = t}]
    /\ Finishes(Task("DeleteTarget", NoFile, t))
    /\ UNCHANGED <<sources, tracker, actions, ready, used, aborted, count>>

-----------------------------------------------------------------------------
(***************************************************************************)
(* The file tracker, as the brain sees it.                                 *)
(***************************************************************************)
Reports(r) == BagCardinality(actions) < MaxLate /\ actions' = Adds(actions, r)

Head1 == queue[1]

Takeable == Running /\ slot = {} /\ queue # <<>> /\ count.offers < MaxOffers

Offered == count' = [count EXCEPT !.offers = @ + 1]

\* A fresh file is offered without a word to the brain.
OfferNewTransfer ==
    /\ Takeable
    /\ Head1.status.tag = "Pending" /\ PathOf[Head1.file] \in sources
    /\ slot' = {[Head1 EXCEPT !.status = SendStatus("Prepared", 0)]}
    /\ queue' = Tail(queue)
    /\ Offered
    /\ UNCHANGED <<disk, actions, tasks, ready, seen, aborted>>

\* A file that is continued is reported as it was, whether it could be sent or
\* not; if not, it has left the queue all the same.
OfferContinueTransfer ==
    /\ Takeable
    /\ Head1.status.tag = "Interrupted" /\ PathOf[Head1.file] \in sources
    /\ \/ /\ slot' = {[Head1 EXCEPT !.status.tag = "Prepared"]}
          /\ UNCHANGED seen
       \/ /\ slot' = {}
          /\ seen' = [seen EXCEPT !.dropped = @ \cup {Head1.file}]
    /\ Reports(Report("FileSending", Head1.file, Head1.status, NoCount))
    /\ queue' = Tail(queue)
    /\ Offered
    /\ UNCHANGED <<disk, tasks, ready, aborted>>

\* OpenFileForReading fails: its handler fails the row, or panics for want of one.
OpenFileForReadingFails ==
    /\ Takeable
    /\ PathOf[Head1.file] \notin sources
    /\ \/ /\ Head1.file \in DOMAIN rows
          /\ rows' = [rows EXCEPT ![Head1.file] =
                         UpdatedRow(@, SendStatus("Failed", NoData), NoCount)]
          /\ tasks' = Adds(tasks, Task("Count", Head1.file, NoFile))
          /\ Reports(Report("FileMissing", Head1.file, SendStatus("Failed", NoData), NoCount))
          /\ seen' = [seen EXCEPT !.ended = @ \cup {Head1.file}]
          /\ queue' = Tail(queue)
          /\ UNCHANGED <<slot, ready, aborted>>
       \/ Head1.file \notin DOMAIN rows /\ Aborts("row gone") /\ UNCHANGED rows
    /\ Offered
    /\ UNCHANGED <<remotes, sources, used>>

\* The peer accepts; it may have more of the file than the table says, or less.
PeerAccepts ==
    \E s \in slot, data \in 0 .. Size :
        /\ s.status.tag = "Prepared"
        /\ slot' = {[s EXCEPT !.status = SendStatus("Sending", data)]}
        /\ UNCHANGED <<disk, queue, actions, tasks, ready, seen, aborted, count>>

PeerConfirmsChunk ==
    \E s \in slot :
        LET status == SendStatus("Sending", s.status.data + 1) IN
        /\ s.status.tag = "Sending" /\ s.status.data < Size
        /\ slot' = {[s EXCEPT !.status = status]}
        /\ Reports(Report("FileSending", s.file, status, NoCount))
        /\ UNCHANGED <<disk, queue, tasks, ready, seen, aborted, count>>

\* complete_file
Completes(s, kind, tag) ==
    /\ slot' = {}
    /\ Reports(Report(kind, s.file, SendStatus(tag, NoData), NoCount))
    /\ seen' = [seen EXCEPT !.ended = @ \cup {s.file}]
    /\ UNCHANGED queue

TransferEnds ==
    \E s \in slot :
        /\ \/ s.status = SendStatus("Sending", Size) /\ Completes(s, "FileSent", "Sent")
           \/ Completes(s, "FileRejected", "Rejected")
           \/ s.status.tag = "Sending" /\ Completes(s, "FileIoError", "Failed")
        /\ UNCHANGED <<disk, tasks, ready, aborted, count>>

\* compute_reset_status
ResetStatus(status) ==
    IF status.tag = "Prepared" /\ status.data = 0
    THEN SendStatus("Pending", NoData)
    ELSE SendStatus("Interrupted", status.data)

ResetAndStop(s, retry) ==
    /\ queue' = Append(queue, PendingFile(s.file, ResetStatus(s.status), retry))
    /\ slot' = {}
    /\ Reports(Report("FileSendReset", s.file, ResetStatus(s.status), retry))
    /\ UNCHANGED seen

\* A disconnect or a timeout does not count as a failure, what the peer
\* reports does.
TransferResets ==
    \E s \in slot :
        /\ \/ ResetAndStop(s, s.retry)
           \/ s.retry + 1 <= MaxAllowedFailures /\ ResetAndStop(s, s.retry + 1)
           \/ s.retry + 1 > MaxAllowedFailures /\ Completes(s, "FileFailed", "Failed")
        /\ UNCHANGED <<disk, tasks, ready, aborted, count>>

\* Slip: the chunk loop puts the file back as if nothing had been sent.
ChunkLoopForgets ==
    \E s \in slot :
        LET status == SendStatus("Pending", NoData) IN
        /\ s.status.tag = "Sending"
        /\ queue' = Append(queue, PendingFile(s.file, status, s.retry))
        /\ slot' = {}
        /\ Reports(Report("FileSendReset", s.file, status, NoCount))
        /\ UNCHANGED <<disk, tasks, ready, seen, aborted, count>>

\* The chunk loop could not send: the report leaves the retry count alone.
ChunkLoopInterrupts ==
    \E s \in slot :
        LET status == SendStatus("Interrupted", s.status.data) IN
        /\ s.status.tag = "Sending"
        /\ queue' = Append(queue, PendingFile(s.file, status, s.retry))
        /\ slot' = {}
        /\ Reports(Report("FileSendReset", s.file, status, NoCount))
        /\ UNCHANGED <<disk, tasks, ready, seen, aborted, count>>

-----------------------------------------------------------------------------
(***************************************************************************)
(* The reports, each handled by a task of its own.  A handler panics if    *)
(* the update fails, which the release build does not survive.             *)
(***************************************************************************)
\* The update; `then` is the task the handler goes on with.
Applies(r, then) ==
    /\ \/ /\ CanUpdate(rows, r.file, r.status, r.count)
          /\ rows' = [rows EXCEPT ![r.file] = UpdatedRow(@, r.status, r.count)]
          /\ actions' = Takes(actions, r)
          /\ tasks' = tasks (+) SetToBag(then)
          /\ UNCHANGED <<tracker, ready, seen, aborted>>
       \/ /\ ~CanUpdate(rows, r.file, r.status, r.count)
          /\ Aborts(IF r.file \in DOMAIN rows THEN "constraint" ELSE "row gone")
          /\ UNCHANGED rows
    /\ UNCHANGED <<remotes, sources, used, count>>

HandleFileSending(r) == r.kind = "FileSending" /\ Applies(r, {})

HandleFileSendReset(r) == r.kind = "FileSendReset" /\ Applies(r, {})

HandleFileSent(r) ==
    r.kind = "FileSent" /\ Applies(r, {Task("Count", r.file, NoFile)})

HandleFileNotSent(r) ==
    /\ r.kind \in {"FileRejected", "FileFailed", "FileMissing"}
    /\ Applies(r, {Task("Count", r.file, NoFile)})

HandleFileIoError(r) ==
    r.kind = "FileIoError" /\ Applies(r, {Task("Count", r.file, NoFile)})

HandleReport(r) ==
    \/ HandleFileSending(r)
    \/ HandleFileSendReset(r)
    \/ HandleFileSent(r)
    \/ HandleFileNotSent(r)
    \/ HandleFileIoError(r)

\* try_cleanup_source_file reads the path right after the update, counts, and
\* removes; the reading only serves to find out the path.
CleanupCounts(f) ==
    /\ BagIn(Task("Count", f, NoFile), tasks)
    /\ IF CountNonTerminalForPath(rows, f) = 0
       THEN Becomes(Task("Count", f, NoFile), Task("Remove", f, NoFile))
       ELSE Finishes(Task("Count", f, NoFile))
    /\ UNCHANGED <<disk, tracker, actions, ready, seen, aborted, count>>

CleanupRemoves(f) ==
    /\ BagIn(Task("Remove", f, NoFile), tasks)
    /\ sources' = sources \ {PathOf[f]}
    /\ Finishes(Task("Remove", f, NoFile))
    /\ UNCHANGED <<remotes, rows, tracker, actions, ready, used, seen, aborted, count>>

\* The sweep takes what is old, whether it is still to be sent or not.
SweepOutgoingFiles(p) ==
    /\ p \in sources
    /\ sources' = sources \ {p}
    /\ seen' = [seen EXCEPT !.swept = @ \cup {p}]
    /\ Trouble
    /\ UNCHANGED <<remotes, rows, tracker, actions, tasks, ready, used, aborted>>

-----------------------------------------------------------------------------
(***************************************************************************)
(* The start of the program, and its end at any time.                      *)
(***************************************************************************)
Crash ==
    /\ Trouble
    /\ Stops
    /\ UNCHANGED <<disk, aborted>>

\* LocalEventLoop::new tells the brain before the loop begins.
EventLoopStarts ==
    /\ ready.stage = "starting"
    /\ ready' = Idle("told")
    /\ UNCHANGED <<disk, tracker, actions, tasks, seen, aborted, count>>

ReadyReadsRemotes ==
    /\ ready.stage = "told"
    /\ ready' = [Idle("remotes") EXCEPT !.remotes = remotes]
    /\ UNCHANGED <<disk, tracker, actions, tasks, seen, aborted, count>>

\* Slip: only files that were never offered are taken up.
PendingRowsOnly(R) ==
    {f \in DOMAIN rows : rows[f].tag = "Pending" /\ rows[f].target \in R}

\* The active files whose remote filerequest was among the ones read.
ContinuableFiles(R) ==
    {f \in DOMAIN rows : rows[f].tag \in ActiveTags /\ rows[f].target \in R}

ReadyReadsPendingFiles ==
    /\ ready.stage = "remotes"
    /\ ready' = [ready EXCEPT
           !.stage = "reset",
           !.files = {PendingFile(f, FromDbColumns(rows[f]), rows[f].retry) :
                        f \in ContinuableFiles(ready.remotes)}]
    /\ UNCHANGED <<disk, tracker, actions, tasks, seen, aborted, count>>

IsSending(p) == p.status.tag = "Sending"

Interrupted(p) == [p EXCEPT !.status.tag = "Interrupted"]

\* One by one; a row that was deleted in between is missed.
ReadyResetsFile(p) ==
    /\ ready.stage = "reset" /\ p \in ready.files /\ IsSending(p)
    /\ \/ /\ CanUpdate(rows, p.file, Interrupted(p).status, NoCount)
          /\ rows' = [rows EXCEPT ![p.file] = UpdatedRow(@, Interrupted(p).status, NoCount)]
          /\ ready' = [ready EXCEPT !.files = (@ \ {p}) \cup {Interrupted(p)}]
          /\ UNCHANGED <<tracker, actions, tasks, seen, aborted>>
       \/ p.file \notin DOMAIN rows /\ Aborts("row gone") /\ UNCHANGED rows
    /\ UNCHANGED <<remotes, sources, used, count>>

\* P2pCommand::InitialFilesToSend
ReadySendsInitialFiles ==
    /\ ready.stage = "reset"
    /\ \A p \in ready.files : ~IsSending(p)
    /\ queue' = queue \o SetToSeq(ready.files)
    /\ ready' = Idle("done")
    /\ UNCHANGED <<disk, slot, actions, tasks, seen, aborted, count>>

-----------------------------------------------------------------------------
Init ==
    /\ remotes = {} /\ rows = [f \in {} |-> NewRow("", "")]
    /\ sources = Paths
    /\ queue = <<>> /\ slot = {}
    /\ actions = EmptyBag /\ tasks = EmptyBag
    /\ ready = Idle("starting")
    /\ used = {}
    /\ seen = [ended |-> {}, dropped |-> {}, deleted |-> {}, late |-> {}, swept |-> {}]
    /\ aborted = "never"
    /\ count = [offers |-> 0, troubles |-> 0]

ClientStep ==
    \/ \E t \in Targets :
          \/ CreateRemoteFilerequest(t) \/ CreatePendingFiles(t) \/ DeleteRemoteFilerequest(t)
    \/ \E f \in Files : DeletePendingFile(f)

TrackerStep ==
    \/ OfferNewTransfer \/ OfferContinueTransfer \/ OpenFileForReadingFails
    \/ PeerAccepts \/ PeerConfirmsChunk \/ TransferEnds
    \/ TransferResets \/ ChunkLoopInterrupts

BrainStep ==
    \/ \E t \in Targets :
          \/ InsertPendingFiles(t) \/ SendFiles(t)
          \/ CancelFilesForRemoteFilerequest(t) \/ DeleteRemoteFilerequestRow(t)
    \/ \E f \in Files :
          \/ CancelFile(f) \/ DeletePendingFileRow(f)
          \/ CleanupCounts(f) \/ CleanupRemoves(f)
    \/ \E r \in BagToSet(actions) : HandleReport(r)
    \/ \E p \in Paths : SweepOutgoingFiles(p)

StartStep ==
    \/ Crash \/ EventLoopStarts
    \/ ReadyReadsRemotes \/ ReadyReadsPendingFiles \/ ReadySendsInitialFiles
    \/ \E p \in ready.files : ReadyResetsFile(p)

Next == ClientStep \/ TrackerStep \/ BrainStep \/ StartStep

Spec == Init /\ [][Next]_vars

-----------------------------------------------------------------------------
(***************************************************************************)
(* Properties.                                                             *)
(***************************************************************************)
Tracked(f) ==
    (\E s \in slot : s.file = f) \/ (\E i \in 1 .. Len(queue) : queue[i].file = f)

\* Somebody is about to do something about the file.
Attended(f) ==
    \/ \E r \in BagToSet(actions) : r.file = f
    \/ \E k \in BagToSet(tasks) : k.file = f \/ k.target = TargetOf[f]

\* Once the program has started, a file that is still to be sent is in the
\* tracker, or on its way into or out of it, whatever clients, reports and
\* restarts did; unless its end was reported and an older report was applied
\* later, or it could not be continued (handle_action.rs:1017, :387, :467).
NotForgotten ==
    ready.stage = "done" =>
        \A f \in DOMAIN rows :
            rows[f].tag \in ActiveTags =>
                Tracked(f) \/ Attended(f) \/ f \in seen.ended \cup seen.dropped

\* The source of a file that is being sent is there, although others with the
\* same source end or fail, in any order, unless the sweep took it, a row with
\* that source was deleted, or the row was made when the last of the others had
\* been counted already (handle_action.rs:1567, actor.rs:1287).
SourceKept ==
    \A f \in DOMAIN rows :
        /\ rows[f].tag \in ActiveTags /\ Tracked(f)
        /\ f \notin seen.ended \cup seen.late
        /\ \A g \in seen.deleted : PathOf[g] # PathOf[f]
        /\ PathOf[f] \notin seen.swept
        => PathOf[f] \in sources

\* No order of the tracker's reports makes an update that the constraint of the
\* table refuses: the handlers' expect can only fail for a row that is gone
\* (handle_action.rs:1119, schema.rs:82).
UpdatesRespectTheTable == aborted # "constraint"
=============================================================================
