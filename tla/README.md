# A TLA+ verification project for Fyles

Fyles sends files directly between devices. A user publishes a *filerequest* (an
inbox), a contact drops files into it, and the two programs move the files over an
encrypted, authenticated connection that may break at any time. This directory holds
TLA+ models of the parts of `fyles_service/` where that is hard to get right, the TLC
configurations that check them on small instances, and TLAPS proofs, for every size, of
the safety properties of nine of them.

Paths below are relative to `src/fyles_service/` unless they start with `src/`.
`PROJECT.json` holds, for every definition that models code, the lines it models; the
runs; one mutant per property; the hazards; and the theorems.

## 1. The system: inventory

| Part | State it keeps | Operations | Modelled in |
|---|---|---|---|
| Rolling nonce window (`crypto/src/rolling_nonce_window.rs`) | send counter, lower bound, ring of 100 bits | `get_next_send_nonce`, `validate` | `RollingNonceWindow`, `NonceWindow` |
| Chunk windows (`p2p/src/event_loop/filerequest/send_manager.rs`, `receive_manager.rs`) | two rings of 10 slots, progress, file position | `send_next_chunk`, `receive_ack`, `set_progress`; `store`, `reset` | `SendManager`, `ReceiveManager`, `ChunkWindow` |
| File tracker (`.../filerequest/file_tracker.rs`) | per peer: a queue of pending files and one sending slot, behind a lock | one handler per response, error, timeout, disconnect, command; the chunk loop | `FileTracker` |
| Filerequest receiver (`.../filerequest/receive_manager.rs`) | per peer: one transfer in memory, with an open file | `respond_to`, one arm per request | `FilerequestReceiver` |
| Sending over a session, request registry (`p2p/src/send_receive_traits/session_send_receive.rs`, `request_registry.rs`, `session_responder.rs`) | open requests with their retry data, timers, a command queue and a waker per protocol | send, register, answer, retry, time out | `RequestRegistry` |
| Session establishment (`p2p/src/send_receive_traits/get_session.rs`, `p2p/src/crypto.rs`) | sessions in use, sessions they replaced, builds in progress and who waits for them, the own identity | look up, join, build, answer, store, expire, clear, `update_identity` | `Session` |
| Expiring maps (`p2p/src/data_structures/`) | entries with idle timers or leases | get, entry, remove, cleanup | their effect on their users only |
| P2P event loop (`p2p/src/event_loop.rs`) | the swarm, registries, trackers | dispatch of events to tasks | the paths to the parts above |
| Brain: files to send (`core/src/core/brain/handle_action.rs`, `stale_cleanup.rs`) | rows of `pending_files` and `remote_filerequests`, copies of the sources | create, delete, one handler per report of the tracker, `Ready`, the sweep | `PendingFilesTable`, `Outbox` |
| Brain: start, identity, challenges (`core/src/core/brain.rs`, `handle_action.rs`) | node keys, self contact, calls that wait for the start, two sets of challenges | `GetNodeInfo`, `Ready`, `WaitForReady`, `UpdateIdentity`, validate and answer a challenge, restore | `Identity` |
| Brain: filerequests and received files (`handle_action.rs`, `core/src/core/filerequest_drive_handler.rs`) | rows of `filerequests` and `received_files`, a directory per title | create, rename, delete, drop a file, finalise | `Library`; the rows of a transfer in progress in `FilerequestReceiver` |
| Database (`core/src/library/sqlite/actor.rs`, `schema.rs`) | the tables | SQL statements, one at a time | the statements the parts above use, in their modules |
| Schema migrations (`core/src/library/sqlite/migrations.rs`, `migrations/all_migrations.rs`) | the version in the database | every migration in its transaction; open, save, restore | `Migrations` |
| Host file system (`direct_host_utils/`) | part files, directories, received files, copies of sources | open for append, remove, rename, choose a free name | in `FilerequestReceiver`, `Library`, `Outbox` |
| API server, contacts and settings, daemon, i18n | - | - | not modelled (section 9) |

How they interact on the way of a file:

1. A client asks the brain to send a file. The brain makes a row and adds the file to
   the tracker. When the peer is there, the tracker takes the first file of the queue
   into the sending slot and sends `NewTransfer`, or `ContinueTransfer` if an earlier
   attempt was interrupted.
2. To send anything a node needs a session with the peer; whoever finds none starts to
   build one, and the others wait for it. A request is encrypted, handed to libp2p,
   registered with a timer, and reported once: by an answer, an error or a timeout. One
   that the peer could not read is sent again over a new session.
3. The receiver asks its brain for access, opens a part file, makes a row, and answers.
4. Each answer starts a *chunk loop* in the sender that sends chunks while the window of
   ten is open. Chunks and confirmations are separate request/response streams: they
   come in any order, late, or never. The receiver buffers what is early and writes in
   order.
5. When all is confirmed the sender sends `Done`; the receiver moves the part file into
   the directory of the filerequest, completes the row and confirms; the sender tells
   its brain and takes the next file. The brain updates the row and removes the copy of
   the source if nothing else needs it.
6. Errors, timeouts and disconnects push the file back into the queue with its progress.

What makes it hard: every event is handled by a task of its own, and the tasks of one
peer only share a lock, which two of them give up half-way; a request that was given up
may still be answered, and one that failed still times out; answers are matched to the
peer's slot and not to the transfer they are about; the index of a chunk starts again at
0 with each attempt; status updates are handed to the brain without waiting, and its
tasks interleave between any two calls of the database or the file system; both peers
may build a session at once; the identity may change meanwhile; and the program may die
anywhere and start again with what the database and the disk hold. The hazards, each
with its line and the properties that watch it, are in `PROJECT.json`.

What correctness means, part by part: no nonce is accepted twice; the part file is a
prefix of the file and `Done` is said only when it is whole; every file that enters the
tracker leaves it once, and the slot is never taken for ever; the receiver's books agree
with its disk and a received file never changes; progress counted by the sender is on
the receiver's disk; a request is not run twice and never goes unreported; both ends of
a session have the same secret, it belongs to who signed for it, and everybody who waits
for one is answered; a row that says a file is to be sent is not forgotten and its
source is there; an old database becomes one the program can use, with its rows; a node
keeps its peer id and signs as its database says; received files survive renaming.

## 2. Modules

```
RollingNonceWindow <- NonceWindow <- MCSession, Session_proofs
SendManager, ReceiveManager <- ChunkWindow -> FileCopy (abstract)
                               ChunkWindow <- ChunkWindow_proofs
SendManager    <- FileTracker <- MCFileTracker, FileTracker_proofs
ReceiveManager <- FilerequestReceiver <- MCFilerequestReceiver, FilerequestReceiver_proofs
FileTracker    <- FileTransfer <- MCFileTransfer      FileTransfer -> FilerequestReceiver (INSTANCE)
FileTransfer, FileTracker_proofs <- FileTransfer_proofs -> FilerequestReceiver_proofs (INSTANCE)
PendingFilesTable <- Outbox <- MCOutbox, Outbox_proofs
Migrations <- MCMigrations <- MCOutbox
RequestRegistry <- MCRequestRegistry, RequestRegistry_proofs
Session  <- MCSession, Session_proofs
Library  <- MCLibrary
Identity, Library <- Brain_proofs
```

`MCSession` and `MCOutbox` each explore two models that share no state in one run:
sessions and the nonce filter, the files to send and the migrations.

**RollingNonceWindow** is the ring of bits: `Verdict` and `AfterIsValid` are the two
results of `is_valid`, `Slide` its loop. **NonceWindow** puts a sending counter and a
network in front of it that offers any nonce, any number of times: `decrypt` validates a
nonce before it authenticates the message, and every recent session is tried, so what is
offered need not have been sent with this session.

**SendManager** and **ReceiveManager** are the two windows as operators on records, one
operator per method: `MarkDone` slides over the acknowledged beginning, `StoreResult`,
`AfterStore` and `AppendedByStore` are what `store` answers, keeps and writes. A *unit*
stands for the bytes of one chunk; unit `i` of the source file has the content `i`, so
that a misplaced or repeated chunk is visible in the part file.

**ChunkWindow** is one attempt between the two: requests and confirmations as sets from
which anything may be taken in any order or left. **FileCopy** is what it promises: a
file that is copied in order, the first units first, and then reported.

**FileTracker** is one peer's entry. A member of `Files` is one call of
`add_pending_file`, `IdOf` the pending file it names: the code does not look whether
that one is queued already. `entry`, `pending`, `sending` are the map entry; `net` is
the request registry as the tracker sees it; `tasks` counts the tasks that wait for the
lock in the places where a handler gives it up; `outcomes` and `cancelled` record what
the brain is told and what it told. Every handler is one action that includes the
`send_next` / `complete_file` / `reset_and_stop` it ends in. `service` becomes `Stuck`
where the code asks for a lock it holds, `Aborted` where it panics. A response may be
handled before its request is registered (`AfterResponse`): then its id is unknown, a
confirmed chunk ends in `reset_all_on_internal_error_for` (`ConfirmUnknown`,
`ResetOnInternalError`), and the registration that follows stays until it times out.

**FilerequestReceiver** is the other side: `receiving` is the entry of
`receiving_files`, `parts` and `received` are the disk, `rows` is the table, `updates`
the status updates handed to the brain. The arms of `respond_to` have the answer as a
parameter, so that the same definitions serve for a peer that sends anything
(`RespondTo`) and for the composed system.

**FileTransfer** composes the tracker and the receiver. A request registered by a step
of the tracker is put on the wire with what the code puts into it; the receiver handles
it once, at any later time; the answer reaches the tracker while the request is still
registered. Attempts overlap as they do in the code; `disturbed` records whether a file
was offered while something of an earlier attempt was still under way, and whether an
internal error had the peer abort a transfer that the queue keeps.

**PendingFilesTable** is the table of files to send with its constraint and the
statements on it, as operators on the value of the table. **Outbox** is the brain around
it: `rows`, `remotes` and `sources` survive a crash; `queue` and `slot` are the tracker
reduced to what the brain sees; `actions` is the bag of reports the brain has not
handled, `tasks` the handlers between two of their statements, `ready` the handler of
`Ready` between its calls. `seen` keeps the facts that the exceptions in the properties
are about.

**RequestRegistry** follows a request from `send_request` to the report: `task` is what
the sending task does next (get a session, encrypt and send, register), `wire` where
the request or its answer is, `register` the map of open requests, `queue`, `timers`,
`waker` and `polls` the timeout worker of each protocol as a stream that the event loop
polls when it is woken. **Session** is what it takes as one step: callers at two nodes,
`store` the sessions in use, the cache of the ones they replaced, the builds in progress
with their waiters, the tasks of either side, and `update_identity` in its single writes.

**Identity** is the start of a node and who it is: `node_keys` and `self_contact` are
tables, `signs_as` the identity of the running network node, `calls` the callers of
`WaitForReady`, `challenges` the two sets in memory, `updates` the tasks of
`UpdateIdentity`, `locked` whether a task has locked `ephemeral_data` against itself.

**Library** is the other half of receiving: rows of filerequests, the directories that
bear their sanitised titles, and the files in them; `creating` and `updating` are
handlers between their database and file-system calls, `receiver` the call that holds
the receiver's lock.

**Migrations** has one operator per migration, in terms of a few statements (`Rebuild`,
`RelaxChecks`, adding and dropping columns and tables); a table is its columns, its
foreign keys and its rows. The state is the database file, a backup, and what the
process has planned since it read the version.

**Slips.** A definition whose comment begins with "Slip:" is a plausible mistake in the
code, kept next to what it would replace. None is part of a specification; each is used
to make sure that a property can fail (the `mutants` of `PROJECT.json`).

## 3. Runs

| Run | Question | Result |
|---|---|---|
| `chunk_window` | Do the two windows stay in step under any order of delivery; is the part file a prefix; does the whole implement `FileCopy`; does it end? | holds |
| `tracker` | A pending file queued twice and every kind of failure: is what a call queued ever lost, ended twice, or left in the slot with nobody to free it? | holds, lost in two named ways only |
| `receiver` | Any request at any time, expiry, restart, cleanup, deleted rows: do the books match the disk, do received files stay as they are? | holds |
| `transfer` | Both ends, several attempts: is counted progress on disk, is a sent file there, is the part file a prefix? | holds, progress and prefix until attempts overlap (progress: or an internal error aborts one) |
| `part_is_prefix` | The same without that exception: is a part file always a prefix? | violated |
| `outbox` | Reports in any order, clients, sweep, crashes: is every file that is to be sent in the tracker or on its way, is its source there, does no update break the table's constraint? Any database a release can have written, crashes between migrations, backups: does every migration succeed, is the result usable and without orphans, are its rows kept? | holds; migrations from 1.8.0 (rows: from 1.13.0) |
| `session` | Both nodes build sessions at once, messages are lost or late, the identity changes: same secret, right contact, readable by the peer, nobody waits for ever? In an established one: is a repeated, late, reordered or foreign nonce ever accepted twice, and is exactly what should be refused? | holds |
| `registry` | Broken sessions, timeouts, events before the registration, a worker that is not woken: resent once, run once, always reported? | holds; run once unless the peer could not encrypt its answer |
| `run_twice` | Is a request that is sent again always one the peer has not run? | violated |
| `identity` | Crashes anywhere between start, ready, invites and updates: one peer id (until another installation's backup is restored), no invite answered twice, network and database agree, queued calls answered? | holds |
| `library` | Filerequests renamed and deleted while files arrive, under colliding titles: is a received file ever lost, a row ever orphaned? | holds |
| `pending_files_lost` | Do the files to send survive the migration to 1.13.0? | violated |

`pending_files_lost`: the migration that removes `requires_authentication` rebuilds
`remote_filerequests` and switches foreign keys off around it, but a migration runs
inside a transaction, where that pragma has no effect. Dropping the old table deletes
its rows, and `ON DELETE CASCADE` deletes every pending file with them.

`part_is_prefix`: the sender gives up a chunk, continues the transfer, and the chunk
arrives after the receiver has begun a new window at index 0: it is stored as a chunk of
the new attempt. `networking.md` says that a chunk has its offset; it has an index within
its attempt and nothing that says which attempt. `PartIsPrefixWithoutOverlap` shows that
there is no other way.

`run_twice`: `decrypt_respond` runs the request and then encrypts the answer; if that
fails the peer hears `CryptError`, the same as for a request that nobody could decrypt,
and sends it again. The comments on `RemoteReceiveError` and `send_request` say that
such a request cannot have been read. `NotProcessedTwice` shows that there is no other way.

`PROJECT.json` ("findings") quotes both sides of each. Where other properties hold only
with exceptions, the exceptions are written into the property, and section 7 says what
the code does there.

### Bounds, and why they are enough

* `NonceWindow` (in `session`): a window of 4 and 12 nonces: the window turns three times
  and reaches the end of the nonce space. (100 and 2^63 in the code; the proofs cover them.)
* `ChunkWindow`: a window of 4, a file of 11 units continued at 2: more than two turns,
  a last window that is not full, a resume. The proofs cover all sizes.
* `FileTracker`: two calls of `add_pending_file` for one pending file, three requests,
  files of one unit, all kinds of failure; enough for one to be reset, cancelled or ended
  while the answers, errors and timeouts of its requests are still to come for the other.
  `MaxRequests` bounds every behaviour; `FailingSends`, `Unreadable`, `BrainAnswers`,
  `Contacts` and `OddAnswers` choose the failures, `EarlyAnswered` the requests whose
  response may overtake their registration. The two calls are interchangeable, so they
  are a symmetry set. The proofs cover any calls, pending files and bounds.
* `FilerequestReceiver`: two transfers of two units, two contacts behind one peer, every
  index from 0 to beyond the window; one of the transfers is old enough for the cleanup,
  the other may be continued under another filerequest (`Elsewhere`).
  One update at a time waits for the brain; two received files. The contacts are
  interchangeable (no definition tells one from the other), so they are a symmetry set.
* `FileTransfer`: one file of two units, a window of two, five requests, one request
  that fails or times out or one disconnect (the receiver's refusals, internal errors,
  expiry and restart come on top and are not bounded by that). Five requests
  are enough for: offered, two chunks, interrupted, continued, `Done`, and
  for a chunk given up that arrives after the continuation. A behaviour is
  followed until the file has left the tracker (`FileInTracker`): nothing is offered after
  that, and what the receiver does with the requests still under way is the business of
  `receiver`. About 1.5 million states. The proofs have no such bound.
* `Outbox`: two files with one source and one target, which is what makes siblings
  matter; two files taken into the slot, two reports that wait (enough for any two to
  change places), two restarts, deletions or sweeps, no failure tolerated before a file
  is given up. About 2.5 million states. The proofs cover any files, targets and sources.
* `Migrations` (in `outbox`): every release with a migration of its own, every table
  with one row or none and all the ways a row could refer to a peer in some release, one
  crash. Each migration treats rows alike, so a second row of a table adds nothing.
* `Session`: two callers at one node (a builder and one that joins, in either order),
  one at the other (both sides build at once); one node may change its identity to one
  that its peer does not know; one expiry, clearing or change.
* `RequestRegistry`: a chunk, which is idempotent, and an invite, which is not, in two
  protocols with workers of their own; a request is sent twice at most in the model as
  in the code, and two sessions are enough for the second sending to have a new one.
  That `MaxAttempts` does not hide a third sending is what the mutant of `RetriedOnce`
  shows.
* `Identity`: two identities and key pairs, two clients of which one may be queued, one
  invite and one shared contact, two updates at once; a backup restored has any of the
  key pairs and identities.
* `Library`: two filerequests, which share a directory whenever their titles are equal;
  two transfers of files with one name; three titles, of which one is sanitised and one
  leaves no name; two updates, so that they may overlap or follow each other, one at a
  time for each filerequest (two that share a directory give the same interleavings on
  disk); one variation of a name before the search is given up. Requests and transfers
  are symmetry sets. A behaviour is followed until the race that `FilesKept` excepts
  (`UntilRaced`); the rows do not depend on it. About 4.1 million states.

`CHECK_DEADLOCK FALSE` is set where behaviours end: when a bound (`MaxRequests`,
`MaxOffers`, `MaxAttempts`) is used up, when every caller has returned, when the
migrations failed, and when the service is stuck or aborted.

### Fairness

* `ChunkWindow` (`EventuallyConfirmed`): the chunk loop, the task of each request and of
  each confirmation, and `Done` each go on when they can. The runtime schedules every
  spawned task, and the property is about the case that nothing is lost: a lost request
  ends the attempt by its timeout, which is the tracker's business.
* `Session` (`EveryCallerReturns`): the tasks go on, and libp2p ends every request it
  has accepted, by an answer or a failure. No answer is relied on.
* `RequestRegistry` (`EveryRequestReported`): the sending task registers, timers run
  out, a worker that is to be polled is polled, and the event loop is woken again and
  again by something: mDNS, the connections' keep-alives and other timers of the swarm
  never stop. Without that last one the property fails, since `poll_next` may leave no
  waker behind (section 7).
* `Identity` (`QueuedCallAnswered`): the tasks go on; those that must take the lock of
  `ephemeral_data` are strongly fair, since tokio's lock serves in order of arrival and
  a challenge being answered holds it again and again, but never for ever.

That a *file* eventually arrives is not claimed: a peer may never be reachable, and a
file that failed too often is given up on purpose.

## 4. What the properties say

* `NoReplay`, `WindowIsExact`: whatever is offered, the ring behaves like a filter that
  remembers all nonces.
* `NoPanicInMarkDone`, `NoProtocolViolation`, `FileIsPrefix`, `ProgressIsHonest`,
  `DoneMeansComplete`: inside one attempt no assertion of the sender fails, an honest
  sender is never refused, and sender and receiver mean the same by progress and done.
* `OneFate`: what one call of `add_pending_file` queued is in the queue once, or in the
  slot, or gone with one outcome, or cancelled. `NoFileVanishes`: it does not go without
  one, except when `ContinueTransfer` cannot be sent and when `RejectChunk` comes for a
  slot that is not sending. `SlotNeverStranded`: while the slot is taken, a request *of
  this attempt* is open or a task is about to look at the slot; this is what lets the
  queue move on.
* `BooksMatchDisk`: the offset the receiver would answer is the length of the part file.
  `ReceivedFilesAreFinal`: what is in the filerequest's directory is of the declared
  size and stays as it is, although its transfer may stay in memory with the file open.
  (It may be empty if its transfer was continued under another filerequest: section 7.)
* `ProgressIsKept`, `SentMeansReceived`, `PartIsPrefixWithoutOverlap`: the same across
  attempts. The first ends with an overlap or an internal error, the last with an overlap
  (`disturbed`); `PartIsPrefix`, without exception, is violated.
* `NotForgotten`: after the start, an active row has its file in the tracker or on its
  way. Excepted are files whose end was reported before an older report was applied, and
  files that could not be continued. `SourceKept`: the source of such a file is there,
  unless a row with that source was deleted, the sweep took it, or the row was made when
  the last of the others had already been counted and the copy was about to go.
  `UpdatesRespectTheTable`: reports out of order never make an update the `CHECK` of the
  table refuses, which would abort the program.
* `UsableSchema`, `NoOrphans`, `Upgradable`, `RowsKept`: what a migrated database is.
* `AttributedToSigner`: no interleaving with `update_identity` attributes a session to a
  contact that did not sign for it. `KeyAgreement`: both shares of a session come from
  one exchange, unless a build was dropped while its request was open. `PeerCanRead`:
  what the initiator uses the responder still has, in use or in the cache, although
  both may have replaced what the other had just stored.
* `NotProcessedTwice`, `RetriedOnce`, `EveryRequestReported`: at most once where it
  matters, one retry, and no request that is never heard of again. The first excepts
  requests that were run and whose answer could not be encrypted (`unsealed`);
  `UnreadWhenResent`, without exception, is violated.
* `InviteAnsweredOnce`: an invite, which gives away private keys, is used up before it is
  answered. `OnePeerId`: key pairs are stored before they are used, so a crash between
  the two never changes the peer id; a restored backup with other keys does, and the
  property begins anew there. `IdentityAgrees`: with no update under way the
  network signs as the database says. `QueuedCallAnswered`: the start answers them all.
* `FilesKept`: no renaming and no other file takes a received file from the disk,
  except in the race of `finalize_partial_file` (section 7). `NoOrphanRows`.

## 5. Proofs

Each `X_proofs` proves theorems of the specification `X` (`Brain_proofs`: of `Identity`
and of `Library`; `Session_proofs`: of `NonceWindow` too) that the runs check, with no
assumption but the `ASSUME` of `X` and of the modules it extends, which TLC evaluates in
every run. None of them bounds a size: the counters that TLC needs (`MaxRequests`,
`MaxUpdates`, `MaxTroubles`, ...) are any natural numbers. Where a property is not
inductive by itself, the module has an inductive invariant `IInv`, a conjunction of named
parts; a lemma per action says that it is kept, and the theorems follow from it.

`Session_proofs`, of `NonceWindow` (`WindowSize \in Nat \ {0}`, `NonceSpace \in Nat`):

* `ReplayFilter` (`NoReplay`), `ExactWindow` (`WindowIsExact`), `NonceTypes` (`TypeOK`),
  for any nonces offered, sent or not.
* `NoReplay` is not inductive: a slot is used again by the nonce a window further on.
  The inductive invariant adds that everything below the lower bound was accepted, that
  the slot of the lower bound is valid, that inside the window a slot is invalid exactly
  for an accepted nonce, and that nothing above the window was accepted. The case that
  matters is the nonce at the lower bound: `Slide` is shown to stop within one turn at
  the first nonce not accepted (`SlideTargetExists`), so the slots it passes can be
  handed on.

`ChunkWindow_proofs` (`ParallelChunks \in Nat \ {0}`, `FileUnits \in Nat`,
`StartAt \in 0 .. FileUnits`):

* `MarkDoneNeverPanics`, `HonestSenderNeverRejected`, `PartFileIsPrefix`,
  `DoneOnlyWhenComplete`, `ReportedProgressIsWritten`, `ChunkTypes`, and
  `TransferImplementsCopy`: the refinement of `FileCopy`, by initial states and steps.
* The parts: `SenderInv` (which slot of the ring is in which state, and which request
  owns it), `RequestsInv` (every chunk under way is one that was sent, with the unit that
  belongs to its index), `ReceiverInv` (the buffered chunks are in the window and are the
  right ones), `AcksInv` (an answer under way is for a chunk the receiver has), `FileInv`
  and `PhaseInv`. The step that needs them all is a chunk that fills the gap and lets the
  receiver write a run of buffered ones; `WindowsOverlap` says that neither window is
  ever a whole turn ahead of the other, which is why indices modulo the size do not
  collide.

`FileTracker_proofs` (`ParallelChunks` as above, `FileTrackerAssumption`):

* `FilesHaveOneFate` (`OneFate`), `FilesDoNotVanish` (`NoFileVanishes`, of every step) and
  `SlotsAreServed` (`SlotNeverStranded`).
* That the slot is served needs to know, of the window in it, that its first chunk is
  pending and that a pending chunk has a request (`WindowInv`), and of that request that
  it is open, of this attempt and a chunk (`ChunksAwaited` in `WaitInv`): only then does a
  confirmation that does not open the window leave another one to wait for. An error or a
  timeout takes away a request that was waited for, and each such handler must reset the
  transfer or leave a task that will; the disjuncts `Resetting` and `Looping` are those
  tasks. `QueueInv`, `SlotOK`, `OutcomesInv` and `EntryInv` are where a file may be at
  once; `NetOK` that an id names one request, so that an answer is for what it says.
* The handlers share what they end in, and so do the proofs: one lemma for each of
  `send_next`, `complete_file`, `reset_and_stop`, `stop_sending`, ... says which parts it
  keeps and which files it may take away; the lemma of a handler combines them.

`FilerequestReceiver_proofs` (`ParallelChunks` as above, `ReceiverAssumption`):

* `OffsetIsPartLength` (`BooksMatchDisk`), `ReceivedFilesStay` (`ReceivedFilesAreFinal`, of
  every step), and `PartsNeverOutgrow`: no part file is longer than was declared.
* A received file stays as it is because a handle on it can write nothing more: its
  transfer has all the units that were declared (`HandleInv`), and `store` refuses what
  goes beyond them (`PartsFit`). Only a request that continues it under another filerequest
  can have a part file made anew beside it, which is empty (`MadeAnew`). The books match
  because two requests cannot have the
  same part file under two names (`NamesInv`) although the name contains the contact that
  asked, and because a handle whose file was removed is not one of a part file that was
  made anew under its name (`HandleInv` again).

`FileTransfer_proofs` (the assumptions of the tracker, and `TransferAssumption`: the
bounds are natural numbers, and `"target"` is one of the contacts). It takes the invariant
of the tracker as it is, and the proofs of the receiver as an instance `RP` for what this
sender may ask; the `Same...` lemmas say that the receiver of `FileTransfer`, an instance
over smaller sets, takes the steps of that one.

* `SentFilesArrived` (`SentMeansReceived`), whether or not attempts overlap. A
  confirmation of `Done` may be late and complete another file than the one it was for
  (section 7), so the property counts: `SentInv` finds for the files that were reported
  and the confirmations still under way together that many received files of full
  length: the receiver confirms only as it adds one, and the sender reports only as it
  takes a confirmation. `WireOK` and `RepliesOK` say that a message is of the kind of the
  registered request with its id and a reply an answer to that kind, so that nothing else
  is taken for a confirmation. With the two halves they are `BothEndsInv`.
* `PartsArePrefixes` (`PartIsPrefixWithoutOverlap`): a theorem of the system as it is, with
  attempts that overlap; what it says ends at the first overlap, where `PartIsPrefix` is
  false. `Apart => PrefixInv` is what is inductive, and `StaysApart` says that a step that
  is no overlap begins an attempt only when nothing of an earlier one is under way.
  `PrefixInv` follows an attempt through its phases: while an offer is
  under way there are no chunks, no acceptance and no chunk loop (`LoopInv`, `OfferInv`);
  who accepts begins where the sender will begin (`AcceptInv`); between the index of a
  chunk and its unit lies the same distance at both ends from then on (`LiveInv` for the
  sender's window, `ChunkInv` for the wire, `BufferInv` for what the receiver has not
  written yet). The step that needs them is the chunk that closes a gap: the run it
  releases is shown to be consecutive (`BufferedUpToInTurn`) and to begin where the part
  file ends, for which the books of the receiver must match its disk.
* `ProgressKept` (`ProgressIsKept`) where `InterruptedAt \subseteq {0}`, and as the
  property says until `disturbed`: an overlap, or an internal error, whose abort takes
  the part file of a transfer that the queue keeps. The receiver of `TransferInit`
  starts with an empty disk, so that a file with progress from a run of the program
  before the first state has nothing there to be kept. (The run has `InterruptedAt =
  {}`; interruptions and restarts after the first state are covered by both.) The
  property alone is not inductive: the tracker moves its count when it takes a
  confirmation, long after the chunk was written, and it may have taken later ones
  first. `ProgressInv` adds: a transfer begun by this program is the transfer of one
  file (`ItemsInv`) and no abort under way names a transfer that a file may still go on
  with (`AbortInv`), so that no part file with progress is removed; who accepts has what
  the sender will begin from (`AcceptKeptInv`); the sender's count is where its window
  begins plus the chunks confirmed in turn (`SendWindowInv`); a request of the chunk
  loop under way carries the index that the sender holds for its id (`ConfirmInv`); a
  chunk that is confirmed, or whose confirmation is under way, waits in the receiver's
  window unless it is written (`AckInv`); and therefore any run of chunks confirmed
  without a gap is on disk (`GapInv`), which is what the count moves over. `EntriesInv`
  says that the receiver's window never holds the chunk it waits for, and that an open
  handle is of the part file of its transfer.

`RequestRegistry_proofs` (`RegistryAssumption`):

* `SentAgainOnce` (`RetriedOnce`) and `ProcessedOnce` (`NotProcessedTwice`).
* `RetryInv`: what the registry may hold of a request while its task sends the second
  copy, namely an entry whose retry is counted, or one without the data for another.
  `OnceInv`: of a request that is not idempotent one copy at most is open, none once it
  was run, and none while its task is about to send, unless its answer could not be
  encrypted; this is why the early answer, the
  late timeout and the broken session do not add up to a second run.

`Session_proofs`, of `Session` (`SessionAssumption`: two nodes, any callers and contacts
they know):

* `SessionsAreAttributedToSigners` (`AttributedToSigner`), `BothSidesHaveTheSecret`
  (`KeyAgreement`), `PeersCanRead` (`PeerCanRead`).
* `AttributionInv`: a handler past its check has a message whose signature fits.
  `KeyInv`: the lock of the builds is held by the caller that signs and there is no build
  meanwhile; at a node that dropped none, the open request is the one of the build in
  progress. `ReadInv`: the responder has its session before the answer is under way, and
  what replaces it in the store puts it into the cache.

`Brain_proofs` (`IdentityAssumption`: invites and shares are different challenges, since
`generate_byte_challenge` repeats none; `Library` needs no assumption, `Sanitized` is any
function):

* Of `Identity`: `InviteIsUsedOnce` (`InviteAnsweredOnce`), `PeerIdIsKept` (`OnePeerId`),
  `NetworkSignsAsSelfContact` (`IdentityAgrees`), each with an invariant of its own:
  an invite that is live was not used (`InviteInv`); a self contact is there only after
  the keys, and since the last backup with other keys a peer id was shown only with the
  keys that are stored (`PeerIdInv`); at
  most one update is under way unless they crossed, and between its two writes the
  database already has its identity (`AgreeInv`).
* Of `Library`: `RowsHaveTheirFilerequest` (`NoOrphanRows`), `ReceivedFilesStayOnDisk`
  (`FilesKept`). The second needs that the name chosen for a file is still free when it is
  moved there, unless a directory was renamed in between (`FilesInv`).

`Outbox_proofs` (`OutboxAssumption`: finitely many files, each with a target and a source
that others may share):

* `FilesAreNotForgotten` (`NotForgotten`), `SourcesAreKept` (`SourceKept`) and
  `UpdatesAreAccepted` (`UpdatesRespectTheTable`).
* `CareInv`: a file is *watched* when it is in the tracker, a task is about to send or
  delete it, or it has ended or was dropped as the property allows. An active row that
  `Ready` has passed is watched or taken by `Ready`; and the row of every file that a
  report is about is watched, active or not, since a report that is applied late may make
  it active again. `Ready` reads the rows in stages, so what it will still come to need
  not be watched.
* `EndedInv`: who has heard of the end of a file, by a terminal row, a report of the end
  or a cleanup under way, finds it in `seen.ended`, so that the exceptions of the
  properties are no larger than they say. `SourceInv`: a task that has counted no other
  file for a source leaves only rows that are inactive or excepted, and no step but the
  named ones makes one of them active again before the copy is removed.
* `ConstraintInv`: every status a report carries, the status of every file in the tracker
  and that of every row fit the `CHECK` of the table, so an update applied late, early or
  twice cannot be refused.

What the provers cannot use shaped a few definitions: the update of a function at a new
argument is `With(f, x, v)` in `Library` and `FilerequestReceiver`, and `retain` on the
queue of the tracker is a recursive function (`Without`), about which an induction over
positions, by least elements, proves what it keeps (`WithoutFacts`); so it is in `Outbox`
(`Retained`, `RetainedFacts`).

Only model-checked:

* liveness (`EventuallyConfirmed`, `EveryCallerReturns`, `EveryRequestReported`,
  `QueuedCallAnswered`): liveness under fairness is out of the prover's reach;
* `Migrations`: the schemas are concrete data and the migrations folds over sequences,
  so that TLC's enumeration says as much as a proof would, but for the number of rows.

## 6. Abstractions to know about

* Encryption is left out of the file protocol; that an answer cannot be decrypted is an
  action (`HandleUndecryptable`), and who is behind a session is the parameter `who`. In
  `Session` a signature names its signer and a secret the two shares it comes from.
* Time: a timeout may come at any moment after the request was sent, an expiry at any
  moment after the last use.
* A chunk is one unit whatever its bytes; a file's size is a number of units, so that
  the last, shorter chunk is not told apart from the others.
* A write is on disk when the call that makes it returns, except for the I/O error,
  which may come after any part of the run of chunks. What the asynchronous file has
  not handed to the system when the program dies is not modelled.
* `run_cleanups` is two independent steps, one that takes a stale row and its part file
  (the row's update is applied later, like the others) and one that removes old part
  files, which allows every order the code can take and a few more.
* A call of the database is one step: a single actor serves them all. A handler with
  several calls is interrupted between any two of them.
* `Outbox` has the tracker as a queue, a slot and its reports; the reports a handler of
  `FileTracker` makes are the ones `Outbox` allows, and it may fail at any point.
* `RequestRegistry` establishes a session in one step; `Session` shows what that step
  is. `Migrations` keeps of a column whether an insert must give it, and of a row its
  id and its references.

## 7. Observed while modelling

Seen as counterexamples of properties before their exceptions were named, or while
reading, and not the subject of a run. The models contain all of this behaviour unless
it says otherwise. (What the runs `part_is_prefix`, `run_twice` and `pending_files_lost`
show is in section 3.)

Sending and receiving:

* `send_next` takes a file out of the queue before it sends `ContinueTransfer`, and does
  not put it back when that fails (`file_tracker.rs:488`); the doc at `:42` says that
  every file that leaves the tracker is reported. (`ContinueTransferNotSent`.)
* `RejectChunk` for a slot that is not sending drops the file; this program's receiver
  never answers so. (`ChunkRejectedEarly`.)
* When the brain cannot say whether a contact is known, `verify_target_contact_id` calls
  a method that takes the lock its caller holds (`file_tracker.rs:329`, doc `:217`).
* A confirmation that outlives its attempt is looked up in the window of the next
  transfer, where `expect("id to be registered")` panics (`send_manager.rs:251`), and a
  panic aborts (`Cargo.toml:17`).
* The status update of the last chunk may be applied after the one of `Done`: the row is
  `Receiving` again, for good (`receive_manager.rs:402`;
  `src/docs/architecture/networking.md:115`).
* `add_pending_file` does not look whether it has the file already, and the brain may add
  one twice: the row is inserted (`handle_action.rs:412`), `Ready` reads and adds it
  (`:1102`), and the call that inserted it adds it too (`:437`). It is then sent twice and
  reported twice, against `file_tracker.rs:42` ("exactly one of these outcomes, which maps
  1:1 to a brain notification"), and cancelling it while one copy is in the slot leaves the
  other in the queue. (`OneFate` is about each call; `IdOf` says which are of one file.)
* A confirmation handled before its request is registered has no id: the transfer is put
  back into the queue with its progress while `AbortTransfer` has the receiver remove the
  part file (`file_tracker.rs:1327`, `:956`). With the slot empty the abort names no
  transfer, and the receiver aborts whichever it has. (`ResetOnInternalError`.)
* `ContinueTransfer` that names another filerequest than the transfer in memory is handled
  as one that is not in memory (`receive_manager.rs:238`), and the brain does not compare
  either (`handle_action.rs:916`). For a file that is received already this opens a new,
  empty part file, and when its length cannot be read, so that the old entry stays
  (`receive_manager.rs:298`), a repeated `Done` moves the empty file into the directory.
  (`ContinueElsewhere`.)
* `cancel_file_by_target` returns after it has cancelled the file in the slot, and
  leaves the ones in the queue (`file_tracker.rs:1857`).
* Two chunk loops of one transfer may both find it complete and both send `Done`
  (`file_tracker.rs:852`); the second is answered with an error.
* A late `ConfirmDone` completes whatever file is in the slot with status `PendingSent`
  (`file_tracker.rs:1459`).
* `RemoteError` pushes a file back without counting the failure, although the comment
  at `file_tracker.rs:1663` says "Increase retry count and push back".
* `RestartContinueTransfer` is handled like `AcceptNewTransfer`
  (`file_tracker.rs:1091`): chunks follow although the receiver has no transfer;
  `p2p/src/types.rs:43` says that "we simply continue with [`NewTransfer`]".
* An I/O error while a chunk is written does not remove the part file
  (`receive_manager.rs:416`); `src/docs/architecture/backend.md:192` says
  "Abort / I/O error -> remove_partial_file". A write's error is seen only by a later
  call, or by none (`receive_manager.rs:106`; not modelled).
* When `ConfirmDone` is lost, the transfer stays in memory and a repeated `Done` fails
  to rename; once it has expired, `ContinueTransfer` makes an empty part file and the
  whole file is delivered a second time under another name.
* All peers share one lock in `FilerequestReceiver`: one that waits for the brain or the
  disk holds up the others.

Files to send:

* `try_cleanup_source_file` reads the row and then counts the active siblings by the id of
  that row (`handle_action.rs:1568`). If the row is deleted between the two the count is
  0, and the copy is removed although a sibling may need it; `backend.md:196` says only
  when no other active pending file references it.
* A report for a row that was deleted meanwhile fails its `expect` and aborts
  (`handle_action.rs:492`, `:1121`).
* A report may be applied after a later one: a file that ended is active again in the
  table until the next start offers it again.
* One source may be shared by several remote filerequests (`backend.md:157`). The copy may
  be counted as unused by the cleanup of the first one before the rows of the next are
  inserted, and removed afterwards (`handle_action.rs:1569`, `:411`; `seen.late`).

Sessions and requests:

* A nonce that never arrives keeps the lower bound where it is; `WindowSize` nonces
  later every message of the session is refused. `decrypt` marks a nonce as used before
  it has authenticated the message (`crypto/src/lib.rs:79`), and every recent session is
  tried (`session_responder.rs:76`): a message of another session uses up a nonce of this
  one, which its own message is refused for afterwards.
* `clear_session` may clear the session that has already replaced the broken one
  (`session_send_receive.rs:362`, `request_registry.rs:60`).
* `get_or_establish_session` tries twice (`get_session.rs:380`); a caller whose joined
  build fails twice is told that it is impossible.
* Waiters that joined a build have no timeout of their own; they depend on the builder.
  The builders' time to live of 60 s is never reached, since the request ends earlier.
* `InboundFailure` cancels the build of this node's own outgoing request.
* `update_identity` drops builds while their requests are open: the late answer is paired
  with the next build (`stray` in `Session`). A handler under way may store a session of
  the old identity afterwards.
* `poll_next` returns `Pending` after it consumed a command without leaving a waker for
  the timer it started (`request_registry.rs:257`): a timeout may come late.
* An event handled before the registration is reported without the caller's id; the
  entry and its timer stay, and the timeout reports the request again. After an error
  the entry and the timer stay as well.
* A `share`'s id after a retry is registered with the registry of file requests.

Start and identity:

* `WaitForReady` on a node that is ready locks `ephemeral_data` while it holds it
  (`handle_action.rs:611`): a release build waits for ever (`util.rs:80`), a debug build
  panics after 5 s. Its answer's sender was already taken. (`locked`, `stuck`.)
* An update of the identity by a client is told to the network even when the database
  refused it (`handle_action.rs:641`); before there is a self contact, an update that
  changes no row is reported as done; two updates at once may end differently in
  database and network; a restore does not tell the network. (`torn` in `Identity`.)
* A restored backup replaces the keys of the node too (`actor.rs:1980`), and nothing checks
  whose backup it is (`handle_action.rs:777`): with the one of another installation the
  node has another peer id at the next start, the one that installation has.
* `Ready` has `expect`s: if a read of the database fails, calls that wait for the start
  are never answered (not modelled).
* Invites are kept for one minute (`brain.rs:207`);
  `src/docs/architecture/security.md:153` says "valid for 30 minutes".

Filerequests:

* Titles need not be unique, and different ones may sanitise to one name: such
  filerequests share a directory, and renaming one moves the files of both (the ignored
  test `direct_fs_controller.rs:1138`; `backend.md:184` speaks of "the filerequest's own
  subdirectory").
* Renaming during a transfer leaves its file in the old directory, created again for it.
  A rename of the directory is not undone when the database then fails; two updates at
  once may leave title and directory apart. Deleting a filerequest leaves its directory.
* `finalize_partial_file` looks for a free name and then renames: a directory that is
  renamed in between may bring a file of that name, which is overwritten (`raced`). It
  returns the name before a variant was chosen.
* Continuing a transfer lacks the check against oneself that `RequestFileDrop` has
  (`handle_action.rs:865`, `:928`).

Migrations:

* Databases older than 1.8.0 with rows cannot be migrated in some cases (`Upgradable` is
  about 1.8.0 and later). Down-migrations are never called. `contacts.deleted_at` is
  never dropped; it may be left out of an insert, so the schema stays usable.

## 8. Plan

Done: the nonce window; the chunk windows; the file tracker; the receiver; their
composition; the files to send; the registry; the sessions; start, identity and
challenges; filerequests and received files; the migrations; the proofs of section 5.

Next, in this order:

1. **IdleExpiryMap** and **ScopedExpiryMap**: timers, leases, lazy removal, against an
   abstract map with expiry.
2. Two nonce windows of one session, with the split of the nonce space between initiator
   and responder, and several sessions that a message is tried with.
3. The API server's stream registry.

## 9. Not modelled, and why

* Key agreement, signatures and AEAD: primitives; they are taken to work.
* Contacts and settings: rows that are read and written one at a time and that no other
  state depends on, but for the self contact (`Identity`) and for whether a contact is
  known (a parameter of `Session` and `FileTracker`).
* Down-migrations: no code calls them.
* Conversion between protobuf and domain types, wording, tracing, start-up of the
  daemon: no state that a property would be about.
* Dialling, discovery, relays: libp2p's; that a peer comes and goes is an action.
* The Flutter frontend and the internet transport are not in the repository.
