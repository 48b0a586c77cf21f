------------------------------- MODULE Library -------------------------------
(***************************************************************************)
(* The filerequests of this node, the directories that bear their titles,  *)
(* and the files received in them: the tables filerequests and             *)
(* received_files with the directory Received of DirectFsController, and   *)
(* the handlers of fyles_service/core/src/core/brain/handle_action.rs and  *)
(* filerequest_drive_handler.rs that keep the two in step.                 *)
(*                                                                         *)
(* The brain handles every action in a task of its own, and a task lets    *)
(* others run between two calls of the database or of the host.  Files are *)
(* received one call at a time: all peers share the lock of                *)
(* FilerequestReceiver.                                                    *)
(*                                                                         *)
(* Left out: who may send to a filerequest and whether it is active (the   *)
(* brain may refuse at any time), descriptions, and the content of files.  *)
(* All files are sent under the same name.                                 *)
(***************************************************************************)
EXTENDS Naturals, Functions

CONSTANTS
    Requests,    \* ids of filerequests; a generated one is new
    Titles,
    Sanitized,   \* sanitize of sanitize_filename: the directory name of a title
    NoName,      \* what it makes of a title without any usable character
    Transfers,
    NUMBER_OF_VARIATIONS_TO_TRY,
    MaxUpdates   \* bound: how many updates of filerequests are ever begun

ASSUME LibraryAssumption ==
    /\ DOMAIN Sanitized = Titles
    /\ NUMBER_OF_VARIATIONS_TO_TRY \in Nat /\ MaxUpdates \in Nat

VARIABLES
    filerequests,  \* table: the title of every filerequest there is
    used,          \* history: the ids generated
    received,      \* table received_files: the filerequest, by transfer
    dirs,          \* the directories of Received
    files,         \* the files in them: the transfer, by directory and variant
    creating,      \* tasks of CreateFilerequest, by id
    updating,      \* tasks of UpdateFilerequest, by id
    begun,         \* bound: the number of updates begun
    open,          \* part files: the directory of their drive handler
    receiver,      \* the call that holds the lock of the FilerequestReceiver
    stored,        \* history: transfers whose file was moved into Received
    raced          \* history: a directory moved between the choice of a name in
                   \* it and the move of a file to that name

row_vars  == <<filerequests, used, received>>
disk_vars == <<dirs, files>>
task_vars == <<creating, updating, begun>>
receive_vars == <<open, receiver, stored, raced>>
library_vars == <<row_vars, disk_vars, task_vars, receive_vars>>

Without(f, x) == Restrict(f, DOMAIN f \ {x})

With(f, x, v) == [y \in DOMAIN f \cup {x} |-> IF y = x THEN v ELSE f[y]]

Idle == [at |-> "idle"]

-----------------------------------------------------------------------------
(* Create, update, delete. *)

\* FilerequestDriveHandler::new falls back to the id.
DirectoryOf(request, title) ==
    IF Sanitized[title] = NoName THEN request ELSE Sanitized[title]

\* The rows of received_files go with their filerequest: ON DELETE CASCADE.
DeleteRow(request) ==
    /\ filerequests' = Without(filerequests, request)
    /\ received' = [t \in {t \in DOMAIN received : received[t] # request} |->
                       received[t]]

CreateFilerequest(request) ==
    /\ request \notin used
    /\ used' = used \cup {request}
    /\ \E title \in Titles :
          /\ filerequests' = With(filerequests, request, title)
          /\ creating' = With(creating, request, [title |-> title, at |-> "directory"])
    /\ UNCHANGED <<received, disk_vars, updating, begun, receive_vars>>

\* The directory may be there already, of whatever filerequest.  For a title
\* without a name it is Received itself.
CreateDirectory(request) ==
    /\ request \in DOMAIN creating /\ creating[request].at = "directory"
    /\ \/ /\ dirs' = dirs \cup ({Sanitized[creating[request].title]} \ {NoName})
          /\ creating' = Without(creating, request)
       \/ /\ creating' = [creating EXCEPT ![request].at = "rollback"]
          /\ UNCHANGED dirs
    /\ UNCHANGED <<row_vars, files, updating, begun, receive_vars>>

RollBack(request) ==
    /\ request \in DOMAIN creating /\ creating[request].at = "rollback"
    /\ creating' = Without(creating, request)
    /\ DeleteRow(request)
    /\ UNCHANGED <<used, disk_vars, updating, begun, receive_vars>>

DeleteFilerequest(request) ==
    /\ request \in DOMAIN filerequests
    /\ DeleteRow(request)
    /\ UNCHANGED <<used, disk_vars, task_vars, receive_vars>>

\* The row is read; only another title renames the directory.
UpdateFilerequest(request) ==
    /\ request \in DOMAIN filerequests \ DOMAIN updating
    /\ begun < MaxUpdates
    /\ begun' = begun + 1
    /\ \E title \in Titles :
          updating' = With(updating, request,
              [title |-> title,
               from  |-> DirectoryOf(request, filerequests[request]),
               at    |-> IF title = filerequests[request] THEN "row" ELSE "check"])
    /\ UNCHANGED <<row_vars, disk_vars, creating, receive_vars>>

UpdateFails(request) == updating' = Without(updating, request)

\* rename_resource looks first whether there is such a directory.
CheckTarget(request) ==
    /\ request \in DOMAIN updating /\ updating[request].at = "check"
    /\ IF Sanitized[updating[request].title] \in dirs \cup {NoName}
         THEN UpdateFails(request)
         ELSE updating' = [updating EXCEPT ![request].at = "rename"]
    /\ UNCHANGED <<row_vars, disk_vars, creating, begun, receive_vars>>

FilesIn(dir) == {f \in DOMAIN files : f[1] = dir}

Moved(from, to) ==
    [f \in {IF g[1] = from THEN <<to, g[2]>> ELSE g : g \in DOMAIN files} |->
        files[IF f[1] = to THEN <<from, f[2]>> ELSE f]]

\* fs::rename takes a directory and all in it; one that appeared in its place
\* meanwhile must be empty.
RenameDirectory(request) ==
    /\ request \in DOMAIN updating /\ updating[request].at = "rename"
    /\ LET from == updating[request].from
           to   == Sanitized[updating[request].title]
       IN  IF from \in dirs /\ FilesIn(to) = {}
             THEN /\ dirs' = (dirs \ {from}) \cup {to}
                  /\ files' = Moved(from, to)
                  /\ updating' = [updating EXCEPT ![request].at = "row"]
                  /\ raced' = (raced \/ receiver.at = "move")
             ELSE UpdateFails(request) /\ UNCHANGED <<disk_vars, raced>>
    /\ UNCHANGED <<row_vars, creating, begun, open, receiver, stored>>

\* UPDATE of a row that is gone changes nothing; when it fails the directory
\* keeps its new name.
UpdateRow(request) ==
    /\ request \in DOMAIN updating /\ updating[request].at = "row"
    /\ updating' = Without(updating, request)
    /\ \/ filerequests' = [r \in DOMAIN filerequests |->
             IF r = request THEN updating[request].title ELSE filerequests[r]]
       \/ UNCHANGED filerequests
    /\ UNCHANGED <<used, received, disk_vars, creating, begun, receive_vars>>

-----------------------------------------------------------------------------
(* Receiving.  Between calls the receiver is idle. *)

\* RequestFileDrop: the drive handler keeps the directory of this moment.
RequestFileDrop(transfer) ==
    /\ receiver = Idle
    /\ transfer \notin DOMAIN open \cup DOMAIN received \cup stored
    /\ \E request \in DOMAIN filerequests :
          receiver' = [at |-> "create", transfer |-> transfer, request |-> request,
                       dir |-> DirectoryOf(request, filerequests[request])]
    /\ UNCHANGED <<row_vars, disk_vars, task_vars, open, stored, raced>>

\* Slip: the row refers to no filerequest, or the reference is not checked.
AnyRequest(request) == TRUE

\* FOREIGN KEY of received_files.
RequestExists(request) == request \in DOMAIN filerequests

\* The part file is opened before the row is made; without a row it is left to
\* the sweep of stale files.
CreateIncomingFile ==
    /\ receiver.at = "create"
    /\ receiver' = Idle
    /\ IF RequestExists(receiver.request)
         THEN /\ received' = With(received, receiver.transfer, receiver.request)
              /\ open' = With(open, receiver.transfer, receiver.dir)
         ELSE UNCHANGED <<received, open>>
    /\ UNCHANGED <<filerequests, used, disk_vars, task_vars, stored, raced>>

\* RequestFileTransferContinuation: a transfer that is no longer in memory goes
\* on with a new drive handler, for the filerequest that the request names: it
\* is not compared with the one of the row.
ContinueTransfer(transfer) ==
    /\ receiver = Idle
    /\ transfer \in DOMAIN open \cap DOMAIN received
    /\ \E request \in DOMAIN filerequests :
          open' = [open EXCEPT ![transfer] = DirectoryOf(request, filerequests[request])]
    /\ UNCHANGED <<row_vars, disk_vars, task_vars, receiver, stored, raced>>

\* finalize_partial_file: the directory is made when it is missing.
EnsureDirectory(transfer) ==
    /\ receiver = Idle
    /\ transfer \in DOMAIN open
    /\ dirs' = dirs \cup {open[transfer]}
    /\ receiver' = [at |-> "name", transfer |-> transfer, dir |-> open[transfer]]
    /\ UNCHANGED <<row_vars, files, task_vars, open, stored, raced>>

\* Slip: the name is taken as it is.
FirstVariant(dir) == {0}

\* The plain name is variant 0; escalate_existing_path looks for the first one
\* that is free.
FreeVariant(dir) ==
    {n \in 0 .. NUMBER_OF_VARIATIONS_TO_TRY :
        /\ <<dir, n>> \notin DOMAIN files
        /\ \A k \in 0 .. (n - 1) : <<dir, k>> \in DOMAIN files}

ChooseName ==
    /\ receiver.at = "name"
    /\ LET free == FreeVariant(receiver.dir)
       IN  receiver' = IF free = {} THEN Idle
                       ELSE [at |-> "move", transfer |-> receiver.transfer,
                             dir |-> receiver.dir, name |-> CHOOSE n \in free : TRUE]
    /\ UNCHANGED <<row_vars, disk_vars, task_vars, open, stored, raced>>

\* fs::rename replaces a file of that name, and needs the directory; when it
\* fails, the sender may ask again.
MoveFile ==
    /\ receiver.at = "move"
    /\ receiver' = Idle
    /\ IF receiver.dir \in dirs
         THEN /\ files' = With(files, <<receiver.dir, receiver.name>>, receiver.transfer)
              /\ stored' = stored \cup {receiver.transfer}
              /\ open' = Without(open, receiver.transfer)
         ELSE UNCHANGED <<files, stored, open>>
    /\ UNCHANGED <<row_vars, dirs, task_vars, raced>>

\* Only the row is deleted, not the file.
DeleteReceivedFile(transfer) ==
    /\ transfer \in DOMAIN received
    /\ received' = Without(received, transfer)
    /\ UNCHANGED <<filerequests, used, disk_vars, task_vars, receive_vars>>

\* Every task ends; rows, directories and part files stay.
ProgramEnds ==
    /\ creating' = <<>> /\ updating' = <<>> /\ receiver' = Idle
    /\ UNCHANGED <<row_vars, disk_vars, begun, open, stored, raced>>

-----------------------------------------------------------------------------
LibraryInit ==
    /\ filerequests = <<>> /\ used = {} /\ received = <<>>
    /\ dirs = {} /\ files = <<>>
    /\ creating = <<>> /\ updating = <<>> /\ begun = 0
    /\ open = <<>> /\ receiver = Idle /\ stored = {} /\ raced = FALSE

LibraryNext ==
    \/ \E request \in Requests :
          \/ CreateFilerequest(request) \/ CreateDirectory(request)
          \/ RollBack(request) \/ DeleteFilerequest(request)
          \/ UpdateFilerequest(request) \/ CheckTarget(request)
          \/ RenameDirectory(request) \/ UpdateRow(request)
    \/ \E transfer \in Transfers :
          \/ RequestFileDrop(transfer) \/ ContinueTransfer(transfer)
          \/ EnsureDirectory(transfer) \/ DeleteReceivedFile(transfer)
    \/ CreateIncomingFile \/ ChooseName \/ MoveFile
    \/ ProgramEnds

LibrarySpec == LibraryInit /\ [][LibraryNext]_library_vars

-----------------------------------------------------------------------------
\* A file that was received is never lost: neither another file of its name nor
\* the renaming of directories, by any number of filerequests that share one,
\* takes it from disk (finalize_partial_file, rename_resource).  Excepted is a
\* directory that is renamed between the choice of a file's name and its move.
FilesKept == raced \/ stored \subseteq Range(files)

\* Every received file in the database belongs to a filerequest that exists,
\* also when that is deleted, or its creation rolled back, while a transfer to
\* it begins (RequestFileDrop, CreateIncomingFile).
NoOrphanRows ==
    \A transfer \in DOMAIN received : received[transfer] \in DOMAIN filerequests
=============================================================================
