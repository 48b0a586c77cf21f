---------------------------- MODULE Brain_proofs ----------------------------
(***************************************************************************)
(* Proofs about two parts of the brain that share no state.                *)
(*                                                                         *)
(* Filerequests and received files, for any number of filerequests,        *)
(* titles, transfers and updates and any way to sanitise a title: no row   *)
(* of a received file is orphaned, and no received file is lost.           *)
(*                                                                         *)
(* The identity of the node, for any number of key pairs, identities,      *)
(* challenges, callers and concurrent updates: an invite is answered once  *)
(* at most, the node has one peer id, and the network signs as the self    *)
(* contact of the database.                                                *)
(***************************************************************************)
EXTENDS Library, Identity, FiniteSetTheorems, TLAPS

-----------------------------------------------------------------------------
(* The rows of the database. *)

LEMMA DeleteRowKeepsRows ==
    ASSUME NoOrphanRows, NEW request, DeleteRow(request)
    PROVE  NoOrphanRows'
<1>1. DOMAIN filerequests' = DOMAIN filerequests \ {request}
    BY DEF DeleteRow, Without, Restrict
<1>2. \A t \in DOMAIN received' : /\ t \in DOMAIN received /\ received'[t] = received[t]
                                  /\ received[t] # request
    BY DEF DeleteRow
<1> QED
    BY <1>1, <1>2 DEF NoOrphanRows

LEMMA NextKeepsRows == NoOrphanRows /\ [LibraryNext]_library_vars => NoOrphanRows'
<1> SUFFICES ASSUME NoOrphanRows, [LibraryNext]_library_vars PROVE NoOrphanRows'
    OBVIOUS
<1>1. CASE DOMAIN filerequests \subseteq DOMAIN filerequests' /\ UNCHANGED received
    BY <1>1 DEF NoOrphanRows
<1>2. ASSUME NEW request \in Requests, CreateFilerequest(request) PROVE NoOrphanRows'
    BY <1>1, <1>2 DEF CreateFilerequest, With
<1>3. ASSUME NEW request \in Requests, RollBack(request) \/ DeleteFilerequest(request)
      PROVE  NoOrphanRows'
    BY <1>3, DeleteRowKeepsRows DEF RollBack, DeleteFilerequest
<1>4. ASSUME NEW request \in Requests, UpdateRow(request) PROVE NoOrphanRows'
    <2>1. DOMAIN filerequests' = DOMAIN filerequests /\ UNCHANGED received
        BY <1>4 DEF UpdateRow
    <2> QED
        BY <1>1, <2>1
<1>5. ASSUME NEW request \in Requests,
             \/ CreateDirectory(request) \/ UpdateFilerequest(request)
             \/ CheckTarget(request) \/ RenameDirectory(request)
      PROVE  NoOrphanRows'
    BY <1>1, <1>5 DEF CreateDirectory, UpdateFilerequest, CheckTarget, RenameDirectory, row_vars
<1>6. ASSUME NEW transfer \in Transfers,
             \/ RequestFileDrop(transfer) \/ ContinueTransfer(transfer)
             \/ EnsureDirectory(transfer)
      PROVE  NoOrphanRows'
    BY <1>1, <1>6 DEF RequestFileDrop, ContinueTransfer, EnsureDirectory, row_vars
<1>7. ASSUME NEW transfer \in Transfers, DeleteReceivedFile(transfer) PROVE NoOrphanRows'
    BY <1>7 DEF DeleteReceivedFile, NoOrphanRows, Without, Restrict
<1>8. CASE CreateIncomingFile
    <2>1. CASE RequestExists(receiver.request)
        <3>1. received' = With(received, receiver.transfer, receiver.request)
              /\ UNCHANGED filerequests /\ receiver.request \in DOMAIN filerequests
            BY <1>8, <2>1 DEF CreateIncomingFile, RequestExists
        <3>2. \A t \in DOMAIN received' :
                 \/ t \in DOMAIN received /\ received'[t] = received[t]
                 \/ received'[t] = receiver.request
            BY <3>1 DEF With
        <3> QED
            BY <3>1, <3>2 DEF NoOrphanRows
    <2>2. CASE ~RequestExists(receiver.request)
        BY <1>1, <1>8, <2>2 DEF CreateIncomingFile
    <2> QED
        BY <2>1, <2>2
<1>9. CASE ChooseName \/ MoveFile \/ ProgramEnds \/ UNCHANGED library_vars
    BY <1>1, <1>9 DEF ChooseName, MoveFile, ProgramEnds, library_vars, row_vars
<1> QED
    BY <1>2, <1>3, <1>4, <1>5, <1>6, <1>7, <1>8, <1>9 DEF LibraryNext

\* RequestFileDrop, DeleteFilerequest: a received file in the database belongs to
\* a filerequest that exists, also when the request goes while a transfer begins.
THEOREM RowsHaveTheirFilerequest == LibrarySpec => []NoOrphanRows
<1>1. LibraryInit => NoOrphanRows
    BY DEF LibraryInit, NoOrphanRows
<1> QED
    BY <1>1, NextKeepsRows, PTL DEF LibrarySpec

-----------------------------------------------------------------------------
(* The files on disk. *)

\* The name that was chosen for a file is free until the file is moved there,
\* unless a directory was renamed in between.
FilesInv ==
    /\ raced \in BOOLEAN
    /\ \A f \in DOMAIN files : f = <<f[1], f[2]>>
    /\ FilesKept
    /\ ~raced /\ receiver.at = "move" => <<receiver.dir, receiver.name>> \notin DOMAIN files

LEMMA InitFilesInv == LibraryInit => FilesInv
<1> SUFFICES ASSUME LibraryInit PROVE FilesInv
    OBVIOUS
<1>1. DOMAIN files = {} /\ receiver.at # "move" /\ stored = {}
    BY DEF LibraryInit, Idle
<1>2. raced \in BOOLEAN
    BY DEF LibraryInit
<1> QED
    BY <1>1, <1>2 DEF FilesInv, FilesKept

\* A directory takes its files along when it moves to a place without files.
LEMMA MovedKeeps ==
    ASSUME NEW from, NEW to, FilesIn(to) = {}, \A f \in DOMAIN files : f = <<f[1], f[2]>>
    PROVE  /\ Range(files) \subseteq Range(Moved(from, to))
           /\ \A f \in DOMAIN Moved(from, to) : f = <<f[1], f[2]>>
<1> DEFINE New(g) == IF g[1] = from THEN <<to, g[2]>> ELSE g
           Old(f) == IF f[1] = to THEN <<from, f[2]>> ELSE f
<1>1. Moved(from, to) = [f \in {New(g) : g \in DOMAIN files} |-> files[Old(f)]]
    BY DEF Moved
<1>2. \A g \in DOMAIN files : Old(New(g)) = g
    BY DEF FilesIn
<1>3. \A g \in DOMAIN files : New(g) = <<New(g)[1], New(g)[2]>>
    OBVIOUS
<1> HIDE DEF New, Old
<1>4. \A g \in DOMAIN files : New(g) \in DOMAIN Moved(from, to)
                              /\ Moved(from, to)[New(g)] = files[g]
    BY <1>1, <1>2
<1>5. Range(files) \subseteq Range(Moved(from, to))
    BY <1>4 DEF Range
<1>6. \A f \in DOMAIN Moved(from, to) : f = <<f[1], f[2]>>
    BY <1>1, <1>3
<1> QED
    BY <1>5, <1>6

LEMMA RenameDirectoryKeepsFiles ==
    ASSUME FilesInv, NEW request \in Requests, RenameDirectory(request)
    PROVE  FilesInv'
<1> DEFINE from == updating[request].from
           to   == Sanitized[updating[request].title]
<1>1. UNCHANGED <<receiver, stored>>
    BY DEF RenameDirectory
<1>2. CASE from \in dirs /\ FilesIn(to) = {}
    <2>1. files' = Moved(from, to) /\ raced' = (raced \/ receiver.at = "move")
        BY <1>2 DEF RenameDirectory
    <2>2. raced' \in BOOLEAN /\ (~raced' => ~raced /\ receiver.at # "move")
        BY <2>1 DEF FilesInv
    <2> HIDE DEF from, to
    <2>3. Range(files) \subseteq Range(files)' /\ \A f \in DOMAIN files' : f = <<f[1], f[2]>>
        BY <1>2, <2>1, MovedKeeps DEF FilesInv
    <2> QED
        BY <1>1, <2>2, <2>3 DEF FilesInv, FilesKept
<1>3. CASE ~(from \in dirs /\ FilesIn(to) = {})
    BY <1>1, <1>3 DEF RenameDirectory, disk_vars, FilesInv, FilesKept
<1> QED
    BY <1>2, <1>3

LEMMA MoveFileKeepsFiles ==
    ASSUME FilesInv, MoveFile
    PROVE  FilesInv'
<1> DEFINE name == <<receiver.dir, receiver.name>>
<1>1. receiver.at = "move" /\ receiver'.at # "move" /\ UNCHANGED raced
    BY DEF MoveFile, Idle
<1>2. CASE receiver.dir \in dirs
    <2>1. /\ files' = With(files, name, receiver.transfer)
          /\ stored' = stored \cup {receiver.transfer}
        BY <1>2 DEF MoveFile
    <2>2. name = <<name[1], name[2]>>
        OBVIOUS
    <2>3. ~raced => name \notin DOMAIN files
        BY <1>1 DEF FilesInv
    <2> HIDE DEF name
    <2>4. \A f \in DOMAIN files' : f = <<f[1], f[2]>>
        BY <2>1, <2>2 DEF FilesInv, With
    <2>5. ~raced => stored' \subseteq Range(files)'
        <3> SUFFICES ASSUME ~raced, NEW t \in stored' PROVE t \in Range(files)'
            OBVIOUS
        <3>1. CASE t = receiver.transfer
            BY <2>1, <3>1 DEF Range, With
        <3>2. CASE t \in stored
            <4>1. PICK f \in DOMAIN files : t = files[f]
                BY <3>2 DEF FilesInv, FilesKept, Range
            <4>2. f \in DOMAIN files' /\ files'[f] = t
                BY <2>1, <2>3, <4>1 DEF With
            <4> QED
                BY <4>2 DEF Range
        <3> QED
            BY <2>1, <3>1, <3>2
    <2> QED
        BY <1>1, <2>4, <2>5 DEF FilesInv, FilesKept
<1>3. CASE receiver.dir \notin dirs
    BY <1>1, <1>3 DEF MoveFile, FilesInv, FilesKept
<1> QED
    BY <1>2, <1>3

LEMMA NextKeepsFiles == FilesInv /\ [LibraryNext]_library_vars => FilesInv'
<1> SUFFICES ASSUME FilesInv, [LibraryNext]_library_vars PROVE FilesInv'
    OBVIOUS
<1>1. CASE /\ UNCHANGED <<files, stored, raced>>
           /\ receiver' = receiver \/ receiver'.at # "move"
    BY <1>1 DEF FilesInv, FilesKept
<1>2. CASE ChooseName
    <2>1. UNCHANGED <<files, stored, raced>>
        BY <1>2 DEF ChooseName, disk_vars
    <2>2. CASE receiver' = Idle
        BY <1>1, <2>1, <2>2 DEF Idle
    <2>3. CASE receiver' # Idle
        <3>1. PICK n \in FreeVariant(receiver.dir) :
                  receiver' = [at |-> "move", transfer |-> receiver.transfer,
                               dir |-> receiver.dir, name |-> n]
            BY <1>2, <2>3 DEF ChooseName
        <3>2. <<receiver'.dir, receiver'.name>> \notin DOMAIN files
            BY <3>1 DEF FreeVariant
        <3> QED
            BY <2>1, <3>2 DEF FilesInv, FilesKept
    <2> QED
        BY <2>2, <2>3
<1>3. CASE MoveFile
    BY <1>3, MoveFileKeepsFiles
<1>4. CASE CreateIncomingFile \/ ProgramEnds
    BY <1>1, <1>4 DEF CreateIncomingFile, ProgramEnds, Idle, disk_vars
<1>5. CASE UNCHANGED library_vars
    BY <1>1, <1>5 DEF library_vars, disk_vars, receive_vars
<1>6. ASSUME NEW request \in Requests, RenameDirectory(request) PROVE FilesInv'
    BY <1>6, RenameDirectoryKeepsFiles
<1>7. ASSUME NEW request \in Requests,
             \/ CreateFilerequest(request) \/ CreateDirectory(request)
             \/ RollBack(request) \/ DeleteFilerequest(request)
             \/ UpdateFilerequest(request) \/ CheckTarget(request) \/ UpdateRow(request)
      PROVE  FilesInv'
    BY <1>1, <1>7 DEF CreateFilerequest, CreateDirectory, RollBack, DeleteFilerequest,
       UpdateFilerequest, CheckTarget, UpdateRow, disk_vars, receive_vars
<1>8. ASSUME NEW transfer \in Transfers,
             \/ RequestFileDrop(transfer) \/ ContinueTransfer(transfer)
             \/ EnsureDirectory(transfer) \/ DeleteReceivedFile(transfer)
      PROVE  FilesInv'
    BY <1>1, <1>8 DEF RequestFileDrop, ContinueTransfer, EnsureDirectory, DeleteReceivedFile,
       disk_vars, receive_vars
<1> QED
    BY <1>2, <1>3, <1>4, <1>5, <1>6, <1>7, <1>8 DEF LibraryNext

\* finalize_partial_file, rename_resource: a received file stays on disk, however
\* many filerequests share a directory or take over each other's, as long as no
\* directory is renamed between the choice of a file's name and its move.
THEOREM ReceivedFilesStayOnDisk == LibrarySpec => []FilesKept
<1>1. FilesInv => FilesKept
    BY DEF FilesInv
<1> QED
    BY <1>1, InitFilesInv, NextKeepsFiles, PTL DEF LibrarySpec

-----------------------------------------------------------------------------
USE IdentityAssumption

-----------------------------------------------------------------------------
(* Invites. *)

\* Nobody has used an invite that can still be used, and one that is being
\* answered was not answered before.
InviteInv ==
    /\ challenges \in [Challenges -> {"new", "live", "gone"}]
    /\ answers \in [Invites -> Nat]
    /\ \A ch \in Invites :
          /\ challenges[ch] \in {"new", "live"} => answers[ch] = 0 /\ ch \notin answering
          /\ ch \in answering => answers[ch] = 0
          /\ answers[ch] <= 1

LEMMA InitInviteInv == Init => InviteInv
BY DEF Init, InviteInv, Challenges

LEMMA EndsKeepsInviteInv ==
    ASSUME InviteInv, Ends, UNCHANGED answers
    PROVE  InviteInv'
BY DEF InviteInv, Ends, Challenges

LEMMA NextKeepsInviteInv == InviteInv /\ [Next]_vars => InviteInv'
<1> SUFFICES ASSUME InviteInv, [Next]_vars PROVE InviteInv'
    OBVIOUS
<1> USE DEF Challenges
<1>1. CASE UNCHANGED challenge_vars
    BY <1>1 DEF InviteInv, challenge_vars
<1>2. CASE Crash
    BY <1>2, EndsKeepsInviteInv DEF Crash
<1>3. CASE StoreNodeKeys
    <2>1. UNCHANGED challenge_vars \/ (Ends /\ UNCHANGED answers)
        BY <1>3 DEF StoreNodeKeys
    <2> QED
        BY <1>1, <2>1, EndsKeepsInviteInv
<1>4. ASSUME NEW ch \in Challenges, RegisterChallenge(ch) PROVE InviteInv'
    BY <1>4 DEF RegisterChallenge, InviteInv
<1>5. ASSUME NEW ch \in Challenges, UnregisterChallenge(ch) \/ Expire(ch) PROVE InviteInv'
    BY <1>5 DEF UnregisterChallenge, Expire, InviteInv
<1>6. ASSUME NEW ch \in Challenges, AnswerChallenge(ch) PROVE InviteInv'
    <2>1. CASE ch \in Invites
        BY <1>6, <2>1 DEF AnswerChallenge, InviteInv
    <2>2. CASE ch \notin Invites
        BY <1>6, <2>2 DEF AnswerChallenge, InviteInv
    <2> QED
        BY <2>1, <2>2
<1>7. ASSUME NEW ch \in Invites, ValidateSelfContactInviteChallenge(ch) PROVE InviteInv'
    BY <1>7 DEF ValidateSelfContactInviteChallenge, RequestedWith, InviteInv
<1>8. ASSUME NEW ch \in Shares, ValidateContactShareChallenge(ch) PROVE InviteInv'
    BY <1>8 DEF ValidateContactShareChallenge, RequestedWith, InviteInv
<1>9. CASE Start \/ GetNodeInfo \/ HandleReady \/ RestoreDatabase
    BY <1>1, <1>9 DEF Start, GetNodeInfo, HandleReady, RestoreDatabase
<1>10. ASSUME NEW c \in Clients, CallWaitForReady(c) \/ WaitForReady(c) PROVE InviteInv'
    BY <1>1, <1>10 DEF CallWaitForReady, WaitForReady
<1>11. ASSUME NEW u \in Updates, BeginUpdate(u) \/ UpdateInDb(u) \/ UpdateInNetwork(u)
       PROVE  InviteInv'
    BY <1>1, <1>11 DEF BeginUpdate, UpdateInDb, UpdateInNetwork
<1>12. CASE UNCHANGED vars
    BY <1>1, <1>12 DEF vars
<1> QED
    BY <1>2, <1>3, <1>4, <1>5, <1>6, <1>7, <1>8, <1>9, <1>10, <1>11, <1>12 DEF Next

\* ValidateSelfContactInviteChallenge: the private keys of the user are given
\* out once per invite, whatever requests, expiry, removal, restarts and the
\* other challenges do.
THEOREM InviteIsUsedOnce == Spec => []InviteAnsweredOnce
<1>1. InviteInv => InviteAnsweredOnce
    BY DEF InviteInv, InviteAnsweredOnce
<1> QED
    BY <1>1, InitInviteInv, NextKeepsInviteInv, PTL DEF Spec

-----------------------------------------------------------------------------
(* The updates of the identity. *)

Update == [at : {"idle", "client", "network", "tell"}, identity : Identities \cup {NoOne}]

\* An update that is under way carries an identity.
UpdatesInv ==
    /\ updates \in [Updates -> Update]
    /\ \A u \in Updates : updates[u].at # "idle" => updates[u].identity \in Identities

LEMMA InitUpdatesInv == Init => UpdatesInv
BY DEF Init, UpdatesInv, NoUpdate, Update

LEMMA NextKeepsUpdatesInv == UpdatesInv /\ [Next]_vars => UpdatesInv'
<1> SUFFICES ASSUME UpdatesInv, [Next]_vars PROVE UpdatesInv'
    OBVIOUS
<1>1. CASE UNCHANGED updates
    BY <1>1 DEF UpdatesInv
<1>2. CASE Ends
    BY <1>2 DEF Ends, UpdatesInv, NoUpdate, Update
<1>3. ASSUME NEW u \in Updates, BeginUpdate(u) PROVE UpdatesInv'
    <2>1. PICK e \in Update : e.identity \in Identities /\ updates' = [updates EXCEPT ![u] = e]
        BY <1>3 DEF BeginUpdate, Update
    <2> QED
        BY <2>1 DEF UpdatesInv
<1>4. ASSUME NEW u \in Updates, UpdateInDb(u) \/ UpdateInNetwork(u) PROVE UpdatesInv'
    <2>1. CASE updates[u].at \in {"client", "network"} /\ updates' = [updates EXCEPT ![u].at = "tell"]
        BY <2>1 DEF UpdatesInv, Update
    <2>2. CASE updates' = [updates EXCEPT ![u] = NoUpdate]
        BY <2>2 DEF UpdatesInv, NoUpdate, Update
    <2> QED
        BY <1>4, <2>1, <2>2 DEF UpdateInDb, UpdateInNetwork
<1> QED
    BY <1>1, <1>2, <1>3, <1>4 DEF Next, Start, Crash, GetNodeInfo, StoreNodeKeys, HandleReady,
       CallWaitForReady, WaitForReady, RegisterChallenge, UnregisterChallenge, Expire,
       AnswerChallenge, ValidateSelfContactInviteChallenge, ValidateContactShareChallenge,
       RequestedWith, RestoreDatabase, vars

-----------------------------------------------------------------------------
(* The peer id. *)

\* The node ran only with the keys of the database, or has not run since others
\* came with a backup; both rows are there from then on.  The keys are written
\* first, and the start that finds a row missing has not run yet.
PeerIdInv ==
    /\ torn \in BOOLEAN
    /\ peer_ids \subseteq {node_keys}
    /\ peer_ids # {} => self_contact # NoOne
    /\ node = "new" => peer_ids = {}
    /\ node = "new" /\ ~torn => self_contact = NoOne
    /\ self_contact # NoOne => node_keys # NoOne

LEMMA InitPeerIdInv == Init => PeerIdInv
BY DEF Init, PeerIdInv

LEMMA NextKeepsPeerIdInv == PeerIdInv /\ UpdatesInv /\ [Next]_vars => PeerIdInv'
<1> SUFFICES ASSUME PeerIdInv, UpdatesInv, [Next]_vars PROVE PeerIdInv'
    OBVIOUS
<1>1. CASE UNCHANGED <<db_vars, net_vars, torn>>
    BY <1>1 DEF PeerIdInv, db_vars, net_vars
<1>2. CASE Start \/ Crash
    <2>1. /\ UNCHANGED <<node_keys, self_contact, peer_ids>> /\ node' # "new"
          /\ torn' = torn \/ torn' = FALSE
        BY <1>2 DEF Start, Crash, Ends, db_vars
    <2> QED
        BY <2>1 DEF PeerIdInv
<1>3. CASE GetNodeInfo
    BY <1>3 DEF GetNodeInfo, HasNodeKeys, RunsAs, PeerIdInv, db_vars
<1>4. CASE StoreNodeKeys
    <2>1. node = "new" /\ peer_ids = {}
        BY <1>4 DEF StoreNodeKeys, PeerIdInv
    <2>2. PICK keys \in FreshKeys, identity \in Identities :
              /\ node_keys' = keys
              /\ \/ self_contact' = identity /\ RunsAs(keys, identity) /\ UNCHANGED torn
                 \/ Ends /\ UNCHANGED <<self_contact, peer_ids>>
        BY <1>4 DEF StoreNodeKeys
    <2>3. keys # NoOne /\ identity # NoOne
        BY DEF FreshKeys
    <2> QED
        BY <2>1, <2>2, <2>3 DEF RunsAs, Ends, PeerIdInv
<1>5. ASSUME NEW u \in Updates, UpdateInDb(u) PROVE PeerIdInv'
    <2>1. UNCHANGED <<node_keys, node, peer_ids>>
        BY <1>5 DEF UpdateInDb, net_vars
    <2>2. self_contact = NoOne => self_contact' = NoOne
        BY <1>5 DEF UpdateInDb
    <2>3. self_contact # NoOne => self_contact' # NoOne
        BY <1>5 DEF UpdateInDb, UpdatesInv
    <2>4. torn' \in BOOLEAN /\ (~torn' => ~torn)
        BY <1>5 DEF UpdateInDb, PeerIdInv
    <2> QED
        BY <2>1, <2>2, <2>3, <2>4 DEF PeerIdInv
<1>6. CASE RestoreDatabase
    BY <1>6 DEF RestoreDatabase, PeerIdInv, net_vars
<1>7. ASSUME NEW u \in Updates, UpdateInNetwork(u) PROVE PeerIdInv'
    BY <1>7 DEF UpdateInNetwork, PeerIdInv, db_vars
<1>8. ASSUME NEW c \in Clients, CallWaitForReady(c) \/ WaitForReady(c) PROVE PeerIdInv'
    BY <1>1, <1>8 DEF CallWaitForReady, WaitForReady
<1>9. ASSUME NEW ch \in Challenges,
             \/ RegisterChallenge(ch) \/ UnregisterChallenge(ch) \/ Expire(ch)
             \/ AnswerChallenge(ch) \/ ValidateSelfContactInviteChallenge(ch)
             \/ ValidateContactShareChallenge(ch)
      PROVE  PeerIdInv'
    BY <1>1, <1>9 DEF RegisterChallenge, UnregisterChallenge, Expire, AnswerChallenge,
       ValidateSelfContactInviteChallenge, ValidateContactShareChallenge, RequestedWith
<1>10. ASSUME NEW u \in Updates, BeginUpdate(u) PROVE PeerIdInv'
    <2>1. torn' \in BOOLEAN /\ (~torn' => ~torn) /\ UNCHANGED <<db_vars, net_vars>>
        BY <1>10 DEF BeginUpdate, PeerIdInv
    <2> QED
        BY <2>1 DEF PeerIdInv, db_vars, net_vars
<1>11. CASE HandleReady \/ UNCHANGED vars
    BY <1>1, <1>11 DEF HandleReady, vars
<1> QED
    BY <1>2, <1>3, <1>4, <1>5, <1>6, <1>7, <1>8, <1>9, <1>10, <1>11 DEF Next, Challenges

\* handle_store_node_keys: the node has the same peer id at every start, although
\* the keys and the self contact are stored by two statements that a crash may
\* separate, from one restore of another installation's backup to the next.
THEOREM PeerIdIsKept == Spec => []OnePeerId
<1>1. PeerIdInv => OnePeerId
    <2>1. Cardinality({}) = 0
        BY FS_EmptySet, Zenon
    <2>2. Cardinality({node_keys}) = 1
        BY FS_Singleton, Zenon
    <2> QED
        BY <2>1, <2>2 DEF PeerIdInv, OnePeerId
<1> QED
    BY <1>1, InitPeerIdInv, NextKeepsPeerIdInv, InitUpdatesInv, NextKeepsUpdatesInv, PTL
       DEF Spec

-----------------------------------------------------------------------------
(* The two places the identity is kept in. *)

\* Without a torn update there is one update under way at most: until it is in
\* the database nothing has changed, and then only the network is behind it.
AgreeInv ==
    /\ torn \in BOOLEAN
    /\ ~torn =>
          /\ \A u, v \in UnderWay : u = v
          /\ \A u \in Updates : updates[u].at = "tell" => self_contact = updates[u].identity
          /\ node = "running" /\ (\A u \in Updates : updates[u].at # "tell")
                => signs_as = self_contact

LEMMA InitAgreeInv == Init => AgreeInv
<1> SUFFICES ASSUME Init PROVE AgreeInv
    OBVIOUS
<1>1. node # "running" /\ \A u \in Updates : updates[u].at = "idle"
    BY DEF Init, NoUpdate
<1>2. torn \in BOOLEAN
    BY DEF Init
<1> QED
    BY <1>1, <1>2 DEF AgreeInv, UnderWay

LEMMA EndsKeepsAgreeInv == Ends => AgreeInv'
<1> SUFFICES ASSUME Ends PROVE AgreeInv'
    OBVIOUS
<1>1. node' # "running" /\ \A u \in Updates : updates'[u].at = "idle"
    BY DEF Ends, NoUpdate
<1>2. torn' \in BOOLEAN
    BY DEF Ends
<1> QED
    BY <1>1, <1>2 DEF AgreeInv, UnderWay

LEMMA NextKeepsAgreeInv ==
    AgreeInv /\ PeerIdInv /\ UpdatesInv /\ [Next]_vars => AgreeInv'
<1> SUFFICES ASSUME AgreeInv, PeerIdInv, UpdatesInv, [Next]_vars PROVE AgreeInv'
    OBVIOUS
<1>1. CASE UNCHANGED <<self_contact, node, signs_as, updates, torn>>
    BY <1>1 DEF AgreeInv, UnderWay
<1>2. CASE Crash
    BY <1>2, EndsKeepsAgreeInv DEF Crash
<1>3. CASE Start
    BY <1>3 DEF Start, AgreeInv, UnderWay, db_vars
<1>4. CASE GetNodeInfo
    BY <1>4 DEF GetNodeInfo, RunsAs, AgreeInv, UnderWay, db_vars
<1>5. CASE StoreNodeKeys
    <2>1. CASE Ends
        BY <2>1, EndsKeepsAgreeInv
    <2>2. CASE ~Ends
        <3>1. /\ node = "new" /\ (~torn => self_contact = NoOne)
              /\ signs_as' = self_contact' /\ UNCHANGED <<updates, torn>>
            BY <1>5, <2>2 DEF StoreNodeKeys, RunsAs, PeerIdInv
        <3>2. ~torn => \A u \in Updates : updates[u].at # "tell"
            BY <3>1 DEF AgreeInv, UpdatesInv
        <3> QED
            BY <3>1, <3>2 DEF AgreeInv, UnderWay
    <2> QED
        BY <2>1, <2>2
<1>6. ASSUME NEW u \in Updates, BeginUpdate(u) PROVE AgreeInv'
    <2>1. /\ UNCHANGED <<self_contact, node, signs_as>>
          /\ torn' = (torn \/ UnderWay # {})
          /\ updates[u].at = "idle" /\ updates'[u].at \in {"client", "network"}
          /\ \A v \in Updates \ {u} : updates'[v] = updates[v]
        BY <1>6 DEF BeginUpdate, UpdatesInv, db_vars, net_vars
    <2>2. torn' \in BOOLEAN
        BY <2>1 DEF AgreeInv
    <2>3. ~torn' => ~torn /\ \A v \in Updates : updates[v].at = "idle"
        BY <2>1 DEF UnderWay
    <2> QED
        BY <2>1, <2>2, <2>3 DEF AgreeInv, UnderWay
<1>7. ASSUME NEW u \in Updates, UpdateInDb(u) PROVE AgreeInv'
    <2>1. UNCHANGED <<node, signs_as>> /\ updates[u].at \in {"client", "network"}
        BY <1>7 DEF UpdateInDb, net_vars
    <2>2. CASE /\ self_contact' = IF self_contact = NoOne THEN NoOne ELSE updates[u].identity
               /\ updates' = [updates EXCEPT ![u].at = "tell"]
               /\ torn' = (torn \/ self_contact = NoOne)
        <3>1. /\ torn' \in BOOLEAN
              /\ ~torn' => ~torn /\ self_contact' = updates[u].identity
            BY <2>2 DEF AgreeInv
        <3>2. /\ updates'[u].at = "tell" /\ updates'[u].identity = updates[u].identity
              /\ \A v \in Updates \ {u} : updates'[v] = updates[v]
            BY <2>2 DEF UpdatesInv, Update
        <3>3. ~torn => \A v \in Updates \ {u} : updates[v].at = "idle"
            BY <2>1 DEF AgreeInv, UnderWay
        <3> QED
            BY <3>1, <3>2, <3>3 DEF AgreeInv, UnderWay
    <2>3. CASE /\ updates' = IF ToNetworkAfterFailure(u)
                               THEN [updates EXCEPT ![u].at = "tell"]
                               ELSE [updates EXCEPT ![u] = NoUpdate]
               /\ torn' = (torn \/ updates[u].at = "client")
               /\ UNCHANGED self_contact
        <3>1. /\ torn' \in BOOLEAN
              /\ ~torn' => ~torn /\ ~ToNetworkAfterFailure(u)
            BY <2>3 DEF AgreeInv, ToNetworkAfterFailure
        <3>2. ~torn' => /\ updates'[u].at = "idle"
                        /\ \A v \in Updates \ {u} : updates'[v] = updates[v]
            BY <2>3, <3>1 DEF UpdatesInv, Update, NoUpdate
        <3> QED
            BY <2>1, <2>3, <3>1, <3>2 DEF AgreeInv, UnderWay
    <2> QED
        BY <1>7, <2>2, <2>3 DEF UpdateInDb
<1>8. ASSUME NEW u \in Updates, UpdateInNetwork(u) PROVE AgreeInv'
    <2>1. /\ UNCHANGED <<self_contact, node, torn>> /\ signs_as' = updates[u].identity
          /\ updates[u].at = "tell" /\ updates'[u].at = "idle"
          /\ \A v \in Updates \ {u} : updates'[v] = updates[v]
        BY <1>8 DEF UpdateInNetwork, UpdatesInv, NoUpdate, db_vars
    <2> QED
        BY <2>1 DEF AgreeInv, UnderWay
<1>9. CASE RestoreDatabase
    BY <1>9 DEF RestoreDatabase, AgreeInv
<1>10. ASSUME NEW c \in Clients, CallWaitForReady(c) \/ WaitForReady(c) PROVE AgreeInv'
    BY <1>1, <1>10 DEF CallWaitForReady, WaitForReady, db_vars, net_vars
<1>11. ASSUME NEW ch \in Challenges,
             \/ RegisterChallenge(ch) \/ UnregisterChallenge(ch) \/ Expire(ch)
             \/ AnswerChallenge(ch) \/ ValidateSelfContactInviteChallenge(ch)
             \/ ValidateContactShareChallenge(ch)
      PROVE  AgreeInv'
    BY <1>1, <1>11 DEF RegisterChallenge, UnregisterChallenge, Expire, AnswerChallenge,
       ValidateSelfContactInviteChallenge, ValidateContactShareChallenge, RequestedWith,
       db_vars, net_vars
<1>12. CASE HandleReady \/ UNCHANGED vars
    BY <1>1, <1>12 DEF HandleReady, vars, db_vars, net_vars
<1> QED
    BY <1>2, <1>3, <1>4, <1>5, <1>6, <1>7, <1>8, <1>9, <1>10, <1>11, <1>12
       DEF Next, Challenges

\* UpdateIdentity: when no update is under way, and none was torn since the start,
\* the network signs as the self contact of the database, so that a restart
\* changes nothing.
THEOREM NetworkSignsAsSelfContact == Spec => []IdentityAgrees
<1>1. AgreeInv => IdentityAgrees
    BY DEF AgreeInv, IdentityAgrees, UnderWay
<1> QED
    BY <1>1, InitAgreeInv, NextKeepsAgreeInv, InitPeerIdInv, NextKeepsPeerIdInv,
       InitUpdatesInv, NextKeepsUpdatesInv, PTL DEF Spec
=============================================================================
