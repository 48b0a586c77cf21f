------------------------------ MODULE Migrations ------------------------------
(***************************************************************************)
(* The schema of the database and its migrations                           *)
(* (core/src/library/sqlite/schema.rs, migrations.rs, all_migrations.rs),  *)
(* and what opens, saves and restores a database (actor.rs).               *)
(*                                                                         *)
(* A table is the columns an INSERT must give (`must`: NOT NULL without a  *)
(* default), the ones it may give, its foreign keys and its rows; a row    *)
(* keeps its id and the columns that refer to other tables.  A version     *)
(* 1.m.p is the number 10 * m + p.                                         *)
(*                                                                         *)
(* Each migration runs in a transaction.  PRAGMA foreign_keys has no       *)
(* effect inside of one, so the foreign keys are enforced throughout:      *)
(* DROP TABLE deletes the rows first, which cascades or is refused.        *)
(***************************************************************************)
EXTENDS Integers, Sequences, SequencesExt, TLC

CONSTANTS
    Contents,    \* contents a database of an earlier release may have, by version
    MaxCrashes   \* bound

VARIABLES
    live,     \* the database file: its version and tables, and whether a statement failed
    backup,   \* a saved database, if any
    phase,    \* of the process: closed, migrating, open, failed
    planned,  \* migrations still to run since the process read the version
    start,    \* history: the version and content that were found or restored
    crashes

migration_vars == <<live, backup, phase, planned, start, crashes>>

-----------------------------------------------------------------------------
(***************************************************************************)
(* Statements.                                                             *)
(***************************************************************************)
Table(must, may, refs) == [must |-> must, may |-> may, refs |-> refs, rows |-> {}]

Ref(col, to) == [col |-> col, to |-> to, cascade |-> FALSE]

Cascade(col, to) == [col |-> col, to |-> to, cascade |-> TRUE]

Fails(db) == [db EXCEPT !.ok = FALSE]

Has(db, t) == t \in DOMAIN db.tables

Rows(db, t) == IF Has(db, t) THEN db.tables[t].rows ELSE {}

Ids(db, t) == {r.id : r \in Rows(db, t)}

\* Slip: PRAGMA foreign_keys = OFF has its effect.
ForeignKeysOff == FALSE

\* PRAGMA foreign_keys = ON, and whatever is said about it inside a transaction
ForeignKeysOn == TRUE

Create(db, t, table) ==
    IF Has(db, t) THEN Fails(db) ELSE [db EXCEPT !.tables = (t :> table) @@ @]

CreateIfNotExists(db, t, table) == IF Has(db, t) THEN db ELSE Create(db, t, table)

\* A row that refers to nothing is refused.
Insert(db, t, rows) ==
    IF Has(db, t) /\ (ForeignKeysOn =>
            \A ref \in db.tables[t].refs, r \in rows : r[ref.col] \in Ids(db, ref.to))
    THEN [db EXCEPT !.tables[t].rows = @ \cup rows]
    ELSE Fails(db)

\* The rows of t go first.  No table that is dropped has grandchildren.
Drop(db, t) ==
    LET Refers(u, r, cascade) ==
            \E ref \in db.tables[u].refs :
                ForeignKeysOn /\ ref.to = t /\ ref.cascade = cascade /\ r[ref.col] \in Ids(db, t)
        refused == \E u \in DOMAIN db.tables \ {t} :
                      \E r \in db.tables[u].rows : Refers(u, r, FALSE)
    IN  IF ~Has(db, t) \/ refused THEN Fails(db)
        ELSE [db EXCEPT !.tables =
                 [u \in DOMAIN @ \ {t} |->
                     [@[u] EXCEPT !.rows = {r \in @ : ~Refers(u, r, TRUE)}]]]

DropIfExists(db, t) == IF Has(db, t) THEN Drop(db, t) ELSE db

\* The foreign keys of other tables follow the name.
Rename(db, t, new) ==
    IF ~Has(db, t) \/ Has(db, new) THEN Fails(db)
    ELSE [db EXCEPT !.tables =
             [u \in (DOMAIN @ \ {t}) \cup {new} |->
                 LET table == @[IF u = new THEN t ELSE u]
                 IN  [table EXCEPT !.refs =
                         {[ref EXCEPT !.to = IF @ = t THEN new ELSE @] : ref \in @}]]]

AddColumn(db, t, c) ==
    IF ~Has(db, t) \/ c \in db.tables[t].must \cup db.tables[t].may THEN Fails(db)
    ELSE [db EXCEPT !.tables[t].may = @ \cup {c}]

\* The way a table is given another shape: a new table, a copy of the rows, and
\* the new table takes the place of the old one.
RebuildWith(db, t, table, rows) ==
    LET created == Create(db, "new", table)
        copied  == Insert(created, "new", rows)
        dropped == Drop(copied, t)
    IN  Rename(dropped, "new", t)

\* Slip: the old table is dropped before its rows are copied.
RebuildEmpty(db, t, table) == RebuildWith(db, t, table, {})

Rebuild(db, t, table) == RebuildWith(db, t, table, Rows(db, t))

-----------------------------------------------------------------------------
(***************************************************************************)
(* The tables of version 1.0.0, as the way back from later versions        *)
(* restores them, and those of the current version.                        *)
(***************************************************************************)
Stamps == {"created_at", "updated_at"}

BaseTables ==
    [filerequests |->
        Table({"id", "title", "access_type"} \cup Stamps, {"description", "status"}, {}),
     filerequest_audience |->
        Table({"filerequest_id", "peer_id", "created_at"}, {},
              {Cascade("filerequest_id", "filerequests")}),
     contacts |-> Table({"id", "name"} \cup Stamps, {}, {}),
     peers |->
        Table({"id", "peer_id", "contact_id", "multiaddr", "is_active"} \cup Stamps, {},
              {Cascade("contact_id", "contacts")}),
     remote_filerequests |-> Table({"id", "peer_id", "filerequest_id", "created_at"}, {}, {}),
     pending_files |->
        Table({"id", "file_path", "target_filerequest_id", "created_at"}, {"status"},
              {Ref("target_filerequest_id", "remote_filerequests")}),
     node_keys |-> Table({"key_bytes"}, {"id"}, {})]

KeyColumns == {"dilithium_private_key", "dilithium_public_key",
               "ed25519_private_key", "ed25519_public_key"}

\* initialize_tables
CurrentTables ==
    [filerequests |->
        Table({"id", "title"} \cup Stamps, {"description", "status", "access_type"}, {}),
     contacts |->
        Table({"id", "name"} \cup Stamps, {"dilithium_public_key", "ed25519_public_key"}, {}),
     filerequest_audience |->
        Table({"filerequest_id", "contact_id", "created_at"}, {},
              {Cascade("filerequest_id", "filerequests"), Cascade("contact_id", "contacts")}),
     node_keys |-> Table({"key_bytes"}, {"id"}, {}),
     remote_filerequests |->
        Table({"id", "peer_id", "filerequest_id", "name", "created_at", "contact_id"}, {}, {}),
     pending_files |->
        Table({"id", "file_path", "target_filerequest_id", "created_at"},
              {"status", "retry_count", "progress_bytes", "file_size_bytes", "transfer_id",
               "display_name", "interruption_reasons"},
              {Cascade("target_filerequest_id", "remote_filerequests")}),
     received_files |->
        Table({"id", "peer_id", "filerequest_id", "file_name", "file_size_bytes"},
              {"contact_id", "transfer_id", "file_path", "progress_bytes", "status",
               "started_at_ms", "received_at_ms"},
              {Cascade("filerequest_id", "filerequests")}),
     self_contact |-> Table({"contact_id", "name"}, {"id"} \cup KeyColumns, {}),
     settings |-> Table({}, {"id", "data", "version"}, {})]

CurrentVersion == 191

-----------------------------------------------------------------------------
(***************************************************************************)
(* The migrations.                                                         *)
(***************************************************************************)
AddNameToRemotes(db) ==
    Rebuild(AddColumn(db, "remote_filerequests", "name"), "remote_filerequests",
            Table({"id", "peer_id", "filerequest_id", "name", "created_at"}, {}, {}))

PeerColumns == {"id", "peer_id", "contact_id", "name"} \cup Stamps

NameInsteadOfMultiaddr(db) ==
    Rebuild(db, "peers", Table(PeerColumns \cup {"is_active"}, {}, {Cascade("contact_id", "contacts")}))

ReceivedColumns == {"id", "peer_id", "filerequest_id", "file_name", "file_path", "size", "received_at_ms"}

PeerOf(db, libp2p) == {p \in Rows(db, "peers") : p.peer_id = libp2p}

\* A peer and a contact are made for an address without one.
WithPeer(db, libp2p) ==
    IF PeerOf(db, libp2p) # {} THEN db
    ELSE Insert(Insert(db, "contacts", {[id |-> "auto-created contact"]}),
                "peers", {[id |-> "auto-created peer", peer_id |-> libp2p,
                           contact_id |-> "auto-created contact"]})

\* The old remotes are renamed, and with them what pending_files refers to.
\* The contents that are considered have at most one remote.
ReceivedFilesAndInternalPeerIds(db) ==
    LET peers    == Rebuild(db, "peers", Table(PeerColumns \cup {"is_active"}, {},
                                               {Cascade("contact_id", "contacts")}))
        received == Create(peers, "received_files",
                           Table(ReceivedColumns \cup {"contact_id"}, {},
                                 {Ref("contact_id", "contacts"), Ref("peer_id", "peers"),
                                  Ref("filerequest_id", "filerequests")}))
        renamed  == Rename(received, "remote_filerequests", "remote_fr_old")
        created  == Create(renamed, "remote_filerequests",
                           Table({"id", "peer_id", "filerequest_id", "name", "created_at"}, {},
                                 {Ref("peer_id", "peers")}))
        old      == Rows(db, "remote_filerequests")
        peered   == IF old = {} THEN created
                    ELSE WithPeer(created, (CHOOSE r \in old : TRUE).peer_id)
        filled   == Insert(peered, "remote_filerequests",
                           {[id |-> r.id,
                             peer_id |-> (CHOOSE p \in PeerOf(peered, r.peer_id) : TRUE).id] :
                            r \in old})
    IN  Drop(filled, "remote_fr_old")

\* Only an index.
IndexOnPeerId(db) == db

SoftDeletion(db) == AddColumn(AddColumn(db, "contacts", "deleted_at"), "peers", "deleted_at")

\* The new children refer to the new parent; the old ones go children first.
\* What was a peer's id is copied to a column that refers to contacts.
AudienceOfContacts(db) ==
    LET parent   == Insert(Create(db, "new_filerequests", CurrentTables["filerequests"]),
                           "new_filerequests", Rows(db, "filerequests"))
        audience == Insert(Create(parent, "new_filerequest_audience",
                              Table({"filerequest_id", "contact_id", "created_at"}, {},
                                    {Cascade("filerequest_id", "new_filerequests"),
                                     Cascade("contact_id", "contacts")})),
                           "new_filerequest_audience",
                           {[id |-> a.id, filerequest_id |-> a.filerequest_id,
                             contact_id |-> a.peer_id] :
                            a \in Rows(db, "filerequest_audience")})
        received == Insert(Create(audience, "new_received_files",
                              Table(ReceivedColumns \cup {"contact_id"}, {},
                                    {Ref("contact_id", "contacts"), Ref("peer_id", "peers"),
                                     Ref("filerequest_id", "new_filerequests")})),
                           "new_received_files", Rows(db, "received_files"))
        dropped  == Drop(Drop(Drop(received, "received_files"), "filerequest_audience"), "filerequests")
    IN  Rename(Rename(Rename(dropped, "new_filerequests", "filerequests"),
                      "new_filerequest_audience", "filerequest_audience"),
               "new_received_files", "received_files")

\* The join with peers finds the address of every file.
ReceivedFromAddress(db) ==
    RebuildWith(db, "received_files",
        Table(ReceivedColumns, {}, {Ref("filerequest_id", "filerequests")}),
        {[id |-> x[1].id, filerequest_id |-> x[1].filerequest_id, peer_id |-> x[2].peer_id] :
            x \in {y \in Rows(db, "received_files") \X Rows(db, "peers") :
                      y[1].peer_id = y[2].id}})

CascadeToFiles(db) ==
    Rebuild(Rebuild(db, "received_files",
                    Table(ReceivedColumns, {}, {Cascade("filerequest_id", "filerequests")})),
            "pending_files",
            Table({"id", "file_path", "target_filerequest_id", "created_at"}, {"status"},
                  {Cascade("target_filerequest_id", "remote_filerequests")}))

PeersWithoutIsActive(db) ==
    Rebuild(db, "peers", Table(PeerColumns, {}, {Cascade("contact_id", "contacts")}))

SelfContactBlob(db) ==
    CreateIfNotExists(db, "self_contact", Table({"data", "schema_version"}, {}, {}))

\* The remotes are not copied.
PostQuantumKeys(db) ==
    LET remotes == Create(DropIfExists(db, "remote_filerequests"), "remote_filerequests",
                       Table({"id", "peer_id", "filerequest_id", "name", "created_at", "contact_id"},
                             {"requires_authentication"}, {}))
        self    == Create(DropIfExists(remotes, "self_contact"), "self_contact",
                          CurrentTables["self_contact"])
    IN  AddColumn(AddColumn(self, "contacts", "dilithium_public_key"),
                  "contacts", "ed25519_public_key")

\* A contact is made for an address no peer has.
ReceivedFromContact(db) ==
    LET ContactOf(a) == IF PeerOf(db, a) = {} THEN "unknown sender"
                        ELSE (CHOOSE p \in PeerOf(db, a) : TRUE).contact_id
        files        == Rows(db, "received_files")
        strangers    == {r.peer_id : r \in {f \in files : PeerOf(db, f.peer_id) = {}}}
        known        == Insert(db, "contacts", {[id |-> "unknown sender"] : a \in strangers})
    IN  RebuildWith(known, "received_files",
            Table((ReceivedColumns \ {"peer_id"}) \cup {"contact_id"}, {"verified_sender"},
                  {Cascade("filerequest_id", "filerequests")}),
            {[id |-> r.id, filerequest_id |-> r.filerequest_id, contact_id |-> ContactOf(r.peer_id)] :
                r \in files})

RemovePeers(db) == DropIfExists(db, "peers")

RemotesWithoutAuthentication(db) ==
    Rebuild(db, "remote_filerequests", CurrentTables["remote_filerequests"])

ContactIsOptional(db) ==
    Rebuild(db, "received_files",
            Table(ReceivedColumns \ {"peer_id"}, {"contact_id"},
                  {Cascade("filerequest_id", "filerequests")}))

AddSettings(db) ==
    Insert(CreateIfNotExists(db, "settings", CurrentTables["settings"]),
           "settings", {[id |-> "1"]})

\* The rows that were being sent become pending; all that was received is complete.
TransferColumns(db) ==
    Rebuild(Rebuild(db, "pending_files",
                    Table({"id", "file_path", "target_filerequest_id", "created_at"},
                          {"status", "retry_count", "progress_bytes", "file_size_bytes", "transfer_id"},
                          {Cascade("target_filerequest_id", "remote_filerequests")})),
            "received_files",
            Table({"id", "filerequest_id", "file_name", "file_size_bytes"},
                  {"contact_id", "transfer_id", "file_path", "progress_bytes", "status", "received_at_ms"},
                  {Cascade("filerequest_id", "filerequests")}))

AddDisplayName(db) == AddColumn(db, "pending_files", "display_name")

\* Slip: the copy of the table lacks the column of the step before.
RelaxedChecksWithoutName(db) ==
    Rebuild(db, "pending_files",
            Table({"id", "file_path", "target_filerequest_id", "created_at"},
                  {"status", "retry_count", "progress_bytes", "file_size_bytes", "transfer_id"},
                  {Cascade("target_filerequest_id", "remote_filerequests")}))

RelaxChecks(db) ==
    Rebuild(db, "pending_files",
            Table({"id", "file_path", "target_filerequest_id", "created_at"},
                  {"status", "retry_count", "progress_bytes", "file_size_bytes", "transfer_id",
                   "display_name"},
                  {Cascade("target_filerequest_id", "remote_filerequests")}))

AddInterruptionReasons(db) == AddColumn(db, "pending_files", "interruption_reasons")

AddStartedAt(db) == AddColumn(db, "received_files", "started_at_ms")

AddPeerId(db) == AddColumn(db, "received_files", "peer_id")

\* get_migrations: the version each one applies to and the version it leads to.
\* None leads to 1.14.0.
GetMigrations ==
    << <<0, 10>>, <<10, 20>>, <<20, 30>>, <<30, 40>>, <<40, 50>>, <<50, 60>>, <<60, 70>>,
       <<70, 71>>, <<71, 80>>, <<80, 90>>, <<90, 100>>, <<100, 110>>, <<110, 120>>,
       <<120, 130>>, <<140, 150>>, <<150, 160>>, <<160, 170>>, <<170, 180>>, <<180, 181>>,
       <<181, 182>>, <<182, 190>>, <<190, 191>> >>

Up(from, db) ==
    CASE from = 0   -> AddNameToRemotes(db)
      [] from = 10  -> NameInsteadOfMultiaddr(db)
      [] from = 20  -> ReceivedFilesAndInternalPeerIds(db)
      [] from = 30  -> IndexOnPeerId(db)
      [] from = 40  -> SoftDeletion(db)
      [] from = 50  -> AudienceOfContacts(db)
      [] from = 60  -> ReceivedFromAddress(db)
      [] from = 70  -> CascadeToFiles(db)
      [] from = 71  -> PeersWithoutIsActive(db)
      [] from = 80  -> SelfContactBlob(db)
      [] from = 90  -> PostQuantumKeys(db)
      [] from = 100 -> ReceivedFromContact(db)
      [] from = 110 -> RemovePeers(db)
      [] from = 120 -> RemotesWithoutAuthentication(db)
      [] from = 140 -> ContactIsOptional(db)
      [] from = 150 -> AddSettings(db)
      [] from = 160 -> TransferColumns(db)
      [] from = 170 -> AddDisplayName(db)
      [] from = 180 -> RelaxChecks(db)
      [] from = 181 -> AddInterruptionReasons(db)
      [] from = 182 -> AddStartedAt(db)
      [] from = 190 -> AddPeerId(db)

Applied(db, m) == [Up(m[1], db) EXCEPT !.version = m[2]]

-----------------------------------------------------------------------------
(***************************************************************************)
(* The databases earlier releases left behind.                             *)
(***************************************************************************)
Empty(v, tables) == [version |-> v, tables |-> tables, ok |-> TRUE]

\* Empty databases of the versions in turn.
Shapes ==
    FoldLeft(LAMBDA dbs, m : Append(dbs, Applied(Last(dbs), m)),
             <<Empty(0, BaseTables)>>, GetMigrations)

\* The last shape that is not newer than version v.
ShapeAt(v) == [Last(SelectSeq(Shapes, LAMBDA db : db.version <= v)) EXCEPT !.version = v]

Filled(db, content) ==
    [db EXCEPT !.tables = [t \in DOMAIN @ |->
        IF t \in DOMAIN content THEN [@[t] EXCEPT !.rows = content[t]] ELSE @[t]]]

NewFile == Empty(-1, [t \in {} |-> Table({}, {}, {})])

Versions == {m[1] : m \in {GetMigrations[i] : i \in DOMAIN GetMigrations}}
              \cup {130, CurrentVersion}

OldDatabases == {Filled(ShapeAt(v), c) : v \in Versions, c \in Contents}

\* A database an earlier release could hold: no row refers to nothing.  A
\* reference to a table that is gone keeps a row from being inserted.
Sound(db) ==
    \A t \in DOMAIN db.tables : \A ref \in db.tables[t].refs, r \in db.tables[t].rows :
        ref.col \in DOMAIN r /\ r[ref.col] \in Ids(db, ref.to)

SoundDatabases == {db \in OldDatabases : Sound(db)}

-----------------------------------------------------------------------------
(***************************************************************************)
(* Opening, saving and restoring.                                          *)
(***************************************************************************)
Content(db) == [t \in DOMAIN db.tables |-> Ids(db, t)]

Found(db) == [version |-> db.version, content |-> Content(db)]

\* Slip: the migration that led to the version runs again.
PlannedAgain(version) ==
    SelectSeq(GetMigrations, LAMBDA m : m[2] >= version)

\* The version is read once, before the first migration.
PlannedFrom(version) ==
    SelectSeq(GetMigrations, LAMBDA m : m[1] >= version)

\* initialize_database: a new file gets the current tables in one transaction.
InitializeDatabase ==
    /\ phase = "closed"
    /\ live' = IF live.version = -1 THEN Empty(CurrentVersion, CurrentTables) ELSE live
    /\ planned' = PlannedFrom(live'.version)
    /\ phase' = "migrating"
    /\ UNCHANGED <<backup, start, crashes>>

\* run_migrations: one transaction each, the new version with it.  A failure
\* rolls it back and ends the start of the program.
RunMigration ==
    /\ phase = "migrating" /\ planned # <<>>
    /\ LET db == Applied(live, Head(planned))
       IN  \/ db.ok /\ live' = db /\ planned' = Tail(planned) /\ UNCHANGED phase
           \/ ~db.ok /\ phase' = "failed" /\ UNCHANGED <<live, planned>>
    /\ UNCHANGED <<backup, start, crashes>>

MigrationsDone ==
    /\ phase = "migrating" /\ planned = <<>>
    /\ phase' = "open"
    /\ UNCHANGED <<live, backup, planned, start, crashes>>

\* The process ends at any time, or is started again after it failed.
Restart ==
    /\ phase # "closed" /\ crashes < MaxCrashes
    /\ phase' = "closed" /\ planned' = <<>>
    /\ crashes' = crashes + 1
    /\ UNCHANGED <<live, backup, start>>

BackupDatabase ==
    /\ phase = "open"
    /\ backup' = {live}
    /\ UNCHANGED <<live, phase, planned, start, crashes>>

\* All the migrations of a copy; the first failure ends them.
UpgradedCopy(db) ==
    FoldLeft(LAMBDA d, m : IF d.ok THEN Applied(d, m) ELSE d, db, PlannedFrom(db.version))

\* restore_database: the copy is migrated before it replaces the database, so a
\* failure leaves the database as it was.
RestoreDatabase ==
    /\ phase = "open"
    /\ \E db \in backup :
          LET copy == UpgradedCopy(db) IN copy.ok /\ live' = copy /\ start' = Found(db)
    /\ UNCHANGED <<backup, phase, planned, crashes>>

-----------------------------------------------------------------------------
\* An earlier release left a database, or a backup a new installation is given.
MigrationsInit ==
    /\ \/ live \in SoundDatabases /\ backup = {}
       \/ live = NewFile /\ \E db \in SoundDatabases : backup = {db}
    /\ phase = "closed" /\ planned = <<>>
    /\ start = Found(live)
    /\ crashes = 0

MigrationsNext ==
    \/ InitializeDatabase \/ RunMigration \/ MigrationsDone
    \/ Restart \/ BackupDatabase \/ RestoreDatabase

MigrationsSpec == MigrationsInit /\ [][MigrationsNext]_migration_vars

-----------------------------------------------------------------------------
(***************************************************************************)
(* Properties.                                                             *)
(***************************************************************************)
\* Whatever release the database comes from, and whatever interrupted the
\* migrations, the program then finds every table, column and foreign key that
\* schema.rs creates, and no column it would have to know of to insert a row
\* (migrations.rs:78, actor.rs:51, :1949).
UsableSchema ==
    phase = "open" =>
        \A t \in DOMAIN CurrentTables :
            LET now == CurrentTables[t] db == live.tables IN
            /\ t \in DOMAIN db
            /\ now.must \cup now.may \subseteq db[t].must \cup db[t].may
            /\ db[t].must \subseteq now.must
            /\ now.refs \subseteq db[t].refs

\* No migration and no restored backup leaves a row that refers to nothing
\* (all_migrations.rs:742, actor.rs:56).
NoOrphans == phase = "open" => Sound(live)

\* From version 1.8.0 on no content makes a migration fail, not even one that
\* was interrupted (migrations.rs:89).
Upgradable == phase = "failed" => start.version < 80

\* From version 1.13.0 on no migration loses a row (all_migrations.rs:1110).
RowsKept ==
    phase = "open" /\ start.version >= 130 =>
        \A t \in DOMAIN start.content : start.content[t] \subseteq Ids(live, t)

\* "Remove requires_authentication from remote_filerequests"
\* (all_migrations.rs:1049) copies the remote filerequests and turns the foreign
\* keys off, so that the files that are to be sent stay.
PendingFilesSurvive ==
    phase = "open" /\ start.version >= 100 =>
        start.content["pending_files"] \subseteq Ids(live, "pending_files")
=============================================================================
