-------------------------- MODULE PendingFilesTable --------------------------
(***************************************************************************)
(* The table pending_files and the statements on it                        *)
(* (core/src/library/sqlite/schema.rs and actor.rs), as operators on the   *)
(* value of the table: a function from the ids of the rows that exist.     *)
(*                                                                         *)
(* A row keeps what its columns tell apart: the remote filerequest, the    *)
(* path, the status tag, the transfer data and the retry count.  The three *)
(* transfer columns are NULL together and are set together; their value is *)
(* the progress.                                                           *)
(***************************************************************************)
EXTENDS Integers, FiniteSets

NoData == -1    \* the transfer columns are NULL

NoCount == -1   \* an update that does not set the retry count

\* `active` rows are those that are still to be sent.
ActiveTags == {"Pending", "Sending", "Interrupted"}

TerminalTags == {"Sent", "Rejected", "Failed"}

SendStatus(tag, data) == [tag |-> tag, data |-> data]

InProgress(status) == status.tag \in {"Prepared", "Sending", "Interrupted", "PendingSent"}

\* The transfer data of a status: only a transfer in progress has any.
TransferData(status) == IF InProgress(status) THEN status.data ELSE NoData

\* Prepared and PendingSent have no tag in the table.
StatusTag(status) ==
    IF status.tag \in {"Prepared", "PendingSent"} THEN {} ELSE {status.tag}

\* The status of a row that was read: the columns of a row that is not in
\* progress are not looked at.
FromDbColumns(row) ==
    SendStatus(row.tag, IF row.tag \in {"Sending", "Interrupted"} THEN row.data ELSE NoData)

\* The CHECK constraint of the table.
Check(row) ==
    \/ row.tag = "Pending" /\ row.data = NoData
    \/ row.tag \in {"Sending", "Interrupted"} /\ row.data >= 0
    \/ row.tag \in TerminalTags

-----------------------------------------------------------------------------
NewRow(target, path) ==
    [target |-> target, path |-> path, tag |-> "Pending", data |-> NoData, retry |-> 0]

\* handle_create_pending_files: one transaction, refused by the foreign key if
\* the remote filerequest is gone.
CreateRows(rows, files, target, PathOf) ==
    [f \in DOMAIN rows \cup files |->
        IF f \in files THEN NewRow(target, PathOf[f]) ELSE rows[f]]

DeleteRow(rows, f) == [g \in DOMAIN rows \ {f} |-> rows[g]]

DeleteRowsOf(rows, target) ==
    [g \in {f \in DOMAIN rows : rows[f].target # target} |-> rows[g]]

\* The three UPDATE statements of handle_update_pending_file_status.
UpdatedRow(row, status, count) ==
    IF count # NoCount
    THEN [row EXCEPT !.tag = status.tag, !.retry = count, !.data = TransferData(status)]
    ELSE IF InProgress(status)
    THEN [row EXCEPT !.tag = status.tag, !.data = TransferData(status)]
    ELSE [row EXCEPT !.tag = status.tag]

\* The statement succeeds if there is a row, the status has a tag, and the
\* constraint holds for the result.
CanUpdate(rows, f, status, count) ==
    /\ f \in DOMAIN rows
    /\ StatusTag(status) # {}
    /\ Check(UpdatedRow(rows[f], status, count))

\* Slip: only the files that have been offered count as active.
CountStartedSiblings(rows, f) ==
    IF f \notin DOMAIN rows THEN 0
    ELSE Cardinality({g \in DOMAIN rows \ {f} :
                        /\ rows[g].path = rows[f].path
                        /\ rows[g].tag \in {"Sending", "Interrupted"}})

\* handle_count_non_terminal_pending_files_for_path.  Without the row of f the
\* inner SELECT is NULL, no path is equal to it, and the count is 0.
CountNonTerminalForPath(rows, f) ==
    IF f \notin DOMAIN rows THEN 0
    ELSE Cardinality({g \in DOMAIN rows \ {f} :
                        /\ rows[g].path = rows[f].path
                        /\ rows[g].tag \in ActiveTags})
=============================================================================
