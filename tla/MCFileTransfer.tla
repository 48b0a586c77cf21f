---------------------------- MODULE MCFileTransfer ----------------------------
(***************************************************************************)
(* Instances of FileTransfer for TLC: one file, several attempts.          *)
(***************************************************************************)
EXTENDS FileTransfer

OneFile == [f \in Files |-> "doc"]

OneTarget == [f \in Files |-> "inbox"]

\* Bound: once the file has left the tracker, with an outcome or cancelled,
\* nothing more is offered; how the receiver handles what is still under way is
\* checked in FilerequestReceiver.
FileInTracker == \A f \in Files : ~Left(f)

=============================================================================
