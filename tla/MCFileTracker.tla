---------------------------- MODULE MCFileTracker ----------------------------
(***************************************************************************)
(* Instances of FileTracker for TLC: one pending file that is added twice. *)
(* The two entries are interchangeable.                                    *)
(***************************************************************************)
EXTENDS FileTracker, TLC

SameFile == [f \in Files |-> "doc"]

OneTarget == [f \in Files |-> "inbox"]

EntrySymmetry == Permutations(Files)
=============================================================================
