------------------------------ MODULE MCLibrary ------------------------------
(***************************************************************************)
(* Two filerequests, which may have the same title, and three titles: one  *)
(* is sanitised and one has no usable character.  Two files of one name.   *)
(***************************************************************************)
EXTENDS Library, TLC

CONSTANTS r1, r2, t1, t2

MCTitles == {"a/", "b", "/"}

\* Bound: after the race that FilesKept excepts there is nothing more to see of
\* files, and rows do not depend on it.
UntilRaced == ~raced

\* Filerequests and transfers are interchangeable.
Symmetry == Permutations(Requests) \cup Permutations(Transfers)

MCSanitized == "a/" :> "a" @@ "b" :> "b" @@ "/" :> ""

=============================================================================
