------------------------- MODULE MCRequestRegistry -------------------------
(***************************************************************************)
(* Instances of RequestRegistry for TLC.                                   *)
(***************************************************************************)
EXTENDS RequestRegistry

KindOf == [r \in Requests |-> IF r = "invite" THEN "invite" ELSE "file"]

=============================================================================
