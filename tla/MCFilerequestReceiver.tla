------------------------ MODULE MCFilerequestReceiver ------------------------
(***************************************************************************)
(* Instances of FilerequestReceiver for TLC.  The contacts behind a peer   *)
(* are interchangeable; the transfers are not, one of them may be old.     *)
(***************************************************************************)
EXTENDS FilerequestReceiver, TLC

ContactSymmetry == Permutations(Requesters)
=============================================================================
