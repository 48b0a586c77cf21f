------------------------------ MODULE FileCopy ------------------------------
(***************************************************************************)
(* What a file transfer promises: the receiver's part file is at all times *)
(* a prefix of the source file, it only grows, and the transfer is         *)
(* confirmed only when the copy is complete.                               *)
(***************************************************************************)
EXTENDS Naturals, Sequences

CONSTANTS FileUnits,    \* length of the source file
          StartAt       \* what the receiver has from an earlier attempt

VARIABLES file,         \* the receiver's part file
          status        \* "Copying" until the sender is told "Confirmed"

Source == [i \in 1 .. FileUnits |-> i - 1]

PrefixOfSource(n) == [i \in 1 .. n |-> i - 1]

Init ==
    /\ file = PrefixOfSource(StartAt)
    /\ status = "Copying"

Grow ==
    /\ \E n \in Len(file) + 1 .. FileUnits : file' = PrefixOfSource(n)
    /\ UNCHANGED status

Confirm ==
    /\ file = Source
    /\ status' = "Confirmed"
    /\ UNCHANGED file

Next == Grow \/ Confirm

Spec == Init /\ [][Next]_<<file, status>>
=============================================================================
