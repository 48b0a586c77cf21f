------------------------- MODULE RollingNonceWindow -------------------------
(***************************************************************************)
(* The replay filter of an encrypted session:                              *)
(* fyles_service/crypto/src/rolling_nonce_window.rs.                       *)
(*                                                                         *)
(* A RollingNonceWindow is a lower bound and WindowSize truth values;      *)
(* nonce n owns the slot n % WindowSize.  A slot is TRUE while its nonce   *)
(* may still be accepted.  The operators below are the methods of the      *)
(* type, on a record [lower_bound, window]; they hold no state of their    *)
(* own, so that the modules that need one window or many can share them.   *)
(***************************************************************************)
EXTENDS Naturals

CONSTANT WindowSize

ASSUME WindowSizeAssumption == WindowSize \in Nat \ {0}

Slots == 0 .. WindowSize - 1

Windows == [lower_bound : Nat, window : [Slots -> BOOLEAN]]

SlotOf(nonce) == nonce % WindowSize

NewRollingNonceWindow == [lower_bound |-> 0, window |-> [s \in Slots |-> TRUE]]

IsInBounds(w, nonce) ==
    /\ nonce >= w.lower_bound
    /\ nonce < w.lower_bound + WindowSize

(***************************************************************************)
(* Where the loop of is_valid stops when it starts at nonce n, whose slot  *)
(* has just been invalidated: at the first later nonce whose slot is still *)
(* TRUE, or after a whole turn, when the loop meets the slot of n, which   *)
(* it has itself set to TRUE.                                              *)
(***************************************************************************)
SlideTarget(w, n) ==
    CHOOSE k \in n + 1 .. n + WindowSize :
        /\ k = n + WindowSize \/ w.window[SlotOf(k)]
        /\ \A j \in n + 1 .. k - 1 : ~w.window[SlotOf(j)]

\* Slip: the loop forgets to validate the slots it passes.
SlideWithoutRevalidation(w, n) == [w EXCEPT !.lower_bound = SlideTarget(w, n)]

\* The slots the loop passes are validated again, for the nonces one turn later.
Slide(w, n) ==
    LET k == SlideTarget(w, n)
    IN  [lower_bound |-> k,
         window |-> [s \in Slots |->
                        w.window[s] \/ \E j \in n .. k - 1 : s = SlotOf(j)]]

\* Slip: the slot is read and not invalidated.
InvalidateNothing(w, n) == w

\* get_invalidate_at.
Invalidate(w, n) == [w EXCEPT !.window[SlotOf(n)] = FALSE]

(***************************************************************************)
(* is_valid: the verdict, and the window it leaves behind.                 *)
(***************************************************************************)
Verdict(w, nonce) ==
    CASE ~IsInBounds(w, nonce)    -> "OutOfBoundsAccess"
      [] IsInBounds(w, nonce) /\ ~w.window[SlotOf(nonce)] -> "RepeatedAccess"
      [] OTHER                    -> "Ok"

AfterIsValid(w, nonce) ==
    IF ~IsInBounds(w, nonce) THEN w
    ELSE IF w.window[SlotOf(nonce)] /\ nonce = w.lower_bound
         THEN Slide(Invalidate(w, nonce), nonce)
         ELSE Invalidate(w, nonce)
=============================================================================
