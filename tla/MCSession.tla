----------------------------- MODULE MCSession -----------------------------
(***************************************************************************)
(* Instances of Session and NonceWindow for TLC.                           *)
(*                                                                         *)
(* How sessions are established and how one direction of an established    *)
(* session filters nonces share no state, so that each is explored from    *)
(* the initial states of the other.                                        *)
(***************************************************************************)
EXTENDS Session, NonceWindow

\* Callers at node "a", and one at node "b".
CallerAt == [c \in Callers |-> IF c = "b1" THEN "b" ELSE "a"]

\* "b" does not know the second identity of "a".
Contacts == {<<"a", 1>>, <<"a", 2>>, <<"b", 1>>}

MCInit == Init /\ NonceInit

MCNext ==
    \/ NonceInit /\ Next /\ UNCHANGED nonce_vars
    \/ Init /\ NonceNext /\ UNCHANGED vars

MCSpec == MCInit /\ [][MCNext]_<<vars, nonce_vars>> /\ Fairness

=============================================================================
