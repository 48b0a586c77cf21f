----------------------------- MODULE NonceWindow -----------------------------
(***************************************************************************)
(* One direction of one session: a sender that counts its nonces up        *)
(* (NonceGeneratorValidator::get_next_send_nonce) and a receiver that      *)
(* filters them through a RollingNonceWindow.  The transport may lose,     *)
(* delay, reorder and repeat messages; and Dencryptor::decrypt validates   *)
(* the nonce before it authenticates the message, while a receiver tries   *)
(* every recent session on a message, so that the nonces of messages of    *)
(* other sessions are offered to this window too.  Hence any nonce may be  *)
(* offered at any time, any number of times, whatever the sender has sent. *)
(***************************************************************************)
EXTENDS RollingNonceWindow

CONSTANT NonceSpace     \* U64_HALF: the nonces one direction may use

ASSUME NonceSpaceAssumption == NonceSpace \in Nat

VARIABLES
    used_nonce_counter, \* of the sender: the next nonce
    rolling,            \* of the receiver: its RollingNonceWindow
    accepts             \* history: how often the receiver accepted each nonce

nonce_vars == <<used_nonce_counter, rolling, accepts>>

Nonces == 0 .. NonceSpace - 1

\* The counter stays in its half of the nonce space and the window is a window.
TypeOK ==
    /\ used_nonce_counter \in 0 .. NonceSpace
    /\ rolling \in Windows
    /\ accepts \in [Nonces -> Nat]

NonceInit ==
    /\ used_nonce_counter = 0
    /\ rolling = NewRollingNonceWindow
    /\ accepts = [n \in Nonces |-> 0]

\* Slip: the counter runs on into the other half of the nonce space.
SendNonceWithoutLimit ==
    /\ used_nonce_counter' = used_nonce_counter + 1
    /\ UNCHANGED <<rolling, accepts>>

\* The counter refuses to move once its half of the nonce space is exhausted.
GetNextSendNonce ==
    /\ used_nonce_counter # NonceSpace
    /\ used_nonce_counter' = used_nonce_counter + 1
    /\ UNCHANGED <<rolling, accepts>>

IsValid(nonce) ==
    /\ rolling' = AfterIsValid(rolling, nonce)
    /\ accepts' = IF Verdict(rolling, nonce) = "Ok"
                  THEN [accepts EXCEPT ![nonce] = @ + 1]
                  ELSE accepts
    /\ UNCHANGED used_nonce_counter

\* A session whose nonces are all used and accepted has nothing left to do.
NonceNext ==
    \/ GetNextSendNonce
    \/ \E nonce \in Nonces : IsValid(nonce)

NonceSpec == NonceInit /\ [][NonceNext]_nonce_vars

-----------------------------------------------------------------------------
\* No message is accepted twice, whatever the transport repeats, although the
\* slot of a nonce is handed to another nonce as soon as the window rolls on.
NoReplay == \A n \in Nonces : accepts[n] <= 1

\* The window forgets nothing and invents nothing (doc of RollingNonceWindow):
\* the lower bound is the first nonce not accepted yet, and above it exactly
\* the FALSE slots stand for accepted nonces.
WindowIsExact ==
    /\ \A n \in Nonces : n < rolling.lower_bound => accepts[n] >= 1
    /\ rolling.lower_bound \in Nonces => accepts[rolling.lower_bound] = 0
    /\ \A n \in Nonces :
          IsInBounds(rolling, n) =>
              (rolling.window[SlotOf(n)] <=> accepts[n] = 0)

=============================================================================
