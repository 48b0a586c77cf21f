------------------------------ MODULE Identity ------------------------------
(***************************************************************************)
(* Who this node is: the key pair of the node and the self contact in the  *)
(* database, the identity the running network node signs with, the start   *)
(* that hands the one to the other, the calls that wait for it, and the    *)
(* challenges by which another device joins or a contact is shared         *)
(* (fyles_service/core/src/core/brain.rs and brain/handle_action.rs).      *)
(*                                                                         *)
(* The brain handles every action in a task of its own; each call of the   *)
(* database is atomic, for one actor serves them all.  Challenges and      *)
(* waiting calls are kept in memory, under the lock of EphemeralBrainData. *)
(* The locks are those of a release build, which wait without a timeout.   *)
(*                                                                         *)
(* Left out: names, settings, and reads of the database that fail.         *)
(***************************************************************************)
EXTENDS Naturals, FiniteSets

CONSTANTS
    Identities,   \* self contacts: an id with its keys
    KeyPairs,     \* key pairs of the node; a generated one is always new
    Clients,      \* callers of WaitForReady
    Invites,      \* challenges by which a device of the user joins
    Shares,       \* challenges by which a contact is shared
    Updates,      \* bound: identity updates that may be under way at once
    MaxWaiting,   \* the bound of queued_wait_for_ready_requests (25)
    NoOne         \* no identity, no key pair

ASSUME IdentityAssumption ==
    /\ NoOne \notin Identities \cup KeyPairs
    /\ Invites \cap Shares = {}      \* generate_byte_challenge repeats none
    /\ MaxWaiting \in Nat

VARIABLES
    node_keys,     \* table node_keys
    self_contact,  \* table self_contact
    node,          \* the network node: "down", "starting", "new" or "running"
    signs_as,      \* identity of its session manager
    peer_ids,      \* history: the key pairs it ran with, since other keys were restored
    ready,         \* the Ready action: "none", "sent" or "done"
    locked,        \* a task holds ephemeral_data and waits for itself
    calls,         \* WaitForReady, by client: "idle", "sent", "queued", "stuck"
    challenges,    \* "new", "live" in one of the two sets, or "gone"
    answering,     \* challenges that were found valid and are being answered
    answers,       \* history: how often an invite was answered
    updates,       \* the tasks of UpdateIdentity
    torn           \* history: an update that leaves the two sides apart

db_vars   == <<node_keys, self_contact>>
net_vars  == <<node, signs_as, peer_ids>>
wait_vars == <<ready, locked, calls>>
challenge_vars == <<challenges, answering, answers>>
vars == <<db_vars, net_vars, wait_vars, challenge_vars, updates, torn>>

\* A task of UpdateIdentity is about to write to the database, for the client or
\* for a peer ("client", "network"), or to tell the network ("tell").
NoUpdate == [at |-> "idle", identity |-> NoOne]

Challenges == Invites \cup Shares

UnderWay == {u \in Updates : updates[u].at # "idle"}

-----------------------------------------------------------------------------
(* Start.  The event loop asks the brain for the node's keys. *)

RunsAs(keys, identity) ==
    /\ node' = "running"
    /\ signs_as' = identity
    /\ peer_ids' = peer_ids \cup {keys}
    /\ ready' = "sent"

\* Both tables must have their row; otherwise everything is made anew.
HasNodeKeys == node_keys # NoOne /\ self_contact # NoOne

GetNodeInfo ==
    /\ node = "starting"
    /\ IF HasNodeKeys
         THEN RunsAs(node_keys, self_contact)
         ELSE node' = "new" /\ UNCHANGED <<signs_as, peer_ids, ready>>
    /\ UNCHANGED <<db_vars, locked, calls, challenge_vars, updates, torn>>

\* What is lost when the process ends.
Ends ==
    /\ node' = "down"
    /\ signs_as' = NoOne
    /\ ready' = "none"
    /\ locked' = FALSE
    /\ calls' = [c \in Clients |-> "idle"]
    /\ challenges' = [ch \in Challenges |->
          IF challenges[ch] = "live" THEN "gone" ELSE challenges[ch]]
    /\ answering' = {}
    /\ updates' = [u \in Updates |-> NoUpdate]
    /\ torn' = FALSE

FreshKeys == KeyPairs \ (peer_ids \cup {node_keys})

\* Slip: the keys are given out first and may never be stored.
StoresAfterAnswer ==
    \E keys \in FreshKeys, identity \in Identities :
        /\ node = "new"
        /\ RunsAs(keys, identity)
        /\ \/ node_keys' = keys /\ self_contact' = identity
           \/ UNCHANGED db_vars
        /\ UNCHANGED <<locked, calls, challenge_vars, updates, torn>>

\* Two statements without a transaction: a crash may come between them.
StoreNodeKeys ==
    \E keys \in FreshKeys, identity \in Identities :
        /\ node = "new"
        /\ node_keys' = keys
        /\ \/ /\ self_contact' = identity
              /\ RunsAs(keys, identity)
              /\ UNCHANGED <<locked, calls, challenge_vars, updates, torn>>
           \/ /\ Ends
              /\ UNCHANGED <<self_contact, peer_ids, answers>>

Start ==
    /\ node = "down"
    /\ node' = "starting"
    /\ UNCHANGED <<db_vars, signs_as, peer_ids, wait_vars, challenge_vars,
                   updates, torn>>

Crash ==
    /\ node # "down"
    /\ Ends
    /\ UNCHANGED <<db_vars, peer_ids, answers>>

-----------------------------------------------------------------------------
(* Readiness. *)

\* The lock of ephemeral_data is free.  A task that answers a challenge holds it
\* until the match on the challenge ends.
EphemeralData == ~locked /\ answering = {}

Queued == {c \in Clients : calls[c] = "queued"}

CallWaitForReady(c) ==
    /\ node # "down"
    /\ calls[c] = "idle"
    /\ calls' = [calls EXCEPT ![c] = "sent"]
    /\ UNCHANGED <<db_vars, net_vars, ready, locked, challenge_vars, updates, torn>>

\* Before Ready the call is queued, or refused when the queue is full.  After
\* it the queue is gone: the arm that answers at once locks ephemeral_data
\* while the match still holds it, and its caller's sender is already taken.
WaitForReady(c) ==
    /\ calls[c] = "sent" /\ EphemeralData
    /\ IF ready # "done"
         THEN /\ calls' = [calls EXCEPT ![c] =
                    IF Cardinality(Queued) < MaxWaiting THEN "queued" ELSE "idle"]
              /\ UNCHANGED locked
         ELSE /\ calls' = [calls EXCEPT ![c] = "stuck"]
              /\ locked' = TRUE
    /\ UNCHANGED <<db_vars, net_vars, ready, challenge_vars, updates, torn>>

\* Slip: the calls that wait are not answered.
ForgetsWaiting ==
    /\ ready = "sent" /\ EphemeralData
    /\ ready' = "done"
    /\ UNCHANGED <<db_vars, net_vars, locked, calls, challenge_vars, updates, torn>>

\* (What else Ready does is in module Outbox.)
HandleReady ==
    /\ ready = "sent" /\ EphemeralData
    /\ ready' = "done"
    /\ calls' = [c \in Clients |-> IF c \in Queued THEN "idle" ELSE calls[c]]
    /\ UNCHANGED <<db_vars, net_vars, locked, challenge_vars, updates, torn>>

-----------------------------------------------------------------------------
(* Challenges. *)

\* generate_byte_challenge never makes the same one twice.
RegisterChallenge(ch) ==
    /\ node # "down" /\ EphemeralData
    /\ challenges[ch] = "new"
    /\ challenges' = [challenges EXCEPT ![ch] = "live"]
    /\ UNCHANGED <<db_vars, net_vars, wait_vars, answering, answers, updates, torn>>

UnregisterChallenge(ch) ==
    /\ node # "down" /\ EphemeralData
    /\ challenges[ch] = "live"
    /\ challenges' = [challenges EXCEPT ![ch] = "gone"]
    /\ UNCHANGED <<db_vars, net_vars, wait_vars, answering, answers, updates, torn>>

\* A TtlSet forgets a value one minute (for a share two) after its insertion.
Expire(ch) ==
    /\ challenges[ch] = "live"
    /\ challenges' = [challenges EXCEPT ![ch] = "gone"]
    /\ UNCHANGED <<db_vars, net_vars, wait_vars, answering, answers, updates, torn>>

\* A request with a challenge may come at any time, more than once and from
\* several peers.  One that is not known gets no response at all.
RequestedWith(ch) ==
    /\ node = "running" /\ EphemeralData
    /\ challenges[ch] = "live"
    /\ answering' = answering \cup {ch}
    /\ UNCHANGED <<db_vars, net_vars, wait_vars, answers, updates, torn>>

\* A share stays valid until it expires.
ValidateContactShareChallenge(ch) ==
    /\ RequestedWith(ch)
    /\ UNCHANGED challenges

\* Slip: an invite is looked up, as a share is.
ValidateInviteAsShare(ch) == ValidateContactShareChallenge(ch)

\* An invite is removed by the request that uses it.
ValidateSelfContactInviteChallenge(ch) ==
    /\ RequestedWith(ch)
    /\ challenges' = [challenges EXCEPT ![ch] = "gone"]

\* The self contact is read while the lock is held.  A share gives its public
\* part, an invite all of it.
AnswerChallenge(ch) ==
    /\ ch \in answering
    /\ answering' = answering \ {ch}
    /\ answers' = IF ch \in Invites THEN [answers EXCEPT ![ch] = @ + 1] ELSE answers
    /\ UNCHANGED <<db_vars, net_vars, wait_vars, challenges, updates, torn>>

-----------------------------------------------------------------------------
(* A new identity, given by the client or received for an invite. *)

BeginUpdate(u) ==
    \E by \in {"client", "network"}, identity \in Identities :
        /\ node # "down"
        /\ by = "network" => node = "running"
        /\ updates[u].at = "idle"
        /\ updates' = [updates EXCEPT ![u] =
              [at |-> by, identity |-> identity]]
        /\ torn' = (torn \/ UnderWay # {})
        /\ UNCHANGED <<db_vars, net_vars, wait_vars, challenge_vars>>

\* Slip: the network is told although the database refused.
GoesOn(u) == TRUE

\* The client's handler goes on to the network whatever the database says, the
\* other one only after Ok.
ToNetworkAfterFailure(u) == updates[u].at = "client"

\* UPDATE without a row to change is no error.
UpdateInDb(u) ==
    /\ updates[u].at \in {"client", "network"}
    /\ \/ /\ self_contact' =
                IF self_contact = NoOne THEN NoOne ELSE updates[u].identity
          /\ updates' = [updates EXCEPT ![u].at = "tell"]
          /\ torn' = (torn \/ self_contact = NoOne)
       \/ /\ updates' = IF ToNetworkAfterFailure(u)
                          THEN [updates EXCEPT ![u].at = "tell"]
                          ELSE [updates EXCEPT ![u] = NoUpdate]
          /\ torn' = (torn \/ updates[u].at = "client")
          /\ UNCHANGED self_contact
    /\ UNCHANGED <<node_keys, net_vars, wait_vars, challenge_vars>>

\* A command to the event loop, which applies every one in a task of its own.
UpdateInNetwork(u) ==
    /\ updates[u].at = "tell"
    /\ node = "running"
    /\ signs_as' = updates[u].identity
    /\ updates' = [updates EXCEPT ![u] = NoUpdate]
    /\ UNCHANGED <<db_vars, node, peer_ids, wait_vars, challenge_vars, torn>>

\* The backup replaces the whole database, the node's keys included, and nothing
\* checks whose it is; the network is not told.
RestoreDatabase ==
    \E keys \in KeyPairs, identity \in Identities :
        /\ node # "down"
        /\ node_keys' = keys
        /\ self_contact' = identity
        /\ peer_ids' = IF keys = node_keys THEN peer_ids ELSE {}
        /\ torn' = TRUE
        /\ UNCHANGED <<node, signs_as, wait_vars, challenge_vars, updates>>

-----------------------------------------------------------------------------
Init ==
    /\ node_keys = NoOne /\ self_contact = NoOne
    /\ node = "down" /\ signs_as = NoOne /\ peer_ids = {}
    /\ ready = "none" /\ locked = FALSE
    /\ calls = [c \in Clients |-> "idle"]
    /\ challenges = [ch \in Challenges |-> "new"]
    /\ answering = {}
    /\ answers = [ch \in Invites |-> 0]
    /\ updates = [u \in Updates |-> NoUpdate]
    /\ torn = FALSE

Next ==
    \/ Start \/ Crash \/ GetNodeInfo \/ StoreNodeKeys
    \/ HandleReady
    \/ \E c \in Clients : CallWaitForReady(c) \/ WaitForReady(c)
    \/ \E ch \in Challenges :
          \/ RegisterChallenge(ch) \/ UnregisterChallenge(ch) \/ Expire(ch)
          \/ AnswerChallenge(ch)
    \/ \E ch \in Invites : ValidateSelfContactInviteChallenge(ch)
    \/ \E ch \in Shares : ValidateContactShareChallenge(ch)
    \/ \E u \in Updates : BeginUpdate(u) \/ UpdateInDb(u) \/ UpdateInNetwork(u)
    \/ RestoreDatabase

\* The event loop asks until it is answered, and every task that can go on
\* does: the runtime polls it again.  Those that wait for ephemeral_data get it
\* in their turn, for the lock of tokio is fair.  Nothing forces the process to
\* run.
Fairness ==
    /\ WF_vars(GetNodeInfo) /\ WF_vars(StoreNodeKeys) /\ SF_vars(HandleReady)
    /\ \A c \in Clients : SF_vars(WaitForReady(c))
    /\ \A u \in Updates : WF_vars(UpdateInDb(u)) /\ WF_vars(UpdateInNetwork(u))
    /\ \A ch \in Challenges : WF_vars(AnswerChallenge(ch))

Spec == Init /\ [][Next]_vars /\ Fairness

-----------------------------------------------------------------------------
\* An invite gives the identity of the user away, private keys included: no
\* challenge is answered twice, whatever requests, expiry, removal and restarts
\* do (ValidateSelfContactInviteChallenge).
InviteAnsweredOnce ==
    \A ch \in Invites :
        answers[ch] + (IF ch \in answering THEN 1 ELSE 0) <= 1

\* The node has the same peer id at every start, although its keys are stored in
\* two statements that a crash may separate (handle_store_node_keys).  Excepted
\* is the restore of another installation's backup, which brings that one's keys
\* and so its peer id with the next start: the history begins anew there.
OnePeerId == Cardinality(peer_ids) <= 1

\* When no update is under way the network signs as the self contact of the
\* database: a restart changes nothing.  Excepted are, until the next restart,
\* an update the client made that the database refused or that came before there
\* was a self contact, two updates at once, and a restored backup.
IdentityAgrees ==
    node = "running" /\ UnderWay = {} /\ ~torn => signs_as = self_contact

\* A call of WaitForReady that was queued is answered (handle of Ready).
QueuedCallAnswered ==
    \A c \in Clients : (calls[c] = "queued") ~> (calls[c] = "idle")
=============================================================================
