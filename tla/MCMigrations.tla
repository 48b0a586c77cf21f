---------------------------- MODULE MCMigrations ----------------------------
(***************************************************************************)
(* An instance of Migrations for TLC: each table has a row or none.  What  *)
(* a row refers to is the peer's id in some releases and its address, or   *)
(* the contact, in others.                                                 *)
(***************************************************************************)
EXTENDS Migrations

Optional(row) == {{}, {row}}

SmallContents ==
    {[contacts |-> c, peers |-> p, filerequests |-> f, filerequest_audience |-> a,
      received_files |-> v, remote_filerequests |-> r, pending_files |-> n] :
        c \in {{[id |-> "alice"]}},
        p \in Optional([id |-> "peer", peer_id |-> "address", contact_id |-> "alice"]),
        f \in {{[id |-> "inbox"]}},
        a \in {{}} \cup {{[id |-> "member", filerequest_id |-> "inbox", peer_id |-> x,
                           contact_id |-> "alice"]} : x \in {"peer", "alice"}},
        v \in {{}} \cup {{[id |-> "photo", filerequest_id |-> "inbox", peer_id |-> x,
                           contact_id |-> "alice"]} : x \in {"peer", "address"}},
        r \in {{}} \cup {{[id |-> "theirs", peer_id |-> x]} : x \in {"peer", "address"}},
        n \in Optional([id |-> "letter", target_filerequest_id |-> "theirs"])}
=============================================================================
