------------------------------ MODULE MCOutbox ------------------------------
(***************************************************************************)
(* Instances of Outbox and Migrations for TLC.                             *)
(*                                                                         *)
(* A database is migrated before the brain uses it, and the two models     *)
(* share no state: there is a database to migrate, or files to send.       *)
(***************************************************************************)
EXTENDS Outbox, MCMigrations

\* Two files with one source.
OneTarget == [f \in Files |-> "inbox"]

OneSource == [f \in Files |-> "photo"]

NoDatabase ==
    /\ live = {} /\ backup = {} /\ phase = "none"
    /\ planned = <<>> /\ start = {} /\ crashes = 0

MCInit == Init /\ (MigrationsInit \/ NoDatabase)

MCNext ==
    \/ phase = "none" /\ Next /\ UNCHANGED migration_vars
    \/ phase # "none" /\ MigrationsNext /\ UNCHANGED vars

MCSpec == MCInit /\ [][MCNext]_<<vars, migration_vars>>

=============================================================================
