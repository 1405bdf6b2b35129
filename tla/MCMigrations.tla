---------------------------- MODULE MCMigrations ----------------------------
(***************************************************************************)
(* Migrations over the databases that may be there before: empty (what     *)
(* init.sql leaves), with a users table, and with tables that something    *)
(* else than a revision has made.                                          *)
(***************************************************************************)
EXTENDS Migrations

Before(tables) ==
  [ version |-> 0, tables |-> tables, role |-> "enum", last_login |-> "plain",
    ingested_at |-> "plain" ]

AnyDatabase == {Before(tables) : tables \in SUBSET Tables}

WithUsers == {Before({"users"})}
=============================================================================
