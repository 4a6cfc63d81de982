---------------------------- MODULE MCMigrations ----------------------------
(* Instances that start together beside an operator who rolls back.        *)
EXTENDS Migrations
=============================================================================
