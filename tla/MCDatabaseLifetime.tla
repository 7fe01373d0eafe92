-------------------------- MODULE MCDatabaseLifetime --------------------------
(* The commands of MCDatabase for DatabaseLifetime. *)
EXTENDS DatabaseLifetime, MCDatabase
===============================================================================
