------------------------------ MODULE MCMigration ------------------------------
(***************************************************************************)
(* Instances of Migration for TLC.                                         *)
(***************************************************************************)
EXTENDS Migration, TLC

Interchangeable == Permutations(Jobs)
=============================================================================
