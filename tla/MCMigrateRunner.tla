-------------------------- MODULE MCMigrateRunner --------------------------
(***************************************************************************)
(* MigrateRunner for TLC: two runners, which only their names tell apart.  *)
(***************************************************************************)
EXTENDS MigrateRunner, TLC

Symmetry == Permutations(Runners)
=============================================================================
