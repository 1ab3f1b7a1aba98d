---------------------------- MODULE MCMigrations ----------------------------
(***************************************************************************)
(* Three runs of alembic, alone or together.                               *)
(***************************************************************************)
EXTENDS Migrations, TLC

CONSTANTS m1, m2, m3

RunSymmetry == Permutations(Runs)
=============================================================================
