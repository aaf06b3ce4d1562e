-------------------------- MODULE MCRelaunchBudget --------------------------
(* Instance of RelaunchBudget for TLC; the constants are in the .cfg files. *)
EXTENDS RelaunchBudget
=============================================================================
