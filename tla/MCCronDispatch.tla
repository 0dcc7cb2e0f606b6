--------------------------- MODULE MCCronDispatch ---------------------------
(* Small instances of CronDispatch for TLC.                                *)
EXTENDS CronDispatch, TLC

Symmetry == Permutations(Calls)
=============================================================================
