---------------------------- MODULE MCJobEngine ----------------------------
(* Small instances of JobEngine for TLC.                                   *)
EXTENDS JobEngine, TLC

TwoJobs == 1..2
OneJob == {1}
Delays == {0, 1}
Now == {0}
Interchangeable == Permutations(Workers)
=============================================================================
