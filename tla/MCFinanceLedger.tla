--------------------------- MODULE MCFinanceLedger ---------------------------
(* Small instances of FinanceLedger for TLC.                               *)
EXTENDS FinanceLedger, TLC

Symmetry == Permutations(Workers) \cup Permutations(Keys)
              \cup Permutations(Recs) \cup Permutations(Accs)
=============================================================================
