------------------------------- MODULE MCDues -------------------------------
(* A small instance of Dues for TLC.  Behaviours with two contributions go  *)
(* on to their first receipt; with one they go on to the last receipt key.  *)
EXTENDS Dues

Symmetry == Permutations(Workers) \cup Permutations(Keys) \cup Permutations(Slots)
            \cup Permutations(ReceiptKeys)

Bound ==
  \/ kind # "contribution"
  \/ Cardinality({k \in Keys : record[k] # NoRecord}) <= 1
  \/ receipt = [r \in ReceiptKeys |-> NoReceipt]
=============================================================================
