SPECIFICATION Spec
CONSTANTS
  Workers = {w1, w2}
  Keys = {k1, k2, k3}
  Recs = {r1}
  Accs = {a1}
  Total = 2
  Amounts = {1, 2}
  Legacy = {0, 1}
  None = None
INVARIANTS
  BooksSound
  OkMeansRecorded
PROPERTIES
  ActiveAccountsOnly
SYMMETRY Symmetry
CHECK_DEADLOCK FALSE
