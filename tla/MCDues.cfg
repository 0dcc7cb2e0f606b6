SPECIFICATION Spec
CONSTANTS
  Workers = {w1, w2}
  Keys = {k1, k2}
  Slots = {s1, s2}
  ReceiptKeys = {r1, r2, r3, r4}
  MaxExpected = 2
  MaxDay = 2
  MaxVersion = 3
  None = None
CONSTRAINT Bound
INVARIANTS
  DuesSound
  RealizedAsSeen
  AuditedOnceWhereCompared
SYMMETRY Symmetry
CHECK_DEADLOCK FALSE
