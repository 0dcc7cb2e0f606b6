SPECIFICATION Spec
CONSTANTS
  Workers = {w1, w2}
  Keys = {k1, k2, k3, k4}
  a1 = a1
  k1 = k1
  k2 = k2
  k3 = k3
  k4 = k4
  Accs = {a1}
  Card = Card
  Scenes <- AllScenes
  MaxServer = 3
  MaxInst = 4
  MaxVersion = 3
  None = None
INVARIANTS
  SpendingSound
  PlanAddsUp
PROPERTIES
  OkMeansPaid
  HistoryKept
SYMMETRY Symmetry
CHECK_DEADLOCK FALSE
