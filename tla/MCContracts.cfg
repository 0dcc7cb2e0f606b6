SPECIFICATION ContractsSpec
CONSTANTS
  Workers = {w1, w2}
  Customers = {c1}
  Projects = {p1, p2}
  Tasks = {1}
  MaxLeft = 0
  MaxRequested = 1
  ContractIds = {k1, k2}
  VisitIds = {1, 2}
  Days = {1, 2, 3}
  MonthLength = 2
  OpeningKeys = {o1}
  Scenes <- ContractScenes
  None = None
INVARIANTS
  ContractsSound
  WorkDelivered
  BilledAsContracted
PROPERTIES
  FinalVisitsKept
SYMMETRY Symmetry
CHECK_DEADLOCK FALSE
