SPECIFICATION TransferSpec
CONSTANTS
  Workers = {w1, w2}
  Customers = {c1}
  Projects = {p1, p2}
  Tasks = {1, 2}
  MaxLeft = 1
  MaxRequested = 1
  Steps = {1, 2}
  Batch = 1
  Scenes <- FourScenes
  None = None
INVARIANTS
  PortfolioSound
PROPERTIES
  AttachedToLiving
  MappingKept
SYMMETRY Symmetry
CHECK_DEADLOCK FALSE
