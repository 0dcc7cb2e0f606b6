SPECIFICATION ScreenSpec
CONSTANTS
  c1 = c1
  c2 = c2
  a = a
  b = b
  x = x
  y = y
  Calls = {c1, c2}
  Texts = {a, b}
  Filters = {x, y}
  Visited <- Finance
  MaxOpenings = 3
  MaxSends = 3
  MaxLoads = 2
  MaxOthers = 0
SYMMETRY Symmetry
CHECK_DEADLOCK FALSE
INVARIANT CollectionsRetriedOnce
