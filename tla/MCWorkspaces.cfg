SPECIFICATION ScreenSpec
CONSTANTS
  c1 = c1
  c2 = c2
  a = a
  b = b
  x = x
  y = y
  Calls = {c1, c2}
  Texts = {a, b}
  Filters = {x, y}
  Visited <- Screens
  MaxOpenings = 2
  MaxSends = 2
  MaxLoads = 2
  MaxOthers = 1
INVARIANTS
  DraftsSound
  ListsSound
  SavedStaysShown
PROPERTIES
  NothingOverwrittenUnseen
SYMMETRY Symmetry
CHECK_DEADLOCK FALSE
