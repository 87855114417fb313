CONSTANTS
  i1 = i1
  i2 = i2
  h1 = h1
  h2 = h2
  None = None
  Sessions = {i1, i2}
  Hooks = {h1, h2}
  Sizes = {0, 1, 3}
  LineMax = 2
  MaxFiles = 1
  ShortWrites = TRUE
  MaxCalls = 2
  MaxClock = 2
  MaxRuns = 2
SPECIFICATION Spec
SYMMETRY Symmetry
INVARIANT TypeOK
INVARIANT Complete
INVARIANT CallsInOrder
PROPERTY ReplayStable
\* The last request recorded, the last process has nothing to do.
CHECK_DEADLOCK FALSE
