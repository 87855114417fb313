CONSTANTS
  g1 = g1
  g2 = g2
  g3 = g3
  k1 = k1
  k2 = k2
  Absent = Absent
  Torn = Torn
  Error = Error
  None = None
  Callers = {g1, g2}
  Keys = {k1}
  Faults = {}
  MaxGets = 2
  MaxCrashes = 1
SPECIFICATION Spec
SYMMETRY CallerSymmetry
INVARIANT WholeFiles
\* After the last Get the cache has nothing to do.
CHECK_DEADLOCK FALSE
