CONSTANTS
  p1 = p1
  p2 = p2
  None = None
  Torn = Torn
  Broken = "<broken>"
  Cut = "<cut>"
  Procs = {p1, p2}
  Inputs <- MCInputs
  Numbers <- MCNumbers
  BadURLs <- MCBadURLs
  Bare <- MCBare
  Quoted <- MCQuoted
  HandWritten <- Half
  MaxSetups = 0
  MaxStarts = 1
  MaxFaults = 0
SPECIFICATION Spec
INVARIANT HalfTLSDoesNotStart
\* Once the bounds are spent and every process has ended, nothing happens.
CHECK_DEADLOCK FALSE
