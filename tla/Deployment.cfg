CONSTANTS
  p1 = p1
  p2 = p2
  None = None
  Torn = Torn
  Broken = "<broken>"
  Cut = "<cut>"
  Procs = {p1, p2}
  Inputs <- MCInputs
  Numbers <- MCNumbers
  BadURLs <- MCBadURLs
  Bare <- MCBare
  Quoted <- MCQuoted
  HandWritten <- Plain
  MaxSetups = 1
  MaxStarts = 3
  MaxFaults = 1
SYMMETRY MCSymmetry
SPECIFICATION Spec
INVARIANT TypeOK
INVARIANT AnswersKept
INVARIANT IdentityReused
\* Once the bounds are spent and every process has ended, nothing happens.
CHECK_DEADLOCK FALSE
