CONSTANTS
  alice = alice
  bob = bob
  t1 = t1
  t2 = t2
  h1 = h1
  h2 = h2
  f1 = f1
  f2 = f2
  q1 = q1
  q2 = q2
  Placeholder = Placeholder
  None = None
  Sessions = {alice, bob}
  Tokens = {t1, t2}
  Handlers = {h1, h2}
  Requests = {q1}
  Files = {f1, f2}
  SecretFiles = {f1}
  Callback = TRUE
  Garbled = TRUE
  MaxUses = 1
  MaxWrites = 1
  MaxRuns = 2
SPECIFICATION Spec
SYMMETRY Symmetry
INVARIANT TypeOK
INVARIANT PlantedIsWatched
INVARIANT AlertsAttributed
INVARIANT AnsweredAfterAlert
INVARIANT PlantedForOneSession
\* The last token planted, a handler that needs one more waits for ever.
CHECK_DEADLOCK FALSE
