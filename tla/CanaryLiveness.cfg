CONSTANTS
  alice = alice
  bob = bob
  t1 = t1
  t2 = t2
  h1 = h1
  h2 = h2
  f1 = f1
  f2 = f2
  q1 = q1
  q2 = q2
  Placeholder = Placeholder
  None = None
  Sessions = {alice}
  Tokens = {t1, t2}
  Handlers = {h1}
  Requests = {q1, q2}
  Files = {f1}
  SecretFiles = {f1}
  Callback = FALSE
  Garbled = FALSE
  MaxUses = 2
  MaxWrites = 0
  MaxRuns = 2
SPECIFICATION Spec
PROPERTY UseIsAlerted
\* The last token planted, a handler that needs one more waits for ever.
CHECK_DEADLOCK FALSE
