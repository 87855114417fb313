CONSTANTS
  e1 = e1
  e2 = e2
  console = console
  hook = hook
  siem = siem
  pipe = pipe
  off = off
  noURL = noURL
  None = None
  Events = {e1, e2}
  Entries = {console, hook, siem, off, noURL}
  Hangs = {console}
  Conf <- MCConf
SPECIFICATION Spec
INVARIANT TypeOK
INVARIANT AtMostOnce
INVARIANT MutexInUse
INVARIANT UnharmedDelivered
PROPERTY FileForGood
PROPERTY DeliversOnce
PROPERTY SlowSinkDelaysNoOther
\* Once every event is emitted and the process has exited, nothing happens.
CHECK_DEADLOCK FALSE
