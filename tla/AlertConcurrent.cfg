CONSTANTS
  i1 = i1
  i2 = i2
  s1 = s1
  s2 = s2
  c1 = c1
  c2 = c2
  read = read
  write = write
  exec = exec
  k1 = k1
  k2 = k2
  k3 = k3
  None = None
  Sessions = {i1}
  States = {s1, s2}
  Calls = {c1, c2}
  Tools = {read, write, exec}
  Paths = {k1, k3}
  Outcomes = {"result", "rpcError"}
  ReconThreshold = 2
  BulkThreshold = 2
  RetryThreshold = 2
  ReadWindow = 0
  MaxCalls = 3
  MaxClock = 1
  MaxCanaryFires = 1
  ReadTools <- MCReadTools
  WriteTools <- MCWriteTools
  ExecuteTools <- MCExecuteTools
  SystemPaths <- MCSystemPaths
  CredPaths <- MCCredPaths
SPECIFICATION Spec
INVARIANT TypeOK
INVARIANT AtMostOncePerState
INVARIANT AlertAccounted
PROPERTY AlertedThenEmitted
\* Once the budgets of the bounds are spent the server is idle, as it may be.
CHECK_DEADLOCK FALSE
