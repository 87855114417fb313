CONSTANTS
  i1 = i1
  i2 = i2
  s1 = s1
  s2 = s2
  c1 = c1
  c2 = c2
  read = read
  write = write
  exec = exec
  k1 = k1
  k2 = k2
  k3 = k3
  None = None
  Sessions = {i1}
  States = {s1}
  Calls = {c1}
  Tools = {read, write, exec}
  Paths = {k1, k2, k3}
  Outcomes = {"result", "toolError", "rpcError"}
  ReconThreshold = 3
  BulkThreshold = 5
  RetryThreshold = 3
  ReadWindow = 1
  MaxCalls = 4
  MaxClock = 0
  MaxCanaryFires = 0
  ReadTools <- MCReadTools
  WriteTools <- MCWriteTools
  ExecuteTools <- MCExecuteTools
  SystemPaths <- MCSystemPaths
  CredPaths <- MCCredPaths
SPECIFICATION HSpec
SYMMETRY SystemSymmetry
INVARIANT FailuresAlerted
\* Once the budgets of the bounds are spent the server is idle, as it may be.
CHECK_DEADLOCK FALSE
