CONSTANTS
  None = None
  Text <- MCText
  Modes = {"linux", "windows"}
  Hosts <- MCHosts
  Calls <- MCCalls
  Secrets <- MCSecrets
  Fenced <- MCFenced
  MaxCalls = 3
  Epochs <- MCEpochs
  MaxFaults = 1
SPECIFICATION Spec
INVARIANT TypeOK
INVARIANT LinuxReadsLatest
INVARIANT ListsWhatWasWritten
INVARIANT FactsAgree
\* Once the bounds are spent, nothing happens.
CHECK_DEADLOCK FALSE
