SPECIFICATION Spec
CONSTANTS
  ParallelFactor = 2
  Starting = 1
  MaxClients = 2
  LogEvery = 2
  SizeT = 8
  FatalErrors = 1
  SpawnErrors = 1
INVARIANT DriftIsFailures
INVARIANT FewTooMany
PROPERTY TestEnds
CHECK_DEADLOCK FALSE
