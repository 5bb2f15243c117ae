SPECIFICATION Spec
CONSTANTS
  Creator = {1, 2}
  Killer = {9}
  ByHand = {2}
  Paths <- MCPaths
  Depth = 2
  MaxRestarts = 1
  NULL = NULL
CHECK_DEADLOCK FALSE
INVARIANTS
  TypeOK
  TrueMeansLevels
  GuardedSucceeds
PROPERTIES
  RetrySucceeds
