SPECIFICATION Spec
CONSTANTS
  Thread = {0, 1, 2}
  Lock = {l1}
  NULL = NULL
  MaxEntries <- MCEntries
  Main = 0
  Worker = {1, 2}
  Runnable = {r}
  Utils = {u}
  Handle = {h1, h2}
  Code = {7}
INVARIANTS
  TypeOK
  GuardsAccounted
  ExitCodeHonest
PROPERTIES
  MutexSpec
  CleanedMeansEnded
  CleaningReturns
CHECK_DEADLOCK FALSE
