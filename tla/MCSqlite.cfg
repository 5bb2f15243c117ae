SPECIFICATION Spec
CONSTANTS
  Process = {1, 2}
  Careless = {2}
  Handle = {1, 2}
  MaxRows <- MCMaxRows
  Readers = {1}
  NULL = NULL
INVARIANTS TypeOK ToldIsStored ReadsTheAnswer
PROPERTIES TransactionsWhole LocksReleased
