SPECIFICATION Spec
CONSTANTS
  Obj = {o1, o2}
  Socket = {k1, k2}
  INVALID_SOCKET = INVALID_SOCKET
  MaxPort = 3
  ScanMax = 2
  Careful = FALSE
INVARIANTS
  TypeOK
  StartupsAccounted
  HeldSocketsOpen
PROPERTIES
  OnlyReleaseTakes
  ScanHonest
  ScanReturns
