SPECIFICATION Spec
CONSTANTS
  Byte <- MCByte
  Zero = 0
  TotalSize = 3
  IntMax = 3
  MaxRequest = 4
INVARIANTS
  TypeOK
  PositionsAgree
PROPERTIES
  FifoSpec
