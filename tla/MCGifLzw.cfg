SPECIFICATION Spec
CONSTANTS
  Shapes <- MCShapes
  Colours = {0, 1}
  InitCodeSize = 2
  MaxCodeSize = 4
INVARIANT DecodesPicture
CHECK_DEADLOCK FALSE
