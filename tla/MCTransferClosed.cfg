SPECIFICATION Spec
CONSTANTS
  MaxBytes = 2
  MaxLength = 2
  Window = 2
PROPERTY
  TimeOutEndsRecv
CHECK_DEADLOCK FALSE
