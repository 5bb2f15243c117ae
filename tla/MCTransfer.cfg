SPECIFICATION Spec
CONSTANTS
  MaxBytes = 4
  MaxLength = 2
  Window = 2
INVARIANTS
  TypeOK
  SentIsPrefix
  NeverBeyondMessage
PROPERTIES
  SendTrueMeansAll
  RecvTrueMeansNext
  TimedSendReturns
  TimedRecvReturns
