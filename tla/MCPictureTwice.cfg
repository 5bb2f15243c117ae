SPECIFICATION Spec
CONSTANTS
  Thread = {t1, t2}
  Handle = {h1, h2}
  NULL = NULL
  NoThread = NoThread
  MaxFrames = 2
  DrawTwice = TRUE
  DrawAtOnce = FALSE
  WaitExpires = FALSE
INVARIANTS
  OneAnimation
CHECK_DEADLOCK FALSE
