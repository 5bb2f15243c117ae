SPECIFICATION Spec
CONSTANTS
  Thread = {t1, t2}
  Handle = {h1, h2}
  NULL = NULL
  NoThread = NoThread
  MaxFrames = 2
  DrawTwice = FALSE
  DrawAtOnce = TRUE
  WaitExpires = FALSE
INVARIANTS
  FrameAccessValid
CHECK_DEADLOCK FALSE
