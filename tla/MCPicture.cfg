SPECIFICATION Spec
CONSTANTS
  Thread = {t1}
  Handle = {h1, h2}
  NULL = NULL
  NoThread = NoThread
  MaxFrames = 3
  DrawTwice = FALSE
  DrawAtOnce = FALSE
  WaitExpires = FALSE
INVARIANTS
  TypeOK
  FrameAccessValid
  NullHandleMeansQuiet
  IsPlayingAccurate
  NoBackgroundLeak
PROPERTIES
  ExitRequestHeld
  FramesInOrder
  StopReturns
  EveryFrameShown
CHECK_DEADLOCK FALSE
