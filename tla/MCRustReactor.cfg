SPECIFICATION FairSpec
CONSTANTS
  Registered <- MCProgram
  QueueBound = 2
  MaxFrames = 3
  None = None
INVARIANTS TypeOK NoLostWakeup FramesAccounted CriticalInOrder
PROPERTIES EveryFrameServed
CHECK_DEADLOCK FALSE
