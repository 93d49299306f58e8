SPECIFICATION Spec
CONSTANTS
  RxThreads = {rx1, rx2}
  Keys <- MCKeys
  OnlineMs = 2
  MaxTime = 4
  MaxFrames = 3
  Wrap = 16
  None = None
INVARIANTS TypeOK AgeDoesNotWrap OnlineMeansHeard
