SPECIFICATION FairSpec
CONSTANTS
  Files <- MCFiles
  RxThreads = {rx1, rx2}
  InvalidPaths <- MCInvalidPaths
  Panels = 4
INVARIANTS TypeOK ConfigWhole Routable LifetimesRespected NoTornPanel LeftOpen
PROPERTIES QuitEndsProgram
CHECK_DEADLOCK FALSE
