SPECIFICATION FairSpec
CONSTANTS
  Files <- UsualFile
  RxThreads = {rx1}
  InvalidPaths <- MCInvalidPaths
  Panels = 4
PROPERTIES QuitIsHonoured
CHECK_DEADLOCK FALSE
