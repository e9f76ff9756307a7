SPECIFICATION FairSpec
CONSTANTS
  Mode = "C"
  Total = 2
  MaxRelaunch = 2
  WMeas = 2
  WTime = 1
  IndetCeil = 2
  Budget = 0
  MaxMeasures = 3
  MaxLadders = 2
PROPERTIES
  BankedSolveIsReported
  ClimbingIsNotCut
  HarnessCutIsAWall
  EveryCellCloses
CHECK_DEADLOCK FALSE
