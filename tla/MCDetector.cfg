SPECIFICATION FairSpec
CONSTANTS
  NoDiff = "none"
  NonresultCut = 3
  SterileCut = 3
  StallCut = 3
  WindowMeas = 3
  WindowWall = 2
  Patience = 1000
  TokenTotal = 0
  TokenCut = 0
  AgentCap = 1000
  Results <- MCResults
  MaxAgents = 24
  MaxWidth = 2
INVARIANTS
  WideIsNeverStricter
PROPERTIES
  ClimbIsNotCut
  EveryLoopHalts
CHECK_DEADLOCK FALSE
