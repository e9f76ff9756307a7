SPECIFICATION Spec
CONSTANTS
  NoDiff = "none"
  NonresultCut = 3
  SterileCut = 3
  StallCut = 2
  WindowMeas = 3
  WindowWall = 1
  Patience = 5
  TokenTotal = 0
  TokenCut = 0
  AgentCap = 8
  Contexts <- MCSiblings
  Scripts <- MCScripts
  Width = 1
  Polls = FALSE
  Asks = FALSE
  Shas <- MCOneSha
  Scores <- MCScores
  MaxWaves = 2
  MaxKills = 0
INVARIANTS
  FirstRunDecidesLive
CHECK_DEADLOCK FALSE
