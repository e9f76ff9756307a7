SPECIFICATION Spec
CONSTANTS
  NoDiff = "none"
  NonresultCut = 2
  SterileCut = 3
  StallCut = 2
  WindowMeas = 1
  WindowWall = 1
  Patience = 5
  TokenTotal = 0
  TokenCut = 0
  AgentCap = 8
  Contexts <- MCNested
  Scripts <- MCScripts
  Width = 1
  Polls = TRUE
  Asks = TRUE
  Shas <- MCOneSha
  Scores <- MCTwoScores
  MaxWaves = 2
  MaxKills = 1
INVARIANTS
  NothingAfterHalt
  ReplayRebuildsWindows
PROPERTIES
  JournaledVerdictsStand
CHECK_DEADLOCK FALSE
