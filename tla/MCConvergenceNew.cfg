SPECIFICATION FairSpec
CONSTANTS
  NonresultCut = 1000
  SterileCut = 2
  StallCut = 2
  WindowMeas = 2
  WindowWall = 0
  Patience = 1000
  TokenTotal = 0
  TokenCut = 0
  AgentCap = 1000
  NoDiff <- MCNoDiff
  r1 = r1
  r2 = r2
  r3 = r3
  Regions = {r1, r2, r3}
  New = {r3}
  Modules = 2
  Trees <- NewWork
  Tests = {r1, r2}
  Passing <- NewPassing
  Deaths = FALSE
  Rescue = FALSE
  MaxRounds = 8
  MaxFaults = 0
  MaxKills = 0
INVARIANT AcceptedAlwaysPasses
CHECK_DEADLOCK FALSE
