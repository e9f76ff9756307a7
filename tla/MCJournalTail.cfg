SPECIFICATION Spec
CONSTANTS
  k1 = k1
  k2 = k2
  t1 = t1
  t2 = t2
  Keys <- MCKeys
  AgentKeys <- MCAgentKeys
  Threads <- MCThreads
  TearPoints <- MCUnterminated
  DiskMayFail = FALSE
  MaxSeq = 5
  MaxCrashes = 2
SYMMETRY MCThreadSymmetry
PROPERTIES
  SettledNeverReruns
CHECK_DEADLOCK FALSE
