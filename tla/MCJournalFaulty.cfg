SPECIFICATION Spec
CONSTANTS
  k1 = k1
  k2 = k2
  t1 = t1
  t2 = t2
  Keys <- MCKeys
  AgentKeys <- MCAgentKeys
  Threads <- MCThreads
  TearPoints <- MCAllTears
  DiskMayFail = TRUE
  MaxSeq = 4
  MaxCrashes = 2
SYMMETRY MCThreadSymmetry
INVARIANTS
  SeqOrdersTheFile
CHECK_DEADLOCK FALSE
