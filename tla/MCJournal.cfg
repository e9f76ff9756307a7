SPECIFICATION Spec
CONSTANTS
  k1 = k1
  k2 = k2
  t1 = t1
  t2 = t2
  Keys <- MCKeys
  AgentKeys <- MCAgentKeys
  Threads <- MCThreads
  TearPoints <- MCTorn
  DiskMayFail = FALSE
  MaxSeq = 5
  MaxCrashes = 2
SYMMETRY MCThreadSymmetry
INVARIANTS
  TypeOK
  AckedIsDurable
  RecoveryIsExact
PROPERTIES
  SettledNeverReruns
  ImplementsMemo
CHECK_DEADLOCK FALSE
