SPECIFICATION Spec
CONSTANTS
  a1 = a1
  a2 = a2
  c1 = c1
  c2 = c2
  c3 = c3
  Calls <- MCCalls
  Watched <- MCWatched
  Callers <- MCThree
  MaxConcurrent = 2
  MaxTotal = 3
  MaxDispatches = 4
  MaxCrashes = 2
SYMMETRY MCSymmetry
INVARIANTS
  TypeOK
  WorkersWithinSlots
  SlotsComeBack
  TallyIsExact
  CeilingUpToLoss
  ResumeIsFree
CHECK_DEADLOCK FALSE
