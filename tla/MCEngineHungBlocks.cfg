SPECIFICATION FairSpec
CONSTANTS
  a1 = a1
  a2 = a2
  c1 = c1
  c2 = c2
  c3 = c3
  Calls <- MCCalls
  Watched <- MCCalls
  Callers <- MCTwo
  MaxConcurrent = 1
  MaxTotal = 0
  MaxDispatches = 3
  MaxCrashes = 0
PROPERTIES
  HungNeverBlocks
CHECK_DEADLOCK FALSE
