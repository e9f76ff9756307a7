SPECIFICATION FairSpec
CONSTANTS
  a1 = a1
  a2 = a2
  c1 = c1
  c2 = c2
  c3 = c3
  Calls <- MCCalls
  Watched <- MCWatched
  Callers <- MCTwo
  MaxConcurrent = 1
  MaxTotal = 2
  MaxDispatches = 3
  MaxCrashes = 1
PROPERTIES
  EveryCallAnswered
  WatchdogAnswers
CHECK_DEADLOCK FALSE
