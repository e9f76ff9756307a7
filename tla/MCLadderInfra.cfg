SPECIFICATION Spec
CONSTANTS
  Mode = "C"
  Total = 2
  MaxRelaunch = 1
  WMeas = 2
  WTime = 1
  IndetCeil = 2
  Budget = 0
  MaxMeasures = 2
  MaxLadders = 2
PROPERTIES
  InfraIsRetried
CHECK_DEADLOCK FALSE
