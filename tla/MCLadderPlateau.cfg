SPECIFICATION Spec
CONSTANTS
  Mode = "C"
  Total = 2
  MaxRelaunch = 2
  WMeas = 2
  WTime = 1
  IndetCeil = 2
  Budget = 0
  MaxMeasures = 4
  MaxLadders = 1
PROPERTIES
  PlateauIsCut
CHECK_DEADLOCK FALSE
