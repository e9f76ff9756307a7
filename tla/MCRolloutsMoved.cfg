SPECIFICATION Spec
CONSTANTS
  r1 = r1
  r2 = r2
  Rollouts = {r1, r2}
  Of <- TwoCalls
  Calls = 2
  Slots = {1, 2}
  MaxWorkers = 2
  Verdicts = {"partial", "pass"}
  Workspaces = {"pool"}
  Answers = {"go"}
  LinksFollowed = TRUE
PROPERTIES
  HandedOverTreesStay
CHECK_DEADLOCK FALSE
