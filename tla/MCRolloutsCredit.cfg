SPECIFICATION Spec
CONSTANTS
  r1 = r1
  r2 = r2
  Rollouts = {r1, r2}
  Of <- OneCall
  Calls = 1
  Slots = {1, 2}
  MaxWorkers = 2
  Verdicts = {"partial", "pass"}
  Workspaces = {"pool", "own", "fails"}
  Answers = {"go", "stop", "drain", "preempt"}
  LinksFollowed = TRUE
INVARIANTS
  CreditIsOwn
CHECK_DEADLOCK FALSE
