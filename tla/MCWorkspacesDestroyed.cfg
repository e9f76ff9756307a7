SPECIFICATION Spec
CONSTANTS
  Engines = {"e1", "e2"}
  Ids = {1}
  Inodes <- MCInodes
  SetupFails = FALSE
INVARIANT NoEngineDestroysAnother
