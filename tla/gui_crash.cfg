SPECIFICATION Spec
CONSTANTS
  Server = {s1, s2}
  StartClient = {c1}
  StopClient = {c2}
  None = None
  MaxActive = 1
  MaxCrashes = 1
  MaxAttempts = 1
  Updatable = {s1, s2}
  Leavable = {s1, s2}
SYMMETRY Symmetry
INVARIANTS TypeOK Ownership FileGoesWithServer
PROPERTIES ExitSparesOthers
CHECK_DEADLOCK FALSE
