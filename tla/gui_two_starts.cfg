SPECIFICATION Spec
CONSTANTS
  Server = {s1, s2}
  StartClient = {c1, c2}
  StopClient = {}
  None = None
  MaxActive = 2
  MaxCrashes = 0
  MaxAttempts = 3
  Updatable = {}
  Leavable = {s1, s2}
SYMMETRY Symmetry
INVARIANTS OneRegistered
CHECK_DEADLOCK FALSE
