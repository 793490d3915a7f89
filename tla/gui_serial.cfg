SPECIFICATION Spec
CONSTANTS
  Server = {s1, s2, s3}
  StartClient = {c1, c2}
  StopClient = {c3}
  None = None
  MaxActive = 1
  MaxCrashes = 2
  MaxAttempts = 3
  Updatable = {}
  Leavable = {s1, s2, s3}
SYMMETRY Symmetry
INVARIANTS NobodyRobbed
PROPERTIES SlotSpec GoneMeansClosed
CHECK_DEADLOCK FALSE
