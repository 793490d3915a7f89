SPECIFICATION Spec
CONSTANTS
  Server = {s1, s2}
  StartClient = {}
  StopClient = {c1}
  None = None
  MaxActive = 1
  MaxCrashes = 0
  MaxAttempts = 3
  Updatable = {s1}
  Leavable = {s1, s2}
PROPERTIES GoneMeansClosed
CHECK_DEADLOCK FALSE
