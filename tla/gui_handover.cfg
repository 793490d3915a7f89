SPECIFICATION FairSpec
CONSTANTS
  Server = {s1, s2, s3}
  StartClient = {c1}
  StopClient = {}
  None = None
  MaxActive = 1
  MaxCrashes = 1
  MaxAttempts = 1
  Updatable = {s1}
  Leavable = {s1}
PROPERTIES GapCloses InvocationEnds
CHECK_DEADLOCK FALSE
