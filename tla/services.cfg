SPECIFICATION Spec
CONSTANTS
  ScanEntry = {e1, e2}
  Beat = Beat
  Caller = Caller
  NoGoroutine = NoGoroutine
  MaxUpdates = 1
  MaxFileFaults = 1
  Session = {s1, s2}
  Command = {c1, c2}
  Stream = {t1}
  Nothing = Nothing
  StateLimit = 1
  MaxLost = 1
INVARIANTS TypeOK CountHonest StoreKept
PROPERTIES NotificationsOrdered EmitterGoesOn FailureShown ShutdownReleases
CHECK_DEADLOCK FALSE
