SPECIFICATION FairSpec
CONSTANTS
  e1 = e1
  e2 = e2
  j1 = j1
  j2 = j2
  j3 = j3
  Entry = {e1, e2}
  Job = {j1, j2, j3}
  EntryOf <- TwoAndOne
  Call = {x1, x2}
  None = None
  Parallel = 2
  MaxActive = 1
  MaxFaults = 1
  Undeletable = {e1}
INVARIANTS TypeOK NoEarlyEnd NoStaleResult DoneHasResult ParallelBound
PROPERTIES CallReturns
CHECK_DEADLOCK FALSE
