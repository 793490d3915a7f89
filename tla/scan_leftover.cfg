SPECIFICATION Spec
CONSTANTS
  e1 = e1
  e2 = e2
  j1 = j1
  j2 = j2
  j3 = j3
  Entry = {e1, e2}
  Job = {j1, j2, j3}
  EntryOf <- TwoAndOne
  Call = {x1, x2, x3}
  None = None
  Parallel = 1
  MaxActive = 1
  MaxFaults = 0
  Undeletable = {e1}
INVARIANTS NothingLeftOver
CHECK_DEADLOCK FALSE
