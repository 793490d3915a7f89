SPECIFICATION WorkSpec
CONSTANTS WorkDoc = {d1, d2}
 MaxEdits = 2
 MaxForeign = 1
 MaxPublishFaults = 1
INVARIANTS OnlyUserDeletes
CHECK_DEADLOCK FALSE
