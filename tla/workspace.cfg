SPECIFICATION Spec
CONSTANTS
  Branch = {main, feat}
  Remote = {origin, fork}
  MainRemote = origin
  Window = {w1}
  Process = {p1, p2}
  Server = Server
  Nowhere = Nowhere
  MaxOutside = 1
  Machine = {s1, s2}
  MaxNumber = 2
  CreateAttempts = 2
  EditRetries = 1
  MaxDocOps = 3
  MaxKephFaults = 2
  MaxKephEvents = 4
  WorkDoc = {d1, d2}
  MaxEdits = 2
  MaxForeign = 1
  MaxPublishFaults = 1
  Proc = {s1, s2}
  MaxRuns = 3
  MaxPieces = 2
  MaxRunFaults = 1
  MaxName = 2
  Nested = {2}
  Healer = {h1, h2}
  MaxHeals = 2
  MaxLinkChanges = 1
  MaxLinkFaults = 1
  Editor = {s1, s2}
  MaxConfigOps = 2
  MaxConfigFaults = 1
  Env = {s1, s2}
  MaxMcpRuns = 2
  MaxMcpEvents = 1
  Tab = {s1, s2}
  MaxPrivacyEvents = 1
SYMMETRY EnvAlike
INVARIANTS TypeOK KephHonest PublishKeepsWork InstructionsKept LinksKept ConfigKept RegistrationKept PrivacyKept
PROPERTIES ConfirmedSwitch
CHECK_DEADLOCK FALSE
