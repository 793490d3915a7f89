SPECIFICATION Spec
CONSTANTS
  Caller = {c1, c2}
  MaxRunCalls = 2
  MaxMerges = 2
  MaxRunEvents = 2
  UpgradeCall = {c1, c2}
  MaxUpgradeCalls = 2
  MaxUpgradeFaults = 2
  MaxAsks = 3
  MaxWire = 2
  MaxPageFaults = 1
  AccessCall = {c1, c2}
  MaxAccessChanges = 1
  Survey = {c1, c2}
  MaxInventoryChanges = 1
  BranchName = {"main", "stage", "work"}
  GitRemote = {"origin", "fork"}
  Reach = {{1}, {1, 2}}
  EnvName = {"stage"}
  MaxListEvents = 1
SYMMETRY CallsAlike
INVARIANTS TypeOK RunKept CatalogueHonored MergeHonest UpgradeKept PageTrue GithubKept InventoryTrue ListingTrue
CHECK_DEADLOCK FALSE
