CONSTANTS
  jobA = jobA
  jobB = jobB
  jobC = jobC
  run1 = run1
  Node = {1, 2}
  Card = {0}
  Local = {1}
  Run <- OneRun
  RunOf <- OneRunOf
  Job <- ChainJobs
  Deps <- ChainDeps
  Needs <- EachOneCard
  Total <- TightInventory
  Lacks <- FirstLacksA
  Cancelled = {}
  Faults = {"crash", "launchCrash", "restart", "offline", "lost", "late", "spawn"}
  MaxFaults = 2
SPECIFICATION Spec
INVARIANTS TypeOK CardsExclusive RowsExclusive RowsFit DepsStoredFirst SuccessIsReal
PROPERTY FollowsLifecycle
