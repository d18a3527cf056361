CONSTANTS
  jobA = jobA
  jobB = jobB
  jobC = jobC
  run1 = run1
  Node = {1, 2}
  Card = {0, 1, 2}
  Local = {1}
  Run <- OneRun
  RunOf <- OneRunOf
  Job <- PairJobs
  Deps <- FreeDeps
  Needs <- MixedNeeds
  Total <- MixedInventory
  Lacks <- FirstLacksB
  Cancelled = {}
  Faults = {"crash", "launchCrash", "restart", "offline", "lost", "late", "spawn"}
  MaxFaults = 2
SPECIFICATION EndingSpec
INVARIANT Conserved
PROPERTY EveryJobEnds
