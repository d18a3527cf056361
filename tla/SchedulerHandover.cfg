CONSTANTS
  jobA = jobA
  jobB = jobB
  jobC = jobC
  run1 = run1
  Node = {1, 2}
  Card = {0}
  Local = {1}
  Run <- OneRun
  RunOf <- OneRunOf
  Job <- PairJobs
  Deps <- PairDeps
  Needs <- EachOneCard
  Total <- Inventory
  Lacks <- NothingLacking
  Cancelled = {run1}
  Faults = {"crash", "restart", "lost", "store"}
  MaxFaults = 1
SPECIFICATION FairSpec
INVARIANTS CleanHandover NeverTwice
PROPERTIES VerdictFinal CancelCompletes
