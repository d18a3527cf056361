CONSTANTS
  jobA = jobA
  jobB = jobB
  jobC = jobC
  run1 = run1
  Node = {1, 2}
  Card = {0}
  Local = {1}
  Run <- OneRun
  RunOf <- OneRunOf
  Job <- PairJobs
  Deps <- PairDeps
  Needs <- EachOneCard
  Total <- Inventory
  Lacks <- NothingLacking
  Cancelled = {}
  Faults = {"late"}
  MaxFaults = 1
SPECIFICATION Spec
INVARIANT CleanHandover
