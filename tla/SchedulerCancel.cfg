CONSTANTS
  jobA = jobA
  jobB = jobB
  jobC = jobC
  run1 = run1
  Node = {1}
  Card = {0}
  Local = {1}
  Run <- OneRun
  RunOf <- OneRunOf
  Job <- SoloJobs
  Deps <- SoloDeps
  Needs <- EachOneCard
  Total <- Inventory
  Lacks <- NothingLacking
  Cancelled = {run1}
  Faults = {}
  MaxFaults = 0
SPECIFICATION Spec
INVARIANT CancelIsNotFailure
