CONSTANTS
  Id = {idA, idB, idC}
  MaxJobs = 3
  MaxDeps = 2
SYMMETRY IdSymmetry
SPECIFICATION Spec
CHECK_DEADLOCK FALSE
INVARIANTS TypeOK Decides BlamedIsStuck
