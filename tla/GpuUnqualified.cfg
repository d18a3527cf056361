CONSTANTS
  node1 = node1
  gpu1 = gpu1
  Node <- OneNode
  Gpu <- OneGpu
  NodeOf <- OnNode1
  Dcgm <- OneNode
  Faults = {"crash"}
  MaxFaults = 1
SPECIFICATION Spec
PROPERTY QualifiedFirst
