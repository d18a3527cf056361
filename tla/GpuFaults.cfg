CONSTANTS
  node1 = node1
  gpu1 = gpu1
  Node <- OneNode
  Gpu <- OneGpu
  NodeOf <- OnNode1
  Dcgm <- OneNode
  Faults = {"crash", "restart", "noReply", "lost", "late", "slow", "save", "xid"}
  MaxFaults = 2
SPECIFICATION Spec
INVARIANTS TypeOK TestAlone FaultNotForgotten
