CONSTANTS
  node1 = node1
  gpu1 = gpu1
  Node <- OneNode
  Gpu <- OneGpu
  NodeOf <- OnNode1
  Dcgm <- OneNode
  Faults = {"crash", "restart", "upgrade", "ssh", "lost", "late", "spawn", "xid", "pages", "busy", "slow", "killed"}
  MaxFaults = 1
SPECIFICATION FairSpec
PROPERTIES FaultStops CardReturns
