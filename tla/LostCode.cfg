CONSTANTS
  operator1 = operator1
  Operators <- OneOperator
  MaxStarts = 2
  MaxCrashes = 1
SPECIFICATION Spec
INVARIANT NoCodeLost
CHECK_DEADLOCK FALSE
