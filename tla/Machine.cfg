CONSTANTS
  operator1 = operator1
  Operators <- OneOperator
  MaxStarts = 3
  MaxCrashes = 2
SPECIFICATION FairSpec
INVARIANTS TypeOK OneDaemon EndedIsOver CleanExitIsReal
PROPERTIES StartedOnce StartServes EndIsAnswered
CHECK_DEADLOCK FALSE
