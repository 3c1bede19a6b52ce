CONSTANTS
  t1 = t1
  t2 = t2
  App <- OneThreadOnly
  MaxCalls <- OnlyTwo
  Missing <- AllGiven
  StopMayThrow = FALSE
  Throwing = {}
SPECIFICATION FairSpec
PROPERTIES ReleaseReturns
CHECK_DEADLOCK FALSE
