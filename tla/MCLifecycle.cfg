CONSTANTS
  t1 = t1
  t2 = t2
  App <- Threads2
  MaxCalls <- ThreeAndOne
  Missing <- NoAddress
  StopMayThrow = TRUE
  Throwing = {"primary"}
SPECIFICATION FairSpec
INVARIANTS ReleaseStopsAll StartedRuns NoOverwrite OneThread
PROPERTIES CallsReturn
CHECK_DEADLOCK FALSE
