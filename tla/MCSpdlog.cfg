SPECIFICATION FairSpec
CONSTANTS
  Logger <- AllLoggers
  NameOf <- Names
  Policy <- Policies
  Thread = {t1}
  Worker = {w1}
  MaxMessages = 3
  MethodOf <- Methods
  Levels <- OnlyErr
  FlushLevels <- OnlyInfo
  QueueSize = 2
  MaxOps = 2
  MaxRounds = 1
  MaxSize = 1
  MaxFiles = 2
INVARIANTS DefaultIsRegistered LevelsFollow CircularIsFifo NothingVanishes OrderIsKept SinkIsSafe FilesAreTheEnd
PROPERTIES ShutdownReturns
CHECK_DEADLOCK FALSE
