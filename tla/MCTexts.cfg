SPECIFICATION Spec
CONSTANTS
  Values <- NoOrOne
  PeerNames = {"CanYouActivateMe", "SyncData", "Unknown"}
  PeerSeqid = 7
  PeerFields <- FieldsOfPeer
  MaxTokens = 5
  MaxCalls = 2
  TicksPerSec = 2
  CacheRefresh = 5
  Offset <- SummerTime
  LogTimes = {20, 21, 22, 23, 29, 30, 31, 32, 44}
  Day = 4
  RotationTime = 1
  MaxTime = 14
  NArgs = 2
  MaxInt = 15
  IntBits = 30
  InlineSize = 2
  NBuffers = 2
  AppendSizes = {1, 3}
  MaxChars = 6
  Elements <- Inputs
  MaxLength <- Lengths
  Messages <- Lines
INVARIANTS ArgsAreRead AnsweredOnce OnlyRepliesReturn PaddedExactly FormatIsStrict FieldIsExact BufferKeeps TimeIsCurrent RightDay
PROPERTIES PatternGrows
CHECK_DEADLOCK FALSE
