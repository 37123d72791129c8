CONSTANTS
  Callers = {c1, c2}
  CallsEach = 2
  ChannelCapacity = 2
  None = None
  Lines <- MCLines
  Tokens <- MCTokens
  RawTokens <- MCTokensOf
  MaskedTokens <- MCTokensOf
  NumericTokens <- MCNumericTokens
  ParamStr = "*"
  SimNum = 1
  SimDen = 2
  MaxNodeDepth = 2
  MaxChildren = 0
  NoLimit = NoLimit
  MaxClusters = NoLimit
  MaxCalls = 4
SPECIFICATION FairSpec
INVARIANTS
  PipelineTypeOK
  ExactlyOnce
  AnswersAreOwn
  ProgramOrder
  ExpectsHold
  ShutdownDrains
PROPERTIES
  CallsEnd
  SentIsApplied
  ShutdownEnds
