CONSTANTS
  Lines <- MCLinesLru
  Tokens <- MCTokens
  RawTokens <- MCTokensLru
  MaskedTokens <- MCTokensLru
  NumericTokens <- MCNumericTokens
  ParamStr = "*"
  SimNum = 1
  SimDen = 2
  MaxNodeDepth = 3
  MaxChildren = 2
  NoLimit = NoLimit
  MaxClusters = 2
  MaxCalls = 6
SPECIFICATION Spec
INVARIANTS
  MinerInv
  LiveAreMostRecent
  LeafHomes
CHECK_DEADLOCK FALSE
