CONSTANTS
  Lines <- MCLinesMask
  Tokens <- MCTokens
  RawTokens <- MCRawMask
  MaskedTokens <- MCMaskedMask
  NumericTokens <- MCNumericTokens
  ParamStr = "*"
  SimNum = 1
  SimDen = 2
  MaxNodeDepth = 2
  MaxChildren = 3
  NoLimit = NoLimit
  MaxClusters = NoLimit
  MaxCalls = 3
SPECIFICATION Spec
INVARIANT IngestedLinesMatch
CHECK_DEADLOCK FALSE
