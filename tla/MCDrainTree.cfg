CONSTANTS
  Lines <- MCLinesTree
  Tokens <- MCTokens
  RawTokens <- MCTokensTree
  MaskedTokens <- MCTokensTree
  NumericTokens <- MCNumericTokens
  ParamStr = "*"
  SimNum = 1
  SimDen = 2
  MaxNodeDepth = 2
  MaxChildren = 3
  NoLimit = NoLimit
  MaxClusters = NoLimit
  MaxCalls = 5
SPECIFICATION Spec
INVARIANTS
  TypeOK
  MembersStayAdmissible
  NeverPanics
  IngestedLinesMatch
PROPERTIES
  RepeatIsNoop
  MinerSpec
CHECK_DEADLOCK FALSE
