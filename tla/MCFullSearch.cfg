CONSTANTS
  Lines <- MCLines
  Tokens <- MCTokens
  TokensOf <- MCTokensOf
  ParamStr = "*"
  SimNum = 1
  SimDen = 2
  MaxLines = 5
  NoLimit = NoLimit
SPECIFICATION Spec
PROPERTY IsFlatDrain
CHECK_DEADLOCK FALSE
