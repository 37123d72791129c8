CONSTANTS
  Lines <- MCLines
  TokensOf <- MCTokensOf
  Anchors <- MCAnchors
  Chars <- MCChars
  Weight <- MCWeight
  SimNum = 13
  SimDen = 20
  MinSharedAnchors = 2
  MinRemainingAnchors = 2
  MinStaticChars = 3
  MaxLines = 4
  None = None
SPECIFICATION Spec
INVARIANTS
  JoinedStayAnchored
  EqualNeighboursGrouped
PROPERTY GroupsAreMined
CHECK_DEADLOCK FALSE
