CONSTANTS
  Lines <- MCLines
  Kind <- MCKind
  Noise <- MCNoise
  Blank = " "
  Comma = ","
  Placeholder = "<*>"
  Groupers <- MCGroupers
  Delimiters <- MCDelimiters
  WordChars <- MCWordChars
  HexDigits <- MCDigits
  Digits <- MCDigits
  Digit <- MCDigit
  Letters <- MCLetters
  Signs = {"-"}
  Minus = "-"
  Zero = "0"
  Ex = "x"
  Dot = "."
  Point = "."
  IpMask = "<IP>"
  HexMask = "<HEX>"
  NumMask = "<NUM>"
  SampleCap = 2
  SlotSampleCap = 2
  TemplateClip = 5
  MinCompactTokens = 5
  MinCompactMarks = 2
  SimNum = 2
  SimDen = 5
  MaxNodeDepth = 2
  MaxChildren = 100
  MaxLines = 3
  NoLimit = NoLimit
SPECIFICATION Spec
INVARIANTS
  SlotsAreWords
  AlignmentIsLongest
  NumbersShareAGroup
  SummariesSpeakForMembers
CHECK_DEADLOCK FALSE
