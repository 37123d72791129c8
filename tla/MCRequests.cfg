CONSTANTS
  Fields <- MCFields
  Dates <- MCDates
  Times <- MCTimes
  Stamps <- MCStamps
  LevelOf <- MCLevelOf
  Width <- MCWidth
  NoLine = NoLine
  None = None
  Sessions = {s1, s2}
  Bodies <- MCBodies
  Queries <- MCQueries
  ContentTypes = {"text", "ndjson"}
  Lower <- MCLower
  Unset = Unset
  Bad = Bad
  EnvValues <- MCEnvValues
  Presented <- MCPresented
  MaxBodyBytes = 26
  MaxLines = 2
  MaxLineChars = 8
  MaxSamples = 2
  DefaultSamples = 1
  MaxRequests = 2
SPECIFICATION Spec
INVARIANTS
  SessionsHoldAccepted
  MirrorsCli
  FieldsAccounted
PROPERTIES
  AllOrNothing
CHECK_DEADLOCK FALSE
