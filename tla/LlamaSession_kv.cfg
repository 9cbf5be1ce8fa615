SPECIFICATION Spec
CONSTANTS
  MaxSeqLen = 7
  NBatch = 2
  MaxPrompt = 5
  MaxTokens = 3
  MaxRequests = 4
  MaxFailures = 2
INVARIANTS
  TypeOK
  SamplesFromWholePrompt
  RoomForAnswer
PROPERTIES
  DamageIsFinal
CHECK_DEADLOCK FALSE
