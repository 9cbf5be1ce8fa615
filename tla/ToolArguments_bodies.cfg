SPECIFICATION Spec
CONSTANT Pieces <- MCPieces
INVARIANTS
  StrictUntouched
  BareKeysRecovered
  RepairsSettle
  NoSiblingSwallowed
  DataQuotesSurvive
CHECK_DEADLOCK FALSE
