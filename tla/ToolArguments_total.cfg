SPECIFICATION Spec
CONSTANT Pieces <- MCPieces
INVARIANT FailsRatherThanPanics
CHECK_DEADLOCK FALSE
