SPECIFICATION Spec
CONSTANTS
  MaxCalls <- MCMaxCalls
  MaxPieces <- MCMaxPieces
INVARIANT MethodAsDocumented
