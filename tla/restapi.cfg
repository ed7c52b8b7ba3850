SPECIFICATION Spec
CONSTANTS
  MaxCalls <- MCMaxCalls
  MaxPieces <- MCMaxPieces
INVARIANTS TypeOK FirstAsAsked OwnSignature
PROPERTIES AnswerReported
