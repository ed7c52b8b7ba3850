SPECIFICATION Spec
CONSTANTS
  MaxCalls <- MCMaxCalls
  MaxPieces <- MCMaxPieces
PROPERTY ResultIsOfCall
