CONSTANTS
  MaxFree = 3
  Sources <- AllTexts
  Structs <- OneStruct
  Maps <- OneMap
  Kind <- Kinds
  Bools <- OneTrue
  Scanned <- ScanNumber
SPECIFICATION Spec
INVARIANTS NeverPanics ValueReadAsWritten LineEndingsAgree FailureKeepsPrefix
PROPERTIES ReadReturns
CHECK_DEADLOCK FALSE
