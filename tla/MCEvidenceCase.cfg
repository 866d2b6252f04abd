SPECIFICATION Spec
CONSTANTS
  Inventory <- MCInventory
  Extractions <- MCExtractions
  Bare <- MCBare
  ReturnStates <- MCReturnStates
  MaxRecords = 20
  MaxDepth = 16
  MaxString = 4
  MaxBytes = 3
  MaxTotalBytes = 5
  MaxOutputBytes = 6
INVARIANTS
  TypeOK
  AcceptedIsFinished
  CompleteIsEarned
  FinishedIsAccepted
PROPERTIES
  RunEnds
CHECK_DEADLOCK FALSE
