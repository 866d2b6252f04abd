SPECIFICATION Spec
CONSTANTS
  Contents <- MCContents
  Places <- MCPlaces
  MaxBytes = 3
  MaxRecords = 20
  MaxDepth = 16
  MaxString = 4
  MaxTotalBytes = 5
INVARIANTS
  ComparedTreesAreWhole
CHECK_DEADLOCK FALSE
