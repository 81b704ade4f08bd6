CONSTANTS
  MaxRows = 2
  Band = 1
  MaxId = 5
  RowValue <- MCRow
  Bit <- MCBit
  Asking <- MCAsking
  MaxAmount = 2
  IntHalf = 4
  None = None
SPECIFICATION QuerySpec
PROPERTY
  EarliestOfReading
