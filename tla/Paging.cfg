SPECIFICATION PagingSpec
CONSTANTS
  Addr = {a1,a2,a3}
  mMax = 2
  MaxJoins = 4
  MaxLeaves = 2
  MaxRepeats = 1
INVARIANTS
  PagingTypeOK
  PagingComplete
PROPERTIES
  ClientEnds
CHECK_DEADLOCK FALSE
