SPECIFICATION PagingSafety
CONSTANTS
  Addr = {a1, a2, a3}
  mMax = 1
  MaxJoins = 2
  MaxLeaves = 1
  MaxRepeats = 0
INVARIANTS
  NewServersReached
CHECK_DEADLOCK FALSE
