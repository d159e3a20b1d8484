SPECIFICATION Spec
CONSTANTS
  Rows = {r1}
  RowsPerBlock = 2
  MaxBlocks = 3
  MaxCrashes = 0
  CountMod = 8
  BlockCountMod = 3
  HeapGrowsIn = {"update"}
  HeapZeroes = {}
INVARIANT NoWriteThroughStaleAccess
CHECK_DEADLOCK FALSE
