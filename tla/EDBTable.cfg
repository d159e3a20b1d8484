SPECIFICATION Spec
CONSTANTS
  Rows = {r1, r2}
  RowsPerBlock = 2
  MaxBlocks = 3
  MaxCrashes = 0
  CountMod = 16
  BlockCountMod = 3
  HeapGrowsIn = {"insert"}
  HeapZeroes = {}
INVARIANTS TypeOK FileAccountsForRows
PROPERTIES RefinesRowList
