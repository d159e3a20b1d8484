SPECIFICATION Spec
CONSTANTS
  Rows = {r1}
  RowsPerBlock = 2
  MaxBlocks = 3
  MaxCrashes = 2
  CountMod = 2
  BlockCountMod = 3
  HeapGrowsIn = {"update"}
  HeapZeroes = {}
INVARIANTS ReachableUsed ListsEnd NullTogether
PROPERTIES CrashTouchesOneRow InsertOverwritesNoRow
\* The bounds on blocks and crashes stop the system: a full file takes no row,
\* and a process that died for the last time is not started again.
CHECK_DEADLOCK FALSE
