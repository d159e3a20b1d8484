SPECIFICATION Spec
CONSTANTS
  BlockSize = 14
  BlockHeaderSize = 1
  HeaderSize = 2
  RequestSizes = {0, 5, 12}
  MaxBlocks = 4
  MaxStale = 1
INVARIANTS TypeOK Tiling LiveIsUsed NoOverlap BlocksCanBeWalked
PROPERTIES LiveDataIsStable
\* A table whose creation aborted has no header and is never opened.
CHECK_DEADLOCK FALSE
