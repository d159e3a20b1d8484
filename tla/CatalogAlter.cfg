SPECIFICATION Spec
CONSTANTS
  Names = {"t"}
  Rows = {r1}
  MaxTime = 1
PROPERTIES RestructureKeepsRows
