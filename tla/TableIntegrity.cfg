SPECIFICATION Spec
CONSTANTS
  Strings <- MCStrings
  Times = {}
  Zone = 0
  Given <- MCGiven
  Written <- MCWritten
  ParentKeys <- MCParentKeys
  Setups <- MCSetups
  Definitions <- MCDefinitions
  Added <- MCAdded
  Rules <- MCRules
  Missing = "missing"
  MaxRows = 2
  MaxCounter = 2
  MaxAlters = 1
INVARIANTS RowsAreLegal OnlyGivenOrCopiedCollide
PROPERTIES NewRowsPassChecks
CHECK_DEADLOCK FALSE
