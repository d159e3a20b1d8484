SPECIFICATION Spec
CONSTANTS
  Strings <- MCStrings
  Times = {}
  Zone = 0
  Biggest = 1000
  Statements <- MCStatements
  ValueOf <- MCValueOf
  AggregateIn <- MCAggregateIn
  NothingAskedIn <- MCNothingAskedIn
  ColumnsIn <- MCColumnsIn
  MaxRows = 2
  MaxSide = 2
INVARIANTS JoinFindsEveryPair RowsAnswerWhere OrderIsStable  OnlyTheseAreUndefined
PROPERTY StatementEnds
