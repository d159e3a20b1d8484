SPECIFICATION Spec
CONSTANTS
  Letters <- MCLetters
  Pieces <- MCPieces
  Exports <- MCExports
  MaxText = 4
  MaxPattern = 3
  MaxNumber = 4
INVARIANTS TextFunctionsAgree OnlyTheseEndTheProcess CsvReadsBack
CHECK_DEADLOCK FALSE
