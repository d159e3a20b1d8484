SPECIFICATION Spec
CONSTANTS
  Inputs <- MCInputs
  Keywords <- MCKeywords
  Alphabets <- MCAlphabets
INVARIANTS TokensAreTheText TreeReadsAsTheText OnlyTheseReadPastTheEnd
PROPERTY SyntaxEnds
CHECK_DEADLOCK FALSE
