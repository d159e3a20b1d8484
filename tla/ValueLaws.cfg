SPECIFICATION Spec
CONSTANTS
  Strings <- MCStrings
  Times <- MCTimes
  Zone = 0
  Operands <- MCOperands
  Sorted <- MCSorted
  MaxKeys = 3
INVARIANTS TypeOK OrderIsStrictWeak ComparisonsAgree TextReadsBack
CHECK_DEADLOCK FALSE
