SPECIFICATION Spec
CONSTANTS
  Record <- MCRecord
  Long <- MCLong
  Lists <- MCLists
  Missing = Missing
  Alone <- MCAlone
  Stray <- MCStray
  MaxInputs = 3
INVARIANTS
  SsortSorts
CHECK_DEADLOCK FALSE
