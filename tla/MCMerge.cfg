SPECIFICATION Spec
CONSTANTS
  Record <- MCRecord
  Long <- MCLong
  Lists <- MCLists
  Missing = Missing
  Alone <- MCAlone
  Stray <- MCStray
  MaxInputs = 3
INVARIANTS
  Conserved
  Ordered
  ReadersStopped
CHECK_DEADLOCK FALSE
