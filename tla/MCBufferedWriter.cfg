CONSTANTS
  RecSize <- MCRecSize
  BufferSize = 4
  ReserveSize = 1
SPECIFICATION FairSpec
INVARIANTS
  IInv
  RecordsInOrder
  Complete
PROPERTIES
  QueuedWritten
  StopReturns
CHECK_DEADLOCK FALSE
