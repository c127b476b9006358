CONSTANTS
  Files <- MCFiles
  BufferSize = 5
  NominalRecordSize = 2
  BufferSizeLimit = 2
  ReserveSize = 2
SPECIFICATION FairSpec
INVARIANTS
  IInv
  RecordsInOrder
  CompleteMeansAll
  StaysInBuffer
PROPERTIES
  AllDelivered
  AbandonReturns
CHECK_DEADLOCK FALSE
