CONSTANTS
  Files <- MCShort
  BufferSize = 5
  NominalRecordSize = 2
  BufferSizeLimit = 2
  ReserveSize = 2
SPECIFICATION FairSpec
PROPERTY EndIsSeen
CHECK_DEADLOCK FALSE
