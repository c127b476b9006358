CONSTANTS
  Files <- MCFiles
  NumAgents = {1, 2, 3, 4}
  NumCores = {1, 2, 3, 4}
  BlockLimits = {0, 2, 50}
  Width = 64
  Width32 = 8
  MaxIters = 8
SPECIFICATION PartitionFairSpec
INVARIANTS
  CutOnRecords
  NoRecordLost
  HangsOnlyAtEnd
PROPERTIES
  IterationsEnd
CHECK_DEADLOCK FALSE
