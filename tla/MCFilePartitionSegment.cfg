CONSTANTS
  Files <- MCSharedRecord
  NumAgents = {2}
  NumCores = {3}
  BlockLimits = {50}
  Width = 64
  Width32 = 64
  MaxIters = 8
SPECIFICATION PartitionSpec
INVARIANT DividesSegment
CHECK_DEADLOCK FALSE
