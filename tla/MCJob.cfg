SPECIFICATION FairSpec
CONSTANTS
  Agent = {a1, a2}
  Segments = 3
  MaxBlocks = 2
  MaxFaults = 3
INVARIANTS
  IInv
  LossHasCause
  OwnBlocks
PROPERTIES
  RemovedIsMerged
  MainEnds
CHECK_DEADLOCK FALSE
