CONSTANTS
  Agents = {a1, a2}
  Term = Term
  Oversize = {2}
  MaxTasks = 3
  MaxBatches = 2
  MaxDuration = 1
  MaxCrashes = 1
SPECIFICATION FairSpec
INVARIANTS
  IInv
  StopAndWait
  BlockedHasWork
PROPERTIES
  ReportExact
  ImplementsDispatch
  WaitCompletes
  AgentsReleased
CHECK_DEADLOCK FALSE
