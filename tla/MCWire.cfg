SPECIFICATION FairSpec
CONSTANTS
  Workloads <- MCWorkloads
  msgSizeLimit = 12
  Base = 4
  MaxCuts = 2
  Mortal = TRUE
INVARIANTS
  IInv
  HandlerExact
  SuccessIsReal
  DispatcherSurvives
PROPERTIES
  Answered
CHECK_DEADLOCK FALSE
