\* Two workers and three tasks: a worker gets a second task while the other
\* still runs, and a task waits in sQ for a worker to become ready.  Task 1
\* has no function.
CONSTANTS
  MaxThreads = 2
  MaxTasks = 3
  MaxBatches = 1
  NullFunc = {1}
SPECIFICATION FairSpec
INVARIANTS
  IInv
  OneHolder
  NothingAbandoned
PROPERTIES
  ImplementsDispatch
  WaitCompletes
\* terminate returns, and the program ends
CHECK_DEADLOCK FALSE
