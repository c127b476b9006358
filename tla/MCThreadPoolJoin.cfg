\* One worker and one task: the smallest pool whose terminate joins a thread.
CONSTANTS
  MaxThreads = 1
  MaxTasks = 1
  MaxBatches = 1
  NullFunc = {}
SPECIFICATION FairSpec
PROPERTY WorkerJoined
CHECK_DEADLOCK FALSE
