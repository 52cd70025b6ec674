CONSTANTS
  NumHarts = 3
  MaxPid = 3
  Calls <- DaemonCalls
  Benchmarks = TRUE
SPECIFICATION FairSpec
INVARIANTS
  TaskInOnePlace
  QueuesInOrder
PROPERTIES
  IpiServesQueue
CHECK_DEADLOCK FALSE
