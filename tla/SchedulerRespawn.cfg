CONSTANTS
  NumHarts = 2
  MaxPid = 3
  Calls <- DaemonCalls
  Benchmarks = TRUE
SPECIFICATION FairSpec
PROPERTIES
  RespawnCompletes
CHECK_DEADLOCK FALSE
