CONSTANTS
  ClintHarts = {0, 1}
  Word = 2
  Boards = {"native", "shared"}
  Registers <- MCRegisters
  Values = {1, 2}
  MaxTicks <- MCTicks
  MaxStores = 3
  DramBase = 1073741824
  DramSize = 20
  VirtioCount = 2
  Probes <- MCProbes
  SysWords = {0, 3}
  Producers = {p1}
  Capacity = 3
  Bytes = {0, 1}
  MaxBatch = 2
  MaxBytes = 5
  Threads = {1, 2}
  BatchSteps = 2
  ConsoleInterval = 4
  Keys = {"^A", "x"}
  HaltCodes = {21845}
  MaxTyped = 3
  MaxDevices = 1
  Workers = {1, 2}
  BootSteps = 2
  Chunks = 3
  GuestCodes = {21845}
  MaxStarts = 2
  Addresses = {a1}
  NoAddress = NoAddress
  InitialDelay = 2
  MaxDelay = 6
  MaxFrames = 2
  MaxInbound = 2
  MaxAttempts = 3
  NoGen = NoGen
  MaxGen = 4
SPECIFICATION Spec
INVARIANTS
  AccessComposes
  
PROPERTIES
  
  
  HaltStopsAll
  HaltReachesAll
  DropEndsThreads
CHECK_DEADLOCK FALSE
