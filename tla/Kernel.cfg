CONSTANTS
  Harts = {h1, h2, h3, h4}
  NoHart = NoHart
  DebugAssertions = TRUE
  Users = {u1, u2, u3}
  Writer = u1
  Receiver = u1
  PipeSize = 3
  Capacity = 2
  MaxBytes = 5
  MaxMessages = 4
  MaxWaiters = 1
  ServiceNames = {klogd, sysmond}
  Klogd = klogd
  Thief = 1
  Period <- MCPeriod
  InitialDelay = 1
  LogLimit = 8
  Banner <- MCBanner
  Text <- MCText
  MaxClock = 3
  MaxSpawned = 3
  Sectors <- AllSectors
  CacheMax = 3
  DirCount = 3
  Slots = 2
  BlockCount = 4
  Names = {"log", "file", "long", "dir/"}
  DirNames = {"dir/"}
  Cut <- CutLong
  MaxSize = 2
  MaxWrites = 3
  MaxRemoves = 1
  MaxLists = 1
SPECIFICATION KernelSpec
INVARIANTS
  HolderTellsOwner
  PipeIsFifo
  OrphanIsClosed
  TicksAreNumbered
  ReadIsNeverTorn
  SyncedIsRead
PROPERTIES
  ImplementsMutex
  CacheIsTransparent
CHECK_DEADLOCK FALSE
