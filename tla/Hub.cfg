CONSTANTS
  Conns = {c1, c2}
  Cleaner = cleaner
  Proxy = proxy
  NoTask = none
  Macs = {m1, m2}
  Pool <- OneHost
  MaxId = 2
  Capacity = 1
  Datagrams <- AllDatagrams
  MaxFrames = 1
  Silences = TRUE
SPECIFICATION FairSpec
INVARIANTS
  RegisteredIsReachable
  GoneIsForgotten
PROPERTIES
  UsesPeerTable
  ClosedIsUnregistered
CHECK_DEADLOCK FALSE
