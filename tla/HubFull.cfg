CONSTANTS
  Conns = {c1, c2}
  Cleaner = cleaner
  Proxy = proxy
  NoTask = none
  Macs = {m1, m2}
  Pool <- TwoHosts
  MaxId = 2
  Capacity = 1
  Datagrams <- Heartbeats
  MaxFrames = 2
  Silences = FALSE
SPECIFICATION FairSpec
PROPERTIES
  HeartbeatHandled
CHECK_DEADLOCK FALSE
