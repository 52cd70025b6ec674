CONSTANTS
  TcpKeys = {k1}
  SeqSpace = 12
  VmIss <- MCVmIss
  ServerIss = 10
  QueueLen = 2
  ResponseLen = 1
  MaxPayload = 1
  UpLen = 2
  DownLen = 2
  MaxStreams = 2
  MaxConns = 1
  NoKey = nokey
  Vms = {v1, v2}
  VmPorts = {7}
  Servers <- MCServers
  Sources <- MCSources
  DnsPort = 53
  Echoes = {e1}
  NoOne = noone
  RecordSize = 2
  BufLen = 2
  FirstUrls <- MCFirstUrls
  Locations <- MCLocations
  HeadLen = 2
  BodyLen = 2
  MaxRedirects = 1
  MaxRecord = 3
  Hostnames <- MCHostnames
  Dot = 0
  MaxLabel = 2
  Pointer = 64
  TxSpace = 3
  TxStart = 1
  MaxLookups = 3
  SocketLen = 2
SPECIFICATION Spec
INVARIANTS
  
  OkIsWhole
  ResolvedIsAsked
PROPERTIES
  AnswerWasAsked
  
CHECK_DEADLOCK FALSE
