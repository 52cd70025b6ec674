CONSTANTS
  XLEN = 8
  Dram <- DramBytes
  Unmapped <- NoPage
  Granule = 4
  None = None
  MaxBlock = 4
  PageSize = 16
  CacheSize = 2
  Hot = 2
  MaxGeneration = 1
  LastHalf = 65535
  PollEvery = 2
  Delegations <- MCDelegations
  Enables <- MCEnables
  Statuses <- MCStatuses
  Pcs = {0}
  Exceptions = {13}
  MaxTime = 1
  MaxCsrWrites = 1
  Nil = Nil
  AtomicHarts = {h1, h2}
  WordBits = 2
  Mixes <- MCMixes
  MaxOps = 3
  Nobody = Nobody
  MmuHarts = {m1, m2}
  Levels = 2
  Fan = 2
  TlbSize = 2
  TablePages = {0, 1}
  Satps <- MCSatps
  Contexts <- MCContexts
  Requests <- MCRequests
  Edits <- MCEdits
  MaxEdits = 1
  Absent = Absent
SPECIFICATION Spec
INVARIANTS
  DecodesCompressed
  TimerIsPrompt
  
  TranslationIsCurrent
PROPERTIES
  RunsTheProgram
  ReturnRestores
CHECK_DEADLOCK FALSE
