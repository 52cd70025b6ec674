CONSTANTS
  QueueSize = 2
  IdxMod = 4
  MaxPackets = 5
  MaxBacklog = 2
  Kinds = {"frame", "empty", "big"}
  MaxSends = 5
SPECIFICATION Spec
INVARIANTS
  
  FramesInOrder
PROPERTIES
  
  UsedIsConsumed
CHECK_DEADLOCK FALSE
