CONSTANTS
  Harts = {0, 1}
  Sources = {1, 10}
  Priorities = {0, 1}
  UartIrq = 10
  LineOrder <- UartThenVirtio
  GuestCtx <- MachineAndSupervisor
  MaxInput = 1
  MaxKicks = 1
  MaxWrites = 1
SPECIFICATION FairSpec
INVARIANTS
  InputHoldsLine
  SteadyIsSeen
PROPERTIES
  InputIsRead
