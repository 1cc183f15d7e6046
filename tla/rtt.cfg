SPECIFICATION Spec
CONSTANTS
  Size = 6
  Terminal = {0, 1}
  MaxLen = 2
  PrintfSize = 1
  Serials = 2
  IsrOp = {"write", "setterm", "termout"}
  EarlyIsr = FALSE
VIEW Memory
INVARIANTS
  TypeOK
  HostSeesStream
  CopyFits
  RightTerminal
  NonBlocking
  WaitsOnlyForHost
CHECK_DEADLOCK FALSE
