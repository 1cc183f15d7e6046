SPECIFICATION Spec
CONSTANTS
  NumSectors = 3
  Size = 4
  MaxLen = 2
  MaxTime = 4
  UserStatus = {4}
  Garbage = {0}
  ZeroPayload = TRUE
  MaxCuts = 0
PROPERTIES
  IsTimeLog
VIEW Memory
CHECK_DEADLOCK FALSE
