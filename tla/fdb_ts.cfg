SPECIFICATION Spec
CONSTANTS
  NumSectors = 3
  Size = 4
  MaxLen = 2
  MaxTime = 4
  UserStatus = {4}
  Garbage = {0, 3}
  ZeroPayload = TRUE
  MaxCuts = 1
INVARIANTS
  PayloadIntact
  OneSectorInUse
  QueryIsExactUnlessTight
  ReverseIsReverse
PROPERTIES
  IsTimeLogUnlessMisled
VIEW Memory
CHECK_DEADLOCK FALSE
