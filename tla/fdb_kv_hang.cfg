SPECIFICATION Spec
CONSTANTS
  NumSectors = 3
  Size = 4
  Threshold = 1
  Key = {k1, k2}
  Value = {v0, v1}
  Absent = absent
  Big = {v1}
  Factory = {}
  FactoryValue = v0
  MaxCuts = 1
INVARIANTS
  StartUpEnds
CHECK_DEADLOCK FALSE
