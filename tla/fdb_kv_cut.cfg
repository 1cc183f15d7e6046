SPECIFICATION Spec
CONSTANTS
  NumSectors = 3
  Size = 4
  Threshold = 1
  Key = {k1, k2}
  Value = {v0, v1}
  Absent = absent
  Big = {}
  Factory = {}
  FactoryValue = v0
  MaxCuts = 1
PROPERTIES
  IsAtomicMap
CHECK_DEADLOCK FALSE
