SPECIFICATION KeepSpec
CONSTANTS
  NumSectors = 3
  Slots = 4
  NumKeys = 2
  Value = {v0, v1}
  Default = v0
  MaxCrashes = 2
PROPERTIES
  NeverEraseLive
