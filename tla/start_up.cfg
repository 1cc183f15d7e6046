SPECIFICATION KeepSpec
CONSTANTS
  NumSectors = 4
  Slots = 4
  NumKeys = 1
  Value = {v0, v1}
  Default = v0
  MaxCrashes = 1
PROPERTIES
  StartUpCompletes
