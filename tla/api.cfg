SPECIFICATION Spec
CONSTANTS
  NumSectors = 3
  Slots = 3
  NumKeys = 1
  Value = {v0, v1}
  Default = v0
  Gone = gone
  MaxCrashes = 2
INVARIANTS
  TypeOK
  AtMostOneLive
  WritesHitErasedSlots
  StaysNormal
  IndexMatchesSeen
PROPERTIES
  NeverEraseLive
  ImplementsKVStore
CHECK_DEADLOCK FALSE
