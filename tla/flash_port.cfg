SPECIFICATION Spec
CONSTANTS
  NumWords = 2
  PageWords = 1
  Half = {FF, ZERO, d}
  FF = FF
  ZERO = ZERO
  MaxFaults = 1
INVARIANTS
  TypeOK
  FreshWriteStores
  FreshWriteIsPrefix
  RewriteSucceeds
