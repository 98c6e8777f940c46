CONSTANTS
  Calls <- MCOrderedCalls
  Signatures = {}
  Pool = {}
  Values = {}
  ItemTypes = {}
  NDT_MAX_DIM = 3
INIT MCInit
NEXT MCNext
CHECK_DEADLOCK FALSE
INVARIANT ContiguousAfterBroadcast
