CONSTANTS
  NThreads = 3
  NArgs = 2
  NRows = 4
  NCols = 3
  Tile <- MCTile
  MaxParts = 13
  MaxShape = 4
  MaxDims = 3
SPECIFICATION MCSpec
INVARIANTS
  TypeOK
  NoUseAfterFree
  NothingLeaked
  WrittenOnce
  FirstErrorReported
  IInv
  SplitTypeOK
  SlicesTile
PROPERTIES
  ImplementsContract
  CallEnds
  AsManyAsPossible
CHECK_DEADLOCK FALSE
