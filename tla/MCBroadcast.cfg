CONSTANTS
  Calls <- MCCalls
  Signatures <- MCSignatures
  Pool <- MCPool
  Values <- MCValues
  ItemTypes <- MCItemTypes
  NDT_MAX_DIM = 3
INIT MCInit
NEXT MCNext
CHECK_DEADLOCK FALSE
INVARIANTS
  TypeOK
  RefusedForCause
  ElementsKept
  OutputsDisjoint
  KernelApplied
  TypecheckExact
  TypesInferred
