CONSTANTS
  Far = 50
  PrimaryTypes <- MCPrimaryTypes
  BufferTypes <- MCBufferTypes
  BufferSizes <- MCBufferSizes
  Subscripts <- MCSubscripts
  Assignments <- MCAssignments
  Shapes <- MCShapes
  Values <- MCValues
  CopyTypes <- MCCopyTypes
  Comparands <- MCComparands
  Format <- MCFormat
  Limit <- MCLimit
  Inf <- MCInf
  NaN <- MCNaN
  MaxSteps = 2
  ReshapesScalars = FALSE
INIT Init
NEXT Next
CHECK_DEADLOCK FALSE
INVARIANTS
  TypeOK
  InBlock
  SubscriptAsPython
  LayoutKeepsElements
  CopiesArrive
  BoundsExact
  ComparedByValue
