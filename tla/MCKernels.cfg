SPECIFICATION LoopSpec
CONSTANTS
  Path <- MCPath
  BadChar = "?"
  MaxKernels = 8192
  Backends = {"cpu", "cuda", "user"}
  Called = {"add", "power", "floor_divide", "remainder", "divide", "less", "equaln", "bitwise_and", "copy", "abs", "invert", "negative", "exp", "fabs", "reduce_add", "divmod"}
  Faulty = {"copy", "log2", "add", "less_equal", "divmod"}
  FaultAt = {1, 7, 2268}
  UserNames = {"f", "f2", "f?"}
  MaxBatches = 6
  Repeats = {1, 8191}
  Optional <- MCOptional
  OutDtypes <- MCOutDtypes
  Looped = {"add", "equaln", "power", "floor_divide", "remainder"}
  Shapes <- MCShapes
  Layouts <- MCLayouts
  Bases <- MCBases
  Exponents <- MCExponents
  BlockSize = 4
INVARIANTS TypeOK TableExact KernelRight DtypesExact RowsRight IntegersExact
CHECK_DEADLOCK TRUE
