CONSTANTS
  Containers = {c1, c2}
  Types <- MCTypes
  Inputs <- ValuesOf
  Copied <- MCCopiedTypes
  MaxFail = 3
SPECIFICATION Spec
SYMMETRY MCSymmetry
INVARIANTS
  TypeOK
  PointersValid
  NothingLeaked
  ValueStored
