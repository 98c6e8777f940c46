CONSTANTS
  Containers = {c1}
  Types <- MCUnionTypes
  Inputs <- ValuesOf
  Copied = {}
  MaxFail = 0
SPECIFICATION Spec
INVARIANTS
  PointersValid
