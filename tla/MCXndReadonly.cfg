CONSTANTS
  Slots <- MCSlots
  MaxRefs = 9
  Failing = {}
SPECIFICATION Spec
INVARIANTS
  ReadonlyKept
