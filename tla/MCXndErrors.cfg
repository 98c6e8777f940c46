CONSTANTS
  Slots <- MCSlots
  MaxRefs = 2
  Failing = {"Ndt_FromType", "mblock_empty", "mblock_init", "pyxnd_alloc", "PyList_New", "pyxnd_view_move_type", "mblock_from_xnd", "deserialize"}
SPECIFICATION Spec
INVARIANTS
  RefsSuffice
CHECK_DEADLOCK FALSE
