CONSTANTS
  Slots <- MCSlots
  MaxRefs = 3
  Failing = {"Ndt_FromType", "mblock_empty", "mblock_init", "pyxnd_alloc", "PyList_New", "fill_buffer", "type_from_buffer", "calloc"}
SPECIFICATION Spec
INVARIANTS
  TypeOK
  NothingKept
  ViewsValid
  NoUseAfterFree
