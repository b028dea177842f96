CONSTANTS
  MEM_SIZE = 10
  SIZEOF_STRUCT_MEM = 1
  MIN_SIZE = 2
  Sizes = {1, 3, 4}
SPECIFICATION Spec
INVARIANTS HeapKept
PROPERTIES FailsOnlyWhenFull CallsEnd
