SPECIFICATION Spec
CONSTANTS
  MAX_HEAP = 112
  mem_start_brk = 8
  INT_SPAN = 512
  Ids = {1, 2}
  Sizes = {0, 16, 20}
  Junk = {0, 1, 24}
  MaxResets = 1
  ReallocsNull = TRUE
INVARIANTS
  HeapTiled
  PrintShowsHeap
