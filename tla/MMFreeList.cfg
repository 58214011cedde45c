SPECIFICATION Spec
CONSTANTS
  MAX_HEAP = 192
  mem_start_brk = 8
  INT_SPAN = 512
  Ids = {1, 2}
  Sizes = {16, 32}
  Junk = {1}
  MaxResets = 0
  ReallocsNull = FALSE
INVARIANTS
  FreeListExact
  NoAdjacentFree
  FirstFit
PROPERTIES
  
  GrowsOnlyWhenNoneFits
