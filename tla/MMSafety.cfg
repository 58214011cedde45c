SPECIFICATION FairSpec
CONSTANTS
  MAX_HEAP = 136
  mem_start_brk = 8
  INT_SPAN = 512
  Ids = {1, 2, 3}
  Sizes = {0, 16, 36, 255}
  Junk = {1}
  MaxResets = 0
  ReallocsNull = FALSE
INVARIANTS
  TypeOK
  NoAssertFails
  HeapTiled
  BoundaryTagsAgree
  PayloadsOwned
  NoLeak
  DataIntact
PROPERTIES
  ImplementsMalloc
  SearchEnds
