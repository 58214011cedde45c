SPECIFICATION Spec
CONSTANTS
  MAX_HEAP = 32
  mem_start_brk = 8
  INT_SPAN = 256
  Indices = {0, 1}
  Sizes = {0, 8, 24}
  Pointers = {8, 16, 24}
  Allowed = {"unused", "zero", "reset"}
INVARIANTS
  ReplTypeOK
  
  ReplRangesExact
  
  
  
  ReplRangesApart
CHECK_DEADLOCK FALSE
