SPECIFICATION Spec
CONSTANTS
  MAX_HEAP = 136
  mem_start_brk = 8
  INT_SPAN = 512
  Ids = {1, 2}
  Sizes = {16, 64}
  Junk = {1}
  MaxResets = 0
  ReallocsNull = FALSE
PROPERTIES
  ShrinkShortens
