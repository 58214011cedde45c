SPECIFICATION Spec
CONSTANTS
  MAX_HEAP = 32
  mem_start_brk = 8
  INT_SPAN = 256
  Ids = {0, 1}
  Sizes = {8, 24}
  Files <- MCFiles
  Pointers <- MCPointers
  Elsewhere = {64, 72}
  Breaks = {24, 40}
  Garbage = {0, 16}
  MaxTraces = 1
  SpeedRuns = 2
  Allocators = {FALSE}
  MayFail = TRUE
  Libc = FALSE
  Programs <- AnyNoZero
INVARIANTS
  HeldDisjoint
CHECK_DEADLOCK FALSE
