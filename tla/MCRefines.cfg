SPECIFICATION Spec
CONSTANTS
  SIZE_MOD = 1024
  MAX_HEAP = 184
  mem_start_brk = 64
  CHUNKSIZE = 40
  BUCKETS_COUNT = 10
  Sizes = {8, 24}
  Tags = {1}
  Junk = {3}
  MaxRuns = 1
INVARIANTS IInv
PROPERTIES SearchEnds ImplementsAllocator
CHECK_DEADLOCK FALSE
