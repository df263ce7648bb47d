SPECIFICATION Spec
CONSTANTS
  SIZE_MOD = 1024
  MAX_HEAP = 152
  mem_start_brk = 64
  CHUNKSIZE = 96
  BUCKETS_COUNT = 10
  Sizes = {8, 24}
  Tags = {1}
  Junk = {3}
  MaxRuns = 0
INVARIANTS CheckAccepts
CHECK_DEADLOCK FALSE
