SPECIFICATION Spec
CONSTANTS
  SIZE_MOD = 1024
  MAX_HEAP = 256
  mem_start_brk = 64
  CHUNKSIZE = 96
  BUCKETS_COUNT = 10
  Sizes = {0, 8, 24, 72, 600}
  Tags = {1}
  Junk = {3}
  MaxRuns = 0
INVARIANTS TypeOK IInv HeapTiled Coalesced HeldBlocks PayloadsSafe
PROPERTIES GrowsOnlyWhenFull
VIEW View
CHECK_DEADLOCK FALSE
