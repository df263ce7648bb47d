SPECIFICATION Spec
CONSTANTS
  SIZE_MOD = 1024
  MAX_HEAP = 336
  mem_start_brk = 64
  CHUNKSIZE = 40
  BUCKETS_COUNT = 10
  Sizes = {8}
  Tags = {1, 2}
  Junk = {3}
  MaxRuns = 1
INVARIANTS SeglistLinked ListsReachable PayloadIntact CheckResult
CHECK_DEADLOCK FALSE
VIEW View
