SPECIFICATION Spec
CONSTANTS
  SIZE_MOD = 1024
  MAX_HEAP = 64
  mem_start_brk = 64
  Incrs = {0, 8, 24, 64, 500, 512, 1016}
  MaxAreas = 6
INVARIANTS TypeOK BrkInArena AreasTile
