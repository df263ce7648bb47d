SPECIFICATION Spec
CONSTANTS
  Files <- MCFiles
  DEFAULT_TRACES = 1
  MaxArgs = 0
  Reps = 2
  BYTE = 4
  ALIGNMENT = 2
  Lo = 2
  MAX_HEAP = 6
  Sizes = {1, 3}
  Ids = {0, 1, 2}
  Faithful = TRUE
  MaxOps = 2
  Faults = FALSE
INVARIANTS NoFalseAlarm
