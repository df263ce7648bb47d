SPECIFICATION Spec
CONSTANTS
  Files <- MCFiles
  DEFAULT_TRACES = 2
  MaxArgs = 3
  Reps = 2
  BYTE = 4
  ALIGNMENT = 2
  Lo = 2
  MAX_HEAP = 6
  Sizes = {1, 3}
  Ids = {0, 1}
  Faithful = TRUE
  MaxOps = 3
  Faults = TRUE
INVARIANTS TypeOK IInv RangesExact NoFalseAlarm UtilAtMostOne ErrorsAreInvalidTraces CallerKeepsContract FileOptionWins
PROPERTIES Terminates
