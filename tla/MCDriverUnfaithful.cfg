SPECIFICATION Spec
CONSTANTS
  Files <- MCFiles
  DEFAULT_TRACES = 1
  MaxArgs = 0
  Reps = 1
  BYTE = 4
  ALIGNMENT = 2
  Lo = 2
  MAX_HEAP = 6
  Sizes = {1, 5}
  Ids = {0, 1}
  Faithful = FALSE
  MaxOps = 3
  Faults = FALSE
INVARIANTS IInv AcceptedRanges LossFound
