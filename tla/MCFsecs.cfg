SPECIFICATION Spec
CONSTANTS
  W = 16
  NEVENT = 2
  THRESHOLD = 2
  RECORDTHRESH = 5
  UNIT = 2
  PERIOD = 9
  TICK = 6
  Steps = {1, 2}
  FREQ = 4
  SLEEPTIME = 1
  Late = {1}
  Settings <- MCSettings
  Defaults <- MCDefaults
  SCALE = 2
  INT = 4
  Work = {2, 9}
  USEC = 6
  MAX_ETIME = 5
  Reps = 2
  Runs = {2, 9}
  Methods = {"fcyc", "itimer", "gettod"}
  FsecsParams <- MCFsecsParams
  Starts = {11}
  Phases = {0, 3, 6}
  MaxStart = 18
INVARIANTS TypeOK CounterExact TickCostBounds SamplesSound KBest ResultIsBest CacheReadsInBuffer TimedExactly SecondsNotOver
PROPERTIES MeasurementEnds
