SPECIFICATION Spec
CONSTANTS
  WORD = 5
  PERIOD = 6
  TickCosts = {2}
  NEVENT = 2
  THRESHOLD = 2
  RECORDTHRESH = 2
  Durations = {1, 3}
  Settings <- MCSettings
  Builds <- MCBuilds
  StartTimes = {23}
  RATE = 5
  SLEEP = 2
  REPEATS = 3
  USEC = 4
  MAX_ETIME = 2
  MaxCalls = 2
  MaxSets = 1
INVARIANTS
  TimingTypeOK
  CounterExact
  KBestExact
  CompensatesEnough
  CacheWalkInBounds
  SecondsExact
  
PROPERTIES
  FsecsEnds
CHECK_DEADLOCK FALSE
