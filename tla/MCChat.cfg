SPECIFICATION Spec
CONSTANTS
  w1 = w1
  Socket = {w1}
  MaxRuns = 2
  MaxTime = 2
  Torn = {1}
  MaxSessions = 2
  BufferMax = 1
  QueueMax = 1
INVARIANTS TypeOK  MapSessionLive
PROPERTIES  LinesShown
CHECK_DEADLOCK FALSE
