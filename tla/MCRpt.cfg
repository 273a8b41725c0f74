SPECIFICATION FairSpec
CONSTANTS
  p1 = p1
  Poller = {p1}
  MaxRuns = 2
  MaxAttached = 1
INVARIANTS TypeOK MapSessionLive StartSessionKept
PROPERTY ReadyShown
CHECK_DEADLOCK FALSE
