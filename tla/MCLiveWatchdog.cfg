SPECIFICATION FairSpec
CONSTANTS
  a1 = a1
  a2 = a2
  w = w
  p1 = p1
  p2 = p2
  NoPid = NoPid
  NoOwner = NoOwner
  Orphan = Orphan
  ApiThread = {a1, a2}
  WatchdogThread = {w}
  TickThread = {}
  Pid = {p1, p2}
  Faults = {}
  RconRequired = FALSE
  MaxRequests = 2
  MaxManagerCrashes = 0
PROPERTY WatchdogRevives
