SPECIFICATION FairSpec
CONSTANTS
  a1 = a1
  s = s
  p1 = p1
  p2 = p2
  NoPid = NoPid
  NoOwner = NoOwner
  Orphan = Orphan
  ApiThread = {a1}
  WatchdogThread = {}
  TickThread = {s}
  Pid = {p1, p2}
  Faults <- AllFaults
  RconRequired = TRUE
  MaxRequests = 1
  MaxManagerCrashes = 1
PROPERTY OperationsEnd
