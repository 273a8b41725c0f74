SPECIFICATION HSpec
CONSTANTS
  a1 = a1
  w = w
  s = s
  p1 = p1
  p2 = p2
  NoPid = NoPid
  NoOwner = NoOwner
  Orphan = Orphan
  ApiThread = {a1}
  WatchdogThread = {w}
  TickThread = {s}
  Pid = {p1, p2}
  Faults <- SafeFaults
  RconRequired = TRUE
  MaxRequests = 2
  MaxManagerCrashes = 1
SYMMETRY Symmetry
INVARIANTS TypeOK SingleProcess StartExcludesStop ServerLockOwned DownDuringModUpdate
PROPERTIES ImplementsLifecycle WatchdogOnlyRevives
