SPECIFICATION Spec
CONSTANTS
  p1 = p1
  p2 = p2
  NoProc = NoProc
  Dead = Dead
  h1 = h1
  h2 = h2
  Proc = {p1, p2}
  Handler = {h1, h2}
  Edited = {p1, p2}
  MaxTasks = 3
  MaxCrashes = 1
INVARIANTS TypeOK OneManager LockOwned CheckTracked
CHECK_DEADLOCK FALSE
