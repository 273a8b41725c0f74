SPECIFICATION Spec
CONSTANTS
  s1 = s1
  s2 = s2
  Server = {s1, s2}
  Order <- MCOrder
  Refresher = {"refresh"}
  Executor = {"scheduler"}
  NoClient = "none"
  MaxChanges <- MCMaxChanges
INVARIANTS TypeOK RefreshIsFresh
PROPERTIES NeverOlder CatchesUp
