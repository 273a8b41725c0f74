SPECIFICATION Spec
CONSTANTS
  s1 = s1
  s2 = s2
  c1 = c1
  c2 = c2
  ModCheck = {c1, c2}
  NoOwner = NoOwner
  Tick = Tick
  Other = Other
  Server = {s1, s2}
  MaxGroups = 2
  MaxRemovals = 1
SYMMETRY Symmetry
INVARIANTS TypeOK LockedAllOrNone NoGroupLost OverlapsOnlyByRace
PROPERTY StoppedAreStarted
