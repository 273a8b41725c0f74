SPECIFICATION Spec
CONSTANTS
  p1 = p1
  c1 = c1
  NoMod = 0
  ModCheck = {c1}
  Tick = Tick
  Mod = {1, 2}
  Preparer = {p1}
  Installed = {1}
  Uses <- MCUses
  Shares <- MCShares
  Published <- MCPublished
  MaxVersion <- MCMaxVersion
  MaxCalls = 2
  MaxFailures = 1
INVARIANTS TypeOK RecordedIsFetched ReadyIsCurrent
PROPERTIES EntriesKept UpdateFetched
