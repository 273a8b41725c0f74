SPECIFICATION Spec
CONSTANTS
  NoSlot = NoSlot
  Interval = 10
  Horizon = 22
  Gaps = {1, 2}
  Delays = {0, 1}
  MaxSwitches = 1
INVARIANTS TypeOK OneRestartPerSlot LocksRemembered
PROPERTY FailedRestartReopens
