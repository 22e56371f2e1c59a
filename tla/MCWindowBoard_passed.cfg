SPECIFICATION Spec
CONSTANTS
  Rows = {dwarf, tail}
  Coalesced = {dwarf}
  Resync = resync
  RingSize = 1
  HighWater = 1
  MaxChanges = 1
  MaxFaults = 1
INVARIANTS
  ViewFollows
CHECK_DEADLOCK FALSE
