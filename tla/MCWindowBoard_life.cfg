SPECIFICATION Spec
CONSTANTS
  Rows = {dwarf, tail}
  Coalesced = {dwarf}
  Resync = resync
  RingSize = 1
  HighWater = 1
  MaxChanges = 2
  MaxFaults = 2
INVARIANTS
  NothingMissed
  ViewMissesNothing
PROPERTIES
  NeverBackwards
  CatchesUp
  ViewCatchesUp
CHECK_DEADLOCK FALSE
