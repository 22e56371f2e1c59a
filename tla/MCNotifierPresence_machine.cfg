SPECIFICATION LiveSpec
CONSTANTS
  win = win
  tray = tray
  Apps = {win, tray}
  RoleOf <- AppRole
  Trays = {p1, p2}
  Limit = 3
  Window = 3
INVARIANTS
  HeldToBudget
PROPERTIES
  StartEnds
CHECK_DEADLOCK FALSE
