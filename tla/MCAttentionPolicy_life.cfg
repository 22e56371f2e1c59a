SPECIFICATION Spec
CONSTANTS
  d1 = d1
  d2 = d2
  m1 = m1
  m2 = m2
  a1 = a1
  a2 = a2
  t1 = t1
  Dwarves = {d1, d2}
  Mines = {m1, m2}
  AskKeys = {a1, a2}
  TurnKeys = {t1}
  DwarfOf <- KeyDwarf
  MineOf <- DwarfMine
  Clients = {c1, c2}
  MaxSeq = 2
  CanCrash = FALSE
  CanReset = FALSE
SYMMETRY Symmetry
INVARIANTS
  NoneWaitsBehindOpenGate
  StandingIsOpen
  StandingIsSent
CHECK_DEADLOCK FALSE
