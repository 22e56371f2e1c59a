SPECIFICATION RSpec
CONSTANTS
  Dwarves = {d1}
  Owned = {d1}
  ProviderReqs = {p1, p2}
  Requests = {r1, r2}
  Reports <- BothReports
  Sessions <- BothSessions
  MaxAsks = 2
  MaxStep = 0
  MaxTime = 1
  Window = 0
  Builds = {"cut2", "rollback"}
  CanCrash = TRUE
  CanReset = TRUE
  TxCanFail = TRUE
  ClockStepsBack = FALSE
SYMMETRY Symmetry
INVARIANTS
  AnsweringIsFront
  HandOverRecorded
  OneVerdict
  AcceptedOnce
  AskingMatchesRows
PROPERTIES
  AttributionProven
  ImplementsLifecycle
CHECK_DEADLOCK FALSE
