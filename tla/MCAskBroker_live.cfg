SPECIFICATION FairSpec
CONSTANTS
  Dwarves = {d1}
  Owned = {d1}
  ProviderReqs = {p1, p2}
  Requests = {r1}
  Reports <- QuestionOnly
  Sessions <- LaunchedOnly
  MaxAsks = 2
  MaxStep = 1
  MaxTime = 1
  Window = 1
  Builds = {"cut2"}
  CanCrash = TRUE
  CanReset = TRUE
  TxCanFail = FALSE
  ClockStepsBack = TRUE
PROPERTIES
  AnsweringEnds
  SendingEnds
CHECK_DEADLOCK FALSE
