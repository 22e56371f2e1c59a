CONSTANTS
  p1 = p1
  d1 = d1
  d2 = d2
  c1 = c1
  c2 = c2
  Parents <- OneParent
  Delegs <- MCDelegs
  Calls <- MCCalls
  MaxPerParent = 1
  MaxGlobal = 2
SPECIFICATION FairSpec
INVARIANTS
  GoneParentHoldsNothing
  SleepersHaveNothing
PROPERTIES
  HeldUntilReached
  ImplementsMachine8
  AttemptsEnd
CHECK_DEADLOCK FALSE
