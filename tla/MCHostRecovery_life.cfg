CONSTANTS
  d1 = d1
  Dwarfs <- OneDwarf
  MaxProcs = 3
SPECIFICATION FairSpec
INVARIANTS
  StopAllResumesNothing
  ListedIsOffered
  RunningIsHeard
PROPERTIES
  PassEndsSurvivorFirst
  PassEnds
CHECK_DEADLOCK FALSE
