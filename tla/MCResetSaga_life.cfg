SPECIFICATION FairSpec
CONSTANTS
  u1 = u1
  u2 = u2
  Uis <- TwoUis
  MaxResets = 2
  MaxFaults = 2
INVARIANTS
  JournalIsEarned
  AskedUisFollowed
PROPERTIES
  BootEnds
  SettlesUnlessOverlooked
CHECK_DEADLOCK FALSE
