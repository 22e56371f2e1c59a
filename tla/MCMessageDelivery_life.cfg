SPECIFICATION Spec
CONSTANTS
  Msgs = {m1, m2}
  Drivers = {"codex", "acp", "claude"}
  MaxAttempts = 2
INVARIANTS
  TrackMatchesRow
  SendingIsAwaited
  OneHandOverPerAttempt
  ReactedIsEarned
  RetryableIsOutside
PROPERTIES
  MarksKept
SYMMETRY Symmetry
CHECK_DEADLOCK FALSE
