\* A session that starts while its predecessor is still flushing.
SPECIFICATION Spec
CONSTANTS
  None = None
  MaxSessions = 2
  MaxEvents <- TwoSessions
  Sizes = {1, 2}
  MaxPendingEvents = 3
  MaxPendingBytes = 4
INVARIANTS DropsExplained
CHECK_DEADLOCK FALSE
