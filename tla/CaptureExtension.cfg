\* A session with four events; room for three of them and for four bytes.
SPECIFICATION Spec
CONSTANTS
  None = None
  MaxSessions = 1
  MaxEvents <- OneSession
  Sizes = {1, 2}
  MaxPendingEvents = 3
  MaxPendingBytes = 4
INVARIANTS TypeOK BacklogBounded EveryEventAccounted AckedInOrder
PROPERTIES BacklogSettles
CHECK_DEADLOCK FALSE
