\* Two goroutines, two operations, two connections, cancellation and Close anywhere.
SPECIFICATION FairSpec
CONSTANTS
  o1 = o1  o2 = o2  None = None
  Callers = {o1, o2}
  MaxCalls = 2
  MaxDials = 2
INVARIANTS TypeOK ReusedConnectionClean OwnResponseOnly NoConnectionLeak
PROPERTIES OperationsReturn
CHECK_DEADLOCK FALSE
