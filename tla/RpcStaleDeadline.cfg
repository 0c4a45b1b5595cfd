\* A caller cancels its context after its operation has returned.
SPECIFICATION Spec
CONSTANTS
  o1 = o1  o2 = o2  None = None
  Callers = {o1, o2}
  MaxCalls = 2
  MaxDials = 2
INVARIANTS DeadlineOwned
CHECK_DEADLOCK FALSE
