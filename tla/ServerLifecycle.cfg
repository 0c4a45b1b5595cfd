\* One connection more than there are slots, two concurrent callers of Close.
SPECIFICATION Spec
CONSTANTS
  c1 = c1  c2 = c2  c3 = c3  k1 = k1  k2 = k2
  Conns = {c1, c2, c3}
  Closers = {k1, k2}
  MaxConnections = 2
INVARIANTS TypeOK SlotsAccounted ReleaseOrder CloseReturnsClosed
PROPERTIES CloseReturns
CHECK_DEADLOCK FALSE
