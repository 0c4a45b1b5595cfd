\* Two Pi processes, three sessions, a daemon that comes and goes.
SPECIFICATION Spec
CONSTANTS
  h1 = h1  h2 = h2  s1 = s1  s2 = s2  s3 = s3  None = None
  Hosts = {h1, h2}
  Sessions = {s1, s2, s3}
  HostOf <- MCHostOf
  MaxRetries = 3
INVARIANTS TypeOK AttemptShared
PROPERTIES BootstrapEnds
CHECK_DEADLOCK FALSE
