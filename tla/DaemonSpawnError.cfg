\* A daemon binary that cannot be executed.
SPECIFICATION Spec
CONSTANTS
  h1 = h1  h2 = h2  s1 = s1  s2 = s2  s3 = s3  None = None
  Hosts = {h1, h2}
  Sessions = {s1, s2, s3}
  HostOf <- MCHostOf
  MaxRetries = 3
INVARIANTS HostSurvives
CHECK_DEADLOCK FALSE
