\* Two processes at a time, two in all, over one runtime directory and one output file.
SPECIFICATION Spec
CONSTANTS
  p1 = p1  p2 = p2  None = None
  Procs = {p1, p2}
  Workers <- MCWorkers
  Runs <- MCRuns
  Pieces = 2
  HttpRequests <- MCHttpRequests
  MaxLaunches = 2
INVARIANTS TypeOK CompleteOrFlagged FilesWhole TokenAgreed ClientOutlivesHandlers
PROPERTIES CommandsEnd
CHECK_DEADLOCK FALSE
