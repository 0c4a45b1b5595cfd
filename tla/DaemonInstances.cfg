\* Two processes, any crashes, up to four socket or outsider nodes.
SPECIFICATION FairSpec
CONSTANTS
  p1 = p1  p2 = p2  Outsider = Outsider  None = None
  Procs = {p1, p2}
  MaxNodes = 4
INVARIANTS TypeOK SingleStore ReachableDaemon PathClearedForListen
PROPERTIES FilesPreserved StartEnds
