\* One event captured and read by two connections; short reads, a database that may fail.
SPECIFICATION FairReadSpec
CONSTANTS
  c1 = c1  c2 = c2  a1 = a1  e1 = e1  m1 = m1  p = p  None = None
  Conns = {c1, c2}
  Attempts = {a1}
  Events = {e1}
  Metas = {m1}
  Payloads = {p}
  Size <- MCSize
  ChunkSize = 2
  Requests <- MCRequests
  Reads <- MCReads
  ShortReads = TRUE
  StoreFaults = TRUE
INVARIANTS AckedReadsExact
PROPERTIES ServingEnds CloseEnds
