\* An event captured in short reads and paged afterwards on one connection; no faults.
SPECIFICATION ReadSpec
CONSTANTS
  c1 = c1  c2 = c2  a1 = a1  e1 = e1  m1 = m1  p = p  None = None
  Conns = {c1}
  Attempts = {a1}
  Events = {e1}
  Metas = {m1}
  Payloads = {p}
  Size <- MCSize
  ChunkSize = 2
  Requests <- MCRequests
  Reads <- MCReads
  ShortReads = TRUE
  StoreFaults = FALSE
INVARIANTS ReadsExact
