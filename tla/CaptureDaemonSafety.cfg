\* Contested event, short reads, no database faults.
SPECIFICATION Spec
CONSTANTS
  c1 = c1  c2 = c2  a1 = a1  a2 = a2  e1 = e1
  m1 = m1  m2 = m2  p = p  q = q  z = z  None = None
  Conns = {c1, c2}
  Attempts = {a1, a2}
  Events = {e1}
  Metas = {m1, m2}
  Payloads = {p, q, z}
  Size <- MCSize
  ChunkSize = 2
  Requests <- ContestedRequests
  ShortReads = TRUE
  StoreFaults = FALSE
INVARIANTS TypeOK CompletedHasEvidence AckedIsStored StrandedOnlyByRefusal
PROPERTIES EvidenceImmutable OutcomeFinal ImplementsEvidenceLog
SYMMETRY ConnSymmetry
