---------------------------- MODULE DaemonReads ----------------------------
(***************************************************************************)
(* The read side of the daemon beside its capture side: the handlers of    *)
(* event.metadata, event.read_payload and search.events                    *)
(* (internal/daemon/server.go) and ReadEventEvidence (internal/storage),   *)
(* over the one SQLite connection they share with captureAppend.  A page   *)
(* is streamed to the peer while the result set is open, so a reader holds *)
(* the connection of the pool for as long as its peer takes.               *)
(*                                                                         *)
(* A byte of evidence is known by its offset in the payload: what a reader *)
(* receives is a sequence of offsets.                                      *)
(***************************************************************************)
EXTENDS CaptureDaemon

CONSTANT Reads   \* the read requests clients may send, again and again

Ops == {"metadata", "payload", "search"}

ASSUME ReadsAssumption ==
  /\ Reads \subseteq [op : Ops, event : Events, offset : Nat, limit : Nat]
  /\ None \notin Reads

VARIABLES
  at,     \* where each goroutine is in a read handler
  read,   \* the read request it serves
  page,   \* length announced in the evidence header
  row,    \* chunk_index the loop over the result set expects next
  got     \* bytes written to the peer, by their offset in the payload

readVars == <<at, read, page, row, got>>
allVars  == <<vars, readVars>>

Places == {"idle", "lookup", "answer", "announce", "query", "open", "rows"}

ReadTypeOK ==
  /\ at \in [Conns -> Places]
  /\ read \in [Conns -> Reads \cup {None}]
  /\ page \in [Conns -> Nat]
  /\ row \in [Conns -> Nat]
  /\ got \in [Conns -> Seq(Nat)]

ReadInit ==
  /\ Init
  /\ at = [c \in Conns |-> "idle"]
  /\ read = [c \in Conns |-> None]
  /\ page = [c \in Conns |-> 0]
  /\ row = [c \in Conns |-> 0]
  /\ got = [c \in Conns |-> <<>>]

-----------------------------------------------------------------------------
(* Pages and rows *)

\* The length the handler announces: limit 0 reads to the end, an offset past the end
\* reads nothing.
PageLength(total, offset, limit) ==
  IF offset >= total THEN 0
  ELSE IF limit # 0 /\ limit < total - offset THEN limit ELSE total - offset

Stored(c) == events[read[c].event]
Total(c)  == Size[Stored(c).payload]

\* What ReadEventEvidence sets out to send, by its own lookup of the event and its own
\* arithmetic, and what of it is left.
Remaining(c) ==
  LET rest == Total(c) - read[c].offset
  IN  IF read[c].limit # 0 /\ read[c].limit < rest THEN read[c].limit ELSE rest
Left(c) == Remaining(c) - Len(got[c])

FirstRow(r) == r.offset \div ChunkSize
LastRow(c)  == (read[c].offset + Remaining(c) - 1) \div ChunkSize

\* The result set has no further row, or one that is not as long as its index says.
RowRefused(c) ==
  \/ row[c] > LastRow(c)
  \/ row[c] + 1 > Len(Stored(c).cuts)
  \/ ~validChunk(ChunkLen(Stored(c).cuts, row[c] + 1), row[c], Total(c))

\* Mutant of SkipInRow: the offset is taken from every row, not from the first.
SkipInRow_Every(c) == read[c].offset % ChunkSize

\* chunk[start:]: where in this row the page begins, if the row begins where its
\* index says.
SkipInRow(c) ==
  IF read[c].offset > row[c] * ChunkSize THEN read[c].offset - row[c] * ChunkSize ELSE 0

\* The bytes of this row that go to the peer, by their true offsets.
RowSlice(c) ==
  LET ends == Stored(c).cuts
      base == IF row[c] = 0 THEN 0 ELSE ends[row[c]]
      len  == Min2(ChunkLen(ends, row[c] + 1) - SkipInRow(c), Left(c))
  IN  [i \in 1..len |-> base + SkipInRow(c) + i - 1]

-----------------------------------------------------------------------------
(* The pool's single connection is free: no transaction and no open result set. *)
PoolFree == db = None /\ \A c \in Conns : at[c] # "rows"

Move(c, place) == at' = [at EXCEPT ![c] = place]

\* The handler returns; the connection is kept, or closed and its slot free.
Return(c) ==
  /\ Move(c, "idle")
  /\ read' = [read EXCEPT ![c] = None]
  /\ page' = [page EXCEPT ![c] = 0]
  /\ row' = [row EXCEPT ![c] = 0]
  /\ got' = [got EXCEPT ![c] = <<>>]

ReceiveRead(c) ==
  /\ Network
  /\ pc[c] = "idle" /\ at[c] = "idle"
  /\ \E r \in Reads : read' = [read EXCEPT ![c] = r]
  /\ Move(c, "lookup")
  /\ UNCHANGED <<page, row, got>>

\* The one statement of metadata and search, and the first of read_payload.  Not
\* found and internal errors are answered on the connection, which stays open.
Lookup(c) ==
  /\ at[c] = "lookup"
  /\ PoolFree
  /\ \/ /\ read[c].op = "payload" /\ Stored(c) # None
        /\ page' = [page EXCEPT ![c] = PageLength(Total(c), read[c].offset, read[c].limit)]
        /\ Move(c, "announce")
     \/ /\ read[c].op # "payload" \/ Stored(c) = None \/ StoreFaults
        /\ Move(c, "answer")
        /\ UNCHANGED page
  /\ UNCHANGED <<read, row, got>>

\* writeOK or writeError, received or not.
Reply(c) == at[c] = "answer" /\ Return(c)

\* writeOK and the evidence header; if either fails the connection is closed.
Announce(c) ==
  /\ at[c] = "announce"
  /\ \/ Network /\ Move(c, "query") /\ UNCHANGED <<read, page, row, got>>
     \/ Return(c)

\* ReadEventEvidence looks the event up again; nothing to read, or a failure, ends it.
QueryMetadata(c) ==
  /\ at[c] = "query"
  /\ PoolFree
  /\ \/ /\ read[c].offset < Total(c)
        /\ row' = [row EXCEPT ![c] = FirstRow(read[c])]
        /\ Move(c, "open")
        /\ UNCHANGED <<read, page, got>>
     \/ /\ read[c].offset >= Total(c) \/ StoreFaults
        /\ Return(c)

OpenRows(c) ==
  /\ at[c] = "open"
  /\ PoolFree
  /\ \/ Move(c, "rows") /\ UNCHANGED <<read, page, row, got>>
     \/ StoreFaults /\ Return(c)

\* One turn of the loop: a valid row, cut to the page, is written to the peer.
SendRow(c) ==
  /\ at[c] = "rows"
  /\ Network
  /\ Left(c) > 0
  /\ ~RowRefused(c)
  /\ got' = [got EXCEPT ![c] = @ \o RowSlice(c)]
  /\ row' = [row EXCEPT ![c] = @ + 1]
  /\ UNCHANGED <<at, read, page>>

\* Mutant of CloseRows: a write to a peer that has stopped reading never fails.
CloseRows_NoDeadline(c) ==
  /\ at[c] = "rows"
  /\ Left(c) = 0 \/ RowRefused(c)
  /\ Return(c)

\* The page is complete, a row is refused, the peer or the database fails: the
\* deferred rows.Close gives the connection back on every path.
CloseRows(c) ==
  /\ at[c] = "rows"
  /\ Return(c)

-----------------------------------------------------------------------------
(* Both sides together *)

ReadNetworkStep(c)  == Reply(c) \/ Announce(c) \/ SendRow(c) \/ CloseRows(c)
ReadDatabaseStep(c) == Lookup(c) \/ QueryMetadata(c) \/ OpenRows(c)

Capturing(c) == at[c] = "idle" /\ Receive(c) /\ UNCHANGED readVars
CaptureOn(c) == NetworkStep(c) /\ UNCHANGED readVars
CaptureDb(c) == PoolFree /\ DatabaseStep(c) /\ UNCHANGED readVars
ReadOn(c)    == ReadNetworkStep(c) /\ UNCHANGED vars
ReadDb(c)    == ReadDatabaseStep(c) /\ UNCHANGED vars

\* connectionWG.Wait counts the goroutines of readers too.
CloseDone == (\A c \in Conns : at[c] = "idle") /\ FinishClose /\ UNCHANGED readVars

Lifecycle == (Start \/ StopAdmission \/ CloseConnections) /\ UNCHANGED readVars

ReadCrash ==
  /\ Crash
  /\ at' = [c \in Conns |-> "idle"]
  /\ read' = [c \in Conns |-> None]
  /\ page' = [c \in Conns |-> 0]
  /\ row' = [c \in Conns |-> 0]
  /\ got' = [c \in Conns |-> <<>>]

ReadNext ==
  \/ Lifecycle \/ CloseDone \/ ReadCrash
  \/ \E c \in Conns :
       \/ Capturing(c) \/ CaptureOn(c) \/ CaptureDb(c)
       \/ ReceiveRead(c) /\ UNCHANGED vars
       \/ ReadOn(c) \/ ReadDb(c)

\* Every read and write of a connection has a deadline, and database/sql gives a
\* freed connection to one of its waiters; Close runs to its end once called.
ReadFairness ==
  /\ \A c \in Conns :
       /\ WF_allVars(CaptureOn(c)) /\ SF_allVars(CaptureDb(c))
       /\ WF_allVars(ReadOn(c)) /\ SF_allVars(ReadDb(c))
  /\ WF_allVars(CloseConnections /\ UNCHANGED readVars) /\ WF_allVars(CloseDone)

ReadSpec     == ReadInit /\ [][ReadNext]_allVars
FairReadSpec == ReadSpec /\ ReadFairness

-----------------------------------------------------------------------------
(* Properties *)

\* The bytes sent so far are the first bytes of the page that was asked for.
Prefix(c) ==
  /\ Len(got[c]) <= page[c]
  /\ \A i \in 1..Len(got[c]) : got[c][i] = read[c].offset + i - 1

\* Every page of an event some client was told is stored arrives byte for byte, is as
\* long as its header announced and is refused by no row check, wherever chunk
\* boundaries, short reads at capture time and the page's own offset fall (server.go
\* readPayload, ReadEventEvidence).
AckedReadsExact ==
  \A c \in Conns :
    at[c] = "rows" /\ (\E r \in acked : r.event = read[c].event) =>
      /\ page[c] = Len(got[c]) + Left(c)
      /\ Prefix(c)
      /\ Left(c) > 0 => ~RowRefused(c)

\* storage.go: ReadEventEvidence streams exact stored bytes.  Whatever event is
\* read, acknowledged or not, no byte arrives that is not the one asked for.
ReadsExact == \A c \in Conns : at[c] = "rows" => Prefix(c)

\* Every handler returns, capture or read: a reader that holds the only database
\* connection while its peer stalls delays the others but never stops them.
ServingEnds ==
  \A c \in Conns : (pc[c] # "idle" \/ at[c] # "idle") ~> (pc[c] = "idle" /\ at[c] = "idle")
=============================================================================
