--------------------------- MODULE CaptureDaemon ---------------------------
(***************************************************************************)
(* The capture daemon: the goroutine of every connection running           *)
(* captureAppend (internal/daemon/server.go) against the one SQLite        *)
(* connection of the evidence store (internal/storage), with process       *)
(* crashes, restart recovery and graceful close.                           *)
(*                                                                         *)
(* A payload is a model value: equality of payloads is equality of their   *)
(* bytes, hence of their SHA-256.  A metadata value stands for everything  *)
(* completeEvidence and sameAttempt compare beside the identifiers and the *)
(* size (type, version, project, session, exchange, sequence, time,        *)
(* encoding).  The chunk rows of an event are its "cuts": the offset at    *)
(* which each chunk ends.                                                  *)
(***************************************************************************)
EXTENDS Integers, Sequences

CONSTANTS
  Conns,        \* connection goroutines (slots of the accept loop)
  Attempts,     \* request_id values
  Events,       \* event_id values
  Metas,        \* event metadata other than ids and size
  Payloads,     \* evidence byte strings
  Size,         \* Size[p]: length of payload p
  ChunkSize,    \* storage.ChunkSize
  Requests,     \* the capture.append requests clients may send, again and again
  ShortReads,   \* may a socket Read return fewer bytes than asked for?
  StoreFaults,  \* may a database operation fail (disk full, I/O error)?
  None          \* the absent row, the absent lock holder

ASSUME ConstantsAssumption ==
  /\ Size \in [Payloads -> Nat]
  /\ ChunkSize \in Nat \ {0}
  /\ Requests \subseteq [attempt : Attempts, event : Events,
                         meta : Metas, payload : Payloads]
  /\ ShortReads \in BOOLEAN
  /\ StoreFaults \in BOOLEAN

Statuses == {"pending", "completed", "incomplete"}
Stages   == {"", "header", "append"}
Replies  == {"", "ok", "conflict", "invalid", "internal"}

AttemptRow == [event : Events, meta : Metas, size : Nat,
               status : Statuses, stage : Stages]
EventRow   == [meta : Metas, payload : Payloads, cuts : Seq(Nat)]

\* The same rows as a client sees them: an outcome, and evidence that is readable or not.
Outcome == [event : Events, meta : Metas, size : Nat, status : Statuses]
Entry   == [meta : Metas, payload : Payloads, readable : BOOLEAN]

\* The sentinel differs from every row, connection and request.
ASSUME NoneAssumption ==
  None \notin AttemptRow \cup EventRow \cup Outcome \cup Entry \cup Conns \cup Requests

Min2(a, b) == IF a <= b THEN a ELSE b

VARIABLES
  phase,     \* "down", "running", "stopping" (listener closed), "draining" (connections closed)
  attempts,  \* table capture_attempts: durable
  events,    \* tables capture_events and capture_event_chunks: durable
  db,        \* goroutine whose transaction holds the only SQLite connection
  pc,        \* where each goroutine is in captureAppend
  req,       \* the request it serves
  cuts,      \* chunk rows of its open AppendEvent (bytes counted, for a duplicate)
  reply,     \* the status or error code it will write
  acked      \* history: requests whose "ok" response reached the client

vars == <<phase, attempts, events, db, pc, req, cuts, reply, acked>>

PCs == {"idle", "begin", "header", "append", "stream", "consume", "mark", "complete", "reply"}
Phases == {"down", "running", "stopping", "draining"}

TypeOK ==
  /\ phase \in Phases
  /\ attempts \in [Attempts -> AttemptRow \cup {None}]
  /\ events \in [Events -> EventRow \cup {None}]
  /\ db \in Conns \cup {None}
  /\ pc \in [Conns -> PCs]
  /\ req \in [Conns -> Requests \cup {None}]
  /\ cuts \in [Conns -> Seq(Nat)]
  /\ reply \in [Conns -> Replies]
  /\ acked \subseteq Requests

-----------------------------------------------------------------------------
(* Chunk rows. *)

\* Bytes covered by a sequence of chunk ends.
Consumed(ends) == IF ends = <<>> THEN 0 ELSE ends[Len(ends)]

ChunkLen(ends, i) == ends[i] - (IF i = 1 THEN 0 ELSE ends[i - 1])

\* A chunk is valid only if it is as long as its index says.
validChunk(len, index, total) ==
  /\ total # 0
  /\ index <= (total - 1) \div ChunkSize
  /\ len = Min2(total - index * ChunkSize, ChunkSize)

\* storedEvidence succeeds: every chunk row is valid and together they cover the event.
storedEvidence(ends, declared) ==
  /\ \A i \in 1..Len(ends) : validChunk(ChunkLen(ends, i), i - 1, declared)
  /\ Consumed(ends) = declared

Intact(row) == storedEvidence(row.cuts, Size[row.payload])

\* completeEvidence: the committed event is the one the attempt announced, and intact.
completeEvidence(row) ==
  LET event == events[row.event] IN
  /\ event # None
  /\ event.meta = row.meta
  /\ Size[event.payload] = row.size
  /\ Intact(event)

-----------------------------------------------------------------------------
(* The steps of captureAppend.  Connections stay usable until they are       *)
(* closed ("draining"); any network wait may end in an error or a timeout.   *)

Network == phase \in {"running", "stopping"}

Goto(c, label) == pc' = [pc EXCEPT ![c] = label]

\* The goroutine stops working on the evidence and will write response code.
Answer(c, label, code) ==
  /\ Goto(c, label)
  /\ reply' = [reply EXCEPT ![c] = code]

\* Any connection delivers any of the requests, also one that was sent before.
Receive(c) ==
  /\ Network
  /\ pc[c] = "idle"
  /\ \E r \in Requests : req' = [req EXCEPT ![c] = r]
  /\ Goto(c, "begin")
  /\ UNCHANGED <<phase, attempts, events, db, cuts, reply, acked>>

\* The row BeginCaptureAttempt inserts for request r.
PendingRow(r) == [event |-> r.event, meta |-> r.meta, size |-> Size[r.payload],
                  status |-> "pending", stage |-> ""]

\* BeginCaptureAttempt: insert, or accept the same attempt while it is pending.
\* Whatever else the identifier stands for is a conflict.
BeginCaptureAttempt(c) ==
  LET r == req[c] IN
  /\ pc[c] = "begin"
  /\ db = None
  /\ \/ /\ attempts[r.attempt] = None
        /\ attempts' = [attempts EXCEPT ![r.attempt] = PendingRow(r)]
        /\ Goto(c, "header")
        /\ UNCHANGED reply
     \/ /\ attempts[r.attempt] = PendingRow(r)
        /\ Goto(c, "header")
        /\ UNCHANGED <<attempts, reply>>
     \/ /\ attempts[r.attempt] # None /\ attempts[r.attempt] # PendingRow(r)
        /\ Answer(c, "reply", "conflict")
        /\ UNCHANGED attempts
     \/ /\ StoreFaults
        /\ Answer(c, "reply", "internal")
        /\ UNCHANGED attempts
  /\ UNCHANGED <<phase, events, db, req, cuts, acked>>

\* Mutants of ReadHeader: the failure is answered without marking the attempt;
\* the wait for the header has no deadline.
ReadHeader_Unmarked(c) ==
  /\ pc[c] = "header"
  /\ \/ Network /\ Goto(c, "append") /\ UNCHANGED reply
     \/ Answer(c, "reply", "invalid")
  /\ UNCHANGED <<phase, attempts, events, db, req, cuts, acked>>

ReadHeader_NoDeadline(c) ==
  /\ pc[c] = "header"
  /\ Network /\ Goto(c, "append")
  /\ UNCHANGED <<phase, attempts, events, db, req, cuts, reply, acked>>

\* ReadEvidenceHeader: the declared size arrives and is the announced one, or
\* the frame is malformed, different, cut off or too late.
ReadHeader(c) ==
  /\ pc[c] = "header"
  /\ \/ Network /\ Goto(c, "append") /\ UNCHANGED reply
     \/ Answer(c, "mark", "invalid")
  /\ UNCHANGED <<phase, attempts, events, db, req, cuts, acked>>

\* Mutant of AppendEvent: the lookup runs outside the transaction that inserts.
AppendEvent_NoTransaction(c) ==
  /\ pc[c] = "append"
  /\ db = None
  /\ Goto(c, IF events[req[c].event] = None THEN "stream" ELSE "consume")
  /\ cuts' = [cuts EXCEPT ![c] = <<>>]
  /\ UNCHANGED <<phase, attempts, events, db, req, reply, acked>>

\* AppendEvent opens its transaction and looks for the event.
AppendEvent(c) ==
  /\ pc[c] = "append"
  /\ db = None
  /\ \/ /\ db' = c
        /\ Goto(c, IF events[req[c].event] = None THEN "stream" ELSE "consume")
        /\ cuts' = [cuts EXCEPT ![c] = <<>>]
        /\ UNCHANGED reply
     \/ /\ StoreFaults
        /\ Answer(c, "mark", "internal")
        /\ UNCHANGED <<db, cuts>>
  /\ UNCHANGED <<phase, attempts, events, req, acked>>

\* How many bytes one Read may return when at most `most` were asked for.
ReadSizes(most) == IF ShortReads THEN 1..most ELSE {most}

\* consumeEvidence: one Read of the connection.  For a new event each Read becomes
\* one chunk row; for a duplicate only the bytes are counted (and hashed).
consumeEvidence(c) ==
  LET done == Consumed(cuts[c])
      left == Size[req[c].payload] - done
  IN
  /\ pc[c] \in {"stream", "consume"}
  /\ Network
  /\ left > 0
  /\ \E n \in ReadSizes(Min2(ChunkSize, left)) :
       cuts' = [cuts EXCEPT ![c] =
                  IF pc[c] = "stream" THEN Append(@, done + n) ELSE <<done + n>>]
  /\ UNCHANGED <<phase, attempts, events, db, pc, req, reply, acked>>

\* Commit or rollback: the database connection returns to the pool.
EndTransaction(c) ==
  /\ db' = None
  /\ cuts' = [cuts EXCEPT ![c] = <<>>]

\* The stream breaks, or a statement or the commit fails: the transaction rolls
\* back.
AbortAppend(c) ==
  /\ pc[c] \in {"stream", "consume"}
  /\ \/ Consumed(cuts[c]) < Size[req[c].payload]
     \/ StoreFaults
  /\ EndTransaction(c)
  /\ Answer(c, "mark", "internal")
  /\ UNCHANGED <<phase, attempts, events, req, acked>>

\* All declared bytes of a new event are in: update size and hash, commit.
CommitEvent(c) ==
  LET r == req[c] IN
  /\ pc[c] = "stream"
  /\ Consumed(cuts[c]) = Size[r.payload]
  /\ events' = [events EXCEPT ![r.event] =
                  [meta |-> r.meta, payload |-> r.payload, cuts |-> cuts[c]]]
  /\ EndTransaction(c)
  /\ Goto(c, "complete")
  /\ UNCHANGED <<phase, attempts, req, reply, acked>>

\* Mutant of CompareEvent: a duplicate is recognised by its size alone.
CompareEvent_SizeOnly(c) ==
  LET r == req[c] IN
  /\ pc[c] = "consume"
  /\ Consumed(cuts[c]) = Size[r.payload]
  /\ EndTransaction(c)
  /\ IF Intact(events[r.event]) /\ Size[events[r.event].payload] = Size[r.payload]
     THEN Goto(c, "complete") /\ UNCHANGED reply
     ELSE Answer(c, "mark", "conflict")
  /\ UNCHANGED <<phase, attempts, events, req, acked>>

\* All declared bytes of an event that is already there are in: it is the same
\* evidence (whatever its metadata), or a conflict.
CompareEvent(c) ==
  LET r == req[c] IN
  /\ pc[c] = "consume"
  /\ Consumed(cuts[c]) = Size[r.payload]
  /\ EndTransaction(c)
  /\ IF Intact(events[r.event]) /\ events[r.event].payload = r.payload
     THEN Goto(c, "complete") /\ UNCHANGED reply
     ELSE Answer(c, "mark", "conflict")
  /\ UNCHANGED <<phase, attempts, events, req, acked>>

\* Mutant of FailureStage: the response code is stored as the stage.
FailureStage_Code(c) == reply[c]

\* The stage recorded for an incomplete attempt: header or append.
FailureStage(c) == IF reply[c] = "invalid" THEN "header" ELSE "append"

\* Mutant of MarkCaptureIncomplete: any row is marked, whatever its status.
MarkCaptureIncomplete_AnyStatus(c) ==
  /\ pc[c] = "mark"
  /\ db = None
  /\ attempts' = [attempts EXCEPT ![req[c].attempt].status = "incomplete",
                                  ![req[c].attempt].stage = FailureStage(c)]
  /\ Goto(c, "reply")
  /\ UNCHANGED <<phase, events, db, req, cuts, reply, acked>>

\* MarkCaptureIncomplete: only a pending attempt changes; the caller ignores errors.
MarkCaptureIncomplete(c) ==
  LET a == req[c].attempt IN
  /\ pc[c] = "mark"
  /\ db = None
  /\ \/ /\ attempts[a].status = "pending"
        /\ attempts' = [attempts EXCEPT ![a].status = "incomplete",
                                        ![a].stage = FailureStage(c)]
     \/ /\ attempts[a].status # "pending" \/ StoreFaults
        /\ UNCHANGED attempts
  /\ Goto(c, "reply")
  /\ UNCHANGED <<phase, events, db, req, cuts, reply, acked>>

\* Mutant of CompleteCaptureAttempt: the evidence is not checked again.
CompleteCaptureAttempt_Unchecked(c) ==
  LET a == req[c].attempt IN
  /\ pc[c] = "complete"
  /\ db = None
  /\ \/ /\ attempts[a].status \in {"completed", "pending"}
        /\ attempts' = [attempts EXCEPT ![a].status = "completed", ![a].stage = ""]
        /\ Answer(c, "reply", "ok")
     \/ /\ attempts[a].status = "incomplete"
        /\ Answer(c, "reply", "internal")
        /\ UNCHANGED attempts
  /\ UNCHANGED <<phase, events, db, req, cuts, acked>>

\* CompleteCaptureAttempt: already completed, or pending with complete evidence;
\* every refusal is answered "internal" and leaves the row as it is.
CompleteCaptureAttempt(c) ==
  LET a == req[c].attempt IN
  /\ pc[c] = "complete"
  /\ db = None
  /\ \/ /\ attempts[a].status = "completed"
        /\ Answer(c, "reply", "ok")
        /\ UNCHANGED attempts
     \/ /\ attempts[a].status = "pending"
        /\ completeEvidence(attempts[a])
        /\ attempts' = [attempts EXCEPT ![a].status = "completed", ![a].stage = ""]
        /\ Answer(c, "reply", "ok")
     \/ /\ \/ attempts[a].status = "incomplete"
           \/ attempts[a].status = "pending" /\ ~completeEvidence(attempts[a])
           \/ StoreFaults
        /\ Answer(c, "reply", "internal")
        /\ UNCHANGED attempts
  /\ UNCHANGED <<phase, events, db, req, cuts, acked>>

\* writeOK / writeError: the response reaches the client or is lost with the
\* connection; either way the goroutine waits for a request again.
Respond(c) ==
  /\ pc[c] = "reply"
  /\ Goto(c, "idle")
  /\ req' = [req EXCEPT ![c] = None]
  /\ reply' = [reply EXCEPT ![c] = ""]
  /\ \/ Network /\ reply[c] = "ok" /\ acked' = acked \cup {req[c]}
     \/ UNCHANGED acked
  /\ UNCHANGED <<phase, attempts, events, db, cuts>>

-----------------------------------------------------------------------------
(* Process life: start with recovery, graceful close, crash. *)

\* Mutant of Recovered: recovery trusts the event row without checking it.
Recovered_Trusting(row) ==
  IF row = None \/ row.status # "pending" THEN row
  ELSE IF events[row.event] # None THEN [row EXCEPT !.status = "completed", !.stage = ""]
  ELSE [row EXCEPT !.status = "incomplete", !.stage = "append"]

\* What RecoverPendingCaptures makes of one row.
Recovered(row) ==
  IF row = None \/ row.status # "pending" THEN row
  ELSE IF completeEvidence(row) THEN [row EXCEPT !.status = "completed", !.stage = ""]
  ELSE [row EXCEPT !.status = "incomplete", !.stage = "append"]

\* Start: open the database and reconcile every pending attempt in one
\* transaction before the listener exists.
Start ==
  /\ phase = "down"
  /\ phase' = "running"
  /\ attempts' = [a \in Attempts |-> Recovered(attempts[a])]
  /\ UNCHANGED <<events, db, pc, req, cuts, reply, acked>>

\* Close: stop accepting; then close every connection; then wait for the handlers.
StopAdmission ==
  /\ phase = "running"
  /\ phase' = "stopping"
  /\ UNCHANGED <<attempts, events, db, pc, req, cuts, reply, acked>>

CloseConnections ==
  /\ phase = "stopping"
  /\ phase' = "draining"
  /\ UNCHANGED <<attempts, events, db, pc, req, cuts, reply, acked>>

FinishClose ==
  /\ phase = "draining"
  /\ \A c \in Conns : pc[c] = "idle"
  /\ phase' = "down"
  /\ UNCHANGED <<attempts, events, db, pc, req, cuts, reply, acked>>

\* The process dies: goroutines and the open transaction vanish, the committed
\* rows stay.
Crash ==
  /\ phase # "down"
  /\ phase' = "down"
  /\ db' = None
  /\ pc' = [c \in Conns |-> "idle"]
  /\ req' = [c \in Conns |-> None]
  /\ cuts' = [c \in Conns |-> <<>>]
  /\ reply' = [c \in Conns |-> ""]
  /\ UNCHANGED <<attempts, events, acked>>

-----------------------------------------------------------------------------
Init ==
  /\ phase = "down"
  /\ attempts = [a \in Attempts |-> None]
  /\ events = [e \in Events |-> None]
  /\ db = None
  /\ pc = [c \in Conns |-> "idle"]
  /\ req = [c \in Conns |-> None]
  /\ cuts = [c \in Conns |-> <<>>]
  /\ reply = [c \in Conns |-> ""]
  /\ acked = {}

\* A step a goroutine takes without waiting for the database.
NetworkStep(c) ==
  ReadHeader(c) \/ consumeEvidence(c) \/ AbortAppend(c) \/ CommitEvent(c) \/ CompareEvent(c) \/ Respond(c)

\* A step that needs the database connection from the pool.
DatabaseStep(c) ==
  BeginCaptureAttempt(c) \/ AppendEvent(c) \/ MarkCaptureIncomplete(c) \/ CompleteCaptureAttempt(c)

Next ==
  \/ Start \/ StopAdmission \/ CloseConnections \/ FinishClose \/ Crash
  \/ \E c \in Conns : Receive(c) \/ NetworkStep(c) \/ DatabaseStep(c)

Spec == Init /\ [][Next]_vars

-----------------------------------------------------------------------------
(* Properties *)

\* An attempt is "completed" only while the event it announced is stored with the
\* same metadata and size and can be read back (attempts.go, Complete and Recover).
CompletedHasEvidence ==
  \A a \in Attempts : attempts[a] # None /\ attempts[a].status = "completed"
                        => completeEvidence(attempts[a])

\* A client that saw "ok" finds its own bytes under its event, whatever other
\* connections, crashes and restarts did since: acknowledgement implies
\* completion, readability and identity of payload and metadata.
AckedIsStored ==
  \A r \in acked :
    /\ attempts[r.attempt] # None
    /\ attempts[r.attempt].status = "completed"
    /\ events[r.event] # None
    /\ events[r.event].meta = r.meta
    /\ events[r.event].payload = r.payload
    /\ Intact(events[r.event])

\* A pending attempt nobody works on while the daemon is up is one whose evidence
\* is committed but was refused by CompleteCaptureAttempt; nothing else strands an
\* attempt as long as the database itself does not fail.
StrandedOnlyByRefusal ==
  phase # "down" =>
    \A a \in Attempts :
      (attempts[a] # None /\ attempts[a].status = "pending") =>
        \/ \E c \in Conns : /\ req[c] # None /\ req[c].attempt = a
                            /\ pc[c] \in {"header", "append", "stream", "consume", "mark", "complete"}
        \/ events[attempts[a].event] # None /\ ~completeEvidence(attempts[a])

\* Committed evidence can be read back: no chunk layout that validChunk rejects
\* is ever committed.
EvidenceReadable ==
  \A e \in Events : events[e] # None => Intact(events[e])

\* An event row, once committed, is never replaced, re-cut or removed, also when
\* several connections stream the same event.
EvidenceImmutable ==
  [][\A e \in Events : events[e] # None => events'[e] = events[e]]_vars

\* The outcome of an attempt is decided once: completed and incomplete rows never
\* change and a pending row keeps what it announced.
OutcomeFinal ==
  [][\A a \in Attempts : attempts[a] # None =>
       /\ attempts'[a] # None
       /\ attempts[a].status # "pending" => attempts'[a] = attempts[a]
       /\ attempts'[a].event = attempts[a].event
       /\ attempts'[a].meta = attempts[a].meta
       /\ attempts'[a].size = attempts[a].size]_vars

\* What the rows mean to a client: an outcome, and evidence that is readable or not.
OutcomeOf(row) ==
  IF row = None THEN None
  ELSE [event |-> row.event, meta |-> row.meta, size |-> row.size, status |-> row.status]

EntryOf(row) ==
  IF row = None THEN None
  ELSE [meta |-> row.meta, payload |-> row.payload, readable |-> Intact(row)]

Log == INSTANCE EvidenceLog WITH
  outcome <- [a \in Attempts |-> OutcomeOf(attempts[a])],
  log <- [e \in Events |-> EntryOf(events[e])]

\* The daemon implements the evidence log: what it stores, decides and reports are
\* steps of EvidenceLog whatever its goroutines, crashes and restarts do in between.
ImplementsEvidenceLog == Log!Spec

\* A graceful close, once it has closed the connections, reaches its end.
CloseEnds == phase = "draining" ~> phase = "down"

-----------------------------------------------------------------------------
(* The inductive invariant behind CompletedHasEvidence and AckedIsStored. *)

\* The goroutine has announced its attempt and not yet answered a failure.
Working(c) == pc[c] \in {"header", "append", "stream", "consume", "mark", "complete"}

\* The goroutine is about to write "ok".
Succeeding(c) == pc[c] = "reply" /\ reply[c] = "ok"

\* The attempt row is the one request r announced.
Announced(r) ==
  /\ attempts[r.attempt] # None
  /\ attempts[r.attempt].event = r.event
  /\ attempts[r.attempt].meta = r.meta
  /\ attempts[r.attempt].size = Size[r.payload]

\* The stored event has the bytes of request r.
Holds(r) == events[r.event] # None /\ events[r.event].payload = r.payload

HandlerInv ==
  \A c \in Conns :
    /\ phase = "down" => pc[c] = "idle"
    /\ pc[c] # "idle" => req[c] \in Requests
    /\ reply[c] = "ok" => pc[c] = "reply"
    /\ Working(c) \/ Succeeding(c) => Announced(req[c])
    /\ pc[c] = "complete" \/ Succeeding(c) => Holds(req[c])
    /\ Succeeding(c) => attempts[req[c].attempt].status = "completed"

\* The pool's single connection: who streams or consumes owns it, alone.
DbInv ==
  \A c \in Conns :
    /\ pc[c] \in {"stream", "consume"} <=> db = c
    /\ pc[c] = "stream" => events[req[c].event] = None
    /\ pc[c] = "consume" => events[req[c].event] # None

IInv == TypeOK /\ HandlerInv /\ DbInv /\ CompletedHasEvidence /\ AckedIsStored
=============================================================================
