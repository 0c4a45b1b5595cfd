# pi-token-smith: TLA+ models, runs and proofs

pi-token-smith records what a Pi agent session exchanges. An extension inside
the Pi process observes events and sends each of them, over a Unix socket, to
one local daemon. The daemon streams the evidence into SQLite and serves it to
readers. The modules here describe how these parts work together; TLC checks
them on small instances and TLAPS proves the most important facts for every
instance. Paths below are relative to `src/`.

## 1. Inventory

| part | code | state it keeps | operations |
|---|---|---|---|
| capture protocol | `internal/daemon/server.go` (`captureAppend`), `internal/storage/attempts.go`, `internal/storage/storage.go` | tables `capture_attempts`, `capture_events`, `capture_event_chunks`; one goroutine per connection; one pooled SQLite connection | begin attempt, read header, append/compare, mark incomplete, complete, respond, recover, close |
| server lifecycle | `internal/daemon/server.go` (`Start`, `acceptLoop`, `Close`) | `s.state`, slot channel, connection map, two wait groups, `startDone`, `closeDone` | start with cleanup, accept, admit, drop, close by several callers |
| instance lock and socket | `internal/daemon/runtime_lock.go`, resource steps of `server.go` | `flock`, socket node, quarantined nodes, remembered socket identity | acquire, remove a stale socket, listen, identify, release |
| HTTP token | `internal/daemon/runtime_lock.go` (`LoadOrCreateHTTPToken`) | token file, temporary files | read, create, publish without replacing |
| evidence reading and search | `storage.go` (`ReadEventEvidence`, `EventMetadata`, `SearchEvents`) and their handlers in `server.go` | an open result set, which holds the pooled connection | metadata, page, search |
| migrations | `migrations/` | `schema_migrations` | apply in order |
| extension: capture client | `extension/index.ts` (`CaptureClient`, `registerExtension`) | queue, two counters, `#closed`, the variable `client`, sequence counter | observe, enqueue, drain, request, flush, close |
| extension: bootstrap | `extension/index.ts` (`ensureDaemon`) | map of attempts per Pi process | health check, join, spawn, retry |
| framing | `internal/protocol/protocol.go`, `extension/protocol.ts` | partial frame | encode, decode |
| Go RPC client | `internal/client/client.go` | gate, `c.conn`, `c.closed`, deadlines, watcher goroutines | call, read payload, poison, close |
| HTTP API | `internal/httpapi` | listener, handlers, `payloadWriter.started` | check a request, forward, stream a page, shut down |
| MCP server | `internal/mcp` | handlers | check a call, forward, answer |
| command line | `internal/cli`, `cmd` | temporary and output file of `inspect --output` | serve, mcp, inspect, status, doctor, search, daemon |

How they interact: the extension (one connection per event) and the RPC client
(one reused connection) are clients of the same socket. `captureAppend` runs in
a goroutine of the server lifecycle and shares the single SQLite connection with
every other handler; a reader streams its page to its peer while it holds that
connection. The HTTP API, the MCP server and the commands reach the daemon only
through the RPC client, one per process, whose gate their handlers share. The
lifecycle's resources are those of the instance lock,
which other daemon processes compete for; the bootstrap starts such processes.

What is hard here: two connections streaming one event; a request repeated with
other bytes; a process that dies between the commit of the evidence and the
completion of the attempt; `Close` meeting `Start`, an accept in progress or
another `Close`; socket removal by name while another daemon starts; callbacks
that read a variable after it was replaced; timeouts that race with late work;
the single database connection everyone waits for; page offsets against chunk
boundaries; a stream that breaks when the HTTP status is already out; processes
that create the same file at once. `PROJECT.json` lists each
hazard with its line and the property that would show it.

What makes each part correct, in one sentence:

- capture protocol: an acknowledged or completed capture is stored, readable and
  its own, for ever; evidence is written once; an outcome is decided once;
- lifecycle: slots never leak, nothing is used after its release, every `Close`
  returns from a closed server;
- instances: one database owner, a running daemon keeps its socket, stale
  sockets never block a start, files that are not sockets survive;
- capture client: bounded memory, no event unaccounted for, order kept;
- bootstrap: one attempt per process at a time, nobody waits for ever;
- RPC client: nobody reads another operation's response, nothing leaks;
- readers: a page of acknowledged evidence is exactly the bytes asked for, and a
  stalled reader delays the others but never stops them;
- front ends: success means the whole page, files are whole or untouched, servers
  agree on the token, a stopped server ends in order.

## 2. Modules and the code

| module | models | instances |
|---|---|---|
| `CaptureDaemon` | the handlers, the tables, recovery, close, crash | `MCCaptureDaemon` |
| `EvidenceLog` | what the capture protocol promises: a write-once log with outcomes decided once (abstract) | implemented by `CaptureDaemon` |
| `ServerLifecycle` | `Start`, accept loop, `Close` within one process | `MCServerLifecycle` |
| `DaemonInstances` | several processes over one runtime directory | `MCDaemonInstances` |
| `CaptureExtension` | observer and capture client, session by session | `MCCaptureExtension` |
| `DaemonBootstrap` | `ensureDaemon` in several Pi processes | `MCDaemonBootstrap` |
| `RpcClient` | the Go client shared by goroutines | `MCRpcClient` |
| `DaemonReads` | `CaptureDaemon` composed with the read handlers over the one database connection | `MCDaemonReads` |
| `Frontends` | the commands with HTTP API, MCP server, HTTP token and output file, several processes | `MCFrontends` |
| `CaptureDaemonProofs` | theorems about `CaptureDaemon`: invariant, write-once properties, stranded attempts, refinement, chunk layout | |
| `DaemonReadsProofs`, `DaemonInstancesProofs`, `DaemonBootstrapProofs`, `ServerLifecycleProofs`, `RpcClientProofs`, `CaptureExtensionProofs`, `FrontendsProofs` | theorems about the module of that name | |

Operators whose comment says "Mutant of X" are wrong variants of X. They are not
used by any specification; each is a plausible mistake that one of the checked
properties rules out (`PROJECT.json`, "mutants").

**CaptureDaemon.** `pc[c]` is the place of connection goroutine `c` in
`captureAppend`: *begin* (`BeginCaptureAttempt`), *header*
(`ReadEvidenceHeader`), *append* (waiting for `BeginTx`), *stream* (new event)
or *consume* (duplicate), *mark* (`MarkCaptureIncomplete`), *complete*
(`CompleteCaptureAttempt`), *reply*. `db` is the goroutine whose transaction
holds the pool's only connection (`SetMaxOpenConns(1)`); `AppendEvent` keeps it
while it reads the peer's bytes. Transactions that do not wait for the network
are one step. A payload is a model value with a size, so equality stands for
equality of the SHA-256; a metadata value stands for all the fields
`completeEvidence` and `sameAttempt` compare beside identifiers and size. The
chunk rows of an event are the offsets at which the chunks end: `consumeEvidence`
makes one row per `Read`, and `validChunk` later insists on the length the row's
index implies. `phase` follows the process: *down*, *running*, *stopping*
(listener closed), *draining* (connections closed). `Crash` ends the process
anywhere; committed rows survive, the open transaction does not.

**EvidenceLog.** `outcome`, `log`, `acked` with *announce*, *store*, *settle*
(several attempts at once: recovery) and *acknowledge*. The refinement mapping in
`CaptureDaemon` forgets the failure stage and maps the chunk rows to "readable
or not".

**ServerLifecycle.** Every step between two uses of `s.mu`, a channel or a wait
group is an action. `conn` says which goroutines are counted in `connectionWG`,
`accept` whether `acceptWG` is. `StartFails` is the deferred cleanup of `Start`.
`RemoveSocket` is `removeStaleSocket` as `Start` and `Close` use it: it may fail, the
error is dropped or only reported, and `stuck` remembers the socket that is left.
What serving a connection means is left to `CaptureDaemon`.

**DaemonInstances.** Nodes have a kind, an owner and an identity. `Quarantine`
and `Inspect` are the two halves of `removeStaleSocket` (rename to a private
name, then look and delete or put back with `RENAME_NOREPLACE`); anything may
happen between them. `AfterRemove` says which of the three callers goes on where.
`Intrude` is somebody else putting a node at the path. The metadata in the lock
file is diagnostics and left out.

**CaptureExtension.** JavaScript runs a callback to its end, so an action is the
code between two waits. `Enqueue` includes the start of `#drain`, which takes the
event synchronously. `cur` is the variable `client` of `registerExtension`;
`FlushEnds` reads it when it runs, as the code does. The daemon is external: it
stores completely written requests soon, late or never.

**DaemonBootstrap.** `attempt` is the map of promises of one Pi process,
`Settle` the end of a promise with everyone who awaits it. Child processes and
the daemon are external.

**RpcClient.** `gate` is the token channel, `conn` the field `c.conn`, `wire`
what the daemon has sent and nobody has read. `Arm` is `deadlines`: fresh
deadlines and a watcher goroutine, whose `select` takes either ready channel.
`EncodeFails` is the return before anything is written, the only failure that keeps
the connection.

**DaemonReads.** Extends `CaptureDaemon`: a connection serves a capture (`pc`) or
a read (`at`). `Lookup` is the first statement of each handler, `Announce` the
response and the evidence header, `QueryMetadata` and `OpenRows` the two
statements of `ReadEventEvidence`, `SendRow` one turn of its loop. `PoolFree` is
the pool of one connection: no transaction and no open result set. A byte is known
by its true offset in the payload, so `got` shows which bytes reached the peer.
The handler announces `PageLength`; `ReadEventEvidence` looks the event up again and
computes `Remaining` for itself, and that the two agree is part of `AckedReadsExact`.
`RowSlice` takes the bytes from where the row really begins, `SkipInRow` computes as
the code does, from where the row should begin.

**Frontends.** `main[p]` is the place of the command, `work[p][k]` of handler `k`.
An RPC operation is reduced to gate, call, stream and outcome; `RpcClient` has the
detail. A request reaches `ServeHTTP` with at most one defect; `Refusal` gives the
code in the order of the checks in `ServeHTTP` and `route`. `Started` is
`payloadWriter.started`, which is set before the first write and stays set if that
write fails. The HTTP server accepts connections from `Listen` on, before the URL is
printed (`Announce`); during `Shutdown` it accepts none, but a request may still
arrive on one it has (*accepted*), and `Shutdown` waits for it. `Printing` and
`Unread` say where code waits for a reader without a deadline of its own: `serve`,
`status`, `search` and `doctor` at their stdout, an HTTP handler with a JSON or error
response or an empty page, an MCP tool with its result, `inspect` with evidence for
stdout. A launch number stands for the random token and the random names of
temporary files. `Crash` ends a process anywhere and leaves its files.

## 3. Runs

| run | what it shows |
|---|---|
| `capture_safety` | Two connections send any of the requests for one event (a repetition, a duplicate under another request_id, other bytes of equal length, no bytes, other metadata), with short reads, crashes, restarts and close. Completed implies complete evidence, acknowledged implies one's own readable bytes, nothing but a refused completion strands an attempt, evidence and outcomes are final, and every step is a step of `EvidenceLog`. About 367,000 states. |
| `daemon_reads` | Two connections capture and read one event; short reads; any statement may fail. Pages of acknowledged evidence are exact, every handler returns, a close ends. About 63,000 states. |
| `server_lifecycle` | Three connections for two slots, two callers of `Close`, a `Start` that may fail at every step. |
| `daemon_instances` | Two processes, crashes everywhere, an outsider, four nodes. |
| `extension_queue` | A session of four events with room for three events or four bytes, until its shutdown closes the client; requests fail, time out, or are stored late. |
| `daemon_bootstrap` | Two sessions in one Pi process, one in another, a daemon that comes and goes. |
| `rpc_client` | Two goroutines, two operations, two connections; cancellation, failure and `Close` anywhere. |
| `frontends` | Two processes, one with two handlers, run any two of the commands over one runtime directory and one output file; requests fail every check in turn, operations fail anywhere, processes are killed anywhere. Pages, output file and token are whole, the client outlives the handlers, and every command ends unless it waits for ever for a reader. About 205,000 states. |
| `short_reads`, `stale_close`, `spawn_error`, `stale_deadline` | Statements of the repository that the code does not keep: section 6. |

**Bounds.** Every conflict in `CaptureDaemon` is between two goroutines over one
attempt or one event (the pool serialises the rest), so two connections, two
attempts and one contested event produce all of them; a payload of three bytes
with chunks of two has a full and a partial chunk, and the empty payload has
none. Requests may be repeated without limit, and the process may crash without
limit. One connection more than slots reaches the limit and the refusal; two
closers reach both waits of `Close`. Two processes suffice for the lock; four
nodes (`MaxNodes`) let a crash leave a socket, an outsider replace it, and both
daemons listen. In the extension four events
of two sizes with room for three events and four bytes reach both limits and a
queue deep enough for its order to matter; clients share nothing but the variable
`client`, whose replacement `stale_close` explores with two sessions. Two operations
are enough for the RPC client because what one operation can leave behind meets
exactly the next one; the bound `MaxDials` lets a poisoned connection be
replaced. For the readers a payload of three bytes in chunks of two is read as a
whole, across the boundary, from the last chunk with a limit past the end, and at
the end; one event is enough because rows of different events never meet. Two
processes reach every race for the token and the output file, because both are
published by one rename and the loser's second turn meets the winner's file; two
handlers reach the queue at the gate; two pieces per page put a failure before,
between and after them. The server with two handlers serves pages, the other one the
requests that are refused; operations without a page run in `mcp` and the commands. `MaxLaunches` ends the run after two launches; the safety
properties were also explored with three (2.6 million states). The theorems of
section 5 have no such bounds.

`CHECK_DEADLOCK FALSE` stands where the modelled part may stop for good: a closed
server, sessions that are over, operations or launches used up.

**Fairness.** `CaptureDaemon`: every network wait ends because `deadlineConn`
(`server.go:219-235`) arms a deadline for each read and write, so goroutine
steps are weakly fair; steps that need the database are strongly fair because
`database/sql` hands a freed connection to a waiter in its queue. Nothing is
assumed about clients, about `Start`, or about anybody calling `Close`.
`ServerLifecycle`: a runnable goroutine runs; a serving goroutine is fair to end
only after its connection was closed under it. `DaemonInstances`: a process that
is neither off nor serving runs on. `CaptureExtension` and `DaemonBootstrap`:
every wait (dial, write, read, flush, pause) has a timer, hence weak fairness of
the extension's steps and none of the daemon's. `RpcClient`: weak fairness of an
operation's steps (timeouts), strong fairness of taking the gate (a Go channel
serves its waiters first in, first out). `DaemonReads`: as `CaptureDaemon`; the
write deadline of `deadlineConn` also ends a reader's wait for its peer, which is
what `CloseRows` may do at any time. `Frontends`: weak fairness of code, of RPC
operations (their deadlines), of writes of a page (`payloadWriter.Write` arms a
deadline for each) and of dropping a connection without a request
(`ReadHeaderTimeout`), strong fairness of the gate. A step that waits for a reader
without a deadline (`Printing`, `Unread`) has no fairness at all: whoever should read
may never do so. Nobody has to stop a server, to send a request or to start a process.

## 4. What is assumed of the outside

SQLite transactions are atomic and survive the end of the process; the end of the
machine is not modelled (`synchronous=NORMAL` may lose the last transactions
then). `flock` is exclusive and dropped by the kernel at exit. `rename` is
atomic. SHA-256 has no collisions. A `Read` from a Unix stream socket may
return any positive number of bytes up to what was asked for (`ShortReads`).

## 5. Proofs

Every safety invariant and every action property that a passing run checks is also
a theorem of its specification, for every value of the constants that satisfies the
module's assumption. Each invariant was checked by TLC on the run's instance, with
its strengthening, before it was proved. The assumptions are: sizes, limits and
bounds are naturals; the chunk size, the retries, the slots, the handlers of a
process and the pieces of a page are positive; connections are finitely many where
they are counted; requests are built from the identifiers; the sentinel `None` is
none of the values it stands beside; the outsider is no process. Three theorems have
a hypothesis of their own, named below: no failing database statement, or no short
read.

**Capture protocol** (`CaptureDaemonProofs`). `CompletedHasEvidence` and
`AckedIsStored` are not inductive: completion looks at a row that another
goroutine may be writing, and "ok" is sent steps after the check. `IInv` adds

- `HandlerInv`: a working goroutine's attempt row is the one it announced; one
  that is past `AppendEvent` has its own bytes stored; one about to send "ok" has
  a completed attempt;
- `DbInv`: who streams or consumes owns the connection, alone, and what it found
  when it looked for the event is still so.

Acknowledgement then rests on the combination: same bytes from `HandlerInv`, same
metadata and readability from `CompletedHasEvidence`. There is one lemma per
action (`BeginStep`, `CommitEventStep`, `CompleteStep`, ...).

**Stranded attempts.** `PendingIsAttended`: while the daemon runs, an attempt is
pending only if a goroutine works on it or its evidence is committed and was
refused by `completeEvidence`. It assumes `StoreFaults = FALSE`, as the run does:
a database that fails when the attempt is marked strands it until the next
recovery. The argument follows the goroutine that serves the attempt
(`AttendedStep`) and shows that a refusal is for ever (`RefusedStays`), because
evidence is written once.

**Refinement**. From `IInv`: evidence is written once
(`EvidenceWrittenOnce`), outcomes are decided once (`OutcomeDecidedOnce`), and
every step maps to a step of `EvidenceLog` or a stutter (`DaemonImplementsLog`);
recovery maps to one `Settle` of all pending attempts.

**Chunk layout**. If every `Read` fills its buffer, all
committed evidence is readable, for every chunk size and payload size
(`FullReadsKeepEvidenceReadable`). `LayoutInv` says that the rows an open
transaction has written are full chunks, except the last one at the end of the
payload. Short reads break it, with the consequence of section 6, item 1.

**Readers** (`DaemonReadsProofs`). `ReadersDoNotDisturb`: the composed
specification implies `CaptureDaemon!Spec`, so the theorems above hold beside any
number of readers. `AcknowledgedReadsExact`: whatever page of acknowledged evidence
is asked for, every byte sent is the right one, no row is refused before the page is
complete, and the page has the length of its header (`LengthsAgree`). The argument has two invariants. `PlacedInv`: if all rows of an
event have the lengths their indexes call for, row `k` also begins at
`k * ChunkSize`; this is what `ReadEventEvidence` takes for granted, and it is kept
along the Reads of the capture instead of by induction over the rows. `RInv`: a
reader of intact evidence has sent exactly the bytes from its offset to the start
of its next row, or its whole page. `NextRow` is the step in between: the next row
exists, is valid, and continues the page without gap or overlap. Acknowledged
evidence is intact (`AckedIsStored`). `FullReadsKeepPagesExact`: with full reads
all evidence is intact, hence `ReadsExact`, which TLC refutes otherwise.

**Instances** (`DaemonInstancesProofs`). `IInv` consists of the types, `LockInv`
(past `AcquireLock` a process holds the lock, so it is alone there), `StageInv`
(when the database is open and a node quarantined), `KindInv` (daemons make only
sockets) and the two path invariants. From it: `OneStoreOwner`,
`RunningIsReachable`, `ListenPathCleared` and the action property
`FilesNeverDeleted`, for any number of processes, nodes and crashes.

**Lifecycle** (`ServerLifecycleProofs`). `SlotsAccounted` counts a set, and the
count changes by one only because exactly one connection moves; that is inductive
with the types alone. `ReleaseOrder` and `CloseReturnsClosed` need the whole shape
of the protocol: `StartInv` (the state says where `Start` is and which resources
exist by then), `CloseInv` (one goroutine closes, and its stage says what is already
undone) and `ConnInv` (connection goroutines exist only between the start of the
loop and the close of the store). The delicate step is `Close` after `Start` has
failed or while it runs: the closing goroutine finds some resources missing and must
still find the accept loop over. A socket whose removal failed is the only thing that
may outlive the lock, and the next start clears it (`PathClearedForListen`).

**RPC client** (`RpcClientProofs`). `ReusedConnectionClean` follows from `WireInv`:
what is unread on the cached connection is exactly what the operation in progress
still expects, which is kept because an operation that fails halfway poisons the
connection. `GateInv` makes that operation unique, `ConnInv` says the cached
connection is the only open one and the operation's own unless `Close` took it.
`OwnResponseOnly` and `NoConnectionLeak` follow, for any number of callers,
operations and connections. The deadline of a later operation is not protected
(section 6, item 4), and none of this depends on it.

**Capture client** (`CaptureExtensionProofs`). `BacklogBounded` states the byte
counter with running totals along the queue instead of a recursive sum, so that
taking the head and adding at the tail are two lemmas about totals. `InOrder` (the
queue is sorted and younger than the event being sent) gives that an event is in the
backlog once, hence `EveryEventAccounted`. `AckedInOrder` needs `StoreInv`: the
daemon has nothing the client has not sent, and what it acknowledged is stored
before anything younger; the late store of a request that timed out adds an event
that was never acknowledged and comes after those that were.

**Bootstrap** (`DaemonBootstrapProofs`). `AttemptShared` is inductive with the
types: the map entry and the attempt are set and cleared in the same callback. It
holds for any number of Pi processes and sessions, crashes of a process included.

**Front ends** (`FrontendsProofs`). `PlaceInv` ties the place of a command to its
handlers, `WorkInv` says that bytes arrive only in the stream and that only HTTP
responses have a trailer, `TempInv` that launch numbers are not reused and when a
live process has a temporary file, `TokenInv` that the token file is whole and that
the loser of the race finds it on its second turn; that is why `diverged` is
unreachable for any number of servers, although the loop has only two turns. One
lemma (`HandlerStep`) covers every step of a handler from what its new work must
satisfy (`Allowed`); `FinishStep` is where success and the whole page meet. From the
invariant: `SuccessMeansWhole`, `OutputWhole`, `ServersAgree`, `ClientClosedLast`.

**Model-checked only.** The eight liveness properties (`ServingEnds`, `CloseEnds`,
`CloseReturns`, `StartEnds`, `BacklogSettles`, `BootstrapEnds`, `OperationsReturn`,
`CommandsEnd`): fairness is out of the prover's reach. The statements of section 6
are refuted, not proved; for the first of them the theorems on full reads show that
short reads are its only cause.

## 6. Where code and documents disagree

1. `short_reads`: a `Read` that returns less than a chunk is stored as a chunk
   row of its own (`storage.go:198`), but `ReadEventEvidence` assumes that row `k`
   begins at byte `k * ChunkSize` (`storage.go:164`) and checks only the rows it
   needs. The attempt is never completed; the event stays in the store, and a page
   of it may be answered, without an error, with other bytes than those asked for.
2. `stale_close`: the flush of an ended session closes its successor's client
   (`extension/index.ts:236`).
3. `spawn_error`: a daemon binary that cannot be executed raises an unhandled
   `error` event in the Pi process (`extension/index.ts:358`), provided the host
   installs no handler for uncaught exceptions of its own.
4. `stale_deadline`: the watcher of a finished RPC operation may expire the
   deadline of the next one (`client.go:186`).

Not checked by a run, noted while reading: the start-up sequence of `PLAN.md`
includes `PRAGMA quick_check`, which `storage.Open` does not execute. A request
repeated after its acknowledgement is a conflict (`attempts.go:76`), where
`PLAN.md:373` wants the existing result. The comment at `httpapi.go:67` wants no
total deadline on a payload response, but the RPC operation behind it has one
(`client.go:171`): a page that flows for longer than 30 seconds ends early, with
the error trailer. Every other HTTP response has no write deadline, and `serve` shuts
down with `context.Background()` (`cli.go:284`): a client that does not read its JSON
response keeps a stopped server from ending. No document promises otherwise;
`CommandsEnd` names this, and a stdout nobody reads, as its only exception.

## 7. Not modelled

- **Frame decoders** (`protocol.go`, `extension/protocol.ts`): partly. A frame
  arrives whole, or the operation fails; that is how `CaptureDaemon`, `DaemonReads`
  and `RpcClient` use it. The decoders keep no state between frames: length prefix,
  limit, body.
- **Migrations**: partly. The tables are the state of `CaptureDaemon`; applying the
  files is a loop of transactions by the only process that holds the lock, before
  it listens.
- **The search index**: `DaemonReads` has the search statement and its use of the
  connection, not the text it matches.
- **MCP transport**: the JSON-RPC loop is a library's; a tool call is modelled from
  where the library hands it over.
- Contents of events (snapshots, classification, correlation identifiers), flags,
  logging and the wording of messages are data no property tells apart.

## 8. Plan

Done: `CaptureDaemon` with `EvidenceLog`, `ServerLifecycle`, `DaemonInstances`,
`CaptureExtension`, `DaemonBootstrap`, `RpcClient`, `DaemonReads`, `Frontends`, and
the proofs of section 5, which cover every safety property of the runs. Next, in
this order:

1. Theorems that link the parts: that the RPC operations of `Frontends` are what
   `RpcClient` gives them, and that the connections `ServerLifecycle` serves are
   those of `CaptureDaemon`.
2. `FrameDecoder`: the incremental decoders of both sides against the sequence of
   frames that was written, for every way of cutting the stream.
3. A composition of `DaemonBootstrap` with `DaemonInstances`, in place of the
   external daemon: spawned children compete for the lock.
