----------------------------- MODULE Frontends -----------------------------
(***************************************************************************)
(* The commands a user runs beside the daemon (internal/cli): serve with   *)
(* the HTTP server (internal/httpapi) and the bearer token in the runtime  *)
(* directory (LoadOrCreateHTTPToken), mcp (internal/mcp), inspect with and *)
(* without --output, and the commands that make one call and print it      *)
(* (status, search, doctor).  Each process shares one RPC client among its *)
(* handlers; an operation of that client is what RpcClient models in       *)
(* detail: wait for the gate, call, stream a page, fail anywhere.          *)
(*                                                                         *)
(* A launch number stands for what a process makes up at random: its token *)
(* and the names of its temporary files.  A page is counted in pieces.     *)
(***************************************************************************)
EXTENDS Naturals

CONSTANTS
  Procs,        \* processes at a time
  Workers,      \* Workers[p]: concurrent handlers of process p, numbered from 1
  Pieces,       \* pieces of a non-empty page
  Runs,         \* Runs[p]: the commands process p may be started with
  HttpRequests, \* HttpRequests[p]: requests HTTP clients send to process p
  MaxLaunches,  \* bound: processes started in a behaviour
  None

Launches == 1..MaxLaunches
Commands == {"serve", "mcp", "inspect", "inspectFile", "query"}
Pages    == {"whole", "empty"}    \* the offset is before the end of the evidence, or not
Routes   == {"status", "info", "search", "metadata", "payload", "other"}
Defects  == {"none", "forbidden", "body", "querytoken", "params"}
Codes    == {"none", "ok", "forbidden", "invalid", "unauthorized", "not_found", "unavailable"}

ASSUME FrontendsAssumption ==
  /\ Workers \in [Procs -> Nat \ {0}]
  /\ Pieces \in Nat \ {0} /\ MaxLaunches \in Nat
  /\ Runs \in [Procs -> SUBSET Commands]
  /\ \A p \in Procs :
       HttpRequests[p] \subseteq [defect : Defects, bearer : {"file", "other"}, route : Routes, page : Pages]
  /\ None \notin Nat \cup Commands \cup [owner : Launches, full : BOOLEAN]

VARIABLES
  cmd,      \* the command each process runs
  id,       \* its launch number
  main,     \* where its main goroutine is
  tries,    \* turns of the loop in LoadOrCreateHTTPToken
  token,    \* bearer token of its HTTP server
  gate,     \* handler that has the gate of its RPC client
  work,     \* per handler: where it is, what it serves, bytes delivered, result
  file,     \* http.token: whose token, and whether it is all there
  temps,    \* temporary files in either directory: [owner, full]
  target,   \* the --output file: whose page, and how much of it
  crashed,  \* launches that were killed while they had a temporary file
  launched  \* number of launches

procVars == <<cmd, id, main, tries, token>>
disk     == <<file, temps, target>>
vars     == <<procVars, gate, work, disk, crashed, launched>>

Places == {"down", "health", "read", "create", "write", "publish", "listen", "announce",
           "serving", "shutdown", "malformed", "diverged", "temp", "ask", "fetch", "rename", "close"}
\* Work without a byte yet.
Fresh(at, route, page, code) ==
  [at |-> at, route |-> route, page |-> page, bytes |-> 0, code |-> code, trailer |-> FALSE]
Idle == Fresh("idle", "other", "empty", "none")
Work == [at : {"idle", "accepted", "gate", "rpc", "stream", "respond"}, route : Routes, page : Pages,
         bytes : 0..Pieces, code : Codes, trailer : BOOLEAN]

TypeOK ==
  /\ cmd \in [Procs -> Commands \cup {None}]
  /\ id \in [Procs -> Launches \cup {None}]
  /\ main \in [Procs -> Places]
  /\ tries \in [Procs -> 0..1]
  /\ token \in [Procs -> Launches \cup {None}]
  /\ \A p \in Procs :
       /\ gate[p] \in 1..Workers[p] \cup {None}
       /\ work[p] \in [1..Workers[p] -> Work]
  /\ file \in [owner : Launches, full : BOOLEAN] \cup {None}
  /\ temps \subseteq [owner : Launches, full : BOOLEAN]
  /\ target \in [owner : Launches, page : Pages, bytes : 0..Pieces] \cup {None}
  /\ crashed \subseteq Launches
  /\ launched \in 0..MaxLaunches

NoWork(p) == [k \in 1..Workers[p] |-> Idle]

Init ==
  /\ cmd = [p \in Procs |-> None]
  /\ id = [p \in Procs |-> None]
  /\ main = [p \in Procs |-> "down"]
  /\ tries = [p \in Procs |-> 0]
  /\ token = [p \in Procs |-> None]
  /\ gate = [p \in Procs |-> None]
  /\ work = [p \in Procs |-> NoWork(p)]
  /\ file = None /\ temps = {} /\ target = None
  /\ crashed = {} /\ launched = 0

Goto(p, place) == main' = [main EXCEPT ![p] = place]

\* The page asked for has this many pieces: an offset at or past the end reads nothing.
Want(page) == IF page = "whole" THEN Pieces ELSE 0

Temp(p, full) == [owner |-> id[p], full |-> full]

\* Mutant of Discard: the temporary file is left behind.
Discard_Kept(p) == temps' = temps

\* The deferred removal of the process's temporary file, if there is one.
Discard(p) == temps' = {t \in temps : t.owner # id[p]}

-----------------------------------------------------------------------------
(* Processes *)

FirstPlace == [serve |-> "health", mcp |-> "serving", inspect |-> "ask",
               inspectFile |-> "temp", query |-> "ask"]

Launch(p) ==
  /\ main[p] = "down"
  /\ launched < MaxLaunches
  /\ launched' = launched + 1
  /\ id' = [id EXCEPT ![p] = launched + 1]
  /\ \E c \in Runs[p] : cmd' = [cmd EXCEPT ![p] = c] /\ Goto(p, FirstPlace[c])
  /\ UNCHANGED <<tries, token, gate, work, disk, crashed>>

\* Nothing of the process is left but its files.
Gone(p) ==
  /\ Goto(p, "down")
  /\ cmd' = [cmd EXCEPT ![p] = None]
  /\ id' = [id EXCEPT ![p] = None]
  /\ tries' = [tries EXCEPT ![p] = 0]
  /\ token' = [token EXCEPT ![p] = None]
  /\ gate' = [gate EXCEPT ![p] = None]
  /\ work' = [work EXCEPT ![p] = NoWork(p)]

\* The deferred Close of the RPC client, and the end of the process.
CloseClient(p) ==
  /\ main[p] \in {"close", "malformed", "diverged"}
  /\ Gone(p)
  /\ UNCHANGED <<disk, crashed, launched>>

Crash(p) ==
  /\ main[p] # "down"
  /\ Gone(p)
  /\ crashed' = crashed \cup {t.owner : t \in {u \in temps : u.owner = id[p]}}
  /\ UNCHANGED <<disk, launched>>

-----------------------------------------------------------------------------
(* serve: health check, token, listener, shutdown *)

Health(p) ==
  /\ main[p] = "health"
  /\ Goto(p, "read")
  /\ UNCHANGED <<cmd, id, tries, token, gate, work, disk, crashed, launched>>

\* readHTTPTokenAt: absent, a token, or malformed.
ReadToken(p) ==
  /\ main[p] = "read"
  /\ \/ file = None /\ Goto(p, "create") /\ UNCHANGED token
     \/ /\ file # None /\ file.full
        /\ token' = [token EXCEPT ![p] = file.owner]
        /\ Goto(p, "listen")
     \/ file # None /\ ~file.full /\ Goto(p, "malformed") /\ UNCHANGED token
  /\ UNCHANGED <<cmd, id, tries, gate, work, disk, crashed, launched>>

\* Mutant of CreateToken: the token is created in place, empty, and written after.
CreateToken_InPlace(p) ==
  /\ main[p] = "create"
  /\ file = None
  /\ file' = Temp(p, FALSE)
  /\ Goto(p, "write")
  /\ UNCHANGED <<cmd, id, tries, token, gate, work, temps, target, crashed, launched>>

\* createHTTPTokenAt: a temporary file of its own; its bytes; its name.
CreateToken(p) ==
  /\ main[p] = "create"
  /\ temps' = temps \cup {Temp(p, FALSE)}
  /\ Goto(p, "write")
  /\ UNCHANGED <<cmd, id, tries, token, gate, work, file, target, crashed, launched>>

WriteToken(p) ==
  /\ main[p] = "write"
  /\ temps' = (temps \ {Temp(p, FALSE)}) \cup {Temp(p, TRUE)}
  /\ Goto(p, "publish")
  /\ UNCHANGED <<cmd, id, tries, token, gate, work, file, target, crashed, launched>>

\* RENAME_NOREPLACE: the token is ours, or there is one and the loop turns again.
PublishToken(p) ==
  /\ main[p] = "publish"
  /\ Discard(p)
  /\ \/ /\ file = None
        /\ file' = Temp(p, TRUE)
        /\ token' = [token EXCEPT ![p] = id[p]]
        /\ Goto(p, "listen")
        /\ UNCHANGED tries
     \/ /\ file # None
        /\ IF tries[p] = 1 THEN Goto(p, "diverged") ELSE Goto(p, "read")
        /\ tries' = [tries EXCEPT ![p] = 1]
        /\ UNCHANGED <<file, token>>
  /\ UNCHANGED <<cmd, id, gate, work, target, crashed, launched>>

\* httpapi.New and Start: from here on connections are accepted.
Listen(p) ==
  /\ main[p] = "listen"
  /\ Goto(p, "announce")
  /\ UNCHANGED <<cmd, id, tries, token, gate, work, disk, crashed, launched>>

\* The URL is printed, or that fails and the server is closed.
Announce(p) ==
  /\ main[p] = "announce"
  /\ Goto(p, "serving") \/ Goto(p, "shutdown")
  /\ UNCHANGED <<cmd, id, tries, token, gate, work, disk, crashed, launched>>

\* Any of these steps fails instead, doctor's look at the runtime directory included: the
\* error is returned through the defers.
Fails(p) ==
  /\ main[p] \in {"health", "read", "create", "write", "publish", "listen", "ask", "temp", "rename"}
  /\ Discard(p)
  /\ Goto(p, "close")
  /\ UNCHANGED <<cmd, id, tries, token, gate, work, file, target, crashed, launched>>

\* The context of serve ends, or mcp reaches the end of its input.
Stop(p) ==
  /\ main[p] = "serving"
  /\ Goto(p, IF cmd[p] = "serve" THEN "shutdown" ELSE "close")
  /\ UNCHANGED <<cmd, id, tries, token, gate, work, disk, crashed, launched>>

\* Mutant of Drained: Shutdown with a context that is already done.
Drained_AtOnce(p) == TRUE

\* No connection has a request, and none has been accepted for one.
Drained(p) == \A k \in 1..Workers[p] : work[p][k].at = "idle"

\* Shutdown waits for the handlers without a deadline of its own.
Shutdown(p) ==
  /\ main[p] = "shutdown"
  /\ Drained(p)
  /\ Goto(p, "close")
  /\ UNCHANGED <<cmd, id, tries, token, gate, work, disk, crashed, launched>>

-----------------------------------------------------------------------------
(* What a handler makes of the outcome of its RPC operation *)

\* ServeHTTP and route, in the order of their checks: the code of a refusal.
Refusal(p, r) ==
  IF r.defect = "forbidden" THEN "forbidden"
  ELSE IF r.defect = "body" THEN "invalid"
  ELSE IF r.defect = "querytoken" THEN "unauthorized"
  ELSE IF r.bearer = "other" \/ file.owner # token[p] THEN "unauthorized"
  ELSE IF r.route = "other" THEN "not_found"
  ELSE IF r.defect = "params" THEN "invalid"
  ELSE "none"

\* The status of an HTTP response: once the body has been started it does not change.
HttpCode(outcome, started) == IF started THEN "ok" ELSE outcome

\* validPayloadResponse refuses an offset past the end, and the utf8 encoding refuses
\* other bytes.
ToolCode(w, outcome, accepted) ==
  IF outcome = "ok" /\ w.route = "payload" /\ ~accepted THEN "invalid" ELSE outcome

\* Mutant of Release: an operation that fails keeps the gate.
Release_OnSuccess(p, k, outcome) ==
  gate' = [gate EXCEPT ![p] = IF @ = k /\ outcome = "ok" THEN None ELSE @]

\* The deferred release of the gate, by whoever has it.
Release(p, k, outcome) == gate' = [gate EXCEPT ![p] = IF @ = k THEN None ELSE @]

\* payloadWriter.started: set before the first write, which itself may fail.
Started(w, outcome) ==
  {w.bytes > 0} \cup (IF w.at = "stream" /\ outcome # "ok" /\ w.page = "whole" THEN {TRUE} ELSE {})

\* The operation ends: its gate is released, its result shown.
Finish(p, k, outcome) ==
  LET w == work[p][k] IN
  /\ Release(p, k, outcome)
  /\ \E accepted \in BOOLEAN, started \in Started(w, outcome) :
       work' = [work EXCEPT
         ![p][k].at = "respond",
         ![p][k].code = IF cmd[p] = "serve" THEN HttpCode(outcome, started)
                        ELSE IF cmd[p] = "mcp" THEN ToolCode(w, outcome, accepted)
                        ELSE outcome,
         ![p][k].trailer = cmd[p] = "serve" /\ outcome # "ok" /\ started]

-----------------------------------------------------------------------------
(* Handlers *)

Begin(p, k, route, page) ==
  work' = [work EXCEPT ![p][k] = Fresh("gate", route, page, "none")]

\* A client connects, or turns back to its idle connection; Shutdown ends this.
Accept(p, k) ==
  /\ main[p] \in {"announce", "serving"} /\ cmd[p] = "serve"
  /\ work[p][k].at = "idle"
  /\ work' = [work EXCEPT ![p][k] = Fresh("accepted", "other", "empty", "none")]
  /\ UNCHANGED <<procVars, gate, disk, crashed, launched>>

\* No request comes in time, or the client hangs up.
Drop(p, k) ==
  /\ work[p][k].at = "accepted"
  /\ work' = [work EXCEPT ![p][k] = Idle]
  /\ UNCHANGED <<procVars, gate, disk, crashed, launched>>

\* An HTTP request arrives, also on a connection that Shutdown waits for: refused, or
\* on its way to the daemon.
ServeHTTP(p, k) ==
  /\ work[p][k].at = "accepted"
  /\ \E r \in HttpRequests[p] :
       \/ Refusal(p, r) = "none" /\ Begin(p, k, r.route, r.page)
       \/ /\ Refusal(p, r) # "none"
          /\ work' = [work EXCEPT ![p][k] = Fresh("respond", "other", "empty", Refusal(p, r))]
  /\ UNCHANGED <<procVars, gate, disk, crashed, launched>>

\* A tool call arrives; one with wrong arguments is answered at once.
CallTool(p, k) ==
  /\ main[p] = "serving" /\ cmd[p] = "mcp"
  /\ work[p][k].at = "idle"
  /\ \/ \E page \in Pages : Begin(p, k, "payload", page)
     \/ \E route \in {"status", "search", "metadata"} : Begin(p, k, route, "empty")
     \/ work' = [work EXCEPT ![p][k] = Fresh("respond", "other", "empty", "invalid")]
  /\ UNCHANGED <<procVars, gate, disk, crashed, launched>>

\* A command with one result: inspect to a file first creates its temporary; status,
\* doctor and search differ in what they call.
Ask(p) ==
  /\ main[p] \in {"ask", "temp"}
  /\ temps' = temps \cup (IF main[p] = "temp" THEN {Temp(p, FALSE)} ELSE {})
  /\ IF cmd[p] = "query" THEN \E route \in {"info", "status", "search"} : Begin(p, 1, route, "empty")
     ELSE \E page \in Pages : Begin(p, 1, "payload", page)
  /\ Goto(p, "fetch")
  /\ UNCHANGED <<cmd, id, tries, token, gate, file, target, crashed, launched>>

\* The gate of the RPC client.
Acquire(p, k) ==
  /\ work[p][k].at = "gate"
  /\ gate[p] = None
  /\ gate' = [gate EXCEPT ![p] = k]
  /\ work' = [work EXCEPT ![p][k].at = "rpc"]
  /\ UNCHANGED <<procVars, disk, crashed, launched>>

\* The request's context ends before it has the gate.
GiveUp(p, k) ==
  /\ work[p][k].at = "gate"
  /\ Finish(p, k, "unavailable")
  /\ UNCHANGED <<procVars, disk, crashed, launched>>

\* The daemon's reply, or none.
Reply(p, k) ==
  /\ work[p][k].at = "rpc"
  /\ \/ /\ work[p][k].route = "payload"
        /\ work' = [work EXCEPT ![p][k].at = "stream"]
        /\ UNCHANGED gate
     \/ /\ work[p][k].route = "status"   \* health is followed by info
        /\ work' = [work EXCEPT ![p][k].at = "gate", ![p][k].route = "info"]
        /\ Release(p, k, "ok")
     \/ work[p][k].route \notin {"payload", "status"} /\ Finish(p, k, "ok")
     \/ work[p][k].route \in {"payload", "metadata"} /\ Finish(p, k, "not_found")
     \/ Finish(p, k, "unavailable")
  /\ UNCHANGED <<procVars, disk, crashed, launched>>

\* Mutant of Complete: a stream that ends early counts as complete.
Complete_AtEnd(w) == TRUE

\* All declared bytes have arrived.
Complete(w) == w.bytes = Want(w.page)

\* Mutant of More: the limit of the reader is one too high.
More_OneMore(w) == w.bytes <= Want(w.page)

\* The bounded reader still expects bytes.
More(w) == w.bytes < Want(w.page)

\* The evidence stream: a piece reaches the destination, the page is complete, or
\* daemon, destination or the operation's deadline ends it early.
Stream(p, k) ==
  /\ work[p][k].at = "stream"
  /\ \/ /\ More(work[p][k])
        /\ work' = [work EXCEPT ![p][k].bytes = @ + 1]
        /\ UNCHANGED gate
     \/ Complete(work[p][k]) /\ Finish(p, k, "ok")
     \/ Finish(p, k, "unavailable")
  /\ UNCHANGED <<procVars, disk, crashed, launched>>

\* The response or the tool's result is out.
Respond(p, k) ==
  /\ work[p][k].at = "respond"
  /\ cmd[p] \in {"serve", "mcp"}
  /\ work' = [work EXCEPT ![p][k] = Idle]
  /\ UNCHANGED <<procVars, gate, disk, crashed, launched>>

\* The single operation is over: print and exit, remove the file, or publish it.
Fetched(p) ==
  /\ main[p] = "fetch"
  /\ work[p][1].at = "respond"
  /\ \/ /\ cmd[p] = "inspectFile" /\ work[p][1].code = "ok"
        /\ Goto(p, "rename")
        /\ UNCHANGED temps
     \/ /\ cmd[p] # "inspectFile" \/ work[p][1].code # "ok"
        /\ Discard(p)
        /\ Goto(p, "close")
  /\ UNCHANGED <<cmd, id, tries, token, gate, work, file, target, crashed, launched>>

\* Rename over the target.
Rename(p) ==
  /\ main[p] = "rename"
  /\ target' = [owner |-> id[p], page |-> work[p][1].page, bytes |-> work[p][1].bytes]
  /\ temps' = {t \in temps : t.owner # id[p]}
  /\ Goto(p, "close")
  /\ UNCHANGED <<cmd, id, tries, token, gate, work, file, crashed, launched>>

-----------------------------------------------------------------------------
(* Who depends on a reader *)

\* The main goroutine prints: serve its URL, doctor its checks, a command its result.
Printing(p) ==
  \/ main[p] = "announce"
  \/ cmd[p] = "query" /\ main[p] = "ask"
  \/ cmd[p] = "query" /\ main[p] = "fetch" /\ work[p][1].at = "respond" /\ work[p][1].code = "ok"

\* The handler writes without a deadline: a JSON or error response, or the headers of
\* an empty page (only payloadWriter.Write sets one), a tool's result, or evidence to
\* stdout.
Unread(p, k) ==
  LET w == work[p][k] IN
  \/ cmd[p] = "serve" /\ w.at = "respond" /\ w.bytes = 0 /\ ~w.trailer
  \/ cmd[p] = "mcp" /\ w.at = "respond"
  \/ cmd[p] = "inspect" /\ w.at = "stream" /\ More(w)

AwaitsReader(p) == Printing(p) \/ \E k \in 1..Workers[p] : Unread(p, k)

-----------------------------------------------------------------------------
Main(p) ==
  \/ Health(p) \/ ReadToken(p) \/ CreateToken(p) \/ WriteToken(p) \/ PublishToken(p) \/ Listen(p)
  \/ Announce(p) \/ Fails(p) \/ Shutdown(p) \/ CloseClient(p) \/ Ask(p) \/ Fetched(p) \/ Rename(p)

Handler(p, k) == Drop(p, k) \/ Reply(p, k) \/ Stream(p, k) \/ Respond(p, k)

Next ==
  \E p \in Procs :
    \/ Launch(p) \/ Stop(p) \/ Crash(p) \/ Main(p)
    \/ \E k \in 1..Workers[p] :
         Accept(p, k) \/ ServeHTTP(p, k) \/ CallTool(p, k) \/ Acquire(p, k) \/ GiveUp(p, k) \/ Handler(p, k)

\* Code runs on, except where it writes to somebody who need not read.  An accepted
\* connection without a request is dropped by ReadHeaderTimeout, operations of the RPC
\* client end by its deadlines, writes of a page to an HTTP client by a deadline per
\* write; a waiter for the gate gets it in turn.  Nobody has to stop a server.
Fairness ==
  \A p \in Procs :
    /\ WF_vars(~Printing(p) /\ Main(p))
    /\ \A k \in 1..Workers[p] : WF_vars(~Unread(p, k) /\ Handler(p, k)) /\ SF_vars(Acquire(p, k))

Spec == Init /\ [][Next]_vars /\ Fairness

-----------------------------------------------------------------------------
(* Properties *)

\* A user who is told of success has the whole page: an HTTP response without the
\* error trailer, a tool result, an exit status; and an error status never comes
\* after evidence bytes (httpapi.payload, mcp.readPayload, runInspect).
CompleteOrFlagged ==
  \A p \in Procs : \A k \in 1..Workers[p] :
    LET w == work[p][k] IN
    w.at = "respond" /\ w.route = "payload" =>
      /\ w.code = "ok" /\ ~w.trailer => w.bytes = Want(w.page)
      /\ cmd[p] = "serve" /\ w.code # "ok" => w.bytes = 0

\* The --output file is what it was or a whole page, whoever else writes it and
\* whoever is killed; a temporary file outlives its process only if that was killed.
FilesWhole ==
  /\ target # None => target.bytes = Want(target.page)
  /\ \A t \in temps : t.owner \in crashed \/ \E p \in Procs : t.owner = id[p] /\ main[p] # "close"

\* Whichever processes create the token at the same time, every server accepts the
\* token that is in the file, and none meets half a token or gives up.
TokenAgreed ==
  \A p \in Procs :
    /\ main[p] \notin {"malformed", "diverged"}
    /\ main[p] \in {"listen", "announce", "serving", "shutdown"} /\ cmd[p] = "serve" =>
         file = [owner |-> token[p], full |-> TRUE]

\* serve closes its RPC client only when no handler uses it any more: the defers run
\* in the right order.
ClientOutlivesHandlers ==
  \A p \in Procs : main[p] = "close" /\ cmd[p] = "serve" =>
    \A k \in 1..Workers[p] : work[p][k].at = "idle"

\* Every command gets to its service or to its end, and a stopped server to its end,
\* unless from some time on it waits for a reader that never reads: WriteTimeout is
\* unset, Shutdown has no deadline, and neither has stdout (httpapi.New, runServe,
\* runInspect).  A page nobody reads, a failed operation, a lost race for the token or
\* a connection without a request hold up nothing for ever.
CommandsEnd ==
  \A p \in Procs :
    (main[p] \notin {"down", "serving"} ~> main[p] \in {"down", "serving"}) \/ <>[]AwaitsReader(p)

-----------------------------------------------------------------------------
(* The inductive invariant behind the safety properties. *)

\* Before it serves, and when its client is closed, serve has no handler at work;
\* a command with one result works in its first handler.
PlaceInv ==
  \A p \in Procs :
    /\ main[p] = "down" <=> id[p] = None
    /\ main[p] \in {"down", "health", "read", "create", "write", "publish", "listen"} => Drained(p)
    /\ main[p] \in {"ask", "temp", "fetch", "rename"} => cmd[p] # "serve"
    /\ cmd[p] = "inspectFile" /\ main[p] \in {"fetch", "rename"} => work[p][1].route = "payload"
    /\ main[p] = "rename" => cmd[p] = "inspectFile" /\ work[p][1].at = "respond" /\ work[p][1].code = "ok"

\* Evidence arrives only in the stream, and only HTTP responses have a trailer.
WorkInv ==
  /\ gate = [p \in Procs |-> gate[p]] /\ work = [p \in Procs |-> work[p]]
  /\ \A p \in Procs : \A k \in 1..Workers[p] :
       /\ work[p][k].at = "idle" => work[p][k] = Idle
       /\ work[p][k].at \in {"accepted", "gate", "rpc"} => work[p][k].bytes = 0
       /\ work[p][k].at = "accepted" \/ work[p][k].trailer => cmd[p] = "serve"

\* Launch numbers are not reused, and a live process has its temporary file only
\* between its creation and its removal.
TempInv ==
  /\ \A p \in Procs : id[p] # None => id[p] <= launched
  /\ \A p, q \in Procs : id[p] = id[q] /\ id[p] # None => p = q
  /\ \A t \in temps :
       /\ t.owner <= launched
       /\ \A p \in Procs : t.owner = id[p] => main[p] \in {"write", "publish", "fetch", "rename"}

\* The token file is never seen half written; a process that lost the race for it
\* finds it when it looks again.
TokenInv ==
  /\ file # None => file.full
  /\ \A p \in Procs : main[p] \in {"listen", "announce", "serving", "shutdown"} /\ cmd[p] = "serve" => file # None
  /\ \A p \in Procs : tries[p] = 1 => file # None /\ main[p] \notin {"create", "write", "publish"}

IInv ==
  /\ TypeOK /\ PlaceInv /\ WorkInv /\ TempInv /\ TokenInv
  /\ CompleteOrFlagged /\ FilesWhole /\ TokenAgreed /\ ClientOutlivesHandlers
=============================================================================
