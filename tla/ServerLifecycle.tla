-------------------------- MODULE ServerLifecycle --------------------------
(***************************************************************************)
(* One daemon process: Server.Start, Server.Close and the accept loop of   *)
(* internal/daemon/server.go, run by goroutines that meet in the mutex     *)
(* s.mu, the slot channel, two wait groups and the channels startDone and  *)
(* closeDone.  What a connection goroutine does with its requests is       *)
(* CaptureDaemon's matter; here it serves until its peer leaves or its     *)
(* connection is closed under it.                                          *)
(***************************************************************************)
EXTENDS Naturals, FiniteSets

CONSTANTS
  Conns,           \* client connections (each may connect again)
  Closers,         \* goroutines that call Close, the context watcher among them
  MaxConnections   \* ServerOptions.MaxConnections: capacity of s.slots

ASSUME LifecycleAssumption ==
  /\ IsFiniteSet(Conns)
  /\ MaxConnections \in Nat \ {0}

VARIABLES
  state,       \* s.state
  start,       \* where the caller of Start is
  accept,      \* the accept loop; counted in acceptWG while "accept" or "admit"
  conn,        \* each connection; counted in connectionWG while "serving" .. "release"
  registered,  \* s.connections
  shut,        \* connections whose descriptor Close has closed
  slots,       \* tokens in s.slots
  closer,      \* where each caller of Close is
  startDone, closeDone,                       \* the channels: closed?
  lockHeld, storeOpen, listening, socketFile, \* the resources of the process
  stuck        \* the socket could not be removed and is left to the next start

vars == <<state, start, accept, conn, registered, shut, slots, closer,
          startDone, closeDone, lockHeld, storeOpen, listening, socketFile, stuck>>

resources == <<lockHeld, storeOpen, listening, socketFile, stuck>>
network   == <<accept, conn, registered, shut, slots>>

TypeOK ==
  /\ state \in {"New", "Starting", "Running", "Closing", "Closed"}
  /\ start \in {"idle", "lock", "store", "listen", "publish", "done", "returned", "refused"}
  /\ accept \in {"off", "accept", "admit", "ended"}
  /\ conn \in [Conns -> {"absent", "backlog", "held", "serving", "drop", "release"}]
  /\ registered \subseteq Conns /\ shut \subseteq Conns
  /\ slots \in 0..MaxConnections
  /\ closer \in [Closers -> {"idle", "enter", "awaitStart", "awaitClose", "listener", "awaitAccept",
                             "closeConns", "awaitConns", "store", "socket", "lock", "finish",
                             "signal", "returned"}]
  /\ startDone \in BOOLEAN /\ closeDone \in BOOLEAN
  /\ lockHeld \in BOOLEAN /\ storeOpen \in BOOLEAN /\ listening \in BOOLEAN /\ socketFile \in BOOLEAN
  /\ stuck \in BOOLEAN

Init ==
  /\ state = "New" /\ start = "idle" /\ accept = "off"
  /\ conn = [c \in Conns |-> "absent"]
  /\ registered = {} /\ shut = {} /\ slots = 0
  /\ closer = [k \in Closers |-> "idle"]
  /\ startDone = FALSE /\ closeDone = FALSE
  /\ lockHeld = FALSE /\ storeOpen = FALSE /\ listening = FALSE /\ socketFile = FALSE
  /\ stuck = FALSE

-----------------------------------------------------------------------------
(* Start *)

\* A server starts once; a cancelled context or a second use is refused.
StartCall ==
  /\ start = "idle"
  /\ \/ /\ state = "New"
        /\ state' = "Starting"
        /\ start' = "lock"
     \/ /\ start' = "refused"
        /\ UNCHANGED state
  /\ UNCHANGED <<network, closer, startDone, closeDone, resources>>

\* A listener that is closed resets what is still in its backlog.
ResetBacklog == conn' = [c \in Conns |-> IF conn[c] = "backlog" THEN "absent" ELSE conn[c]]

\* removeStaleSocket on the server's own socket: removed, or an error that Start's
\* cleanup ignores and Close reports after the rest is released all the same.
RemoveSocket ==
  \/ socketFile' = FALSE /\ UNCHANGED stuck
  \/ socketFile /\ stuck' = TRUE /\ UNCHANGED socketFile

\* A failing step runs the deferred cleanup: listener and socket, store, lock, state.
StartFails ==
  /\ start \in {"lock", "store", "listen", "publish"}
  /\ listening' = FALSE
  /\ ResetBacklog
  /\ RemoveSocket
  /\ storeOpen' = FALSE
  /\ lockHeld' = FALSE
  /\ state' = "Closed"
  /\ startDone' = TRUE
  /\ start' = "returned"
  /\ UNCHANGED <<accept, registered, shut, slots, closer, closeDone>>

StartLock ==
  /\ start = "lock"
  /\ lockHeld' = TRUE
  /\ start' = "store"
  /\ UNCHANGED <<state, network, closer, startDone, closeDone, storeOpen, listening, socketFile, stuck>>

\* Remove a stale socket, open the database, recover pending captures.
StartStore ==
  /\ start = "store"
  /\ storeOpen' = TRUE
  /\ start' = "listen"
  /\ UNCHANGED <<state, network, closer, startDone, closeDone, lockHeld, listening, socketFile, stuck>>

StartListen ==
  /\ start = "listen"
  /\ listening' = TRUE /\ socketFile' = TRUE
  /\ start' = "publish"
  /\ UNCHANGED <<state, network, closer, startDone, closeDone, lockHeld, storeOpen, stuck>>

\* Under the mutex: the server is Running and its accept loop is counted.
StartPublish ==
  /\ start = "publish"
  /\ state' = "Running"
  /\ accept' = "accept"
  /\ start' = "done"
  /\ UNCHANGED <<conn, registered, shut, slots, closer, startDone, closeDone, resources>>

\* The deferred function announces the end of a successful start.
StartReturns ==
  /\ start = "done"
  /\ startDone' = TRUE
  /\ start' = "returned"
  /\ UNCHANGED <<state, network, closer, closeDone, resources>>

-----------------------------------------------------------------------------
(* Accept loop and connection goroutines *)

Connect(c) ==
  /\ listening
  /\ conn[c] = "absent"
  /\ conn' = [conn EXCEPT ![c] = "backlog"]
  /\ UNCHANGED <<state, start, accept, registered, shut, slots, closer, startDone, closeDone, resources>>

\* Mutant of Accept: the limit is tested with <= instead of <.
Accept_OffByOne(c) ==
  /\ accept = "accept"
  /\ listening
  /\ conn[c] = "backlog"
  /\ slots <= MaxConnections
  /\ slots' = slots + 1
  /\ conn' = [conn EXCEPT ![c] = "held"]
  /\ accept' = "admit"
  /\ UNCHANGED <<state, start, registered, shut, closer, startDone, closeDone, resources>>

\* AcceptUnix succeeds: take a slot, or turn the connection away at the limit.
Accept(c) ==
  /\ accept = "accept"
  /\ listening
  /\ conn[c] = "backlog"
  /\ \/ /\ slots < MaxConnections
        /\ slots' = slots + 1
        /\ conn' = [conn EXCEPT ![c] = "held"]
        /\ accept' = "admit"
     \/ /\ slots = MaxConnections
        /\ conn' = [conn EXCEPT ![c] = "absent"]
        /\ UNCHANGED <<slots, accept>>
  /\ UNCHANGED <<state, start, registered, shut, closer, startDone, closeDone, resources>>

\* AcceptUnix fails because the listener is closed.
AcceptEnds ==
  /\ accept = "accept"
  /\ ~listening
  /\ accept' = "ended"
  /\ UNCHANGED <<state, start, conn, registered, shut, slots, closer, startDone, closeDone, resources>>

\* Mutant of Admit: a connection refused at the last moment keeps its slot.
Admit_KeepsSlot(c) ==
  /\ accept = "admit"
  /\ conn[c] = "held"
  /\ \/ /\ state = "Running"
        /\ registered' = registered \cup {c}
        /\ conn' = [conn EXCEPT ![c] = "serving"]
        /\ accept' = "accept"
     \/ /\ state # "Running"
        /\ conn' = [conn EXCEPT ![c] = "absent"]
        /\ accept' = "ended"
        /\ UNCHANGED registered
  /\ UNCHANGED <<state, start, shut, slots, closer, startDone, closeDone, resources>>

\* Under the mutex: register and start a goroutine, or, once the server is not
\* Running any more, give the slot back and end the loop.
Admit(c) ==
  /\ accept = "admit"
  /\ conn[c] = "held"
  /\ \/ /\ state = "Running"
        /\ registered' = registered \cup {c}
        /\ conn' = [conn EXCEPT ![c] = "serving"]
        /\ accept' = "accept"
        /\ UNCHANGED slots
     \/ /\ state # "Running"
        /\ slots' = slots - 1
        /\ conn' = [conn EXCEPT ![c] = "absent"]
        /\ accept' = "ended"
        /\ UNCHANGED registered
  /\ UNCHANGED <<state, start, shut, closer, startDone, closeDone, resources>>

\* serveConnection returns: the peer left, was idle too long, a handler gave up,
\* or the connection was closed under it.
ServeEnds(c) ==
  /\ conn[c] = "serving"
  /\ conn' = [conn EXCEPT ![c] = "drop"]
  /\ UNCHANGED <<state, start, accept, registered, shut, slots, closer, startDone, closeDone, resources>>

\* dropConnection: close, forget, free the slot; then connectionWG.Done.
DropConnection(c) ==
  /\ conn[c] = "drop"
  /\ registered' = registered \ {c}
  /\ conn' = [conn EXCEPT ![c] = "release"]
  /\ UNCHANGED <<state, start, accept, shut, slots, closer, startDone, closeDone, resources>>

ReleaseSlot(c) ==
  /\ conn[c] = "release"
  /\ slots' = slots - 1
  /\ shut' = shut \ {c}
  /\ conn' = [conn EXCEPT ![c] = "absent"]
  /\ UNCHANGED <<state, start, accept, registered, closer, startDone, closeDone, resources>>

-----------------------------------------------------------------------------
(* Close *)

Move(k, label) == closer' = [closer EXCEPT ![k] = label]

CloseCall(k) ==
  /\ closer[k] = "idle"
  /\ Move(k, "enter")
  /\ UNCHANGED <<state, start, network, startDone, closeDone, resources>>

\* Mutant of CloseEnter: a second caller does not wait for the first one.
CloseEnter_NoWait(k) ==
  /\ closer[k] = "enter"
  /\ \/ state = "Starting" /\ Move(k, "awaitStart") /\ UNCHANGED state
     \/ state \in {"Closing", "Closed"} /\ Move(k, "returned") /\ UNCHANGED state
     \/ state \in {"New", "Running"} /\ Move(k, "listener") /\ state' = "Closing"
  /\ UNCHANGED <<start, network, startDone, closeDone, resources>>

\* Under the mutex: wait for a start or another close in progress, return from a
\* closed server, or become the goroutine that closes it.
CloseEnter(k) ==
  /\ closer[k] = "enter"
  /\ \/ state = "Starting" /\ Move(k, "awaitStart") /\ UNCHANGED state
     \/ state = "Closing" /\ Move(k, "awaitClose") /\ UNCHANGED state
     \/ state = "Closed" /\ Move(k, "returned") /\ UNCHANGED state
     \/ state \in {"New", "Running"} /\ Move(k, "listener") /\ state' = "Closing"
  /\ UNCHANGED <<start, network, startDone, closeDone, resources>>

CloseAwaitStart(k) ==
  /\ closer[k] = "awaitStart" /\ startDone
  /\ Move(k, "enter")
  /\ UNCHANGED <<state, start, network, startDone, closeDone, resources>>

CloseAwaitClose(k) ==
  /\ closer[k] = "awaitClose" /\ closeDone
  /\ Move(k, "returned")
  /\ UNCHANGED <<state, start, network, startDone, closeDone, resources>>

CloseListener(k) ==
  /\ closer[k] = "listener"
  /\ listening' = FALSE
  /\ ResetBacklog
  /\ Move(k, "awaitAccept")
  /\ UNCHANGED <<state, start, accept, registered, shut, slots, startDone, closeDone,
                 lockHeld, storeOpen, socketFile, stuck>>

\* acceptWG.Wait
CloseAwaitAccept(k) ==
  /\ closer[k] = "awaitAccept"
  /\ accept \notin {"accept", "admit"}
  /\ Move(k, "closeConns")
  /\ UNCHANGED <<state, start, network, startDone, closeDone, resources>>

\* Mutant of CloseConns: the connections are left open.
CloseConns_LeftOpen(k) ==
  /\ closer[k] = "closeConns"
  /\ Move(k, "awaitConns")
  /\ UNCHANGED <<state, start, network, startDone, closeDone, resources>>

\* Copy s.connections under the mutex and close them all.
CloseConns(k) ==
  /\ closer[k] = "closeConns"
  /\ shut' = shut \cup registered
  /\ Move(k, "awaitConns")
  /\ UNCHANGED <<state, start, accept, conn, registered, slots, startDone, closeDone, resources>>

\* Mutant of CloseAwaitConns: the store is closed without waiting for the handlers.
CloseAwaitConns_NoWait(k) ==
  /\ closer[k] = "awaitConns"
  /\ Move(k, "store")
  /\ UNCHANGED <<state, start, network, startDone, closeDone, resources>>

\* connectionWG.Wait
CloseAwaitConns(k) ==
  /\ closer[k] = "awaitConns"
  /\ \A c \in Conns : conn[c] \notin {"serving", "drop", "release"}
  /\ Move(k, "store")
  /\ UNCHANGED <<state, start, network, startDone, closeDone, resources>>

CloseStore(k) ==
  /\ closer[k] = "store"
  /\ storeOpen' = FALSE
  /\ Move(k, "socket")
  /\ UNCHANGED <<state, start, network, startDone, closeDone, lockHeld, listening, socketFile, stuck>>

CloseSocket(k) ==
  /\ closer[k] = "socket"
  /\ RemoveSocket
  /\ Move(k, "lock")
  /\ UNCHANGED <<state, start, network, startDone, closeDone, lockHeld, storeOpen, listening>>

CloseLock(k) ==
  /\ closer[k] = "lock"
  /\ lockHeld' = FALSE
  /\ Move(k, "finish")
  /\ UNCHANGED <<state, start, network, startDone, closeDone, storeOpen, listening, socketFile, stuck>>

CloseFinish(k) ==
  /\ closer[k] = "finish"
  /\ state' = "Closed"
  /\ Move(k, "signal")
  /\ UNCHANGED <<start, network, startDone, closeDone, resources>>

\* The deferred close(s.closeDone) wakes the other callers.
CloseSignal(k) ==
  /\ closer[k] = "signal"
  /\ closeDone' = TRUE
  /\ Move(k, "returned")
  /\ UNCHANGED <<state, start, network, startDone, resources>>

-----------------------------------------------------------------------------
StartStep == StartLock \/ StartStore \/ StartListen \/ StartPublish \/ StartReturns

CloseStep(k) ==
  \/ CloseEnter(k) \/ CloseAwaitStart(k) \/ CloseAwaitClose(k) \/ CloseListener(k)
  \/ CloseAwaitAccept(k) \/ CloseConns(k) \/ CloseAwaitConns(k) \/ CloseStore(k)
  \/ CloseSocket(k) \/ CloseLock(k) \/ CloseFinish(k) \/ CloseSignal(k)

ConnStep(c) == Connect(c) \/ Accept(c) \/ Admit(c) \/ ServeEnds(c) \/ DropConnection(c) \/ ReleaseSlot(c)

Next ==
  \/ StartCall \/ StartFails \/ StartStep \/ AcceptEnds
  \/ \E c \in Conns : ConnStep(c)
  \/ \E k \in Closers : CloseCall(k) \/ CloseStep(k)

\* Goroutines that can run do run.  A connection goroutine ends only when its peer
\* lets it or when its connection was closed: no fairness on ServeEnds otherwise.
Fairness ==
  /\ WF_vars(StartStep \/ StartFails)
  /\ WF_vars(AcceptEnds)
  /\ \A c \in Conns :
       /\ WF_vars(Admit(c))
       /\ WF_vars(c \in shut /\ ServeEnds(c))
       /\ WF_vars(DropConnection(c) \/ ReleaseSlot(c))
  /\ \A k \in Closers : WF_vars(CloseStep(k))

Spec == Init /\ [][Next]_vars /\ Fairness

-----------------------------------------------------------------------------
(* Properties *)

\* A slot is held by exactly the connections that are being admitted, served or
\* dropped: none leaks on any path, so the limit never shrinks.
SlotsAccounted ==
  slots = Cardinality({c \in Conns : conn[c] \in {"held", "serving", "drop", "release"}})

\* The order of release protects the order of use: handlers run only on an open
\* store, the store and the socket exist only under the instance lock, but for a socket
\* that could not be removed.
ReleaseOrder ==
  /\ (\E c \in Conns : conn[c] = "serving") => storeOpen
  /\ storeOpen \/ listening \/ (socketFile /\ ~stuck) => lockHeld

\* Whoever returned from Close finds the server closed and every resource free,
\* also when Start failed, when another goroutine did the closing, or when the socket
\* could not be removed: then that is all that is left.
CloseReturnsClosed ==
  (\E k \in Closers : closer[k] = "returned") =>
    /\ state = "Closed"
    /\ ~lockHeld /\ ~storeOpen /\ ~listening /\ (socketFile => stuck)
    /\ \A c \in Conns : conn[c] \notin {"held", "serving", "drop", "release"}

\* Every call of Close returns, whatever Start, clients and other callers do.
CloseReturns == \A k \in Closers : closer[k] = "enter" ~> closer[k] = "returned"

-----------------------------------------------------------------------------
(* The inductive invariant behind SlotsAccounted, ReleaseOrder and CloseReturnsClosed. *)

\* The stages of the goroutine that closes the server, from the one after the step
\* named to the last one before the state is Closed.
AfterStart    == {"listener", "awaitAccept", "closeConns", "awaitConns", "store", "socket", "lock", "finish"}
AfterListener == AfterStart \ {"listener"}
AfterAccept   == AfterListener \ {"awaitAccept"}
AfterConns    == {"store", "socket", "lock", "finish"}
AfterStore    == {"socket", "lock", "finish"}
AfterSocket   == {"lock", "finish"}

\* The connections that hold a slot, and those counted in connectionWG.
Holders == {c \in Conns : conn[c] \in {"held", "serving", "drop", "release"}}
Counted == {c \in Conns : conn[c] \in {"serving", "drop", "release"}}

\* The state says where Start is, and each step of Start which resources exist.
StartInv ==
  /\ state = "Starting" <=> start \in {"lock", "store", "listen", "publish"}
  /\ state = "New" => start \in {"idle", "refused"}
  /\ state = "Running" => start \in {"done", "returned"} /\ listening /\ accept \in {"accept", "admit"}
  /\ start \in {"idle", "refused", "lock"} => ~lockHeld /\ ~storeOpen /\ ~listening /\ ~socketFile
  /\ start \in {"store", "listen", "publish"} \/ state = "Running" => lockHeld
  /\ start = "store" => ~storeOpen
  /\ start \in {"store", "listen"} => ~listening /\ ~socketFile
  /\ start = "publish" => listening
  /\ start \in {"listen", "publish"} \/ state = "Running" => storeOpen
  /\ start \in {"idle", "refused", "lock", "store", "listen", "publish"} => accept = "off"

\* One goroutine closes the server, and it has undone what its stage says.
CloseInv ==
  /\ state = "Closing" <=> \E k \in Closers : closer[k] \in AfterStart
  /\ \A k, l \in Closers : closer[k] \in AfterStart /\ closer[l] \in AfterStart => k = l
  /\ \A k \in Closers :
       /\ closer[k] \in AfterListener => ~listening
       /\ closer[k] \in AfterAccept => accept \notin {"accept", "admit"}
       /\ closer[k] \in AfterConns => Counted = {}
       /\ closer[k] \in AfterStore => ~storeOpen
       /\ closer[k] \in AfterSocket => (socketFile => stuck)
       /\ closer[k] = "finish" => ~lockHeld
       /\ closer[k] \in {"signal", "returned"} => state = "Closed"
  /\ closeDone => state = "Closed"
  /\ state = "Closed" =>
       /\ ~lockHeld /\ ~storeOpen /\ ~listening /\ (socketFile => stuck)
       /\ accept \notin {"accept", "admit"}
       /\ Counted = {}

\* The accept loop holds one connection, while it admits it; connection goroutines
\* exist only after the loop was started and before the store is closed.
ConnInv ==
  /\ accept = "admit" <=> \E c \in Conns : conn[c] = "held"
  /\ \A c, d \in Conns : conn[c] = "held" /\ conn[d] = "held" => c = d
  /\ accept = "off" => Counted = {}
  /\ Counted # {} => storeOpen
  /\ storeOpen \/ listening \/ (socketFile /\ ~stuck) => lockHeld

IInv == TypeOK /\ StartInv /\ CloseInv /\ ConnInv /\ SlotsAccounted
=============================================================================
