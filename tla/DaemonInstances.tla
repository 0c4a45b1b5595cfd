-------------------------- MODULE DaemonInstances --------------------------
(***************************************************************************)
(* Several daemon processes over one runtime directory: the advisory lock, *)
(* the socket node and the database (internal/daemon/runtime_lock.go and   *)
(* the resource steps of Start and Close in internal/daemon/server.go).    *)
(* Any process may die at any step; the kernel then drops its lock and its *)
(* listener, while the directory keeps its nodes.  An outsider with access *)
(* to the directory may put nodes of its own at the socket path.           *)
(***************************************************************************)
EXTENDS Naturals, FiniteSets

CONSTANTS
  Procs,      \* daemon processes (each may be launched again)
  Outsider,   \* owner of nodes no daemon created
  None,       \* no lock holder, no node
  MaxNodes    \* bound: directory nodes created in a behaviour

Owners == Procs \cup {Outsider}

\* A directory entry's inode: a socket or another file, who made it, its identity.
Node == [kind : {"socket", "file"}, owner : Owners, ino : Nat]

ASSUME InstancesAssumption ==
  /\ Outsider \notin Procs
  /\ None \notin Procs \cup Node
  /\ MaxNodes \in Nat

VARIABLES
  pc,          \* where each process is in Start or Close
  lock,        \* process whose descriptor holds the flock
  path,        \* the node named daemon.sock
  quarantine,  \* the node each process has renamed away and is inspecting
  leftover,    \* quarantined nodes no process is looking at any more
  bound,       \* the socket node each process's open listener is bound to
  identity,    \* the socket identity each process remembers (None: nil)
  store,       \* processes with the database open
  created      \* nodes created so far

vars == <<pc, lock, path, quarantine, leftover, bound, identity, store, created>>

Stages == {"off", "acquire", "clear", "open", "recover", "listen", "identify", "running",
           "failing", "abandon", "failStore",     \* the deferred cleanup of Start
           "closing", "closeStore", "retire",     \* Close
           "release"}

TypeOK ==
  /\ pc \in [Procs -> Stages]
  /\ lock \in Procs \cup {None}
  /\ path \in Node \cup {None}
  /\ quarantine \in [Procs -> Node \cup {None}]
  /\ leftover \subseteq Node
  /\ bound \in [Procs -> Node \cup {None}]
  /\ identity \in [Procs -> Node \cup {None}]
  /\ store \subseteq Procs
  /\ created \in Nat

Init ==
  /\ pc = [p \in Procs |-> "off"]
  /\ lock = None
  /\ path = None
  /\ quarantine = [p \in Procs |-> None]
  /\ leftover = {}
  /\ bound = [p \in Procs |-> None]
  /\ identity = [p \in Procs |-> None]
  /\ store = {}
  /\ created = 0

Goto(p, stage) == pc' = [pc EXCEPT ![p] = stage]

NewNode(kind, owner) == [kind |-> kind, owner |-> owner, ino |-> created]

directory == <<path, quarantine, leftover>>
sockets   == <<bound, identity>>

-----------------------------------------------------------------------------
(* Start *)

Launch(p) ==
  /\ pc[p] = "off"
  /\ Goto(p, "acquire")
  /\ UNCHANGED <<lock, directory, sockets, store, created>>

\* Mutant of AcquireLock: a lock another process holds is taken for stale.
AcquireLock_Steal(p) ==
  /\ pc[p] = "acquire"
  /\ lock' = p
  /\ Goto(p, "clear")
  /\ UNCHANGED <<directory, sockets, store, created>>

\* Non-blocking flock: granted, or ErrAlreadyRunning (or an error before it).
AcquireLock(p) ==
  /\ pc[p] = "acquire"
  /\ \/ lock = None /\ lock' = p /\ Goto(p, "clear")
     \/ Goto(p, "off") /\ UNCHANGED lock
  /\ UNCHANGED <<directory, sockets, store, created>>

\* Mutants of AfterRemove: Start ignores the error; Start tries again.
AfterRemove_Ignored(p, ok) ==
  IF pc[p] = "abandon" THEN "failStore"
  ELSE IF pc[p] = "clear" THEN "open"
  ELSE "release"

AfterRemove_Retry(p, ok) ==
  IF pc[p] = "abandon" THEN "failStore"
  ELSE IF pc[p] = "clear" THEN (IF ok THEN "open" ELSE "clear")
  ELSE "release"

\* Where Start or Close goes on after removeStaleSocket.  Only Start's first call
\* looks at the error; it has nothing but the lock to give back.
AfterRemove(p, ok) ==
  IF pc[p] = "abandon" THEN "failStore"
  ELSE IF pc[p] = "clear" /\ ok THEN "open"
  ELSE "release"

\* removeStaleSocket, first half: rename the node, if there is one, to a private
\* name; the rename may also fail.
Quarantine(p) ==
  /\ pc[p] \in {"clear", "abandon", "retire"}
  /\ quarantine[p] = None
  /\ \/ path = None /\ Goto(p, AfterRemove(p, TRUE)) /\ UNCHANGED <<path, quarantine>>
     \/ /\ path # None
        /\ quarantine' = [quarantine EXCEPT ![p] = path]
        /\ path' = None
        /\ UNCHANGED pc
     \/ Goto(p, AfterRemove(p, FALSE)) /\ UNCHANGED <<path, quarantine>>
  /\ UNCHANGED <<lock, leftover, sockets, store, created>>

\* The quarantined node may be deleted: a socket, and the remembered one if any.
Expected(p) ==
  /\ quarantine[p].kind = "socket"
  /\ pc[p] # "clear" /\ identity[p] # None => quarantine[p] = identity[p]

\* Mutant of Inspect: an unexpected node is put back over whatever is there now.
Inspect_Overwrite(p) ==
  /\ quarantine[p] # None
  /\ quarantine' = [quarantine EXCEPT ![p] = None]
  /\ \/ Expected(p) /\ Goto(p, AfterRemove(p, TRUE)) /\ UNCHANGED path
     \/ ~Expected(p) /\ path' = quarantine[p] /\ Goto(p, AfterRemove(p, FALSE))
  /\ UNCHANGED <<lock, leftover, sockets, store, created>>

\* removeStaleSocket, second half: delete the expected node; put a node that is
\* unexpected, or cannot be examined, back where it was; or leave it under its
\* quarantine name, because the path is taken again or a call fails.
Inspect(p) ==
  /\ quarantine[p] # None
  /\ quarantine' = [quarantine EXCEPT ![p] = None]
  /\ \/ /\ Expected(p)
        /\ Goto(p, AfterRemove(p, TRUE))
        /\ UNCHANGED <<path, leftover>>
     \/ /\ path = None
        /\ path' = quarantine[p]
        /\ Goto(p, AfterRemove(p, FALSE))
        /\ UNCHANGED leftover
     \/ /\ leftover' = leftover \cup {quarantine[p]}
        /\ Goto(p, AfterRemove(p, FALSE))
        /\ UNCHANGED path
  /\ UNCHANGED <<lock, sockets, store, created>>

\* storage.Open, then RecoverPendingCaptures on the open store.
OpenStore(p) ==
  /\ pc[p] = "open"
  /\ \/ store' = store \cup {p} /\ Goto(p, "recover")
     \/ Goto(p, "release") /\ UNCHANGED store
  /\ UNCHANGED <<lock, directory, sockets, created>>

Recover(p) ==
  /\ pc[p] = "recover"
  /\ Goto(p, "listen") \/ Goto(p, "failStore")
  /\ UNCHANGED <<lock, directory, sockets, store, created>>

\* net.ListenUnix: bind creates the node, and fails when the name exists.
Listen(p) ==
  /\ pc[p] = "listen"
  /\ \/ /\ path = None
        /\ created < MaxNodes
        /\ path' = NewNode("socket", p)
        /\ bound' = [bound EXCEPT ![p] = NewNode("socket", p)]
        /\ created' = created + 1
        /\ Goto(p, "identify")
     \/ Goto(p, "failStore") /\ UNCHANGED <<path, bound, created>>
  /\ UNCHANGED <<lock, quarantine, leftover, identity, store>>

\* Mutant of Identify: the owner is remembered instead of device and inode.
Identify_OwnerOnly(p) ==
  /\ pc[p] = "identify"
  /\ \/ /\ path # None /\ path.kind = "socket"
        /\ identity' = [identity EXCEPT ![p] = path.owner]
        /\ Goto(p, "running")
     \/ Goto(p, "failing") /\ UNCHANGED identity
  /\ UNCHANGED <<lock, directory, bound, store, created>>

\* chmod and socketIdentityAt look the path up again; then Start publishes.
Identify(p) ==
  /\ pc[p] = "identify"
  /\ \/ /\ path # None /\ path.kind = "socket"
        /\ identity' = [identity EXCEPT ![p] = path]
        /\ Goto(p, "running")
     \/ Goto(p, "failing") /\ UNCHANGED identity
  /\ UNCHANGED <<lock, directory, bound, store, created>>

-----------------------------------------------------------------------------
(* Release of the resources, by a failed Start and by Close *)

Close(p) ==
  /\ pc[p] = "running"
  /\ Goto(p, "closing")
  /\ UNCHANGED <<lock, directory, sockets, store, created>>

\* listener.Close; SetUnlinkOnClose(false) leaves the node to removeStaleSocket.
CloseListener(p) ==
  /\ \/ pc[p] = "failing" /\ Goto(p, "abandon")
     \/ pc[p] = "closing" /\ Goto(p, "closeStore")
  /\ bound' = [bound EXCEPT ![p] = None]
  /\ UNCHANGED <<lock, directory, identity, store, created>>

\* Mutant of CloseStore: Close gives the lock back before it removes its socket.
CloseStore_LockFirst(p) ==
  /\ \/ pc[p] = "failStore" /\ Goto(p, "release") /\ UNCHANGED lock
     \/ pc[p] = "closeStore" /\ Goto(p, "retire") /\ lock' = None
  /\ store' = store \ {p}
  /\ UNCHANGED <<directory, sockets, created>>

CloseStore(p) ==
  /\ \/ pc[p] = "failStore" /\ Goto(p, "release")
     \/ pc[p] = "closeStore" /\ Goto(p, "retire")
  /\ store' = store \ {p}
  /\ UNCHANGED <<lock, directory, sockets, created>>

\* InstanceLock.Release; the process forgets its socket and ends.
Release(p) ==
  /\ pc[p] = "release"
  /\ lock' = None
  /\ identity' = [identity EXCEPT ![p] = None]
  /\ Goto(p, "off")
  /\ UNCHANGED <<directory, bound, store, created>>

-----------------------------------------------------------------------------
(* What the process does not control *)

Crash(p) ==
  /\ pc[p] # "off"
  /\ Goto(p, "off")
  /\ lock' = IF lock = p THEN None ELSE lock
  /\ leftover' = IF quarantine[p] = None THEN leftover ELSE leftover \cup {quarantine[p]}
  /\ quarantine' = [quarantine EXCEPT ![p] = None]
  /\ bound' = [bound EXCEPT ![p] = None]
  /\ identity' = [identity EXCEPT ![p] = None]
  /\ store' = store \ {p}
  /\ UNCHANGED <<path, created>>

\* An outsider creates a node at a free path, or replaces a daemon's socket.
Intrude ==
  /\ created < MaxNodes
  /\ path # None => path.owner # Outsider
  /\ \E kind \in {"socket", "file"} : path' = NewNode(kind, Outsider)
  /\ created' = created + 1
  /\ UNCHANGED <<pc, lock, quarantine, leftover, sockets, store>>

-----------------------------------------------------------------------------
Step(p) ==
  \/ AcquireLock(p) \/ Quarantine(p) \/ Inspect(p) \/ OpenStore(p) \/ Recover(p) \/ Listen(p)
  \/ Identify(p) \/ CloseListener(p) \/ CloseStore(p) \/ Release(p)

Next == Intrude \/ \E p \in Procs : Launch(p) \/ Step(p) \/ Close(p) \/ Crash(p)

\* A process that is neither off nor serving runs on.
Fairness == \A p \in Procs : WF_vars(Step(p))

Spec     == Init /\ [][Next]_vars
FairSpec == Spec /\ Fairness

-----------------------------------------------------------------------------
(* Properties *)

\* At most one process has the database open, and it holds the lock: recovery
\* never reconciles the attempts of a daemon that is still serving them.
SingleStore ==
  /\ \A p \in store : lock = p
  /\ \A p, q \in store : p = q

\* The path of a running daemon leads to its own listener, unless an outsider put
\* a node there: no other daemon's start, failed start, close or crash removes or
\* replaces it (removeStaleSocket works by name).
ReachableDaemon ==
  \A p \in Procs : pc[p] \in {"identify", "running"} =>
    /\ bound[p] # None
    /\ path # bound[p] => path # None /\ path.owner = Outsider

\* When a process is about to listen, a socket left by a crashed or a closed
\* daemon is no longer in its way: only an outsider's node can be.
PathClearedForListen ==
  \A p \in Procs : pc[p] \in {"open", "recover", "listen"} => path = None \/ path.owner = Outsider

Present == {n \in {path} \cup {quarantine[p] : p \in Procs} \cup leftover : n # None}

\* A file that is not a socket is never deleted by any daemon, however often it is
\* quarantined, restored, or left behind by a crash.
FilesPreserved ==
  [][\A n \in Present : n.kind = "file" => n \in Present']_vars

\* Every launch is decided: the daemon serves, is refused, gives up or dies; no
\* process waits for another one.
StartEnds ==
  \A p \in Procs : pc[p] = "acquire" ~> pc[p] \in {"running", "off"}

-----------------------------------------------------------------------------
(* The inductive invariant behind the properties. *)

\* Past AcquireLock a process holds the lock, so at most one process is there.
LockInv == \A p \in Procs : pc[p] \notin {"off", "acquire"} => lock = p

\* The database is open, and a node is in quarantine, only at these stages.
StageInv ==
  \A p \in Procs :
    /\ p \in store => pc[p] \notin {"off", "acquire", "clear", "open", "retire", "release"}
    /\ quarantine[p] # None => pc[p] \in {"clear", "abandon", "retire"}
    /\ quarantine[p] # None /\ path # None => path.owner = Outsider

\* Daemons create sockets only.
KindInv ==
  /\ path # None /\ path.kind = "file" => path.owner = Outsider
  /\ \A p \in Procs : quarantine[p] # None /\ quarantine[p].kind = "file"
                       => quarantine[p].owner = Outsider

IInv == TypeOK /\ LockInv /\ StageInv /\ KindInv /\ ReachableDaemon /\ PathClearedForListen
=============================================================================
