-------------------------- MODULE DaemonBootstrap --------------------------
(***************************************************************************)
(* ensureDaemon (extension/index.ts): every session_start checks the       *)
(* daemon's health and, when there is none, spawns one and waits for it.   *)
(* Each Pi process has its own map of attempts, and they all share the     *)
(* daemon's socket.  The daemon process is external: a spawned child comes *)
(* up unless another daemon holds the lock, and may die at any time.       *)
(***************************************************************************)
EXTENDS Naturals, FiniteSets

CONSTANTS
  Hosts,        \* Pi processes
  Sessions,     \* calls of ensureDaemon
  HostOf,       \* HostOf[s]: the process of session s
  MaxRetries,   \* health checks after a spawn (3)
  None

ASSUME BootstrapAssumption ==
  /\ HostOf \in [Sessions -> Hosts]
  /\ MaxRetries \in Nat \ {0}
  /\ None \notin Sessions

VARIABLES
  host,      \* each process: "up" or "crashed"
  boot,      \* where each ensureDaemon is
  retries,   \* health checks it has made since its spawn
  attempt,   \* daemonAttempts of each process: the session whose promise it holds
  child,     \* sessions whose spawned process is still starting
  daemon     \* a daemon accepts connections

vars == <<host, boot, retries, attempt, child, daemon>>

TypeOK ==
  /\ host \in [Hosts -> {"up", "crashed"}]
  /\ boot \in [Sessions -> {"none", "health", "joined", "pause", "done"}]
  /\ retries \in [Sessions -> 0..(MaxRetries - 1)]
  /\ attempt \in [Hosts -> Sessions \cup {None}]
  /\ child \subseteq Sessions
  /\ daemon \in BOOLEAN

Init ==
  /\ host = [h \in Hosts |-> "up"]
  /\ boot = [s \in Sessions |-> "none"]
  /\ retries = [s \in Sessions |-> 0]
  /\ attempt = [h \in Hosts |-> None]
  /\ child = {}
  /\ daemon \in BOOLEAN

Up(s) == host[HostOf[s]] = "up"

Boot(s, label) == boot' = [boot EXCEPT ![s] = label]

\* session_start calls ensureDaemon, which awaits health().
EnsureDaemon(s) ==
  /\ Up(s)
  /\ boot[s] = "none"
  /\ Boot(s, "health")
  /\ UNCHANGED <<host, retries, attempt, child, daemon>>

\* health() resolves to true.
Healthy(s) ==
  /\ Up(s)
  /\ boot[s] = "health"
  /\ daemon
  /\ Boot(s, "done")
  /\ UNCHANGED <<host, retries, attempt, child, daemon>>

\* health() resolves to false (no daemon, or a slow one) and another session's
\* attempt is registered: wait for it.
Join(s) ==
  /\ Up(s)
  /\ boot[s] = "health"
  /\ attempt[HostOf[s]] # None
  /\ Boot(s, "joined")
  /\ UNCHANGED <<host, retries, attempt, child, daemon>>

\* Mutant of Unregistered: the lookup happens before health() is awaited and is
\* stale when it is used.
Unregistered_Stale(s) == TRUE

Unregistered(s) == attempt[HostOf[s]] = None

\* health() resolves to false and no attempt is registered: there is no binary or
\* spawn throws; or the child runs; or the child cannot be executed and reports it
\* by an 'error' event, for which nobody listens.
Spawn(s) ==
  /\ Up(s)
  /\ boot[s] = "health"
  /\ Unregistered(s)
  /\ \/ Boot(s, "done") /\ UNCHANGED <<host, attempt, child>>
     \/ /\ Boot(s, "pause")
        /\ attempt' = [attempt EXCEPT ![HostOf[s]] = s]
        /\ \/ child' = child \cup {s} /\ UNCHANGED host
           \/ host' = [host EXCEPT ![HostOf[s]] = "crashed"] /\ UNCHANGED child
  /\ UNCHANGED <<retries, daemon>>

\* The attempt's promise settles: it leaves the map, and every call that awaits it
\* returns.
Settle(s) ==
  /\ boot' = [t \in Sessions |->
                IF t = s \/ (HostOf[t] = HostOf[s] /\ boot[t] = "joined") THEN "done" ELSE boot[t]]
  /\ attempt' = [attempt EXCEPT ![HostOf[s]] = None]

\* Mutants of Retry: one check too many; no limit.
Retry_OneMore(s) ==
  /\ Up(s)
  /\ boot[s] = "pause"
  /\ \/ daemon /\ Settle(s) /\ UNCHANGED retries
     \/ /\ retries[s] < MaxRetries
        /\ retries' = [retries EXCEPT ![s] = @ + 1]
        /\ UNCHANGED <<boot, attempt>>
     \/ retries[s] = MaxRetries /\ Settle(s) /\ UNCHANGED retries
  /\ UNCHANGED <<host, child, daemon>>

Retry_Forever(s) ==
  /\ Up(s)
  /\ boot[s] = "pause"
  /\ daemon
  /\ Settle(s)
  /\ UNCHANGED <<host, retries, child, daemon>>

\* 50 ms and one more health check, MaxRetries times or until it is healthy.
Retry(s) ==
  /\ Up(s)
  /\ boot[s] = "pause"
  /\ \/ daemon /\ Settle(s) /\ UNCHANGED retries
     \/ /\ retries[s] + 1 < MaxRetries
        /\ retries' = [retries EXCEPT ![s] = @ + 1]
        /\ UNCHANGED <<boot, attempt>>
     \/ retries[s] + 1 = MaxRetries /\ Settle(s) /\ UNCHANGED retries
  /\ UNCHANGED <<host, child, daemon>>

\* External: a child becomes the daemon, or ends because one is running.
ChildStarts(s) ==
  /\ s \in child
  /\ child' = child \ {s}
  /\ daemon' = TRUE
  /\ UNCHANGED <<host, boot, retries, attempt>>

\* External: the daemon ends.
DaemonEnds ==
  /\ daemon
  /\ daemon' = FALSE
  /\ UNCHANGED <<host, boot, retries, attempt, child>>

Step(s) == Healthy(s) \/ Join(s) \/ Spawn(s) \/ Retry(s)

Next == DaemonEnds \/ \E s \in Sessions : EnsureDaemon(s) \/ Step(s) \/ ChildStarts(s)

\* health() and the pause have timers.
Fairness == \A s \in Sessions : WF_vars(Step(s))

Spec == Init /\ [][Next]_vars /\ Fairness

-----------------------------------------------------------------------------
(* Properties *)

\* The map holds exactly the attempt that is under way: while it is, no other
\* session of the process spawns a daemon, and once it is over it blocks none; and
\* whoever waits for an attempt waits for one that is registered, so it is woken.
AttemptShared ==
  /\ \A h \in Hosts :
       {s \in Sessions : HostOf[s] = h /\ boot[s] = "pause"} = {attempt[h]} \ {None}
  /\ \A s \in Sessions : boot[s] = "joined" => attempt[HostOf[s]] # None

\* Every ensureDaemon returns, whatever the daemon and the other sessions do.
BootstrapEnds ==
  \A s \in Sessions : boot[s] = "health" ~> (boot[s] = "done" \/ ~Up(s))

\* README.md: daemon startup failures must not block or alter Pi.
HostSurvives == \A h \in Hosts : host[h] = "up"
=============================================================================
