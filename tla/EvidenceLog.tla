---------------------------- MODULE EvidenceLog ----------------------------
(***************************************************************************)
(* What the capture daemon promises its clients, without connections,      *)
(* transactions, chunks, crashes or restarts: a write-once log of evidence *)
(* and, for every announced capture, one outcome decided once.             *)
(***************************************************************************)
CONSTANTS Attempts, Events, Payloads, Size, Requests, None

VARIABLES
  outcome,  \* what each attempt announced and how it ended
  log,      \* the evidence stored under each event, and whether it can be read back
  acked     \* the requests whose success was reported

vars == <<outcome, log, acked>>

Init ==
  /\ outcome = [a \in Attempts |-> None]
  /\ log = [e \in Events |-> None]
  /\ acked = {}

\* A capture is announced under a fresh identifier.
Announce(r) ==
  /\ outcome[r.attempt] = None
  /\ outcome' = [outcome EXCEPT ![r.attempt] =
       [event |-> r.event, meta |-> r.meta, size |-> Size[r.payload], status |-> "pending"]]
  /\ UNCHANGED <<log, acked>>

\* Evidence is stored under an event that has none, at once and for ever.
Store(r, readable) ==
  /\ log[r.event] = None
  /\ log' = [log EXCEPT ![r.event] =
       [meta |-> r.meta, payload |-> r.payload, readable |-> readable]]
  /\ UNCHANGED <<outcome, acked>>

Pending(a) == outcome[a] # None /\ outcome[a].status = "pending"

\* The log holds readable evidence that is what attempt a announced.
Supported(a) ==
  LET event == log[outcome[a].event] IN
  /\ event # None
  /\ event.meta = outcome[a].meta
  /\ Size[event.payload] = outcome[a].size
  /\ event.readable

\* Pending attempts get their outcome, several at a time: completed needs the
\* log's support, incomplete does not.
Settle(won, lost) ==
  /\ won \cap lost = {}
  /\ \A a \in won \cup lost : Pending(a)
  /\ \A a \in won : Supported(a)
  /\ outcome' = [a \in Attempts |->
       IF a \in won THEN [outcome[a] EXCEPT !.status = "completed"]
       ELSE IF a \in lost THEN [outcome[a] EXCEPT !.status = "incomplete"]
       ELSE outcome[a]]
  /\ UNCHANGED <<log, acked>>

\* Success is reported only for a completed attempt whose exact evidence the log holds.
Acknowledge(r) ==
  /\ outcome[r.attempt] # None /\ outcome[r.attempt].status = "completed"
  /\ log[r.event] = [meta |-> r.meta, payload |-> r.payload, readable |-> TRUE]
  /\ acked' = acked \cup {r}
  /\ UNCHANGED <<outcome, log>>

Next ==
  \/ \E r \in Requests : Announce(r) \/ Acknowledge(r)
  \/ \E r \in Requests, readable \in BOOLEAN : Store(r, readable)
  \/ \E won, lost \in SUBSET Attempts : Settle(won, lost)

Spec == Init /\ [][Next]_vars
=============================================================================
