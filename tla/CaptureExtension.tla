-------------------------- MODULE CaptureExtension --------------------------
(***************************************************************************)
(* The Pi extension (extension/index.ts): the event observer and one       *)
(* bounded CaptureClient per session.  JavaScript runs a callback without  *)
(* interruption, so an action is the code between two waits.  The daemon   *)
(* is external: it stores requests that were written to it completely,     *)
(* also after the client has given up waiting, or never.                   *)
(***************************************************************************)
EXTENDS Integers, Sequences, FiniteSets

CONSTANTS
  MaxSessions,       \* bound: session_start events
  MaxEvents,         \* bound per client: events observed
  Sizes,             \* payload sizes
  MaxPendingEvents, MaxPendingBytes,   \* CaptureClientOptions
  None

\* Client 0 is the one registerExtension creates, n the one of the n-th session.
Clients == 0..MaxSessions

\* An event: the client (session) it was captured for, its sequence, its size.
Event == [client : Clients, seq : Nat, size : Sizes]

ASSUME ExtensionAssumption ==
  /\ MaxSessions \in Nat /\ MaxEvents \in [Clients -> Nat]
  /\ Sizes \subseteq Nat
  /\ MaxPendingEvents \in Nat /\ MaxPendingBytes \in Nat
  /\ None \notin Clients \cup Event

VARIABLES
  cur,            \* the variable `client` of registerExtension
  sequence,       \* per session: the counter of createCaptureState
  queue, sending, \* per client: #queue and the event its #drain loop works on
  stage,          \* per client: where #request is
  pendingEvents, pendingBytes,   \* per client: the counters
  closed,         \* clients whose #closed is set
  ended,          \* history: sessions whose session_shutdown was observed
  flushing,       \* clients whose flush(75) is pending
  dropped, pressed, acked, failed,   \* history: what became of each event
  inflight,       \* requests written completely that the daemon has not handled
  stored          \* per session: what the daemon has stored, in order

capture   == <<sequence, queue, sending, stage, pendingEvents, pendingBytes, dropped, pressed>>
outcome   == <<acked, failed>>
session   == <<cur, closed, ended, flushing>>
peer      == <<inflight, stored>>
vars      == <<capture, outcome, session, peer>>

TypeOK ==
  /\ cur \in Clients
  /\ sequence \in [Clients -> Nat]
  /\ queue \in [Clients -> Seq(Event)]
  /\ sending \in [Clients -> Event \cup {None}]
  /\ stage \in [Clients -> {"idle", "send", "read"}]
  /\ pendingEvents \in [Clients -> Nat] /\ pendingBytes \in [Clients -> Nat]
  /\ closed \subseteq Clients /\ ended \subseteq Clients /\ flushing \subseteq Clients
  /\ dropped \subseteq Event /\ pressed \subseteq dropped
  /\ acked \subseteq Event /\ failed \subseteq Event
  /\ inflight \subseteq Event
  /\ stored \in [Clients -> Seq(Event)]

Init ==
  /\ cur = 0
  /\ sequence = [k \in Clients |-> 0]
  /\ queue = [k \in Clients |-> <<>>]
  /\ sending = [k \in Clients |-> None]
  /\ stage = [k \in Clients |-> "idle"]
  /\ pendingEvents = [k \in Clients |-> 0]
  /\ pendingBytes = [k \in Clients |-> 0]
  /\ closed = {} /\ ended = {} /\ flushing = {}
  /\ dropped = {} /\ pressed = {} /\ acked = {} /\ failed = {}
  /\ inflight = {} /\ stored = [k \in Clients |-> <<>>]

-----------------------------------------------------------------------------
(* Observing and queueing *)

\* Mutant of Full: the new event's own bytes are not counted.
Full_Late(k, size) ==
  \/ pendingEvents[k] >= MaxPendingEvents
  \/ pendingBytes[k] >= MaxPendingBytes

\* The buffer of client k has no room for size more bytes.
Full(k, size) ==
  \/ pendingEvents[k] >= MaxPendingEvents
  \/ pendingBytes[k] + size > MaxPendingBytes

\* Mutant of Enqueue: every call starts a drain loop of its own.
Enqueue_NoGuard(k, size) ==
  LET event == [client |-> k, seq |-> sequence[k] + 1, size |-> size] IN
  /\ sequence[k] < MaxEvents[k]
  /\ sequence' = [sequence EXCEPT ![k] = @ + 1]
  /\ pendingEvents' = [pendingEvents EXCEPT ![k] = @ + 1]
  /\ pendingBytes' = [pendingBytes EXCEPT ![k] = @ + size]
  /\ sending' = [sending EXCEPT ![k] = event]
  /\ stage' = [stage EXCEPT ![k] = "send"]
  /\ UNCHANGED <<queue, dropped, pressed>>

\* enqueue of the next event of client k: drop it, or queue it and make sure the
\* drain loop runs.  An idle loop takes the event before enqueue returns.
Enqueue(k, size) ==
  LET event == [client |-> k, seq |-> sequence[k] + 1, size |-> size] IN
  /\ sequence[k] < MaxEvents[k]
  /\ sequence' = [sequence EXCEPT ![k] = @ + 1]
  /\ IF k \in closed \/ Full(k, size)
     THEN /\ dropped' = dropped \cup {event}
          /\ pressed' = IF Full(k, size) THEN pressed \cup {event} ELSE pressed
          /\ UNCHANGED <<queue, sending, stage, pendingEvents, pendingBytes>>
     ELSE /\ pendingEvents' = [pendingEvents EXCEPT ![k] = @ + 1]
          /\ pendingBytes' = [pendingBytes EXCEPT ![k] = @ + size]
          /\ IF sending[k] = None
             THEN /\ sending' = [sending EXCEPT ![k] = event]
                  /\ stage' = [stage EXCEPT ![k] = "send"]
                  /\ UNCHANGED queue
             ELSE /\ queue' = [queue EXCEPT ![k] = Append(@, event)]
                  /\ UNCHANGED <<sending, stage>>
          /\ UNCHANGED <<dropped, pressed>>

\* session_start: a new client and a new capture state (and ensureDaemon, see
\* DaemonBootstrap); then the event itself is captured.
SessionStart(size) ==
  /\ cur < MaxSessions
  /\ cur' = cur + 1
  /\ Enqueue(cur + 1, size)
  /\ UNCHANGED <<outcome, closed, ended, flushing, peer>>

\* Any other observed event.
Observe(size) ==
  /\ Enqueue(cur, size)
  /\ UNCHANGED <<outcome, session, peer>>

\* session_shutdown: captured like the others, then a flush of at most 75 ms.
SessionShutdown(size) ==
  /\ cur \notin ended
  /\ Enqueue(cur, size)
  /\ ended' = ended \cup {cur}
  /\ flushing' = flushing \cup {cur}
  /\ UNCHANGED <<cur, closed, outcome, peer>>

\* The flush of client k is over (empty queue or deadline): the callback closes
\* whatever `client` refers to by now.
FlushEnds(k) ==
  /\ k \in flushing
  /\ flushing' = flushing \ {k}
  /\ closed' = closed \cup {cur}
  /\ UNCHANGED <<cur, ended, capture, outcome, peer>>

-----------------------------------------------------------------------------
(* The drain loop: one request at a time, each on a connection of its own *)

\* Dial, then write request frame, evidence header and evidence.
Send(k) ==
  /\ stage[k] = "send"
  /\ stage' = [stage EXCEPT ![k] = "read"]
  /\ inflight' = inflight \cup {sending[k]}
  /\ UNCHANGED <<sequence, queue, sending, pendingEvents, pendingBytes, dropped, pressed,
                 outcome, session, stored>>

\* Mutants of NextEvent: the bytes are given back twice; the loop ends with events
\* left; the newest event is taken first.
NextEvent_TwiceFreed(k) ==
  /\ pendingEvents' = [pendingEvents EXCEPT ![k] = @ - 1]
  /\ pendingBytes' = [pendingBytes EXCEPT ![k] = @ - 2 * sending[k].size]
  /\ sending' = [sending EXCEPT ![k] = None]
  /\ stage' = [stage EXCEPT ![k] = "idle"]
  /\ UNCHANGED <<sequence, queue, dropped, pressed>>

NextEvent_Stops(k) ==
  /\ pendingEvents' = [pendingEvents EXCEPT ![k] = @ - 1]
  /\ pendingBytes' = [pendingBytes EXCEPT ![k] = @ - sending[k].size]
  /\ sending' = [sending EXCEPT ![k] = None]
  /\ stage' = [stage EXCEPT ![k] = "idle"]
  /\ UNCHANGED <<sequence, queue, dropped, pressed>>

NextEvent_Newest(k) ==
  /\ pendingEvents' = [pendingEvents EXCEPT ![k] = @ - 1]
  /\ pendingBytes' = [pendingBytes EXCEPT ![k] = @ - sending[k].size]
  /\ IF queue[k] = <<>>
     THEN /\ sending' = [sending EXCEPT ![k] = None]
          /\ stage' = [stage EXCEPT ![k] = "idle"]
          /\ UNCHANGED queue
     ELSE /\ sending' = [sending EXCEPT ![k] = queue[k][Len(queue[k])]]
          /\ stage' = [stage EXCEPT ![k] = "send"]
          /\ queue' = [queue EXCEPT ![k] = SubSeq(@, 1, Len(@) - 1)]
  /\ UNCHANGED <<sequence, dropped, pressed>>

\* The request of client k is over: the counters go down and the loop takes the
\* next event or ends.
NextEvent(k) ==
  /\ pendingEvents' = [pendingEvents EXCEPT ![k] = @ - 1]
  /\ pendingBytes' = [pendingBytes EXCEPT ![k] = @ - sending[k].size]
  /\ IF queue[k] = <<>>
     THEN /\ sending' = [sending EXCEPT ![k] = None]
          /\ stage' = [stage EXCEPT ![k] = "idle"]
          /\ UNCHANGED queue
     ELSE /\ sending' = [sending EXCEPT ![k] = Head(queue[k])]
          /\ stage' = [stage EXCEPT ![k] = "send"]
          /\ queue' = [queue EXCEPT ![k] = Tail(@)]
  /\ UNCHANGED <<sequence, dropped, pressed>>

\* readResponse: the acknowledgement of a stored event arrives.
Acknowledge(k) ==
  /\ stage[k] = "read"
  /\ \E i \in 1..Len(stored[k]) : stored[k][i] = sending[k]
  /\ acked' = acked \cup {sending[k]}
  /\ NextEvent(k)
  /\ UNCHANGED <<failed, session, peer>>

\* Dial, write or read fails or times out, or the daemon answers with an error.
RequestFails(k) ==
  /\ stage[k] # "idle"
  /\ failed' = failed \cup {sending[k]}
  /\ NextEvent(k)
  /\ UNCHANGED <<acked, session, peer>>

-----------------------------------------------------------------------------
(* The daemon *)

\* The daemon works off what it has received, in any order, soon, late or never.
DaemonStores ==
  /\ \E e \in inflight :
       /\ stored' = [stored EXCEPT ![e.client] = Append(@, e)]
       /\ inflight' = inflight \ {e}
  /\ UNCHANGED <<capture, outcome, session>>

-----------------------------------------------------------------------------
Drain(k) == Send(k) \/ Acknowledge(k) \/ RequestFails(k)

Next ==
  \/ \E size \in Sizes : SessionStart(size) \/ Observe(size) \/ SessionShutdown(size)
  \/ \E k \in Clients : FlushEnds(k) \/ Drain(k)
  \/ DaemonStores

\* Every wait of the extension has a timer: dial, write, read and flush.
Fairness == \A k \in Clients : WF_vars(Drain(k)) /\ WF_vars(FlushEnds(k))

Spec == Init /\ [][Next]_vars /\ Fairness

-----------------------------------------------------------------------------
(* Properties *)

\* The events of client k that are queued or being sent.
Backlog(k) ==
  {queue[k][i] : i \in 1..Len(queue[k])} \cup (IF sending[k] = None THEN {} ELSE {sending[k]})

\* The sizes of the event being sent and of the queue add up to the byte counter,
\* and no running total exceeds the limit or an earlier one a later one.
BytesAddUp(k) ==
  \E total \in [0..Len(queue[k]) -> 0..MaxPendingBytes] :
    /\ total[0] = IF sending[k] = None THEN 0 ELSE sending[k].size
    /\ \A i \in 1..Len(queue[k]) : total[i] = total[i - 1] + queue[k][i].size
    /\ \A i, j \in 0..Len(queue[k]) : i <= j => total[i] <= total[j]
    /\ pendingBytes[k] = total[Len(queue[k])]

\* The counters enqueue decides by are the real backlog, also while a request is
\* under way or failed, and stay within the configured limits.
BacklogBounded ==
  \A k \in Clients :
    /\ pendingEvents[k] = Cardinality(Backlog(k))
    /\ pendingEvents[k] <= MaxPendingEvents
    /\ BytesAddUp(k)

Fates == {"backlog", "dropped", "failed", "acked"}

\* The n-th event of client k has met this fate.
Met(fate, k, n) ==
  \E e \in [backlog |-> Backlog(k), dropped |-> dropped, failed |-> failed, acked |-> acked][fate] :
    e.client = k /\ e.seq = n

\* Every captured event has exactly one fate: in the backlog, dropped, failed or
\* acknowledged; none vanishes between queue and request or is counted twice.
EveryEventAccounted ==
  \A k \in Clients : \A n \in 1..sequence[k] :
    \E fate \in Fates : \A other \in Fates : Met(other, k, n) <=> other = fate

\* Acknowledged events of a session are stored in the order of their sequence,
\* whatever late requests the daemon still works off.
AckedInOrder ==
  \A e, f \in acked :
    e.client = f.client /\ e.seq < f.seq =>
      \E i, j \in 1..Len(stored[e.client]) :
        i < j /\ stored[e.client][i] = e /\ stored[e.client][j] = f

\* Every event that entered the queue leaves it, without a daemon too.
BacklogSettles ==
  \A k \in Clients : pendingEvents[k] > 0 ~> pendingEvents[k] = 0

\* README.md, Limitations: events are lost under failures or buffer pressure; here
\* also after the shutdown of their own session.
DropsExplained ==
  \A e \in dropped : e \in pressed \/ e.client \in ended

-----------------------------------------------------------------------------
(* The inductive invariant behind the safety properties. *)

\* The drain loop of client k works on the oldest event it has not finished; the
\* queue holds younger ones in the order of their sequence.
InOrder(k) ==
  /\ stage[k] = "idle" <=> sending[k] = None
  /\ sending[k] = None => queue[k] = <<>>
  /\ sending[k] # None => sending[k].client = k /\ sending[k].seq \in 1..sequence[k]
  /\ \A i \in 1..Len(queue[k]) :
       /\ queue[k][i].client = k
       /\ sending[k].seq < queue[k][i].seq /\ queue[k][i].seq <= sequence[k]
       /\ \A j \in 1..Len(queue[k]) : i < j => queue[k][i].seq < queue[k][j].seq

QueueInv == \A k \in Clients : InOrder(k)

\* Nothing has a fate before it is captured.
FateInv ==
  /\ \A e \in dropped \cup failed \cup acked : e.seq \in 1..sequence[e.client]
  /\ EveryEventAccounted

\* Event e was sent before now, or is being sent.
Sent(e) ==
  LET k == e.client IN
  e.seq <= IF sending[k] = None THEN sequence[k] ELSE sending[k].seq

\* The daemon has nothing the client has not sent yet, and stored what it acknowledged
\* before anything younger.
StoreInv ==
  /\ \A e \in inflight : Sent(e)
  /\ \A k \in Clients : \A i \in 1..Len(stored[k]) : stored[k][i].client = k /\ Sent(stored[k][i])
  /\ \A e \in acked :
       /\ \E i \in 1..Len(stored[e.client]) : stored[e.client][i] = e
       /\ \A j \in 1..Len(stored[e.client]) :
            e.seq < stored[e.client][j].seq => \E i \in 1..(j - 1) : stored[e.client][i] = e

IInv ==
  /\ TypeOK /\ QueueInv /\ FateInv /\ StoreInv /\ BacklogBounded
  /\ \A k \in Clients : IsFiniteSet(Backlog(k))
=============================================================================
