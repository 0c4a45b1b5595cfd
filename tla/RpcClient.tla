----------------------------- MODULE RpcClient -----------------------------
(***************************************************************************)
(* internal/client/client.go: goroutines that share one Client, and with   *)
(* it one reusable connection to the daemon.  A gate serialises the        *)
(* operations; Close comes from outside the gate; every operation whose    *)
(* context can be cancelled has a watcher goroutine that expires the       *)
(* connection's deadline on cancellation.                                  *)
(***************************************************************************)
EXTENDS Naturals, Sequences, FiniteSets

CONSTANTS
  Callers,    \* goroutines using the client
  MaxCalls,   \* bound: operations in a behaviour (their numbers are the request ids)
  MaxDials,   \* bound: connections dialled in a behaviour
  None

Calls == 1..MaxCalls
Dials == 1..MaxDials

ASSUME RpcAssumption ==
  /\ MaxCalls \in Nat /\ MaxDials \in Nat
  /\ None \notin Callers /\ None \notin Nat

VARIABLES
  pc,        \* where each caller is in its operation
  call,      \* the operation it performs
  using,     \* the connection it works on
  calls,     \* operations begun so far
  gate,      \* caller whose token is in the gate channel
  closed,    \* c.closed
  conn,      \* c.conn
  dials,     \* connections dialled so far
  open,      \* connections whose descriptor is open
  expired,   \* connections whose deadline is in the past
  wire,      \* per connection: what the daemon has sent and nobody has read
  cancelled, \* operations whose context is done
  watchers,  \* watcher goroutines: [call, conn], until they end
  stopped    \* operations whose done channel is closed

operation == <<pc, call, using, calls>>
shared    == <<gate, closed, conn, dials, open>>
context   == <<cancelled, watchers, stopped>>
vars      == <<operation, shared, expired, wire, context>>

Watcher == [call : Calls, conn : Dials]

TypeOK ==
  /\ pc \in [Callers -> {"idle", "acquire", "connect", "dial", "send", "reply", "evidence", "stop", "release"}]
  /\ call \in [Callers -> Calls \cup {None}]
  /\ using \in [Callers -> Dials \cup {None}]
  /\ calls \in 0..MaxCalls
  /\ gate \in Callers \cup {None}
  /\ closed \in BOOLEAN
  /\ conn \in Dials \cup {None}
  /\ dials \in 0..MaxDials
  /\ open \subseteq Dials /\ expired \subseteq Dials
  /\ wire \in [Dials -> Seq(Calls \X {"reply", "failure", "invalid", "evidence"})]
  /\ cancelled \subseteq Calls /\ stopped \subseteq Calls
  /\ watchers \subseteq Watcher

Init ==
  /\ pc = [o \in Callers |-> "idle"]
  /\ call = [o \in Callers |-> None]
  /\ using = [o \in Callers |-> None]
  /\ calls = 0 /\ gate = None /\ closed = FALSE /\ conn = None /\ dials = 0
  /\ open = {} /\ expired = {}
  /\ wire = [d \in Dials |-> <<>>]
  /\ cancelled = {} /\ watchers = {} /\ stopped = {}

Goto(o, label) == pc' = [pc EXCEPT ![o] = label]

-----------------------------------------------------------------------------
(* The gate *)

Begin(o) ==
  /\ pc[o] = "idle"
  /\ calls < MaxCalls
  /\ calls' = calls + 1
  /\ call' = [call EXCEPT ![o] = calls + 1]
  /\ Goto(o, "acquire")
  /\ UNCHANGED <<using, shared, expired, wire, context>>

\* The operation returns without having had the gate.
Leave(o) ==
  /\ Goto(o, "idle")
  /\ call' = [call EXCEPT ![o] = None]

\* acquire: the token, or the context's error.
Acquire(o) ==
  /\ pc[o] = "acquire"
  /\ \/ gate = None /\ gate' = o /\ Goto(o, "connect") /\ UNCHANGED call
     \/ call[o] \in cancelled /\ Leave(o) /\ UNCHANGED gate
  /\ UNCHANGED <<using, calls, closed, conn, dials, open, expired, wire, context>>

\* The deferred release of the gate.
Release(o) ==
  /\ pc[o] = "release"
  /\ gate' = None
  /\ Goto(o, "idle")
  /\ call' = [call EXCEPT ![o] = None]
  /\ using' = [using EXCEPT ![o] = None]
  /\ UNCHANGED <<calls, closed, conn, dials, open, expired, wire, context>>

-----------------------------------------------------------------------------
(* connection and deadlines *)

\* Mutant of Arm: the watcher reads the field c.conn instead of its connection.
Arm_Field(o, d) ==
  /\ using' = [using EXCEPT ![o] = d]
  /\ expired' = expired \ {d}
  /\ watchers' = watchers \cup {[call |-> call[o], conn |-> conn]}
  /\ Goto(o, "send")

\* deadlines: fresh deadlines for connection d, and a watcher for the context.
Arm(o, d) ==
  /\ using' = [using EXCEPT ![o] = d]
  /\ expired' = expired \ {d}
  /\ watchers' = watchers \cup {[call |-> call[o], conn |-> d]}
  /\ Goto(o, "send")

\* The context is checked once more; a closed client refuses; a cached connection
\* is reused; otherwise dial, without holding the mutex.
Connect(o) ==
  /\ pc[o] = "connect"
  /\ \/ /\ call[o] \in cancelled \/ closed
        /\ Goto(o, "release")
        /\ UNCHANGED <<using, expired, watchers>>
     \/ call[o] \notin cancelled /\ ~closed /\ conn # None /\ Arm(o, conn)
     \/ /\ call[o] \notin cancelled /\ ~closed /\ conn = None
        /\ Goto(o, "dial")
        /\ UNCHANGED <<using, expired, watchers>>
  /\ UNCHANGED <<call, calls, shared, wire, cancelled, stopped>>

\* Mutant of Dial: the client may have been closed meanwhile, nobody looks.
Dial_Unchecked(o) ==
  /\ pc[o] = "dial"
  /\ dials < MaxDials
  /\ dials' = dials + 1
  /\ conn' = dials + 1
  /\ open' = open \cup {dials + 1}
  /\ Arm(o, dials + 1)
  /\ UNCHANGED <<call, calls, gate, closed, wire, cancelled, stopped>>

\* DialContext succeeds and the client is still open, succeeds too late, or fails.
Dial(o) ==
  /\ pc[o] = "dial"
  /\ \/ /\ dials < MaxDials /\ ~closed
        /\ dials' = dials + 1
        /\ conn' = dials + 1
        /\ open' = open \cup {dials + 1}
        /\ Arm(o, dials + 1)
     \/ /\ Goto(o, "release")
        /\ UNCHANGED <<using, dials, conn, open, expired, watchers>>
  /\ UNCHANGED <<call, calls, gate, closed, wire, cancelled, stopped>>

-----------------------------------------------------------------------------
(* call and ReadPayload *)

\* Mutant of Poison: a failed operation keeps the connection for the next one.
Poison_Kept(o) == UNCHANGED <<conn, open>>

\* poison: close and forget the cached connection.
Poison(o) ==
  /\ conn' = None
  /\ open' = open \ {conn}

\* requestID or json.Marshal fails: nothing was written, and the connection is kept.
EncodeFails(o) ==
  /\ pc[o] = "send"
  /\ Goto(o, "stop")
  /\ UNCHANGED <<call, using, calls, shared, expired, wire, context>>

\* The request is written; the daemon will answer with a reply, with a reply and
\* evidence (event.read_payload), with an error reply, or with an invalid one.
Send(o) ==
  /\ pc[o] = "send"
  /\ using[o] \in open \ expired
  /\ \E answer \in {<<"reply">>, <<"reply", "evidence">>, <<"failure">>, <<"invalid">>} :
       wire' = [wire EXCEPT ![using[o]] =
                  @ \o [i \in 1..Len(answer) |-> <<call[o], answer[i]>>]]
  /\ Goto(o, "reply")
  /\ UNCHANGED <<call, using, calls, shared, expired, context>>

\* Decode and validateResponse: the next message on the connection is the reply to
\* this request; a payload operation goes on to read the evidence frame.
ReceiveReply(o) ==
  LET d == using[o] IN
  /\ pc[o] = "reply"
  /\ d \in open \ expired
  /\ wire[d] # <<>>
  /\ wire' = [wire EXCEPT ![d] = Tail(@)]
  /\ \/ /\ Head(wire[d]) = <<call[o], "reply">>
        /\ IF Len(wire[d]) > 1 /\ wire[d][2][2] = "evidence"
           THEN Goto(o, "evidence")
           ELSE Goto(o, "stop")
        /\ UNCHANGED <<conn, open>>
     \/ /\ Head(wire[d]) = <<call[o], "failure">>
        /\ Goto(o, "stop")
        /\ UNCHANGED <<conn, open>>
     \/ /\ Head(wire[d]) \notin {<<call[o], "reply">>, <<call[o], "failure">>}
        /\ Goto(o, "stop")
        /\ Poison(o)
  /\ UNCHANGED <<call, using, calls, gate, closed, dials, expired, context>>

\* The evidence frame is copied to the destination.
ReceiveEvidence(o) ==
  LET d == using[o] IN
  /\ pc[o] = "evidence"
  /\ d \in open \ expired
  /\ wire' = [wire EXCEPT ![d] = Tail(@)]
  /\ Goto(o, "stop")
  /\ UNCHANGED <<call, using, calls, shared, expired, context>>

\* Mutant of Fail: the error return skips the deferred functions.
Fail_NoDefer(o) ==
  /\ pc[o] \in {"send", "reply", "evidence"}
  /\ Goto(o, "idle")
  /\ Poison(o)
  /\ UNCHANGED <<call, using, calls, gate, closed, dials, expired, wire, context>>

\* Write, read or copy fails: the deadline is in the past, the connection was
\* closed (by Close or by the daemon), a timeout of its own, a bad frame, a
\* destination that fails.
Fail(o) ==
  /\ pc[o] \in {"send", "reply", "evidence"}
  /\ Goto(o, "stop")
  /\ Poison(o)
  /\ UNCHANGED <<call, using, calls, gate, closed, dials, expired, wire, context>>

\* The deferred stopCancel closes the done channel of the watcher.
StopCancel(o) ==
  /\ pc[o] = "stop"
  /\ stopped' = stopped \cup {call[o]}
  /\ Goto(o, "release")
  /\ UNCHANGED <<call, using, calls, shared, expired, wire, cancelled, watchers>>

-----------------------------------------------------------------------------
(* Contexts, watchers, Close *)

\* The context of an operation ends: during it, or after it by the caller's cancel.
Cancel(i) ==
  /\ i \in 1..calls /\ i \notin cancelled
  /\ cancelled' = cancelled \cup {i}
  /\ UNCHANGED <<operation, shared, expired, wire, watchers, stopped>>

\* The select of a watcher: with both channels ready it takes either.
WatcherExpires(w) ==
  /\ w \in watchers /\ w.call \in cancelled
  /\ watchers' = watchers \ {w}
  /\ expired' = expired \cup {w.conn}
  /\ UNCHANGED <<operation, shared, wire, cancelled, stopped>>

WatcherEnds(w) ==
  /\ w \in watchers /\ w.call \in stopped
  /\ watchers' = watchers \ {w}
  /\ UNCHANGED <<operation, shared, expired, wire, cancelled, stopped>>

Close ==
  /\ closed' = TRUE
  /\ conn' = None
  /\ open' = open \ {conn}
  /\ UNCHANGED <<operation, gate, dials, expired, wire, context>>

-----------------------------------------------------------------------------
Step(o) ==
  \/ Acquire(o) \/ Connect(o) \/ Dial(o) \/ EncodeFails(o) \/ Send(o) \/ ReceiveReply(o)
  \/ ReceiveEvidence(o) \/ Fail(o) \/ StopCancel(o) \/ Release(o)

Next ==
  \/ Close
  \/ \E o \in Callers : Begin(o) \/ Step(o)
  \/ \E i \in Calls : Cancel(i)
  \/ \E w \in watchers : WatcherExpires(w) \/ WatcherEnds(w)

\* Dialling, reading and writing have timeouts, and the destination of a page takes what
\* is copied to it (Frontends says where it need not); a waiter for the gate gets it in
\* turn (the channel's send queue is first in, first out).
Fairness == \A o \in Callers : SF_vars(Acquire(o)) /\ WF_vars(Step(o))

Spec     == Init /\ [][Next]_vars
FairSpec == Spec /\ Fairness

-----------------------------------------------------------------------------
(* Properties *)

\* A connection that is offered for reuse carries nothing that belongs to an
\* earlier operation: every path that leaves a response unread poisons it.
ReusedConnectionClean ==
  gate = None /\ conn # None => conn \in open /\ wire[conn] = <<>>

\* No operation takes another one's response for its own or meets it at all.
OwnResponseOnly ==
  \A o \in Callers :
    pc[o] \in {"reply", "evidence"} /\ using[o] \in open =>
      \A i \in 1..Len(wire[using[o]]) : wire[using[o]][i][1] = call[o]

\* Only the cached connection is open, and after Close not even that: no descriptor
\* leaks, also when a dial was under way or an operation failed.
NoConnectionLeak ==
  /\ open \subseteq {conn}
  /\ closed => conn = None

\* Every operation returns.
OperationsReturn == \A o \in Callers : pc[o] # "idle" ~> pc[o] = "idle"

\* client.go: every operation owns the connection until its complete response is
\* consumed.  The deadline of a connection in use is expired by nobody but the
\* operation's own context.
DeadlineOwned ==
  \A o \in Callers :
    pc[o] \in {"send", "reply", "evidence"} /\ using[o] \in expired => call[o] \in cancelled

-----------------------------------------------------------------------------
(* The inductive invariant behind the safety properties. *)

\* The operation is past acquire and has not released the gate.
Owning(o)  == pc[o] \in {"connect", "dial", "send", "reply", "evidence", "stop", "release"}
\* It works on the connection `using`.
Talking(o) == pc[o] \in {"send", "reply", "evidence"}

GateInv ==
  \A o \in Callers :
    /\ Owning(o) <=> gate = o
    /\ pc[o] # "idle" => call[o] \in Calls

\* The cached connection is the one open connection; while an operation talks it is
\* the operation's own, unless Close took it away.
ConnInv ==
  /\ NoConnectionLeak
  /\ conn # None => conn \in open
  /\ open \subseteq 1..dials
  /\ \A o \in Callers :
       /\ pc[o] = "dial" => conn = None
       /\ Talking(o) => using[o] \in Dials /\ conn \in {using[o], None}

\* The daemon's whole answer to operation i: one message, or a reply and its evidence.
AnswerTo(i, messages) ==
  /\ Len(messages) \in {1, 2}
  /\ \A j \in 1..Len(messages) : messages[j][1] = i
  /\ Len(messages) = 1 => messages[1][2] # "evidence"
  /\ Len(messages) = 2 => messages[1][2] = "reply" /\ messages[2][2] = "evidence"

\* What is unread on the cached connection is what the operation still expects.
WireInv ==
  /\ \A d \in Dials : d > dials => wire[d] = <<>>
  /\ conn # None /\ (\A o \in Callers : pc[o] \notin {"reply", "evidence"}) => wire[conn] = <<>>
  /\ \A o \in Callers :
       conn # None =>
         /\ pc[o] = "reply" => AnswerTo(call[o], wire[conn])
         /\ pc[o] = "evidence" => Len(wire[conn]) = 1 /\ wire[conn][1] = <<call[o], "evidence">>

IInv == TypeOK /\ GateInv /\ ConnInv /\ WireInv
=============================================================================
