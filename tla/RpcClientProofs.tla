-------------------------- MODULE RpcClientProofs --------------------------
(***************************************************************************)
(* Safety of RpcClient for any number of goroutines, operations and        *)
(* connections: the gate makes an operation the only one on the wire, and  *)
(* poisoning keeps what it left unread from the next one.                  *)
(***************************************************************************)
EXTENDS RpcClient, SequenceTheorems, TLAPS

Message == Calls \X {"reply", "failure", "invalid", "evidence"}
Answers == {<<"reply">>, <<"reply", "evidence">>, <<"failure">>, <<"invalid">>}

-----------------------------------------------------------------------------
(* Sequences of messages *)

\* What Send puts on an empty wire is a complete answer.
LEMMA AnswerShape ==
  ASSUME NEW i \in Calls, NEW answer \in Answers
  PROVE  LET s == <<>> \o [j \in 1..Len(answer) |-> <<i, answer[j]>>]
         IN  s \in Seq(Message) /\ AnswerTo(i, s)
<1> DEFINE t == [j \in 1..Len(answer) |-> <<i, answer[j]>>]
<1>1. /\ Len(answer) \in {1, 2}
      /\ Len(answer) = 1 => answer[1] \in {"reply", "failure", "invalid"}
      /\ Len(answer) = 2 => answer[1] = "reply" /\ answer[2] = "evidence"
  BY DEF Answers
<1>2. t \in Seq(Message) /\ Len(t) = Len(answer)
  <2>1. t \in [1..Len(answer) -> Message]
    BY <1>1 DEF Message
  <2> QED
    BY <1>1, <2>1, IsASeq, LenProperties
<1>3. <<>> \o t = t
  BY <1>2, ConcatEmptySeq
<1>4. AnswerTo(i, t)
  BY <1>1, <1>2 DEF AnswerTo
<1> QED
  BY <1>2, <1>3, <1>4

\* Reading takes the first message off the wire.
LEMMA Read ==
  ASSUME NEW s \in Seq(Message), s # <<>>
  PROVE  /\ Tail(s) \in Seq(Message)
         /\ Len(Tail(s)) = Len(s) - 1
         /\ \A j \in 1..Len(Tail(s)) : Tail(s)[j] = s[j + 1]
         /\ Head(s) = s[1]
BY HeadTailProperties

LEMMA NothingLeft ==
  ASSUME NEW s \in Seq(Message), Len(s) = 0
  PROVE  s = <<>>
BY EmptySeq

\* A message is the pair of its fields.
LEMMA MessageFields ==
  ASSUME NEW m \in Message
  PROVE  m = <<m[1], m[2]>>
BY DEF Message

-----------------------------------------------------------------------------
LEMMA InitInv == Init => IInv
<1> SUFFICES ASSUME Init PROVE IInv
  OBVIOUS
<1>1. closed \in BOOLEAN
  BY Zenon DEF Init
<1>2. wire \in [Dials -> Seq(Message)]
  BY EmptySeq DEF Init
<1>3. TypeOK
  BY RpcAssumption, <1>1, <1>2 DEF Init, TypeOK, Message
<1>4. GateInv /\ ConnInv /\ WireInv
  BY RpcAssumption DEF Init, GateInv, ConnInv, NoConnectionLeak, WireInv, Owning, Talking, Dials
<1> QED
  BY <1>3, <1>4 DEF IInv

\* Begin, Acquire, EncodeFails, Release and StopCancel leave connection and wire alone.
LEMMA GateSteps ==
  ASSUME IInv, NEW o \in Callers, Begin(o) \/ Acquire(o) \/ EncodeFails(o) \/ Release(o) \/ StopCancel(o)
  PROVE  IInv'
<1> USE RpcAssumption DEF IInv, TypeOK, GateInv, ConnInv, NoConnectionLeak, WireInv, Owning, Talking,
      Goto, Leave, shared, context, Calls
<1>1. CASE Begin(o)
  <2>1. TypeOK'
    BY <1>1 DEF Begin
  <2>2. GateInv'
    BY <1>1 DEF Begin
  <2>3. ConnInv'
    BY <1>1 DEF Begin
  <2>4. WireInv'
    BY <1>1 DEF Begin
  <2> QED
    BY <2>1, <2>2, <2>3, <2>4
<1>2. CASE Acquire(o)
  <2>1. TypeOK'
    BY <1>2 DEF Acquire
  <2>2. GateInv'
    BY <1>2 DEF Acquire
  <2>3. ConnInv'
    BY <1>2 DEF Acquire
  <2>4. WireInv'
    BY <1>2 DEF Acquire
  <2> QED
    BY <2>1, <2>2, <2>3, <2>4
<1>3. CASE Release(o)
  <2>1. TypeOK'
    BY <1>3 DEF Release
  <2>2. GateInv'
    BY <1>3 DEF Release
  <2>3. ConnInv'
    BY <1>3 DEF Release
  <2>4. WireInv'
    BY <1>3 DEF Release
  <2> QED
    BY <2>1, <2>2, <2>3, <2>4
<1>4. CASE StopCancel(o)
  BY <1>4 DEF StopCancel
<1>5. CASE EncodeFails(o)
  <2>1. TypeOK'
    BY <1>5 DEF EncodeFails
  <2>2. GateInv'
    BY <1>5 DEF EncodeFails
  <2>3. ConnInv'
    BY <1>5 DEF EncodeFails
  <2>4. WireInv'
    BY <1>5 DEF EncodeFails
  <2> QED
    BY <2>1, <2>2, <2>3, <2>4
<1> QED
  BY <1>1, <1>2, <1>3, <1>4, <1>5

\* Who owns the gate is the only one on the wire.
LEMMA Alone ==
  ASSUME IInv, NEW o \in Callers, Owning(o)
  PROVE  /\ call[o] \in Calls
         /\ \A p \in Callers \ {o} : pc[p] \in {"idle", "acquire"}
BY DEF IInv, TypeOK, GateInv, Owning

\* Whoever talks on an open connection talks on the cached one.
LEMMA TalksOnCached ==
  ASSUME IInv, NEW o \in Callers, Talking(o), using[o] \in open
  PROVE  /\ using[o] \in Dials /\ conn = using[o] /\ conn # None
         /\ conn \in 1..dials
BY RpcAssumption DEF IInv, TypeOK, ConnInv, NoConnectionLeak, Dials

\* An operation gets the cached connection or dials one of its own.
LEMMA ConnectStep ==
  ASSUME IInv, NEW o \in Callers, Connect(o)
  PROVE  IInv'
<1> USE RpcAssumption DEF IInv, Goto, Arm, shared, Connect
<1>0. /\ call[o] \in Calls
      /\ \A p \in Callers \ {o} : pc[p] \in {"idle", "acquire"}
  BY Alone DEF Owning
<1>1. TypeOK'
  <2>1. conn # None => [call |-> call[o], conn |-> conn] \in Watcher
    BY <1>0 DEF TypeOK, Watcher
  <2> QED
    BY <2>1 DEF TypeOK
<1>2. GateInv'
  BY DEF TypeOK, GateInv, Owning
<1>3. ConnInv'
  BY <1>0 DEF TypeOK, ConnInv, NoConnectionLeak, Talking
<1>4. WireInv'
  BY <1>0 DEF TypeOK, WireInv
<1> QED
  BY <1>1, <1>2, <1>3, <1>4

LEMMA DialStep ==
  ASSUME IInv, NEW o \in Callers, Dial(o)
  PROVE  IInv'
<1> USE RpcAssumption DEF IInv, Goto, Dial
<1>0. /\ call[o] \in Calls /\ conn = None
      /\ \A p \in Callers \ {o} : pc[p] \in {"idle", "acquire"}
  BY Alone DEF Owning, ConnInv
<1>d. dials \in Nat /\ (dials < MaxDials => dials + 1 \in Dials /\ dials + 1 \in 0..MaxDials)
  BY DEF TypeOK, Dials
<1>1. TypeOK'
  <2>1. dials < MaxDials => [call |-> call[o], conn |-> dials + 1] \in Watcher
    BY <1>0, <1>d DEF Watcher
  <2> QED
    BY <1>d, <2>1 DEF TypeOK, Arm
<1>2. GateInv'
  BY DEF TypeOK, GateInv, Owning, Arm
<1>3. CASE dials' = dials + 1 /\ dials < MaxDials /\ ~closed /\ conn' = dials + 1
           /\ open' = open \cup {dials + 1} /\ Arm(o, dials + 1)
  <2> USE <1>3
  <2>1. open = {} /\ dials + 1 # None
    BY <1>0, <1>d DEF TypeOK, ConnInv, NoConnectionLeak, Dials
  <2>2. ConnInv'
    BY <1>0, <1>d, <2>1 DEF TypeOK, ConnInv, NoConnectionLeak, Talking, Arm
  <2>3. WireInv'
    <3>1. wire[dials + 1] = <<>>
      BY <1>d DEF WireInv
    <3>2. \A d \in Dials : d > dials + 1 => wire[d] = <<>>
      BY <1>d DEF WireInv, Dials
    <3>3. \A p \in Callers : pc'[p] \notin {"reply", "evidence"}
      BY <1>0 DEF TypeOK, Arm
    <3> QED
      BY <3>1, <3>2, <3>3 DEF WireInv
  <2> QED
    BY <1>1, <1>2, <2>2, <2>3
<1>4. CASE Goto(o, "release") /\ UNCHANGED <<using, dials, conn, open, expired, watchers>>
  BY <1>0, <1>1, <1>2, <1>4 DEF TypeOK, ConnInv, NoConnectionLeak, Talking, WireInv
<1> QED
  BY <1>3, <1>4

\* The request is written and the whole answer is on its way.
LEMMA SendStep ==
  ASSUME IInv, NEW o \in Callers, Send(o)
  PROVE  IInv'
<1> USE RpcAssumption DEF IInv, Goto, shared, context
<1>1. PICK answer \in Answers :
        wire' = [wire EXCEPT ![using[o]] = @ \o [i \in 1..Len(answer) |-> <<call[o], answer[i]>>]]
  BY DEF Send, Answers
<1>0. /\ call[o] \in Calls
      /\ \A p \in Callers \ {o} : pc[p] \in {"idle", "acquire"}
  BY Alone DEF Send, Owning
<1>2. /\ using[o] \in Dials /\ conn = using[o] /\ conn # None
      /\ conn \in 1..dials
  BY TalksOnCached DEF Send, Talking
<1>w. wire[using[o]] = <<>>
  <2>1. \A p \in Callers : pc[p] \notin {"reply", "evidence"}
    BY <1>0 DEF Send, TypeOK
  <2> QED
    BY <1>2, <2>1 DEF WireInv
<1>3. /\ wire' = [wire EXCEPT ![using[o]] = wire'[using[o]]]
      /\ wire'[using[o]] \in Seq(Message) /\ AnswerTo(call[o], wire'[using[o]])
  BY <1>0, <1>1, <1>2, <1>w, AnswerShape DEF TypeOK
<1>4. TypeOK'
  BY <1>2, <1>3 DEF Send, TypeOK, Message
<1>5. GateInv'
  BY DEF Send, TypeOK, GateInv, Owning
<1>6. ConnInv'
  BY <1>0, <1>2 DEF Send, TypeOK, ConnInv, NoConnectionLeak, Talking
<1>7. WireInv'
  <2>1. \A d \in Dials : d > dials => wire'[d] = <<>>
    BY <1>2, <1>3, SMTT(30) DEF TypeOK, WireInv, Dials
  <2>2. pc' = [pc EXCEPT ![o] = "reply"] /\ UNCHANGED <<conn, call, dials>>
    BY DEF Send
  <2> QED
    BY <1>0, <1>2, <1>3, <2>1, <2>2 DEF TypeOK, WireInv
<1> QED
  BY <1>4, <1>5, <1>6, <1>7

\* The reply or the evidence is read: the operation keeps the connection only when
\* nothing of its answer is left unread.
LEMMA ReceiveSteps ==
  ASSUME IInv, NEW o \in Callers, ReceiveReply(o) \/ ReceiveEvidence(o)
  PROVE  IInv'
<1> USE RpcAssumption DEF IInv, Goto, shared, context, Poison
<1> DEFINE d == using[o]
           s == wire[d]
<1>0. /\ call[o] \in Calls
      /\ \A p \in Callers \ {o} : pc[p] \in {"idle", "acquire"}
  BY Alone DEF ReceiveReply, ReceiveEvidence, Owning
<1>1. /\ d \in Dials /\ conn = d /\ conn # None
      /\ conn \in 1..dials
  BY TalksOnCached DEF ReceiveReply, ReceiveEvidence, Talking
<1>s. /\ s \in Seq(Message) /\ s # <<>>
      /\ pc[o] = "reply" => AnswerTo(call[o], s)
      /\ pc[o] = "evidence" => Len(s) = 1
  <2>1. s \in Seq(Message)
    BY <1>1 DEF TypeOK, Message
  <2>2. pc[o] = "reply" => AnswerTo(call[o], s)
    BY <1>1 DEF WireInv
  <2>3. pc[o] = "evidence" => Len(s) = 1
    BY <1>1 DEF WireInv
  <2>4. s # <<>>
    BY <2>3, EmptySeq DEF ReceiveReply, ReceiveEvidence
  <2> QED
    BY <2>1, <2>2, <2>3, <2>4
<1>2. /\ Tail(s) \in Seq(Message) /\ Len(Tail(s)) = Len(s) - 1
      /\ \A j \in 1..Len(Tail(s)) : Tail(s)[j] = s[j + 1]
      /\ Head(s) = s[1]
  BY <1>s, Read
<1>3. wire' = [wire EXCEPT ![d] = Tail(s)]
  BY DEF ReceiveReply, ReceiveEvidence
<1>4. TypeOK'
  BY <1>1, <1>2, <1>3 DEF ReceiveReply, ReceiveEvidence, TypeOK, Message
<1>5. GateInv'
  BY DEF ReceiveReply, ReceiveEvidence, TypeOK, GateInv, Owning
<1>6. ConnInv'
  <2>1. /\ conn' \in {conn, None} /\ open' = IF conn' = None THEN open \ {conn} ELSE open
        /\ UNCHANGED <<using, closed, dials>>
        /\ \E label \in {"evidence", "stop"} : pc' = [pc EXCEPT ![o] = label]
    BY <1>1 DEF ReceiveReply, ReceiveEvidence
  <2>2. \A p \in Callers : pc'[p] # "dial" /\ (Talking(p)' => p = o)
    BY <1>0, <2>1 DEF TypeOK, Talking
  <2> QED
    BY <1>1, <2>1, <2>2 DEF TypeOK, ConnInv, NoConnectionLeak
<1>7. WireInv'
  <2>1. \A e \in Dials : e > dials' => wire'[e] = <<>>
    BY <1>1, <1>3 DEF ReceiveReply, ReceiveEvidence, TypeOK, ConnInv, WireInv, Dials
  <2>0. UNCHANGED call
    BY DEF ReceiveReply, ReceiveEvidence
  <2>2. CASE pc' = [pc EXCEPT ![o] = "stop"] /\ conn' = conn
    <3>1. Len(s) = 1
      <4>1. CASE pc[o] = "evidence"
        BY <4>1, <1>s
      <4>2. CASE pc[o] = "reply"
        <5>1. \/ Head(s) = <<call[o], "reply">> /\ ~(Len(s) > 1 /\ s[2][2] = "evidence")
              \/ Head(s) = <<call[o], "failure">>
          BY <1>1, <2>2, <4>2 DEF ReceiveReply, ReceiveEvidence, TypeOK
        <5> QED
          BY <1>s, <1>2, <4>2, <5>1 DEF AnswerTo
      <4> QED
        BY <4>1, <4>2 DEF ReceiveReply, ReceiveEvidence
    <3>2. Tail(s) = <<>>
      <4>1. Tail(s) \in Seq(Message) /\ Len(Tail(s)) = 0
        BY <1>2, <3>1
      <4> QED
        BY <4>1, NothingLeft, Zenon
    <3>3. \A p \in Callers : pc'[p] \notin {"reply", "evidence"}
      BY <1>0, <2>2 DEF TypeOK
    <3>4. wire'[conn'] = <<>>
      BY <1>1, <1>3, <2>2, <3>2 DEF TypeOK
    <3> QED
      BY <2>1, <3>3, <3>4 DEF WireInv
  <2>3. CASE pc' = [pc EXCEPT ![o] = "evidence"] /\ conn' = conn
    <3>1. pc[o] = "reply" /\ Len(s) = 2
      <4>1. pc[o] = "reply" /\ Len(s) > 1
        BY <2>3 DEF ReceiveReply, ReceiveEvidence, TypeOK
      <4> QED
        BY <4>1, <1>s DEF AnswerTo
    <3>2. s[2] = <<call[o], "evidence">>
      <4>1. s[2] \in Message
        BY <1>s, <3>1, ElementOfSeq
      <4>2. s[2][1] = call[o] /\ s[2][2] = "evidence"
        BY <1>s, <3>1 DEF AnswerTo
      <4> QED
        BY <4>1, <4>2, MessageFields
    <3>3. Len(wire'[d]) = 1 /\ wire'[d][1] = <<call[o], "evidence">>
      <4>1. wire'[d] = Tail(s)
        BY <1>1, <1>3 DEF TypeOK
      <4>2. Len(Tail(s)) = 1 /\ Tail(s)[1] = s[2]
        BY <1>2, <3>1
      <4> QED
        BY <3>2, <4>1, <4>2
    <3> QED
      BY <1>0, <1>1, <2>0, <2>1, <2>3, <3>3 DEF TypeOK, WireInv
  <2>4. CASE conn' = None
    BY <2>1, <2>4 DEF WireInv
  <2> QED
    BY <2>2, <2>3, <2>4 DEF ReceiveReply, ReceiveEvidence
<1> QED
  BY <1>4, <1>5, <1>6, <1>7

\* Failing, closing and the contexts.
LEMMA OtherSteps ==
  ASSUME IInv,
         \/ \E o \in Callers : Fail(o)
         \/ Close
         \/ \E i \in Calls : Cancel(i)
         \/ \E w \in watchers : WatcherExpires(w) \/ WatcherEnds(w)
  PROVE  IInv'
<1> USE RpcAssumption DEF IInv, Goto, shared, context, operation, Poison
<1>1. ASSUME NEW o \in Callers, Fail(o) PROVE IInv'
  <2>1. TypeOK' /\ GateInv'
    BY <1>1 DEF Fail, TypeOK, GateInv, Owning
  <2>2. ConnInv' /\ WireInv'
    BY <1>1 DEF Fail, TypeOK, GateInv, ConnInv, NoConnectionLeak, WireInv, Owning, Talking
  <2> QED
    BY <2>1, <2>2
<1>2. CASE Close
  <2>1. closed' \in BOOLEAN
    BY <1>2, Zenon DEF Close
  <2>2. TypeOK'
    BY <1>2, <2>1 DEF Close, TypeOK
  <2>3. GateInv'
    BY <1>2 DEF Close, GateInv, Owning
  <2>4. ConnInv'
    BY <1>2 DEF Close, TypeOK, ConnInv, NoConnectionLeak, Talking
  <2>5. WireInv'
    BY <1>2 DEF Close, WireInv
  <2> QED
    BY <2>2, <2>3, <2>4, <2>5
<1>3. ASSUME NEW i \in Calls, Cancel(i) PROVE IInv'
  <2>1. TypeOK'
    BY <1>3 DEF Cancel, TypeOK
  <2>2. GateInv'
    BY <1>3 DEF Cancel, GateInv, Owning
  <2>3. ConnInv'
    BY <1>3 DEF Cancel, ConnInv, NoConnectionLeak, Talking
  <2>4. WireInv'
    BY <1>3 DEF Cancel, WireInv
  <2> QED
    BY <2>1, <2>2, <2>3, <2>4
<1>4. ASSUME NEW w \in watchers, WatcherExpires(w) \/ WatcherEnds(w) PROVE IInv'
  <2>1. w.conn \in Dials
    BY <1>4 DEF TypeOK, Watcher
  <2>2. TypeOK'
    BY <1>4, <2>1 DEF WatcherExpires, WatcherEnds, TypeOK
  <2>3. UNCHANGED <<operation, shared, wire>>
    BY <1>4 DEF WatcherExpires, WatcherEnds
  <2>4. GateInv'
    BY <2>3 DEF GateInv, Owning
  <2>5. ConnInv'
    BY <2>3 DEF ConnInv, NoConnectionLeak, Talking
  <2>6. WireInv'
    BY <2>3 DEF WireInv
  <2> QED
    BY <2>2, <2>4, <2>5, <2>6
<1> QED
  BY <1>1, <1>2, <1>3, <1>4

LEMMA StepInv == IInv /\ [Next]_vars => IInv'
<1>1. ASSUME IInv, UNCHANGED vars PROVE IInv'
  <2> USE <1>1 DEF IInv, vars, operation, shared, context
  <2>1. TypeOK'
    BY DEF TypeOK
  <2>2. GateInv'
    BY DEF GateInv, Owning
  <2>3. ConnInv'
    BY DEF ConnInv, NoConnectionLeak, Talking
  <2>4. WireInv'
    BY DEF WireInv
  <2> QED
    BY <2>1, <2>2, <2>3, <2>4
<1> QED
  BY <1>1, GateSteps, ConnectStep, DialStep, SendStep, ReceiveSteps, OtherSteps DEF Next, Step

\* The inductive invariant of gate, cached connection and wire.
THEOREM ClientInvariant == Spec => []IInv
BY InitInv, StepInv, PTL DEF Spec

\* The fields of the client and its goroutines keep their types.
THEOREM ClientTypeOK == Spec => []TypeOK
<1>1. IInv => TypeOK
  BY DEF IInv
<1> QED
  BY ClientInvariant, <1>1, PTL

\* call, ReadPayload and poison: a connection goes back to the cache only with
\* nothing unread on it.
THEOREM ReuseIsClean == Spec => []ReusedConnectionClean
<1>1. IInv => ReusedConnectionClean
  BY RpcAssumption DEF IInv, GateInv, ConnInv, WireInv, Owning, ReusedConnectionClean
<1> QED
  BY ClientInvariant, <1>1, PTL

\* What an operation reads is the answer to its own request, whatever other
\* operations failed, were cancelled or were closed before it.
THEOREM ResponsesMatch == Spec => []OwnResponseOnly
<1>1. IInv => OwnResponseOnly
  <2> SUFFICES ASSUME IInv, NEW o \in Callers, pc[o] \in {"reply", "evidence"}, using[o] \in open,
                      NEW i \in 1..Len(wire[using[o]])
               PROVE  wire[using[o]][i][1] = call[o]
    BY DEF OwnResponseOnly
  <2>1. conn = using[o] /\ conn # None
    BY TalksOnCached DEF Talking
  <2>2. CASE pc[o] = "reply"
    BY <2>1, <2>2 DEF IInv, WireInv, AnswerTo
  <2>3. CASE pc[o] = "evidence"
    BY <2>1, <2>3 DEF IInv, WireInv
  <2> QED
    BY <2>2, <2>3
<1> QED
  BY ClientInvariant, <1>1, PTL

\* connection, poison and Close: at most the cached connection is open, and none
\* once the client is closed, also when a dial was under way.
THEOREM NoDescriptorLeaks == Spec => []NoConnectionLeak
<1>1. IInv => NoConnectionLeak
  BY DEF IInv, ConnInv
<1> QED
  BY ClientInvariant, <1>1, PTL
=============================================================================
