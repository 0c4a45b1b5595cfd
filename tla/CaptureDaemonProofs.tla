------------------------ MODULE CaptureDaemonProofs ------------------------
(***************************************************************************)
(* Theorems about CaptureDaemon for any number of connections, requests,   *)
(* payloads and any chunk size.                                            *)
(***************************************************************************)
EXTENDS CaptureDaemon, TLAPS

\* What the proofs use about the constants.
LEMMA RequestFields ==
  ASSUME NEW r \in Requests
  PROVE  /\ r \in [attempt : Attempts, event : Events, meta : Metas, payload : Payloads]
         /\ r.attempt \in Attempts /\ r.event \in Events
         /\ r.meta \in Metas /\ r.payload \in Payloads /\ Size[r.payload] \in Nat
         /\ PendingRow(r) \in AttemptRow
         /\ PendingRow(r) # None
         /\ PendingRow(r).event = r.event /\ PendingRow(r).meta = r.meta
         /\ PendingRow(r).size = Size[r.payload] /\ PendingRow(r).status = "pending"
<1>1. r \in [attempt : Attempts, event : Events, meta : Metas, payload : Payloads]
  BY ConstantsAssumption
<1>2. /\ r.attempt \in Attempts /\ r.event \in Events
      /\ r.meta \in Metas /\ r.payload \in Payloads
  BY <1>1
<1>3. Size[r.payload] \in Nat
  BY <1>2, ConstantsAssumption
<1>4. PendingRow(r) \in AttemptRow
  BY <1>2, <1>3 DEF PendingRow, AttemptRow, Statuses, Stages
<1>5. PendingRow(r) # None
  BY <1>4, NoneAssumption
<1>6. /\ PendingRow(r).event = r.event /\ PendingRow(r).meta = r.meta
      /\ PendingRow(r).size = Size[r.payload] /\ PendingRow(r).status = "pending"
  BY DEF PendingRow
<1>7. QED
  BY <1>1, <1>2, <1>3, <1>4, <1>5, <1>6

LEMMA NoChunks == <<>> \in Seq(Nat)
  OBVIOUS

\* Every step of a goroutine and every life-cycle step, in one place.
LEMMA NextCases ==
  ASSUME Next
  PROVE  \/ Start \/ StopAdmission \/ CloseConnections \/ FinishClose \/ Crash
         \/ \E c \in Conns :
              \/ Receive(c) \/ BeginCaptureAttempt(c) \/ ReadHeader(c) \/ AppendEvent(c)
              \/ consumeEvidence(c) \/ AbortAppend(c) \/ CommitEvent(c) \/ CompareEvent(c)
              \/ MarkCaptureIncomplete(c) \/ CompleteCaptureAttempt(c) \/ Respond(c)
  BY DEF Next, NetworkStep, DatabaseStep

\* Evidence that supports an outcome keeps supporting it while rows are only added.
LEMMA EvidenceKeeps ==
  ASSUME NEW row, row.event \in Events, completeEvidence(row),
         \A e \in Events : events[e] # None => events'[e] = events[e]
  PROVE  completeEvidence(row)'
  BY DEF completeEvidence

-----------------------------------------------------------------------------
(* The invariant holds initially and every step preserves it. *)

LEMMA InitIInv == Init => IInv
<1> SUFFICES ASSUME Init PROVE IInv
  OBVIOUS
<1> USE NoneAssumption DEF Init
<1>1. TypeOK
  BY NoChunks DEF TypeOK, Phases, PCs, Replies
<1>2. HandlerInv
  BY DEF HandlerInv, Working, Succeeding
<1>3. DbInv
  BY DEF DbInv
<1>4. CompletedHasEvidence /\ AckedIsStored
  BY DEF CompletedHasEvidence, AckedIsStored
<1>5. QED
  BY <1>1, <1>2, <1>3, <1>4 DEF IInv

\* Steps that touch neither the tables nor the history keep what is said of them.
LEMMA TablesUnchanged ==
  ASSUME IInv, UNCHANGED <<attempts, events, acked>>
  PROVE  CompletedHasEvidence' /\ AckedIsStored'
  BY DEF IInv, CompletedHasEvidence, AckedIsStored, completeEvidence

\* Life-cycle steps other than Start change no row and no goroutine, or stop them all.
LEMMA LifeCycle ==
  ASSUME IInv, StopAdmission \/ CloseConnections \/ FinishClose \/ Crash
  PROVE  IInv'
<1>1. CASE StopAdmission \/ CloseConnections \/ FinishClose
  <2>1. UNCHANGED <<attempts, events, db, pc, req, cuts, reply, acked>> /\ phase' \in Phases
    BY <1>1 DEF StopAdmission, CloseConnections, FinishClose, Phases
  <2>2. TypeOK'
    BY <2>1 DEF IInv, TypeOK
  <2>3. HandlerInv' /\ DbInv'
    BY <1>1, <2>1 DEF IInv, HandlerInv, DbInv, Working, Succeeding, Announced, Holds,
                     StopAdmission, CloseConnections, FinishClose
  <2>4. QED
    BY <2>1, <2>2, <2>3, TablesUnchanged DEF IInv
<1>2. CASE Crash
  <2>1. TypeOK'
    BY <1>2, NoChunks DEF IInv, TypeOK, Crash, Phases, PCs, Replies
  <2>2. HandlerInv'
    BY <1>2 DEF Crash, HandlerInv, Working, Succeeding
  <2>3. DbInv'
    BY <1>2, NoneAssumption DEF Crash, DbInv
  <2>4. QED
    BY <1>2, <2>1, <2>2, <2>3, TablesUnchanged DEF IInv, Crash
<1>3. QED
  BY <1>1, <1>2

\* Recovery completes only rows whose evidence is there, and no goroutine runs yet.
LEMMA StartStep ==
  ASSUME IInv, Start
  PROVE  IInv'
<1>1. TypeOK'
  <2>1. \A a \in Attempts : Recovered(attempts[a]) \in AttemptRow \cup {None}
    BY DEF IInv, TypeOK, Recovered, AttemptRow, Statuses, Stages
  <2>2. QED
    BY <2>1 DEF IInv, TypeOK, Start, Phases
<1>2. HandlerInv' /\ DbInv'
  BY DEF IInv, HandlerInv, DbInv, Start, Working, Succeeding
<1>3. ASSUME NEW a \in Attempts, attempts'[a] # None, attempts'[a].status = "completed"
      PROVE  completeEvidence(attempts[a])'
  <2>1. attempts'[a] = Recovered(attempts[a])
    BY DEF IInv, TypeOK, Start
  <2>2. attempts[a] \in AttemptRow
    BY <1>3, <2>1 DEF IInv, TypeOK, Recovered
  <2>3. /\ attempts'[a].event = attempts[a].event
        /\ attempts'[a].meta = attempts[a].meta
        /\ attempts'[a].size = attempts[a].size
        /\ completeEvidence(attempts[a])
    BY <1>3, <2>1, <2>2 DEF IInv, CompletedHasEvidence, Recovered, AttemptRow
  <2>4. QED
    BY <2>3 DEF Start, completeEvidence
<1>4. AckedIsStored'
  <2>1. ASSUME NEW r \in acked
        PROVE  attempts'[r.attempt] = attempts[r.attempt]
    BY <2>1, RequestFields DEF IInv, TypeOK, AckedIsStored, Start, Recovered
  <2>2. QED
    BY <2>1 DEF IInv, AckedIsStored, Start
<1>5. QED
  BY <1>1, <1>2, <1>3, <1>4 DEF IInv, CompletedHasEvidence

-----------------------------------------------------------------------------
(* Steps that change no table. *)

LEMMA ReceiveStep ==
  ASSUME IInv, NEW c \in Conns, Receive(c)
  PROVE  IInv'
<1> USE DEF Receive, Goto
<1>1. TypeOK'
  BY DEF IInv, TypeOK, PCs
<1>2. HandlerInv'
  BY DEF IInv, TypeOK, HandlerInv, Working, Succeeding, Announced, Holds, Network
<1>3. DbInv'
  BY DEF IInv, TypeOK, DbInv
<1>4. QED
  BY <1>1, <1>2, <1>3, TablesUnchanged DEF IInv

LEMMA ReadHeaderStep ==
  ASSUME IInv, NEW c \in Conns, ReadHeader(c)
  PROVE  IInv'
<1> USE DEF ReadHeader, Goto, Answer
<1>1. TypeOK'
  BY DEF IInv, TypeOK, PCs, Replies
<1>2. HandlerInv'
  BY DEF IInv, TypeOK, HandlerInv, Working, Succeeding, Announced, Holds
<1>3. DbInv'
  BY DEF IInv, TypeOK, DbInv
<1>4. QED
  BY <1>1, <1>2, <1>3, TablesUnchanged DEF IInv

LEMMA AppendEventStep ==
  ASSUME IInv, NEW c \in Conns, AppendEvent(c)
  PROVE  IInv'
<1> USE DEF AppendEvent, Goto, Answer
<1>1. TypeOK'
  BY NoChunks, ZenonT(30) DEF IInv, TypeOK, PCs, Replies
<1>2. HandlerInv'
  BY DEF IInv, TypeOK, HandlerInv, Working, Succeeding, Announced, Holds
<1>3. DbInv'
  BY NoneAssumption DEF IInv, TypeOK, DbInv
<1>4. QED
  BY <1>1, <1>2, <1>3, TablesUnchanged DEF IInv

LEMMA ConsumedNat ==
  ASSUME NEW ends \in Seq(Nat)
  PROVE  Consumed(ends) \in Nat
  BY DEF Consumed

\* A Read asks for a positive number of bytes and returns at most that.
LEMMA ReadSizesNat ==
  ASSUME NEW left \in Nat, left > 0, NEW n \in ReadSizes(Min2(ChunkSize, left))
  PROVE  n \in Nat /\ n >= 1 /\ n <= left /\ n <= ChunkSize
  BY ConstantsAssumption DEF ReadSizes, Min2

LEMMA ConsumeStep ==
  ASSUME IInv, NEW c \in Conns, consumeEvidence(c)
  PROVE  IInv'
<1> DEFINE done == Consumed(cuts[c])
           left == Size[req[c].payload] - done
<1>1. PICK n \in ReadSizes(Min2(ChunkSize, left)) :
        cuts' = [cuts EXCEPT ![c] =
                   IF pc[c] = "stream" THEN Append(@, done + n) ELSE <<done + n>>]
  BY DEF consumeEvidence
<1>2. req[c] \in Requests /\ left > 0
  BY DEF consumeEvidence, IInv, HandlerInv
<1>3. done \in Nat /\ left \in Nat
  BY <1>2, ConsumedNat, RequestFields DEF IInv, TypeOK
<1>4. done + n \in Nat
  BY <1>2, <1>3, ReadSizesNat
<1>5. TypeOK'
  BY <1>1, <1>4 DEF IInv, TypeOK, consumeEvidence
<1>6. HandlerInv' /\ DbInv'
  BY DEF IInv, HandlerInv, DbInv, Working, Succeeding, Announced, Holds, consumeEvidence
<1>7. QED
  BY <1>5, <1>6, TablesUnchanged DEF IInv, consumeEvidence

LEMMA AbortAppendStep ==
  ASSUME IInv, NEW c \in Conns, AbortAppend(c)
  PROVE  IInv'
<1> USE DEF AbortAppend, EndTransaction, Goto, Answer
<1>1. TypeOK'
  BY NoChunks DEF IInv, TypeOK, PCs, Replies
<1>2. HandlerInv'
  BY DEF IInv, TypeOK, HandlerInv, Working, Succeeding, Announced, Holds
<1>3. DbInv'
  BY NoneAssumption DEF IInv, TypeOK, DbInv
<1>4. QED
  BY <1>1, <1>2, <1>3, TablesUnchanged DEF IInv

LEMMA CompareEventStep ==
  ASSUME IInv, NEW c \in Conns, CompareEvent(c)
  PROVE  IInv'
<1> USE DEF CompareEvent, EndTransaction, Goto, Answer
<1>1. TypeOK'
  BY NoChunks DEF IInv, TypeOK, PCs, Replies
<1>2. HandlerInv'
  BY DEF IInv, TypeOK, HandlerInv, DbInv, Working, Succeeding, Announced, Holds
<1>3. DbInv'
  BY NoneAssumption DEF IInv, TypeOK, DbInv
<1>4. QED
  BY <1>1, <1>2, <1>3, TablesUnchanged DEF IInv

-----------------------------------------------------------------------------
(* Steps that write a table or the history. *)

\* A row is inserted only under a fresh identifier, so no outcome changes.
LEMMA BeginStep ==
  ASSUME IInv, NEW c \in Conns, BeginCaptureAttempt(c)
  PROVE  IInv'
<1> DEFINE r == req[c]
<1>1. r \in Requests
  BY DEF IInv, HandlerInv, BeginCaptureAttempt
<1>2. CASE /\ attempts[r.attempt] = None
           /\ attempts' = [attempts EXCEPT ![r.attempt] = PendingRow(r)]
           /\ Goto(c, "header")
           /\ UNCHANGED reply
  <2> USE <1>1, <1>2, RequestFields DEF Goto, BeginCaptureAttempt
  <2>1. TypeOK'
    BY DEF IInv, TypeOK, PCs
  <2>2. \A a \in Attempts : attempts[a] # None => attempts'[a] = attempts[a]
    BY DEF IInv, TypeOK
  <2>3. /\ attempts'[r.attempt] # None
        /\ attempts'[r.attempt].event = r.event
        /\ attempts'[r.attempt].meta = r.meta
        /\ attempts'[r.attempt].size = Size[r.payload]
        /\ attempts'[r.attempt].status = "pending"
    BY DEF IInv, TypeOK
  <2>4. HandlerInv'
    <3>1. ASSUME NEW d \in Conns, d # c
          PROVE  /\ pc'[d] = pc[d] /\ req'[d] = req[d] /\ reply'[d] = reply[d]
      BY <3>1 DEF IInv, TypeOK
    <3>2. pc'[c] = "header" /\ req'[c] = r /\ reply'[c] = reply[c] /\ phase # "down"
      BY DEF IInv, TypeOK, HandlerInv
    <3>3. ASSUME NEW d \in Conns, pc[d] # "idle"
          PROVE  req[d].attempt \in Attempts
      BY <3>3 DEF IInv, HandlerInv
    <3>4. QED
      BY <2>2, <2>3, <3>1, <3>2, <3>3 DEF IInv, HandlerInv, Working, Succeeding, Announced, Holds
  <2>5. DbInv'
    BY DEF IInv, TypeOK, DbInv
  <2>6. CompletedHasEvidence'
    BY <2>2, <2>3 DEF IInv, TypeOK, CompletedHasEvidence, completeEvidence
  <2>7. AckedIsStored'
    BY <2>2 DEF IInv, TypeOK, AckedIsStored
  <2>8. QED
    BY <2>1, <2>4, <2>5, <2>6, <2>7 DEF IInv
<1>3. CASE /\ attempts[r.attempt] = PendingRow(r)
           /\ Goto(c, "header")
           /\ UNCHANGED <<attempts, reply>>
  <2> USE <1>1, <1>3, RequestFields DEF Goto, BeginCaptureAttempt
  <2>1. TypeOK'
    BY DEF IInv, TypeOK, PCs
  <2>2. HandlerInv'
    <3>1. Announced(r)
      BY ONLY <1>1, <1>3, RequestFields DEF Announced
    <3>2. /\ pc[c] = "begin" /\ pc' = [pc EXCEPT ![c] = "header"] /\ phase # "down"
          /\ UNCHANGED <<phase, attempts, events, req, reply>>
      BY DEF IInv, HandlerInv
    <3>3. HandlerInv /\ pc \in [Conns -> PCs]
      BY DEF IInv, TypeOK
    <3>4. QED
      <4>1. ASSUME NEW d \in Conns, d # c
            PROVE  pc'[d] = pc[d]
        BY ONLY <3>2, <3>3, <4>1
      <4>2. pc'[c] = "header"
        BY ONLY <3>2, <3>3, c \in Conns
      <4>3. QED
        BY ONLY <1>1, <3>1, <3>2, <3>3, <4>1, <4>2, c \in Conns
        DEF HandlerInv, Working, Succeeding, Announced, Holds
  <2>3. DbInv'
    BY DEF IInv, TypeOK, DbInv
  <2>4. QED
    BY <2>1, <2>2, <2>3, TablesUnchanged DEF IInv
<1>4. CASE /\ Answer(c, "reply", "conflict") \/ Answer(c, "reply", "internal")
           /\ UNCHANGED attempts
  <2> USE <1>1, <1>4 DEF Goto, Answer, BeginCaptureAttempt
  <2>1. TypeOK'
    BY DEF IInv, TypeOK, PCs, Replies
  <2>2. HandlerInv'
    BY DEF IInv, TypeOK, HandlerInv, Working, Succeeding, Announced, Holds
  <2>3. DbInv'
    BY DEF IInv, TypeOK, DbInv
  <2>4. QED
    BY <2>1, <2>2, <2>3, TablesUnchanged DEF IInv
<1>5. QED
  BY <1>2, <1>3, <1>4 DEF BeginCaptureAttempt

\* The committing goroutine owns the database and found no row under the event, so
\* the commit replaces nothing.
LEMMA CommitEventStep ==
  ASSUME IInv, NEW c \in Conns, CommitEvent(c)
  PROVE  IInv'
<1> DEFINE r == req[c]
           row == [meta |-> r.meta, payload |-> r.payload, cuts |-> cuts[c]]
<1>1. r \in Requests
  BY DEF IInv, HandlerInv, CommitEvent
<1>2. row \in EventRow /\ row # None
  BY <1>1, RequestFields, NoneAssumption DEF IInv, TypeOK, EventRow
<1>3. events[r.event] = None
  BY DEF IInv, DbInv, CommitEvent
<1>4. events' = [events EXCEPT ![r.event] = row]
  BY DEF CommitEvent
<1>5. \A e \in Events : events[e] # None => events'[e] = events[e]
  BY <1>3, <1>4 DEF IInv, TypeOK
<1>6. events'[r.event] = row
  BY <1>1, <1>4, RequestFields DEF IInv, TypeOK
<1> USE DEF CommitEvent, EndTransaction, Goto
<1>7. TypeOK'
  BY <1>2, <1>4, NoChunks DEF IInv, TypeOK, PCs
<1>8. HandlerInv'
  <2>1. ASSUME NEW d \in Conns, pc[d] # "idle"
        PROVE  req[d].event \in Events
    BY <2>1, RequestFields DEF IInv, HandlerInv
  <2>2. QED
    BY <1>2, <1>5, <1>6, <2>1 DEF IInv, TypeOK, HandlerInv, Working, Succeeding, Announced, Holds
<1>9. DbInv'
  BY NoneAssumption DEF IInv, TypeOK, DbInv
<1>10. CompletedHasEvidence'
  <2>1. ASSUME NEW a \in Attempts, attempts[a] # None, attempts[a].status = "completed"
        PROVE  completeEvidence(attempts[a])'
    <3>1. attempts[a].event \in Events /\ completeEvidence(attempts[a])
      BY <2>1 DEF IInv, TypeOK, AttemptRow, CompletedHasEvidence
    <3>2. attempts' = attempts
      OBVIOUS
    <3>3. QED
      BY <1>5, <3>1, <3>2 DEF completeEvidence
  <2>2. QED
    BY <2>1 DEF CompletedHasEvidence
<1>11. AckedIsStored'
  BY <1>5, RequestFields DEF IInv, TypeOK, AckedIsStored
<1>12. QED
  BY <1>7, <1>8, <1>9, <1>10, <1>11 DEF IInv

\* Marking changes one pending row into an incomplete one: no outcome is taken back.
LEMMA MarkStep ==
  ASSUME IInv, NEW c \in Conns, MarkCaptureIncomplete(c)
  PROVE  IInv'
<1> DEFINE a == req[c].attempt
<1>1. req[c] \in Requests /\ a \in Attempts /\ attempts[a] \in AttemptRow
  BY RequestFields
  DEF IInv, TypeOK, HandlerInv, Working, Announced, MarkCaptureIncomplete
<1>2. CASE UNCHANGED attempts
  <2> USE <1>2 DEF MarkCaptureIncomplete, Goto
  <2>1. TypeOK'
    BY DEF IInv, TypeOK, PCs
  <2>2. HandlerInv'
    BY DEF IInv, TypeOK, HandlerInv, Working, Succeeding, Announced, Holds
  <2>3. DbInv'
    BY DEF IInv, TypeOK, DbInv
  <2>4. QED
    BY <2>1, <2>2, <2>3, TablesUnchanged DEF IInv
<1>3. CASE /\ attempts[a].status = "pending"
           /\ attempts' = [attempts EXCEPT ![a].status = "incomplete",
                                           ![a].stage = FailureStage(c)]
  <2> DEFINE row == [attempts[a] EXCEPT !.status = "incomplete", !.stage = FailureStage(c)]
  <2>1. attempts' = [attempts EXCEPT ![a] = row]
    BY <1>1, <1>3 DEF IInv, TypeOK
  <2>2. /\ row \in AttemptRow /\ row.status = "incomplete"
        /\ row.event = attempts[a].event
        /\ row.meta = attempts[a].meta
        /\ row.size = attempts[a].size
    BY <1>1 DEF AttemptRow, Statuses, Stages, FailureStage
  <2>3. row # None
    BY <2>2, NoneAssumption
  <2> HIDE DEF row
  <2>4. attempts' \in [Attempts -> AttemptRow \cup {None}] /\ attempts'[a] = row
    BY <1>1, <2>1, <2>2 DEF IInv, TypeOK
  <2>5. \A b \in Attempts : b # a => attempts'[b] = attempts[b]
    BY <1>1, <2>1 DEF IInv, TypeOK
  <2>6. /\ pc' = [pc EXCEPT ![c] = "reply"] /\ pc[c] = "mark" /\ db = None
        /\ UNCHANGED <<phase, events, db, req, cuts, reply, acked>>
    BY DEF MarkCaptureIncomplete, Goto
  <2>7. TypeOK'
    BY <2>4, <2>6 DEF IInv, TypeOK, PCs
  <2>8. HandlerInv'
    <3>1. ASSUME NEW r \in Requests, Announced(r)
          PROVE  Announced(r)'
      BY <1>1, <2>2, <2>3, <2>4, <2>5, <3>1, RequestFields DEF Announced
    <3>2. ASSUME NEW d \in Conns, pc[d] # "idle" PROVE req[d] \in Requests /\ req[d].attempt \in Attempts
      BY <3>2, RequestFields DEF IInv, HandlerInv
    <3>3. ASSUME NEW d \in Conns, Working(d)' \/ Succeeding(d)'
          PROVE  d # c /\ (Working(d) \/ Succeeding(d)) /\ req'[d] = req[d]
      BY <2>6, <3>3 DEF IInv, TypeOK, HandlerInv, Working, Succeeding
    <3>4. \A d \in Conns : Working(d)' \/ Succeeding(d)' => Announced(req[d])'
      <4> SUFFICES ASSUME NEW d \in Conns, Working(d)' \/ Succeeding(d)'
                   PROVE  Announced(req[d])'
        OBVIOUS
      <4>1. Announced(req[d]) /\ req[d] \in Requests /\ req' = req
        BY <2>6, <3>2, <3>3 DEF IInv, HandlerInv, Working, Succeeding
      <4>2. QED
        BY <3>1, <4>1
    <3>5. \A d \in Conns : Succeeding(d)' => attempts'[req'[d].attempt].status = "completed"
      BY <1>3, <2>5, <2>6, <3>2, <3>3 DEF IInv, TypeOK, HandlerInv, Working, Succeeding
    <3>6. QED
      BY <2>6, <3>2, <3>4, <3>5 DEF IInv, TypeOK, HandlerInv, Working, Succeeding, Holds
  <2>9. DbInv'
    BY <2>6 DEF IInv, TypeOK, DbInv
  <2>10. CompletedHasEvidence'
    BY <2>2, <2>4, <2>5, <2>6 DEF IInv, CompletedHasEvidence, completeEvidence
  <2>11. AckedIsStored'
    BY <1>3, <2>5, <2>6, RequestFields DEF IInv, TypeOK, AckedIsStored
  <2>12. QED
    BY <2>7, <2>8, <2>9, <2>10, <2>11 DEF IInv
<1>4. QED
  BY <1>2, <1>3 DEF MarkCaptureIncomplete

\* Completing checks the evidence, and the goroutine holds bytes equal to the stored
\* ones: this is where the acknowledgement gets its meaning.
LEMMA CompleteStep ==
  ASSUME IInv, NEW c \in Conns, CompleteCaptureAttempt(c)
  PROVE  IInv'
<1> DEFINE a == req[c].attempt
<1>1. req[c] \in Requests /\ a \in Attempts /\ attempts[a] \in AttemptRow
  <2>1. pc[c] = "complete"
    BY DEF CompleteCaptureAttempt
  <2>2. req[c] \in Requests /\ Announced(req[c])
    BY <2>1 DEF IInv, HandlerInv, Working
  <2>3. QED
    BY <2>2, RequestFields DEF IInv, TypeOK, Announced
<1>2. CASE /\ \/ attempts[a].status = "completed" /\ Answer(c, "reply", "ok")
              \/ Answer(c, "reply", "internal")
           /\ UNCHANGED attempts
  <2> USE <1>1, <1>2 DEF CompleteCaptureAttempt, Answer, Goto
  <2>1. TypeOK'
    BY DEF IInv, TypeOK, PCs, Replies
  <2>2. HandlerInv'
    <3>1. /\ pc' = [pc EXCEPT ![c] = "reply"] /\ pc[c] = "complete"
          /\ UNCHANGED <<phase, attempts, events, req>>
          /\ \/ reply' = [reply EXCEPT ![c] = "ok"] /\ attempts[a].status = "completed"
             \/ reply' = [reply EXCEPT ![c] = "internal"]
      OBVIOUS
    <3>2. HandlerInv /\ pc \in [Conns -> PCs] /\ reply \in [Conns -> Replies]
      BY DEF IInv, TypeOK
    <3>3. \A d \in Conns : d # c => pc'[d] = pc[d] /\ reply'[d] = reply[d]
      BY ONLY <3>1, <3>2
    <3>4. /\ pc'[c] = "reply"
          /\ reply'[c] = "ok" => attempts[a].status = "completed"
      BY ONLY <3>1, <3>2, c \in Conns
    <3>5. QED
      BY ONLY <1>1, <3>1, <3>2, <3>3, <3>4, c \in Conns
      DEF HandlerInv, Working, Succeeding, Announced, Holds
  <2>3. DbInv'
    BY DEF IInv, TypeOK, DbInv
  <2>4. QED
    BY <2>1, <2>2, <2>3, TablesUnchanged DEF IInv
<1>3. CASE /\ attempts[a].status = "pending"
           /\ completeEvidence(attempts[a])
           /\ attempts' = [attempts EXCEPT ![a].status = "completed", ![a].stage = ""]
           /\ Answer(c, "reply", "ok")
  <2> DEFINE row == [attempts[a] EXCEPT !.status = "completed", !.stage = ""]
  <2>1. attempts' = [attempts EXCEPT ![a] = row]
    BY <1>1, <1>3 DEF IInv, TypeOK
  <2>2. /\ row \in AttemptRow /\ row.status = "completed"
        /\ row.event = attempts[a].event
        /\ row.meta = attempts[a].meta
        /\ row.size = attempts[a].size
    BY <1>1 DEF AttemptRow, Statuses, Stages
  <2>3. row # None
    BY <2>2, NoneAssumption
  <2> HIDE DEF row
  <2>4. attempts' \in [Attempts -> AttemptRow \cup {None}] /\ attempts'[a] = row
    BY <1>1, <2>1, <2>2 DEF IInv, TypeOK
  <2>5. \A b \in Attempts : b # a => attempts'[b] = attempts[b]
    BY <1>1, <2>1 DEF IInv, TypeOK
  <2>6. /\ pc' = [pc EXCEPT ![c] = "reply"] /\ pc[c] = "complete" /\ db = None
        /\ reply' = [reply EXCEPT ![c] = "ok"]
        /\ UNCHANGED <<phase, events, db, req, cuts, acked>>
    BY <1>3 DEF CompleteCaptureAttempt, Answer, Goto
  <2>7. TypeOK'
    BY <2>4, <2>6 DEF IInv, TypeOK, PCs, Replies
  <2>8. HandlerInv'
    <3>1. ASSUME NEW r \in Requests, Announced(r)
          PROVE  Announced(r)'
      BY <1>1, <2>2, <2>3, <2>4, <2>5, <3>1, RequestFields DEF Announced
    <3>2. ASSUME NEW d \in Conns, pc[d] # "idle" PROVE req[d] \in Requests /\ req[d].attempt \in Attempts
      BY <3>2, RequestFields DEF IInv, HandlerInv
    <3>3. ASSUME NEW d \in Conns, Working(d)' \/ Succeeding(d)'
          PROVE  (Working(d) \/ Succeeding(d)) /\ req'[d] = req[d]
      BY <2>6, <3>3 DEF IInv, TypeOK, HandlerInv, Working, Succeeding
    <3>4. \A d \in Conns : Working(d)' \/ Succeeding(d)' => Announced(req[d])'
      <4> SUFFICES ASSUME NEW d \in Conns, Working(d)' \/ Succeeding(d)'
                   PROVE  Announced(req[d])'
        OBVIOUS
      <4>1. Announced(req[d]) /\ req[d] \in Requests /\ req' = req
        BY <2>6, <3>2, <3>3 DEF IInv, HandlerInv, Working, Succeeding
      <4>2. QED
        BY <3>1, <4>1
    <3>5. \A d \in Conns : Succeeding(d)' => attempts'[req'[d].attempt].status = "completed"
      BY <1>1, <2>2, <2>4, <2>5, <2>6, <3>2, <3>3, ZenonT(30) DEF IInv, TypeOK, HandlerInv, Working, Succeeding
    <3>6. QED
      BY <2>6, <3>2, <3>4, <3>5 DEF IInv, TypeOK, HandlerInv, Working, Succeeding, Holds
  <2>9. DbInv'
    BY <2>6 DEF IInv, TypeOK, DbInv
  <2>10. CompletedHasEvidence'
    BY <1>3, <2>2, <2>4, <2>5, <2>6 DEF IInv, CompletedHasEvidence, completeEvidence
  <2>11. AckedIsStored'
    BY <1>3, <2>5, <2>6, RequestFields DEF IInv, TypeOK, AckedIsStored
  <2>12. QED
    BY <2>7, <2>8, <2>9, <2>10, <2>11 DEF IInv
<1>4. QED
  BY <1>2, <1>3 DEF CompleteCaptureAttempt

LEMMA RespondStep ==
  ASSUME IInv, NEW c \in Conns, Respond(c)
  PROVE  IInv'
<1> USE DEF Respond, Goto
<1>1. req[c] \in Requests
  BY DEF IInv, HandlerInv
<1>2. TypeOK'
  BY <1>1 DEF IInv, TypeOK, PCs, Replies
<1>3. HandlerInv'
  BY ZenonT(30) DEF IInv, TypeOK, HandlerInv, Working, Succeeding, Announced, Holds
<1>4. DbInv'
  BY DEF IInv, TypeOK, DbInv
<1>5. CompletedHasEvidence'
  BY DEF IInv, CompletedHasEvidence, completeEvidence
<1>6. AckedIsStored'
  <2>1. ASSUME reply[c] = "ok"
        PROVE  /\ Announced(req[c]) /\ Holds(req[c])
               /\ attempts[req[c].attempt].status = "completed"
               /\ completeEvidence(attempts[req[c].attempt])
    BY <1>1, <2>1, RequestFields
    DEF IInv, HandlerInv, Succeeding, CompletedHasEvidence, Announced
  <2>2. QED
    BY <2>1 DEF IInv, AckedIsStored, Announced, Holds, completeEvidence
<1>7. QED
  BY <1>2, <1>3, <1>4, <1>5, <1>6 DEF IInv

\* One step of the daemon preserves the invariant.
LEMMA StepIInv == IInv /\ [Next]_vars => IInv'
<1> SUFFICES ASSUME IInv, [Next]_vars PROVE IInv'
  OBVIOUS
<1>1. CASE UNCHANGED vars
  <2>1. TypeOK' /\ HandlerInv' /\ DbInv'
    BY <1>1 DEF vars, IInv, TypeOK, HandlerInv, DbInv, Working, Succeeding, Announced, Holds
  <2>2. QED
    BY <1>1, <2>1, TablesUnchanged DEF IInv, vars
<1>2. CASE Next
  BY <1>2, NextCases, StartStep, LifeCycle, ReceiveStep, BeginStep, ReadHeaderStep,
     AppendEventStep, ConsumeStep, AbortAppendStep, CommitEventStep, CompareEventStep,
     MarkStep, CompleteStep, RespondStep
<1>3. QED
  BY <1>1, <1>2

\* The daemon's invariant, for every number of connections, requests and chunks.
THEOREM DaemonInvariant == Spec => []IInv
  BY InitIInv, StepIInv, PTL DEF Spec

\* Every reachable state is well formed.
THEOREM DaemonTypeOK == Spec => []TypeOK
  BY DaemonInvariant, PTL DEF IInv

\* No attempt is "completed" without the readable evidence it announced.
THEOREM CompletedSound == Spec => []CompletedHasEvidence
  BY DaemonInvariant, PTL DEF IInv

\* An acknowledged capture stays stored, readable and unchanged through every
\* interleaving, crash, restart and retry.
THEOREM AcknowledgementSound == Spec => []AckedIsStored
  BY DaemonInvariant, PTL DEF IInv

-----------------------------------------------------------------------------
(* What a step does to the two tables. *)

\* Only CommitEvent writes the event tables, and where there was no row.
LEMMA EventsStep ==
  ASSUME IInv, [Next]_vars
  PROVE  \A e \in Events : events[e] # None => events'[e] = events[e]
<1>1. CASE \E c \in Conns : CommitEvent(c)
  <2>1. PICK c \in Conns : CommitEvent(c)
    BY <1>1
  <2>2. events[req[c].event] = None
    BY <2>1 DEF IInv, DbInv, CommitEvent
  <2>3. QED
    BY <2>1, <2>2 DEF IInv, TypeOK, CommitEvent
<1>2. CASE ~ \E c \in Conns : CommitEvent(c)
  <2>1. CASE UNCHANGED vars
    BY <2>1 DEF vars
  <2>2. CASE Next
    BY <1>2, <2>2, NextCases
    DEF Start, StopAdmission, CloseConnections, FinishClose, Crash, Receive,
        BeginCaptureAttempt, ReadHeader, AppendEvent, consumeEvidence, AbortAppend,
        CompareEvent, MarkCaptureIncomplete, CompleteCaptureAttempt, Respond
  <2>3. QED
    BY <2>1, <2>2
<1>3. QED
  BY <1>1, <1>2

\* The three ways the attempt table changes.
LEMMA AttemptsStep ==
  ASSUME IInv, [Next]_vars
  PROVE  \/ UNCHANGED attempts
         \/ \E c \in Conns : BeginCaptureAttempt(c) \/ MarkCaptureIncomplete(c) \/ CompleteCaptureAttempt(c)
         \/ Start
<1>1. CASE UNCHANGED vars
  BY <1>1 DEF vars
<1>2. CASE Next
  BY <1>2, NextCases
  DEF StopAdmission, CloseConnections, FinishClose, Crash, Receive,
      ReadHeader, AppendEvent, consumeEvidence, AbortAppend,
      CommitEvent, CompareEvent, Respond
<1>3. QED
  BY <1>1, <1>2

\* What one row may become.
Evolves(old, new) ==
  /\ new # None
  /\ old.status # "pending" => new = old
  /\ new.event = old.event /\ new.meta = old.meta /\ new.size = old.size

\* No step removes an attempt, changes what it announced or takes its outcome back.
LEMMA OutcomeStep ==
  ASSUME IInv, [Next]_vars, NEW b \in Attempts, attempts[b] # None
  PROVE  Evolves(attempts[b], attempts'[b])
<1>1. attempts[b] \in AttemptRow
  BY DEF IInv, TypeOK
<1>2. CASE UNCHANGED attempts
  BY <1>2 DEF Evolves
<1>3. ASSUME NEW c \in Conns, BeginCaptureAttempt(c)
      PROVE  attempts'[b] = attempts[b]
  BY <1>3 DEF BeginCaptureAttempt, IInv, TypeOK
<1>4. ASSUME NEW c \in Conns, MarkCaptureIncomplete(c)
      PROVE  Evolves(attempts[b], attempts'[b])
  <2> DEFINE a == req[c].attempt
             row == [attempts[a] EXCEPT !.status = "incomplete", !.stage = FailureStage(c)]
  <2>1. CASE attempts' = attempts
    BY <2>1 DEF Evolves
  <2>2. CASE attempts[a].status = "pending" /\ attempts' = [attempts EXCEPT ![a].status = "incomplete",
                                                                           ![a].stage = FailureStage(c)]
    <3>1. attempts'[b] = IF b = a THEN row ELSE attempts[b]
      BY <2>2 DEF IInv, TypeOK
    <3>2. CASE b = a
      <4>1. row \in AttemptRow
        BY <1>1, <3>2 DEF AttemptRow, Statuses, Stages, FailureStage
      <4>2. row # None /\ row.event = attempts[a].event /\ row.meta = attempts[a].meta
            /\ row.size = attempts[a].size
        BY <1>1, <3>2, <4>1, NoneAssumption DEF AttemptRow
      <4>3. QED
        BY <2>2, <3>1, <3>2, <4>2 DEF Evolves
    <3>3. QED
      BY <3>1, <3>2 DEF Evolves
  <2>3. QED
    BY <1>4, <2>1, <2>2 DEF MarkCaptureIncomplete
<1>5. ASSUME NEW c \in Conns, CompleteCaptureAttempt(c)
      PROVE  Evolves(attempts[b], attempts'[b])
  <2> DEFINE a == req[c].attempt
             row == [attempts[a] EXCEPT !.status = "completed", !.stage = ""]
  <2>1. CASE attempts' = attempts
    BY <2>1 DEF Evolves
  <2>2. CASE attempts[a].status = "pending" /\ attempts' = [attempts EXCEPT ![a].status = "completed", ![a].stage = ""]
    <3>1. attempts'[b] = IF b = a THEN row ELSE attempts[b]
      BY <2>2 DEF IInv, TypeOK
    <3>2. CASE b = a
      <4>1. row \in AttemptRow
        BY <1>1, <3>2 DEF AttemptRow, Statuses, Stages
      <4>2. row # None /\ row.event = attempts[a].event /\ row.meta = attempts[a].meta
            /\ row.size = attempts[a].size
        BY <1>1, <3>2, <4>1, NoneAssumption DEF AttemptRow
      <4>3. QED
        BY <2>2, <3>1, <3>2, <4>2 DEF Evolves
    <3>3. QED
      BY <3>1, <3>2 DEF Evolves
  <2>3. QED
    BY <1>5, <2>1, <2>2 DEF CompleteCaptureAttempt
<1>6. ASSUME Start
      PROVE  Evolves(attempts[b], attempts'[b])
  <2>1. attempts'[b] = Recovered(attempts[b])
    BY <1>6 DEF Start
  <2>2. Recovered(attempts[b]) \in AttemptRow
    BY <1>1, NoneAssumption DEF Recovered, AttemptRow, Statuses, Stages
  <2>3. /\ attempts[b].status # "pending" => Recovered(attempts[b]) = attempts[b]
        /\ Recovered(attempts[b]).event = attempts[b].event
        /\ Recovered(attempts[b]).meta = attempts[b].meta
        /\ Recovered(attempts[b]).size = attempts[b].size
    BY <1>1 DEF Recovered, AttemptRow
  <2>4. QED
    BY <2>1, <2>2, <2>3, NoneAssumption DEF Evolves
<1>7. QED
  BY <1>2, <1>3, <1>4, <1>5, <1>6, AttemptsStep DEF Evolves

-----------------------------------------------------------------------------
\* Committed evidence is never replaced, however many connections stream the event.
THEOREM EvidenceWrittenOnce == Spec => EvidenceImmutable
<1>1. IInv /\ [Next]_vars => [\A e \in Events : events[e] # None => events'[e] = events[e]]_vars
  BY EventsStep
<1>2. QED
  BY <1>1, DaemonInvariant, PTL DEF Spec, EvidenceImmutable

\* The outcome of a capture attempt is decided once and never changes, restarts included.
THEOREM OutcomeDecidedOnce == Spec => OutcomeFinal
<1>1. IInv /\ [Next]_vars =>
        [\A a \in Attempts : attempts[a] # None =>
           /\ attempts'[a] # None
           /\ attempts[a].status # "pending" => attempts'[a] = attempts[a]
           /\ attempts'[a].event = attempts[a].event
           /\ attempts'[a].meta = attempts[a].meta
           /\ attempts'[a].size = attempts[a].size]_vars
  BY OutcomeStep DEF Evolves
<1>2. QED
  BY <1>1, DaemonInvariant, PTL DEF Spec, OutcomeFinal

-----------------------------------------------------------------------------
(* Pending attempts.  As long as the database does not fail, an attempt that *)
(* stays pending while the daemon is up is being worked on or was refused.   *)

Pending(a) == attempts[a] # None /\ attempts[a].status = "pending"
Served(a)  == \E c \in Conns : req[c] # None /\ req[c].attempt = a /\ Working(c)
Refused(a) == events[attempts[a].event] # None /\ ~completeEvidence(attempts[a])

LEMMA StrandedMeans ==
  StrandedOnlyByRefusal <=> (phase # "down" => \A a \in Attempts : Pending(a) => Served(a) \/ Refused(a))
  BY DEF StrandedOnlyByRefusal, Pending, Served, Refused, Working

\* A refusal is final: the row and the event it names stay as they are.
LEMMA RefusedStays ==
  ASSUME IInv, [Next]_vars, NEW a \in Attempts, Pending(a), Refused(a), attempts'[a] = attempts[a]
  PROVE  Refused(a)'
<1>1. attempts[a].event \in Events
  BY DEF IInv, TypeOK, AttemptRow, Pending
<1>2. events'[attempts[a].event] = events[attempts[a].event]
  BY <1>1, EventsStep DEF Refused
<1> QED
  BY <1>2 DEF Refused, completeEvidence

\* What a step of goroutine c makes of the attempt it works on, and of the others.
LEMMA AttendedStep ==
  ASSUME StoreFaults = FALSE, IInv, NEW c \in Conns, NEW a \in Attempts, Pending(a)',
         \/ Receive(c) \/ BeginCaptureAttempt(c) \/ ReadHeader(c) \/ AppendEvent(c)
         \/ consumeEvidence(c) \/ AbortAppend(c) \/ CommitEvent(c) \/ CompareEvent(c)
         \/ MarkCaptureIncomplete(c) \/ CompleteCaptureAttempt(c) \/ Respond(c)
  PROVE  /\ \A d \in Conns \ {c} : pc'[d] = pc[d] /\ req'[d] = req[d]
         /\ phase' = phase /\ pc[c] \in PCs
         /\ \/ Pending(a) /\ attempts'[a] = attempts[a]
            \/ req'[c] # None /\ req'[c].attempt = a /\ Working(c)'
         /\ Pending(a) /\ Working(c) /\ req[c].attempt = a =>
              (Working(c)' /\ req'[c] = req[c]) \/ Refused(a)
<1>0. pc \in [Conns -> PCs] /\ req \in [Conns -> Requests \cup {None}] /\ pc[c] \in PCs
  BY DEF IInv, TypeOK
<1>t. attempts \in [Attempts -> AttemptRow \cup {None}]
  BY DEF IInv, TypeOK
<1>r. ASSUME pc[c] # "idle"
      PROVE  req[c] \in Requests /\ req[c] # None /\ req[c].attempt \in Attempts
  BY <1>r, RequestFields, NoneAssumption DEF IInv, HandlerInv
<1>1. CASE Receive(c)
  BY <1>0, <1>1 DEF Receive, Goto, Working, Pending
<1>2. CASE BeginCaptureAttempt(c)
  <2>1. /\ pc[c] = "begin" /\ UNCHANGED <<phase, req>>
        /\ \/ pc' = [pc EXCEPT ![c] = "header"]
           \/ pc' = [pc EXCEPT ![c] = "reply"] /\ UNCHANGED attempts
    BY <1>2 DEF BeginCaptureAttempt, Goto, Answer
  <2>2. /\ \A d \in Conns \ {c} : pc'[d] = pc[d] /\ req'[d] = req[d]
        /\ phase' = phase /\ ~Working(c)
    BY <1>0, <2>1 DEF Working
  <2>3. CASE attempts'[a] = attempts[a]
    BY <1>0, <2>2, <2>3 DEF Pending
  <2>4. CASE attempts'[a] # attempts[a]
    <3>1. attempts' = [attempts EXCEPT ![req[c].attempt] = PendingRow(req[c])] /\ pc' = [pc EXCEPT ![c] = "header"]
      BY <1>2, <2>4 DEF BeginCaptureAttempt, Goto, Answer
    <3>2. req[c].attempt = a
      BY <1>t, <2>4, <3>1
    <3>3. Working(c)'
      BY <1>0, <3>1 DEF Working
    <3> QED
      BY <1>0, <1>r, <2>1, <2>2, <3>2, <3>3
  <2> QED
    BY <2>3, <2>4
<1>3. CASE ReadHeader(c) \/ AppendEvent(c) \/ AbortAppend(c) \/ CommitEvent(c) \/ CompareEvent(c)
  <2>1. /\ UNCHANGED <<phase, attempts, req>>
        /\ \E label \in {"append", "mark", "stream", "consume", "complete"} : pc' = [pc EXCEPT ![c] = label]
    BY <1>3 DEF ReadHeader, AppendEvent, AbortAppend, CommitEvent, CompareEvent, Goto, Answer
  <2>2. Working(c)'
    BY <1>0, <2>1 DEF Working
  <2> QED
    BY <1>0, <2>1, <2>2 DEF Pending
<1>4. CASE consumeEvidence(c)
  BY <1>0, <1>4 DEF consumeEvidence, Working, Pending
<1>5. CASE MarkCaptureIncomplete(c)
  <2>1. /\ pc[c] = "mark" /\ pc' = [pc EXCEPT ![c] = "reply"] /\ UNCHANGED <<phase, req>>
    BY <1>5 DEF MarkCaptureIncomplete, Goto
  <2> DEFINE b == req[c].attempt
             row == [attempts[b] EXCEPT !.status = "incomplete", !.stage = FailureStage(c)]
  <2>2. b \in Attempts /\ attempts[b] \in AttemptRow
    BY <1>r, <1>t, <2>1 DEF IInv, HandlerInv, Working, Announced
  <2>3. \/ attempts[b].status = "pending" /\ attempts' = [attempts EXCEPT ![b] = row]
        \/ attempts[b].status # "pending" /\ UNCHANGED attempts
    BY <1>5, <1>t, <2>2 DEF MarkCaptureIncomplete
  <2>4. row.status = "incomplete"
    BY <2>2 DEF AttemptRow
  <2> HIDE DEF row, b
  <2>5. b # a /\ attempts'[a] = attempts[a]
    BY <1>t, <2>2, <2>3, <2>4 DEF Pending
  <2> QED
    BY <1>0, <2>1, <2>5 DEF Pending, b
<1>6. CASE CompleteCaptureAttempt(c)
  <2>1. /\ pc[c] = "complete" /\ pc' = [pc EXCEPT ![c] = "reply"] /\ UNCHANGED <<phase, req>>
    BY <1>6 DEF CompleteCaptureAttempt, Goto, Answer
  <2> DEFINE b == req[c].attempt
             row == [attempts[b] EXCEPT !.status = "completed", !.stage = ""]
  <2>2. b \in Attempts /\ attempts[b] \in AttemptRow
    BY <1>r, <1>t, <2>1 DEF IInv, HandlerInv, Working, Announced
  <2>3. \/ attempts[b].status = "pending" /\ attempts' = [attempts EXCEPT ![b] = row]
        \/ attempts[b].status # "pending" /\ UNCHANGED attempts
        \/ attempts[b].status = "pending" /\ ~completeEvidence(attempts[b]) /\ UNCHANGED attempts
    BY <1>6, <1>t, <2>2 DEF CompleteCaptureAttempt
  <2>4. row.status = "completed"
    BY <2>2 DEF AttemptRow
  <2>5. events[attempts[b].event] # None
    BY <1>r, <2>1 DEF IInv, HandlerInv, Working, Announced, Holds
  <2> HIDE DEF row, b
  <2>6. attempts'[a] = attempts[a]
    BY <1>t, <2>2, <2>3, <2>4 DEF Pending
  <2>7. b = a => Refused(a)
    BY <1>t, <2>2, <2>3, <2>4, <2>5 DEF Pending, Refused
  <2> QED
    BY <1>0, <2>1, <2>6, <2>7 DEF Pending, b
<1>7. CASE Respond(c)
  <2>1. /\ pc[c] = "reply" /\ pc' = [pc EXCEPT ![c] = "idle"] /\ req' = [req EXCEPT ![c] = None]
        /\ UNCHANGED <<phase, attempts>>
    BY <1>7 DEF Respond, Goto
  <2> QED
    BY <1>0, <2>1 DEF Working, Pending
<1> QED
  BY <1>1, <1>2, <1>3, <1>4, <1>5, <1>6, <1>7

LEMMA StrandedStep ==
  ASSUME StoreFaults = FALSE
  PROVE  IInv /\ StrandedOnlyByRefusal /\ [Next]_vars => StrandedOnlyByRefusal'
<1> SUFFICES ASSUME IInv, StrandedOnlyByRefusal, [Next]_vars, phase' # "down",
                    NEW a \in Attempts, Pending(a)'
             PROVE  Served(a)' \/ Refused(a)'
  BY StrandedMeans DEF StrandedOnlyByRefusal, Pending, Served, Refused, Working
<1>1. phase # "down" /\ Pending(a) => Served(a) \/ Refused(a)
  BY StrandedMeans
<1>2. CASE UNCHANGED vars \/ StopAdmission \/ CloseConnections
  <2>1. UNCHANGED <<attempts, events, pc, req>> /\ phase # "down"
    BY <1>2 DEF vars, StopAdmission, CloseConnections
  <2>2. Pending(a)
    BY <2>1 DEF Pending
  <2> QED
    BY <1>1, <2>1, <2>2 DEF Served, Refused, Working, completeEvidence
<1>3. CASE Start
  <2>1. attempts'[a] = Recovered(attempts[a]) /\ attempts[a] \in AttemptRow \cup {None}
    BY <1>3 DEF Start, IInv, TypeOK
  <2>2. Recovered(attempts[a]) = None \/ Recovered(attempts[a]).status # "pending"
    BY <2>1 DEF Recovered, AttemptRow
  <2> QED
    BY <2>1, <2>2 DEF Pending
<1>4. CASE FinishClose \/ Crash
  BY <1>4 DEF FinishClose, Crash
<1>5. ASSUME NEW c \in Conns,
             \/ Receive(c) \/ BeginCaptureAttempt(c) \/ ReadHeader(c) \/ AppendEvent(c)
             \/ consumeEvidence(c) \/ AbortAppend(c) \/ CommitEvent(c) \/ CompareEvent(c)
             \/ MarkCaptureIncomplete(c) \/ CompleteCaptureAttempt(c) \/ Respond(c)
      PROVE  Served(a)' \/ Refused(a)'
  <2>1. /\ \A d \in Conns \ {c} : pc'[d] = pc[d] /\ req'[d] = req[d]
        /\ phase' = phase
        /\ \/ Pending(a) /\ attempts'[a] = attempts[a]
           \/ req'[c] # None /\ req'[c].attempt = a /\ Working(c)'
        /\ Pending(a) /\ Working(c) /\ req[c].attempt = a =>
             (Working(c)' /\ req'[c] = req[c]) \/ Refused(a)
    BY <1>5, AttendedStep
  <2>2. CASE req'[c] # None /\ req'[c].attempt = a /\ Working(c)'
    BY <2>2 DEF Served
  <2>3. CASE Pending(a) /\ attempts'[a] = attempts[a]
    <3>1. CASE Refused(a)
      BY <2>3, <3>1, RefusedStays
    <3>2. CASE Served(a)
      <4>1. PICK d \in Conns : req[d] # None /\ req[d].attempt = a /\ Working(d)
        BY <3>2 DEF Served
      <4>2. CASE d = c
        BY <2>1, <2>3, <3>1, <4>1, <4>2 DEF Served
      <4>3. CASE d # c
        <5>1. req'[d] = req[d] /\ pc'[d] = pc[d]
          BY <2>1, <4>3
        <5>2. Working(d)'
          BY <4>1, <5>1 DEF Working
        <5> QED
          BY <4>1, <5>1, <5>2 DEF Served
      <4> QED
        BY <4>2, <4>3
    <3> QED
      BY <1>1, <2>1, <2>3, <3>1, <3>2
  <2> QED
    BY <2>1, <2>2, <2>3
<1> QED
  BY <1>2, <1>3, <1>4, <1>5, NextCases

\* While the daemon is up and its database works, the only attempt left pending by
\* everyone is one whose evidence is committed but was refused by completeEvidence.
THEOREM PendingIsAttended ==
  ASSUME StoreFaults = FALSE
  PROVE  Spec => []StrandedOnlyByRefusal
<1>1. Init => StrandedOnlyByRefusal
  BY DEF Init, StrandedOnlyByRefusal
<1>2. IInv /\ StrandedOnlyByRefusal /\ [Next]_vars => StrandedOnlyByRefusal'
  BY StrandedStep
<1> QED
  BY <1>1, <1>2, DaemonInvariant, PTL DEF Spec

-----------------------------------------------------------------------------
(* Step simulation: every step of the daemon is a step of the log or a stutter. *)

outcomes == [a \in Attempts |-> OutcomeOf(attempts[a])]
entries  == [e \in Events |-> EntryOf(events[e])]

\* Rows and their meaning are absent together, and a meaning keeps the row's fields.
LEMMA OutcomeFields ==
  ASSUME TypeOK, NEW a \in Attempts
  PROVE  /\ outcomes[a] = OutcomeOf(attempts[a])
         /\ attempts[a] = None => outcomes[a] = None
         /\ attempts[a] # None =>
              /\ outcomes[a] # None
              /\ outcomes[a].event = attempts[a].event
              /\ outcomes[a].meta = attempts[a].meta
              /\ outcomes[a].size = attempts[a].size
              /\ outcomes[a].status = attempts[a].status
<1>1. outcomes[a] = OutcomeOf(attempts[a])
  BY DEF outcomes
<1>2. CASE attempts[a] = None
  BY <1>1, <1>2 DEF OutcomeOf
<1>3. CASE attempts[a] # None
  <2>1. attempts[a] \in AttemptRow
    BY <1>3 DEF TypeOK
  <2>2. outcomes[a] = [event |-> attempts[a].event, meta |-> attempts[a].meta,
                       size |-> attempts[a].size, status |-> attempts[a].status]
    BY <1>1, <1>3 DEF OutcomeOf
  <2>3. outcomes[a] \in Outcome
    BY <2>1, <2>2 DEF Outcome, AttemptRow
  <2>4. QED
    BY <1>1, <1>3, <2>2, <2>3, NoneAssumption
<1>4. QED
  BY <1>2, <1>3

LEMMA EntryFields ==
  ASSUME TypeOK, NEW e \in Events
  PROVE  /\ entries[e] = EntryOf(events[e])
         /\ events[e] = None => entries[e] = None
         /\ events[e] # None =>
              /\ entries[e] # None
              /\ entries[e] = [meta |-> events[e].meta, payload |-> events[e].payload,
                               readable |-> Intact(events[e])]
<1>1. entries[e] = EntryOf(events[e])
  BY DEF entries
<1>2. CASE events[e] = None
  BY <1>1, <1>2 DEF EntryOf
<1>3. CASE events[e] # None
  <2>1. events[e] \in EventRow
    BY <1>3 DEF TypeOK
  <2>2. entries[e] = [meta |-> events[e].meta, payload |-> events[e].payload,
                      readable |-> Intact(events[e])]
    BY <1>1, <1>3 DEF EntryOf
  <2>3. Intact(events[e]) \in BOOLEAN
    BY DEF Intact, storedEvidence
  <2>4. entries[e] \in Entry
    BY <2>1, <2>2, <2>3 DEF Entry, EventRow
  <2>5. QED
    BY <1>1, <1>3, <2>2, <2>4, NoneAssumption
<1>4. QED
  BY <1>2, <1>3

LEMMA InitRefines == Init => Log!Init
  BY DEF Init, Log!Init, OutcomeOf, EntryOf

\* A step that touches neither table nor history is invisible in the log.
LEMMA StutterRefines ==
  ASSUME UNCHANGED <<attempts, events, acked>>
  PROVE  UNCHANGED Log!vars
  BY DEF Log!vars

LEMMA BeginRefines ==
  ASSUME IInv, NEW c \in Conns, BeginCaptureAttempt(c)
  PROVE  [Log!Next]_(Log!vars)
<1> DEFINE r == req[c]
<1>1. r \in Requests
  BY DEF IInv, HandlerInv, BeginCaptureAttempt
<1>2. CASE UNCHANGED attempts
  BY <1>2, StutterRefines DEF BeginCaptureAttempt
<1>3. CASE attempts[r.attempt] = None /\ attempts' = [attempts EXCEPT ![r.attempt] = PendingRow(r)]
  <2>1. outcomes[r.attempt] = None
    BY <1>1, <1>3, OutcomeFields, RequestFields DEF IInv
  <2> DEFINE row == [event |-> r.event, meta |-> r.meta, size |-> Size[r.payload], status |-> "pending"]
  <2>2. OutcomeOf(PendingRow(r)) = row
    BY <1>1, RequestFields DEF OutcomeOf
  <2>3. outcomes' = [outcomes EXCEPT ![r.attempt] = row]
    BY <1>1, <1>3, <2>2, RequestFields DEF outcomes, IInv, TypeOK
  <2>4. entries' = entries /\ acked' = acked
    BY DEF entries, BeginCaptureAttempt
  <2>5. Log!Announce(r)
    BY <2>1, <2>3, <2>4 DEF Log!Announce, outcomes, entries
  <2>6. QED
    BY <1>1, <2>5 DEF Log!Next
<1>4. QED
  BY <1>2, <1>3 DEF BeginCaptureAttempt

LEMMA CommitRefines ==
  ASSUME IInv, NEW c \in Conns, CommitEvent(c)
  PROVE  [Log!Next]_(Log!vars)
<1> DEFINE r == req[c]
           row == [meta |-> r.meta, payload |-> r.payload, cuts |-> cuts[c]]
<1>1. r \in Requests /\ events[r.event] = None
  BY DEF IInv, HandlerInv, DbInv, CommitEvent
<1>2. row \in EventRow
  BY <1>1, RequestFields DEF IInv, TypeOK, EventRow
<1>3. EntryOf(row) = [meta |-> r.meta, payload |-> r.payload, readable |-> Intact(row)]
  BY <1>2, NoneAssumption DEF EntryOf
<1>4. Intact(row) \in BOOLEAN
  BY DEF Intact, storedEvidence
<1>5. entries[r.event] = None
  BY <1>1, EntryFields, RequestFields DEF IInv
<1>6. events' = [events EXCEPT ![r.event] = row]
  BY DEF CommitEvent
<1> HIDE DEF row
<1>7. entries' = [entries EXCEPT ![r.event] = EntryOf(row)]
  BY <1>1, <1>6, RequestFields DEF entries, IInv, TypeOK
<1>8. outcomes' = outcomes /\ acked' = acked
  BY DEF outcomes, CommitEvent
<1>9. Log!Store(r, Intact(row))
  BY <1>3, <1>5, <1>7, <1>8 DEF Log!Store, outcomes, entries
<1>10. QED
  BY <1>1, <1>4, <1>9 DEF Log!Next

\* Changing the status and stage of a row changes the status of its outcome.
LEMMA OutcomeOfSettled ==
  ASSUME NEW row \in AttemptRow, NEW status \in Statuses, NEW stage \in Stages
  PROVE  OutcomeOf([row EXCEPT !.status = status, !.stage = stage])
           = [OutcomeOf(row) EXCEPT !.status = status]
<1> DEFINE new == [event |-> row.event, meta |-> row.meta, size |-> row.size,
                   status |-> status, stage |-> stage]
<1>1. [row EXCEPT !.status = status, !.stage = stage] = new
  <2>1. row = [event |-> row.event, meta |-> row.meta, size |-> row.size,
               status |-> row.status, stage |-> row.stage]
    BY DEF AttemptRow
  <2>2. [row EXCEPT !.status = status]
          = [event |-> row.event, meta |-> row.meta, size |-> row.size,
             status |-> status, stage |-> row.stage]
    BY <2>1
  <2>3. ASSUME NEW x, x = [event |-> row.event, meta |-> row.meta, size |-> row.size,
                           status |-> status, stage |-> row.stage]
        PROVE  [x EXCEPT !.stage = stage] = new
    BY <2>3
  <2>4. QED
    BY <2>2, <2>3, Zenon
<1>2. new \in AttemptRow
  BY DEF AttemptRow
<1>3. new # None /\ row # None
  BY <1>2, NoneAssumption
<1>4. OutcomeOf(new) = [event |-> row.event, meta |-> row.meta, size |-> row.size, status |-> status]
  BY <1>3 DEF OutcomeOf
<1>5. OutcomeOf(row) = [event |-> row.event, meta |-> row.meta, size |-> row.size, status |-> row.status]
  BY <1>3 DEF OutcomeOf
<1>6. QED
  BY <1>1, <1>4, <1>5

\* The evidence check of the daemon is the log's support for the outcome.
LEMMA SupportedByEvidence ==
  ASSUME TypeOK, NEW a \in Attempts, attempts[a] # None, completeEvidence(attempts[a])
  PROVE  Log!Supported(a)
<1>1. attempts[a].event \in Events
  BY DEF TypeOK, AttemptRow
<1>2. /\ events[attempts[a].event] # None
      /\ events[attempts[a].event].meta = attempts[a].meta
      /\ Size[events[attempts[a].event].payload] = attempts[a].size
      /\ Intact(events[attempts[a].event])
  BY DEF completeEvidence
<1>3. /\ outcomes[a].event = attempts[a].event
      /\ outcomes[a].meta = attempts[a].meta
      /\ outcomes[a].size = attempts[a].size
  BY OutcomeFields
<1>4. /\ entries[attempts[a].event] # None
      /\ entries[attempts[a].event].meta = events[attempts[a].event].meta
      /\ entries[attempts[a].event].payload = events[attempts[a].event].payload
      /\ entries[attempts[a].event].readable
  <2>1. Intact(events[attempts[a].event]) = TRUE
    BY <1>2 DEF Intact, storedEvidence
  <2>2. entries[attempts[a].event] # None
    BY <1>1, <1>2, EntryFields
  <2>3. entries[attempts[a].event] =
          [meta |-> events[attempts[a].event].meta, payload |-> events[attempts[a].event].payload,
           readable |-> TRUE]
    BY <1>1, <1>2, <2>1, EntryFields
  <2>4. QED
    BY <2>2, <2>3
<1>5. QED
  BY <1>2, <1>3, <1>4 DEF Log!Supported, outcomes, entries

\* A step that settles the outcomes of `won` and `lost` is a Settle of the log.
LEMMA SettleRefines ==
  ASSUME TypeOK, NEW won \in SUBSET Attempts, NEW lost \in SUBSET Attempts,
         won \cap lost = {},
         \A a \in won \cup lost : attempts[a] # None /\ attempts[a].status = "pending",
         \A a \in won : completeEvidence(attempts[a]),
         \A a \in Attempts :
           OutcomeOf(attempts'[a]) = IF a \in won THEN [OutcomeOf(attempts[a]) EXCEPT !.status = "completed"]
                                     ELSE IF a \in lost THEN [OutcomeOf(attempts[a]) EXCEPT !.status = "incomplete"]
                                     ELSE OutcomeOf(attempts[a]),
         UNCHANGED <<events, acked>>
  PROVE  [Log!Next]_(Log!vars)
<1>1. \A a \in won \cup lost : Log!Pending(a)
  BY OutcomeFields DEF Log!Pending, outcomes
<1>2. \A a \in won : Log!Supported(a)
  BY SupportedByEvidence
<1>3. Log!Settle(won, lost)
  BY <1>1, <1>2 DEF Log!Settle
<1>4. QED
  BY <1>3 DEF Log!Next

LEMMA MarkRefines ==
  ASSUME IInv, NEW c \in Conns, MarkCaptureIncomplete(c)
  PROVE  [Log!Next]_(Log!vars)
<1> DEFINE a == req[c].attempt
<1>1. CASE UNCHANGED attempts
  BY <1>1, StutterRefines DEF MarkCaptureIncomplete
<1>2. CASE /\ attempts[a].status = "pending"
           /\ attempts' = [attempts EXCEPT ![a].status = "incomplete", ![a].stage = FailureStage(c)]
  <2>1. a \in Attempts /\ attempts[a] # None /\ attempts[a] \in AttemptRow
    BY RequestFields
    DEF IInv, TypeOK, HandlerInv, Working, Announced, MarkCaptureIncomplete
  <2>2. attempts'[a] = [attempts[a] EXCEPT !.status = "incomplete", !.stage = FailureStage(c)]
    BY <1>2, <2>1 DEF IInv, TypeOK
  <2>3. OutcomeOf(attempts'[a]) = [OutcomeOf(attempts[a]) EXCEPT !.status = "incomplete"]
    BY <2>1, <2>2, OutcomeOfSettled DEF Statuses, Stages, FailureStage
  <2>4. \A b \in Attempts \ {a} : attempts'[b] = attempts[b]
    BY <1>2 DEF IInv, TypeOK
  <2> DEFINE won == {}
             lost == {a}
  <2>5. /\ won \in SUBSET Attempts /\ lost \in SUBSET Attempts /\ won \cap lost = {}
        /\ \A b \in won \cup lost : attempts[b] # None /\ attempts[b].status = "pending"
        /\ \A b \in won : completeEvidence(attempts[b])
    BY <1>2, <2>1
  <2>6. \A b \in Attempts :
          OutcomeOf(attempts'[b]) = IF b \in won THEN [OutcomeOf(attempts[b]) EXCEPT !.status = "completed"]
                                    ELSE IF b \in lost THEN [OutcomeOf(attempts[b]) EXCEPT !.status = "incomplete"]
                                    ELSE OutcomeOf(attempts[b])
    BY <2>3, <2>4
  <2>7. TypeOK /\ UNCHANGED <<events, acked>>
    BY DEF IInv, MarkCaptureIncomplete
  <2> HIDE DEF won, lost
  <2>8. QED
    BY <2>5, <2>6, <2>7, SettleRefines
<1>3. QED
  BY <1>1, <1>2 DEF MarkCaptureIncomplete

LEMMA CompleteRefines ==
  ASSUME IInv, NEW c \in Conns, CompleteCaptureAttempt(c)
  PROVE  [Log!Next]_(Log!vars)
<1> DEFINE a == req[c].attempt
<1>1. CASE UNCHANGED attempts
  BY <1>1, StutterRefines DEF CompleteCaptureAttempt
<1>2. CASE /\ attempts[a].status = "pending"
           /\ completeEvidence(attempts[a])
           /\ attempts' = [attempts EXCEPT ![a].status = "completed", ![a].stage = ""]
  <2>1. a \in Attempts /\ attempts[a] # None /\ attempts[a] \in AttemptRow
    <3>1. pc[c] = "complete"
      BY DEF CompleteCaptureAttempt
    <3>2. req[c] \in Requests /\ Announced(req[c])
      BY <3>1 DEF IInv, HandlerInv, Working
    <3>3. QED
      BY <3>2, RequestFields DEF IInv, TypeOK, Announced
  <2>2. attempts'[a] = [attempts[a] EXCEPT !.status = "completed", !.stage = ""]
    BY <1>2, <2>1 DEF IInv, TypeOK
  <2>3. OutcomeOf(attempts'[a]) = [OutcomeOf(attempts[a]) EXCEPT !.status = "completed"]
    BY <2>1, <2>2, OutcomeOfSettled DEF Statuses, Stages
  <2>4. \A b \in Attempts \ {a} : attempts'[b] = attempts[b]
    BY <1>2 DEF IInv, TypeOK
  <2> DEFINE won == {a}
             lost == {}
  <2>5. /\ won \in SUBSET Attempts /\ lost \in SUBSET Attempts /\ won \cap lost = {}
        /\ \A b \in won \cup lost : attempts[b] # None /\ attempts[b].status = "pending"
        /\ \A b \in won : completeEvidence(attempts[b])
    BY <1>2, <2>1
  <2>6. \A b \in Attempts :
          OutcomeOf(attempts'[b]) = IF b \in won THEN [OutcomeOf(attempts[b]) EXCEPT !.status = "completed"]
                                    ELSE IF b \in lost THEN [OutcomeOf(attempts[b]) EXCEPT !.status = "incomplete"]
                                    ELSE OutcomeOf(attempts[b])
    BY <2>3, <2>4
  <2>7. TypeOK /\ UNCHANGED <<events, acked>>
    BY DEF IInv, CompleteCaptureAttempt
  <2> HIDE DEF won, lost
  <2>8. QED
    BY <2>5, <2>6, <2>7, SettleRefines
<1>3. QED
  BY <1>1, <1>2 DEF CompleteCaptureAttempt

\* Recovery settles every pending attempt at once.
LEMMA StartRefines ==
  ASSUME IInv, Start
  PROVE  [Log!Next]_(Log!vars)
<1> DEFINE open == {a \in Attempts : attempts[a] # None /\ attempts[a].status = "pending"}
           won  == {a \in open : completeEvidence(attempts[a])}
           lost == open \ won
<1>1. ASSUME NEW a \in Attempts
      PROVE  OutcomeOf(attempts'[a]) = IF a \in won THEN [OutcomeOf(attempts[a]) EXCEPT !.status = "completed"]
                                       ELSE IF a \in lost THEN [OutcomeOf(attempts[a]) EXCEPT !.status = "incomplete"]
                                       ELSE OutcomeOf(attempts[a])
  <2>1. attempts'[a] = Recovered(attempts[a])
    BY DEF Start
  <2>2. CASE a \notin open
    BY <2>1, <2>2 DEF Recovered
  <2>3. CASE a \in won
    <3>1. attempts'[a] = [attempts[a] EXCEPT !.status = "completed", !.stage = ""]
      BY <2>1, <2>3 DEF Recovered
    <3>2. QED
      BY <2>3, <3>1, OutcomeOfSettled DEF IInv, TypeOK, Statuses, Stages
  <2>4. CASE a \in lost
    <3>1. attempts'[a] = [attempts[a] EXCEPT !.status = "incomplete", !.stage = "append"]
      BY <2>1, <2>4 DEF Recovered
    <3>2. QED
      BY <2>4, <3>1, OutcomeOfSettled DEF IInv, TypeOK, Statuses, Stages
  <2>5. QED
    BY <2>2, <2>3, <2>4
<1>2. /\ won \in SUBSET Attempts /\ lost \in SUBSET Attempts /\ won \cap lost = {}
      /\ \A a \in won \cup lost : attempts[a] # None /\ attempts[a].status = "pending"
      /\ \A a \in won : completeEvidence(attempts[a])
  OBVIOUS
<1>3. TypeOK /\ UNCHANGED <<events, acked>>
  BY DEF IInv, Start
<1> HIDE DEF won, lost
<1>4. QED
  BY <1>1, <1>2, <1>3, SettleRefines

LEMMA RespondRefines ==
  ASSUME IInv, NEW c \in Conns, Respond(c)
  PROVE  [Log!Next]_(Log!vars)
<1> DEFINE r == req[c]
<1>1. CASE UNCHANGED acked
  BY <1>1, StutterRefines DEF Respond
<1>2. CASE reply[c] = "ok" /\ acked' = acked \cup {r}
  <2>1. r \in Requests
    BY DEF IInv, HandlerInv, Respond
  <2>2. /\ Announced(r) /\ Holds(r)
        /\ attempts[r.attempt].status = "completed"
        /\ completeEvidence(attempts[r.attempt])
    BY <1>2, <2>1, RequestFields
    DEF IInv, HandlerInv, Respond, Succeeding, CompletedHasEvidence, Announced
  <2>3. /\ events[r.event] # None /\ events[r.event].meta = r.meta
        /\ events[r.event].payload = r.payload /\ Intact(events[r.event])
    BY <2>2 DEF Announced, Holds, completeEvidence
  <2>4. entries[r.event] = [meta |-> r.meta, payload |-> r.payload, readable |-> TRUE]
    <3>1. Intact(events[r.event]) = TRUE
      BY <2>3 DEF Intact, storedEvidence
    <3>2. QED
      BY <2>1, <2>3, <3>1, EntryFields, RequestFields DEF IInv
  <2>5. outcomes[r.attempt] # None /\ outcomes[r.attempt].status = "completed"
    BY <2>1, <2>2, OutcomeFields, RequestFields DEF IInv, Announced
  <2>6. outcomes' = outcomes /\ entries' = entries
    BY DEF Respond, outcomes, entries
  <2>7. Log!Acknowledge(r)
    BY <1>2, <2>4, <2>5, <2>6 DEF Log!Acknowledge, outcomes, entries
  <2>8. QED
    BY <2>1, <2>7 DEF Log!Next
<1>3. QED
  BY <1>1, <1>2 DEF Respond

LEMMA StepRefines == IInv /\ [Next]_vars => [Log!Next]_(Log!vars)
<1> SUFFICES ASSUME IInv, [Next]_vars PROVE [Log!Next]_(Log!vars)
  OBVIOUS
<1>1. CASE UNCHANGED vars
  BY <1>1, StutterRefines DEF vars
<1>2. ASSUME StopAdmission \/ CloseConnections \/ FinishClose \/ Crash
      PROVE  UNCHANGED <<attempts, events, acked>>
  BY <1>2 DEF StopAdmission, CloseConnections, FinishClose, Crash
<1>3. ASSUME NEW c \in Conns,
             Receive(c) \/ ReadHeader(c) \/ AppendEvent(c) \/ consumeEvidence(c)
               \/ AbortAppend(c) \/ CompareEvent(c)
      PROVE  UNCHANGED <<attempts, events, acked>>
  BY <1>3 DEF Receive, ReadHeader, AppendEvent, consumeEvidence, AbortAppend, CompareEvent
<1>4. CASE Next
  BY <1>2, <1>3, <1>4, NextCases, StutterRefines, StartRefines, BeginRefines, CommitRefines,
     MarkRefines, CompleteRefines, RespondRefines
<1>5. QED
  BY <1>1, <1>4

\* The daemon implements the evidence log for every value of its constants.
THEOREM DaemonImplementsLog == Spec => ImplementsEvidenceLog
  BY InitRefines, StepRefines, DaemonInvariant, PTL DEF Spec, ImplementsEvidenceLog, Log!Spec

-----------------------------------------------------------------------------
(* The chunk layout.  When every Read of the connection fills the buffer      *)
(* (ShortReads is FALSE), whatever is committed passes validChunk: the layout *)
(* that AppendEvent writes and the one readers and recovery demand agree, for *)
(* every payload length and chunk size.                                       *)

\* The chunks so far have the positions and lengths their indexes call for.
FullCuts(ends, total) ==
  /\ Consumed(ends) = Min2(Len(ends) * ChunkSize, total)
  /\ \A i \in 1..Len(ends) : validChunk(ChunkLen(ends, i), i - 1, total)

LayoutInv ==
  /\ \A c \in Conns : pc[c] = "stream" => FullCuts(cuts[c], Size[req[c].payload])
  /\ EvidenceReadable

-----------------------------------------------------------------------------
\* The index of a chunk that starts before the end of the payload is not too large.
LEMMA IndexInRange ==
  ASSUME NEW k \in Nat, NEW total \in Nat, k * ChunkSize < total
  PROVE  k <= (total - 1) \div ChunkSize
<1> DEFINE S == ChunkSize
           q == (total - 1) \div S
           r == (total - 1) % S
<1>1. S \in Nat /\ S > 0 /\ k * S \in Nat
  BY ConstantsAssumption
<1>2. total - 1 \in Nat
  BY <1>1
<1>3. q \in Int /\ r \in Int /\ total - 1 = S * q + r /\ 0 <= r /\ r < S
  BY <1>1, <1>2
<1> HIDE DEF q, r, S
<1>4. SUFFICES ASSUME k >= q + 1 PROVE FALSE
  BY <1>3 DEF q, S
<1>5. k * S >= (q + 1) * S
  BY <1>1, <1>3, <1>4
<1>6. (q + 1) * S = S * q + S
  BY <1>1, <1>3
<1>7. QED
  BY <1>1, <1>2, <1>3, <1>5, <1>6 DEF S

\* One full Read extends a valid layout.
LEMMA ExtendFull ==
  ASSUME NEW ends \in Seq(Nat), NEW total \in Nat, FullCuts(ends, total),
         Consumed(ends) < total
  PROVE  FullCuts(Append(ends, Consumed(ends) + Min2(ChunkSize, total - Consumed(ends))), total)
<1> DEFINE k == Len(ends)
           done == Consumed(ends)
           n == Min2(ChunkSize, total - done)
           new == Append(ends, done + n)
<1>1. k \in Nat /\ done \in Nat /\ ChunkSize \in Nat /\ k * ChunkSize \in Nat
  BY ConsumedNat, ConstantsAssumption
<1>2. done = k * ChunkSize
  BY <1>1 DEF FullCuts, Min2
<1>3. n \in Nat /\ n > 0 /\ n <= ChunkSize /\ n <= total - done
      /\ (n = ChunkSize \/ n = total - done)
  BY <1>1, ConstantsAssumption DEF Min2
<1>4. new \in Seq(Nat) /\ Len(new) = k + 1 /\ new[k + 1] = done + n
      /\ \A i \in 1..k : new[i] = ends[i]
  BY <1>1, <1>3
<1>5. Consumed(new) = done + n
  BY <1>1, <1>4, SMTT(30) DEF Consumed
<1>6. (k + 1) * ChunkSize = done + ChunkSize
  BY <1>1, <1>2
<1>7. Consumed(new) = Min2(Len(new) * ChunkSize, total)
  BY <1>1, <1>3, <1>4, <1>5, <1>6 DEF Min2
<1>8. ASSUME NEW i \in 1..k
      PROVE  validChunk(ChunkLen(new, i), i - 1, total)
  <2>1. ChunkLen(new, i) = ChunkLen(ends, i)
    BY <1>1, <1>4, SMTT(30) DEF ChunkLen
  <2>2. QED
    BY <2>1 DEF FullCuts
<1>9. validChunk(ChunkLen(new, k + 1), k, total)
  <2>1. ChunkLen(new, k + 1) = n
    <3>1. CASE k = 0
      BY <1>1, <1>2, <1>3, <1>4, <3>1 DEF ChunkLen
    <3>2. CASE k > 0
      <4>1. new[k] = done
        BY <1>1, <1>4, <3>2 DEF Consumed
      <4>2. QED
        BY <1>1, <1>3, <1>4, <3>2, <4>1 DEF ChunkLen
    <3>3. QED
      BY <1>1, <3>1, <3>2
  <2>2. k <= (total - 1) \div ChunkSize
    BY <1>1, <1>2, IndexInRange
  <2>3. n = Min2(total - k * ChunkSize, ChunkSize)
    BY <1>1, <1>2 DEF Min2
  <2>4. total # 0
    BY <1>1
  <2>5. QED
    BY <2>1, <2>2, <2>3, <2>4 DEF validChunk
<1>10. \A i \in 1..Len(new) : validChunk(ChunkLen(new, i), i - 1, total)
  <2>1. ASSUME NEW i \in 1..Len(new)
        PROVE  validChunk(ChunkLen(new, i), i - 1, total)
    <3>1. i \in 1..k \/ i = k + 1
      BY <1>1, <1>4
    <3>2. CASE i = k + 1
      <4>1. i - 1 = k
        BY <1>1, <3>2
      <4>2. QED
        BY <1>9, <3>2, <4>1
    <3>3. QED
      BY <1>8, <3>1, <3>2
  <2>2. QED
    BY <2>1
<1>11. QED
  BY <1>7, <1>10 DEF FullCuts

\* A layout that covers the payload is what storedEvidence accepts.
LEMMA FullIsStored ==
  ASSUME NEW ends, NEW total, FullCuts(ends, total), Consumed(ends) = total
  PROVE  storedEvidence(ends, total)
  BY DEF FullCuts, storedEvidence

LEMMA NoChunksFull ==
  ASSUME NEW total \in Nat
  PROVE  FullCuts(<<>>, total)
<1>1. Len(<<>>) = 0 /\ 0 * ChunkSize = 0
  BY ConstantsAssumption
<1>2. QED
  BY <1>1 DEF FullCuts, Consumed, Min2

-----------------------------------------------------------------------------
LEMMA InitLayout == Init => LayoutInv
  BY DEF Init, LayoutInv, EvidenceReadable

\* Steps that neither open a transaction, read the connection nor commit.
LEMMA QuietStep ==
  ASSUME IInv, LayoutInv, UNCHANGED events,
         \A c \in Conns : pc'[c] = "stream" =>
           pc[c] = "stream" /\ cuts'[c] = cuts[c] /\ req'[c] = req[c]
  PROVE  LayoutInv'
  BY DEF LayoutInv, EvidenceReadable

LEMMA AppendLayout ==
  ASSUME IInv, LayoutInv, NEW c \in Conns, AppendEvent(c)
  PROVE  LayoutInv'
<1>1. req[c] \in Requests
  BY DEF IInv, HandlerInv, AppendEvent
<1>2. FullCuts(<<>>, Size[req[c].payload])
  BY <1>1, RequestFields, NoChunksFull
<1>3. ASSUME NEW d \in Conns, pc'[d] = "stream"
      PROVE  FullCuts(cuts'[d], Size[req'[d].payload])
  <2>1. CASE d = c
    <3>1. cuts'[c] = <<>> /\ req'[c] = req[c]
      BY <1>3, <2>1 DEF AppendEvent, Answer, Goto, IInv, TypeOK
    <3>2. QED
      BY <1>2, <2>1, <3>1
  <2>2. CASE d # c
    <3>1. pc[d] = "stream" /\ cuts'[d] = cuts[d] /\ req'[d] = req[d]
      BY <1>3, <2>2 DEF AppendEvent, Answer, Goto, IInv, TypeOK
    <3>2. QED
      BY <3>1 DEF LayoutInv
  <2>3. QED
    BY <2>1, <2>2
<1>4. EvidenceReadable'
  BY DEF LayoutInv, EvidenceReadable, AppendEvent
<1>5. QED
  BY <1>3, <1>4 DEF LayoutInv

LEMMA ConsumeLayout ==
  ASSUME ShortReads = FALSE, IInv, LayoutInv, NEW c \in Conns, consumeEvidence(c)
  PROVE  LayoutInv'
<1> DEFINE total == Size[req[c].payload]
           done == Consumed(cuts[c])
           n == Min2(ChunkSize, total - done)
<1>1. req[c] \in Requests /\ total - done > 0
  BY DEF IInv, HandlerInv, consumeEvidence
<1>2. cuts[c] \in Seq(Nat) /\ total \in Nat /\ done \in Nat
  BY <1>1, RequestFields, ConsumedNat DEF IInv, TypeOK
<1>3. cuts' = [cuts EXCEPT ![c] = IF pc[c] = "stream" THEN Append(@, done + n) ELSE <<done + n>>]
  BY DEF consumeEvidence, ReadSizes
<1>4. ASSUME pc[c] = "stream"
      PROVE  FullCuts(cuts'[c], total)
  <2>1. cuts'[c] = Append(cuts[c], done + n)
    BY <1>3, <1>4 DEF IInv, TypeOK
  <2>2. FullCuts(cuts[c], total)
    BY <1>4 DEF LayoutInv
  <2>3. done < total
    BY <1>1, <1>2
  <2>4. QED
    BY <1>2, <2>1, <2>2, <2>3, ExtendFull
<1>5. \A d \in Conns \ {c} : cuts'[d] = cuts[d]
  BY <1>3 DEF IInv, TypeOK
<1>6. UNCHANGED <<pc, req, events>>
  BY DEF consumeEvidence
<1>7. QED
  BY <1>4, <1>5, <1>6 DEF LayoutInv, EvidenceReadable

LEMMA CommitLayout ==
  ASSUME IInv, LayoutInv, NEW c \in Conns, CommitEvent(c)
  PROVE  LayoutInv'
<1> DEFINE r == req[c]
           row == [meta |-> r.meta, payload |-> r.payload, cuts |-> cuts[c]]
<1>1. FullCuts(cuts[c], Size[r.payload]) /\ Consumed(cuts[c]) = Size[r.payload]
  BY DEF CommitEvent, LayoutInv
<1>2. Intact(row)
  BY <1>1, FullIsStored DEF Intact
<1>3. events' = [events EXCEPT ![r.event] = row]
  BY DEF CommitEvent
<1> HIDE DEF row
<1>4. EvidenceReadable'
  BY <1>2, <1>3 DEF LayoutInv, EvidenceReadable, IInv, TypeOK
<1>5. ASSUME NEW d \in Conns, pc'[d] = "stream"
      PROVE  pc[d] = "stream" /\ cuts'[d] = cuts[d] /\ req'[d] = req[d]
  BY <1>5 DEF CommitEvent, EndTransaction, Goto, IInv, TypeOK
<1>6. QED
  BY <1>4, <1>5 DEF LayoutInv

LEMMA StepLayout ==
  ASSUME ShortReads = FALSE
  PROVE  IInv /\ LayoutInv /\ [Next]_vars => LayoutInv'
<1> SUFFICES ASSUME IInv, LayoutInv, [Next]_vars PROVE LayoutInv'
  OBVIOUS
<1>1. CASE UNCHANGED vars
  BY <1>1, QuietStep DEF vars
<1>2. CASE Start \/ StopAdmission \/ CloseConnections \/ FinishClose \/ Crash
  BY <1>2, QuietStep DEF Start, StopAdmission, CloseConnections, FinishClose, Crash
<1>3. ASSUME NEW c \in Conns,
             \/ Receive(c) \/ BeginCaptureAttempt(c) \/ ReadHeader(c)
             \/ MarkCaptureIncomplete(c) \/ CompleteCaptureAttempt(c) \/ Respond(c)
      PROVE  LayoutInv'
  <2>1. UNCHANGED <<events, cuts>>
    BY <1>3 DEF Receive, BeginCaptureAttempt, ReadHeader, MarkCaptureIncomplete,
                CompleteCaptureAttempt, Respond
  <2>2. ASSUME NEW d \in Conns, pc'[d] = "stream"
        PROVE  pc[d] = "stream" /\ req'[d] = req[d]
    BY <1>3, <2>2 DEF Receive, BeginCaptureAttempt, ReadHeader, MarkCaptureIncomplete,
                CompleteCaptureAttempt, Respond, Goto, Answer, IInv, TypeOK
  <2>3. QED
    BY <2>1, <2>2, QuietStep
<1>4. ASSUME NEW c \in Conns, AbortAppend(c) \/ CompareEvent(c)
      PROVE  LayoutInv'
  <2>1. ASSUME NEW d \in Conns, pc'[d] = "stream"
        PROVE  pc[d] = "stream" /\ req'[d] = req[d] /\ cuts'[d] = cuts[d]
    BY <1>4, <2>1 DEF AbortAppend, CompareEvent, EndTransaction, Goto, Answer, IInv, TypeOK
  <2>2. QED
    BY <1>4, <2>1, QuietStep DEF AbortAppend, CompareEvent
<1>5. CASE Next
  BY <1>2, <1>3, <1>4, <1>5, NextCases, AppendLayout, ConsumeLayout, CommitLayout
<1>6. QED
  BY <1>1, <1>5

\* If no Read of the connection is short, every committed event can be read back,
\* completed and compared: the layout AppendEvent writes is the one validChunk demands.
THEOREM FullReadsKeepEvidenceReadable ==
  ASSUME ShortReads = FALSE
  PROVE  Spec => []EvidenceReadable
<1>1. IInv /\ LayoutInv /\ [Next]_vars => LayoutInv'
  BY StepLayout
<1>2. LayoutInv => EvidenceReadable
  BY DEF LayoutInv
<1>3. QED
  BY <1>1, <1>2, InitLayout, DaemonInvariant, PTL DEF Spec
=============================================================================
