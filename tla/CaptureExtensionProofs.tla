----------------------- MODULE CaptureExtensionProofs -----------------------
(***************************************************************************)
(* Safety of CaptureExtension for every number of sessions and events and  *)
(* every limit: the counters enqueue decides by are the real backlog, every *)
(* captured event has one fate, and what is acknowledged is stored in order.*)
(***************************************************************************)
EXTENDS CaptureExtension, FiniteSetTheorems, SequenceTheorems, TLAPS

\* The fields of an event.
LEMMA EventFields ==
  ASSUME NEW e \in Event
  PROVE  e.client \in Clients /\ e.seq \in Nat /\ e.size \in Nat /\ e.size \in Sizes /\ e # None
BY ExtensionAssumption DEF Event

\* The event Enqueue makes.
LEMMA NewEvent ==
  ASSUME TypeOK, NEW k \in Clients, NEW size \in Sizes
  PROVE  LET event == [client |-> k, seq |-> sequence[k] + 1, size |-> size] IN
         /\ event \in Event /\ event # None
         /\ event.client = k /\ event.seq = sequence[k] + 1 /\ event.size = size
BY ExtensionAssumption, SMTT(30) DEF TypeOK, Event

\* Met, fate by fate.
LEMMA MetCases ==
  ASSUME NEW k \in Clients, NEW n \in Nat
  PROVE  /\ Met("backlog", k, n) <=> \E e \in Backlog(k) : e.client = k /\ e.seq = n
         /\ Met("dropped", k, n) <=> \E e \in dropped : e.client = k /\ e.seq = n
         /\ Met("failed", k, n) <=> \E e \in failed : e.client = k /\ e.seq = n
         /\ Met("acked", k, n) <=> \E e \in acked : e.client = k /\ e.seq = n
BY DEF Met

LEMMA InitInv == Init => IInv
<1> SUFFICES ASSUME Init PROVE IInv
  OBVIOUS
<1> USE ExtensionAssumption
<1>1. TypeOK
  BY EmptySeq DEF Init, TypeOK, Clients
<1>2. \A k \in Clients : Backlog(k) = {} /\ queue[k] = <<>> /\ Len(queue[k]) = 0
  BY EmptySeq DEF Init, Backlog
<1>3. QueueInv
  BY <1>2 DEF Init, QueueInv, InOrder
<1>4. FateInv
  BY DEF Init, FateInv, EveryEventAccounted
<1>5. StoreInv
  BY EmptySeq DEF Init, StoreInv
<1>6. \A k \in Clients : BytesAddUp(k)
  <2> TAKE k \in Clients
  <2> DEFINE total == [i \in 0..Len(queue[k]) |-> 0]
  <2>1. total \in [0..Len(queue[k]) -> 0..MaxPendingBytes]
    OBVIOUS
  <2>2. /\ total[0] = IF sending[k] = None THEN 0 ELSE sending[k].size
        /\ \A i \in 1..Len(queue[k]) : total[i] = total[i - 1] + queue[k][i].size
        /\ \A i, j \in 0..Len(queue[k]) : i <= j => total[i] <= total[j]
        /\ pendingBytes[k] = total[Len(queue[k])]
    BY <1>2 DEF Init
  <2> QED
    BY <2>1, <2>2 DEF BytesAddUp
<1>7. BacklogBounded /\ \A k \in Clients : IsFiniteSet(Backlog(k))
  <2>1. \A k \in Clients : Cardinality(Backlog(k)) = 0 /\ IsFiniteSet(Backlog(k))
    BY <1>2, FS_EmptySet
  <2> QED
    BY <1>6, <2>1 DEF Init, BacklogBounded
<1> QED
  BY <1>1, <1>3, <1>4, <1>5, <1>7 DEF IInv

-----------------------------------------------------------------------------
(* What a step leaves alone, and fates *)

\* The invariants of one client depend on that client's variables only.
LEMMA SameClient ==
  ASSUME NEW l \in Clients,
         queue'[l] = queue[l], sending'[l] = sending[l], stage'[l] = stage[l],
         sequence'[l] = sequence[l], pendingBytes'[l] = pendingBytes[l],
         InOrder(l), BytesAddUp(l)
  PROVE  InOrder(l)' /\ BytesAddUp(l)' /\ Backlog(l)' = Backlog(l)
<1>1. InOrder(l)'
  BY DEF InOrder
<1>2. BytesAddUp(l)'
  BY DEF BytesAddUp
<1>3. Backlog(l)' = Backlog(l)
  BY DEF Backlog
<1> QED
  BY <1>1, <1>2, <1>3

\* What is in the backlog of a client was captured for it.
LEMMA BacklogMember ==
  ASSUME TypeOK, QueueInv, NEW l \in Clients, NEW e \in Backlog(l)
  PROVE  e \in Event /\ e.client = l /\ e.seq \in 1..sequence[l]
<1>1. CASE e = sending[l] /\ sending[l] # None
  BY <1>1 DEF TypeOK, QueueInv, InOrder
<1>2. ASSUME NEW i \in 1..Len(queue[l]), e = queue[l][i]
      PROVE  e \in Event /\ e.client = l /\ e.seq \in 1..sequence[l]
  <2>1. queue[l] \in Seq(Event)
    BY DEF TypeOK
  <2>2. e \in Event
    BY <1>2, <2>1, ElementOfSeq
  <2>3. sending[l] \in Event
    <3>1. sending[l] # None
      BY <1>2, EmptySeq DEF QueueInv, InOrder
    <3> QED
      BY <3>1 DEF TypeOK
  <2>4. e.client = l /\ sending[l].seq < e.seq /\ e.seq <= sequence[l]
    BY <1>2 DEF QueueInv, InOrder
  <2>5. e.seq \in Nat /\ sending[l].seq \in Nat /\ sequence[l] \in Nat
    BY <2>2, <2>3, EventFields DEF TypeOK
  <2> QED
    BY <2>2, <2>4, <2>5
<1> QED
  BY <1>1, <1>2 DEF Backlog

\* One event gets a new fate, the others keep theirs.
LEMMA FateStep ==
  ASSUME EveryEventAccounted, NEW k \in Clients, NEW m \in Nat, NEW new \in Fates,
         \A l \in Clients : \A n \in 1..sequence'[l] :
           ~(l = k /\ n = m) => /\ n \in 1..sequence[l]
                               /\ \A f \in Fates : Met(f, l, n)' <=> Met(f, l, n),
         \A f \in Fates : Met(f, k, m)' <=> f = new
  PROVE  EveryEventAccounted'
<1> SUFFICES ASSUME NEW l \in Clients, NEW n \in 1..sequence'[l]
             PROVE  \E fate \in Fates : \A other \in Fates : Met(other, l, n)' <=> other = fate
  BY DEF EveryEventAccounted
<1>1. CASE l = k /\ n = m
  BY <1>1
<1>2. CASE ~(l = k /\ n = m)
  <2>1. PICK fate \in Fates : \A other \in Fates : Met(other, l, n) <=> other = fate
    BY <1>2 DEF EveryEventAccounted
  <2> QED
    BY <1>2, <2>1
<1> QED
  BY <1>1, <1>2

-----------------------------------------------------------------------------
(* Enqueue *)

\* A captured event that is dropped changes neither queue nor counters.
LEMMA DropStep ==
  ASSUME IInv, NEW k \in Clients, NEW size \in Sizes, Enqueue(k, size), UNCHANGED outcome,
         k \in closed \/ Full(k, size)
  PROVE  /\ FateInv' /\ QueueInv' /\ BacklogBounded'
         /\ dropped' \subseteq Event /\ pressed' \subseteq dropped'
         /\ UNCHANGED <<queue, sending, stage, pendingEvents, pendingBytes>>
<1> DEFINE event == [client |-> k, seq |-> sequence[k] + 1, size |-> size]
<1> USE DEF IInv
<1>1. /\ sequence' = [sequence EXCEPT ![k] = sequence[k] + 1]
      /\ dropped' = dropped \cup {event}
      /\ pressed' \subseteq pressed \cup {event}
      /\ UNCHANGED <<queue, sending, stage, pendingEvents, pendingBytes>>
  BY DEF Enqueue
<1>2. UNCHANGED <<failed, acked>>
  BY DEF outcome
<1>3. event \in Event /\ event.client = k /\ event.seq = sequence[k] + 1
  BY NewEvent
<1>4. sequence[k] \in Nat /\ sequence \in [Clients -> Nat]
  BY DEF TypeOK
<1>m. PICK m \in Nat : m = sequence[k] + 1
  BY <1>4
<1>5. QueueInv'
  <2> SUFFICES ASSUME NEW l \in Clients PROVE InOrder(l)'
    BY DEF QueueInv
  <2>1. sequence'[l] \in Nat /\ sequence[l] <= sequence'[l]
    BY <1>1, <1>4
  <2>2. \A i \in 1..Len(queue[l]) : queue[l][i].seq \in Nat
    <3>1. queue[l] \in Seq(Event)
      BY DEF TypeOK
    <3> QED
      BY <3>1, ElementOfSeq, EventFields
  <2>3. InOrder(l)
    BY DEF QueueInv
  <2> HIDE DEF IInv
  <2>4. UNCHANGED <<queue, sending, stage>>
    BY <1>1
  <2>5. /\ stage[l] = "idle" <=> sending[l] = None
        /\ sending[l] = None => queue[l] = <<>>
    BY <2>3 DEF InOrder
  <2>6. sending[l] # None => sending[l].client = l /\ sending[l].seq \in 1..sequence'[l]
    BY <1>4, <2>1, <2>3 DEF InOrder
  <2>7. ASSUME NEW i \in 1..Len(queue[l])
        PROVE  /\ queue[l][i].client = l
               /\ sending[l].seq < queue[l][i].seq /\ queue[l][i].seq <= sequence'[l]
               /\ \A j \in 1..Len(queue[l]) : i < j => queue[l][i].seq < queue[l][j].seq
    <3>1. /\ queue[l][i].client = l
          /\ sending[l].seq < queue[l][i].seq /\ queue[l][i].seq <= sequence[l]
          /\ \A j \in 1..Len(queue[l]) : i < j => queue[l][i].seq < queue[l][j].seq
      BY <2>3 DEF InOrder
    <3>2. queue[l][i].seq \in Nat /\ sequence[l] \in Nat
      BY <1>4, <2>2
    <3> QED
      BY <2>1, <3>1, <3>2
  <2> QED
    BY <2>4, <2>5, <2>6, <2>7 DEF InOrder
<1>6. \A l \in Clients : Backlog(l)' = Backlog(l) /\ (BytesAddUp(l)' <=> BytesAddUp(l))
  BY <1>1 DEF Backlog, BytesAddUp
<1>7. BacklogBounded'
  BY <1>1, <1>6 DEF BacklogBounded
<1>8. EveryEventAccounted'
  <2>1. ASSUME NEW l \in Clients, NEW n \in 1..sequence'[l], ~(l = k /\ n = m)
        PROVE  /\ n \in 1..sequence[l]
               /\ \A f \in Fates : Met(f, l, n)' <=> Met(f, l, n)
    <3>1. n \in 1..sequence[l] /\ n \in Nat
      BY <1>1, <1>4, <1>m, <2>1
    <3>2. /\ Met("backlog", l, n)' <=> Met("backlog", l, n)
          /\ Met("failed", l, n)' <=> Met("failed", l, n)
          /\ Met("acked", l, n)' <=> Met("acked", l, n)
      BY <1>2, <1>6 DEF Met
    <3>3. Met("dropped", l, n)' <=> Met("dropped", l, n)
      BY <1>1, <1>3, <1>m, <2>1 DEF Met
    <3> QED
      BY <3>1, <3>2, <3>3 DEF Fates
  <2>2. \A f \in Fates : Met(f, k, m)' <=> f = "dropped"
    <3>1. Met("dropped", k, m)'
      BY <1>1, <1>3, <1>m DEF Met
    <3>2. ~Met("failed", k, m)' /\ ~Met("acked", k, m)'
      BY <1>2, <1>4, <1>m DEF Met, FateInv
    <3>3. ~Met("backlog", k, m)'
      BY <1>4, <1>6, <1>m, BacklogMember DEF Met
    <3> QED
      BY <3>1, <3>2, <3>3 DEF Fates
  <2>3. "dropped" \in Fates
    BY DEF Fates
  <2>4. EveryEventAccounted
    BY DEF FateInv
  <2> QED
    BY <2>1, <2>2, <2>3, <2>4, FateStep
<1>9. FateInv'
  <2>1. \A e \in dropped \cup failed \cup acked : e.client \in Clients /\ e.seq \in 1..sequence[e.client]
    BY EventFields DEF TypeOK, FateInv
  <2>2. \A l \in Clients : 1..sequence[l] \subseteq 1..sequence'[l]
    BY <1>1, <1>4
  <2> QED
    BY <1>1, <1>2, <1>3, <1>4, <1>8, <2>1, <2>2 DEF FateInv
<1>10. dropped' \subseteq Event /\ pressed' \subseteq dropped'
  BY <1>1, <1>3 DEF TypeOK
<1> QED
  BY <1>1, <1>5, <1>7, <1>9, <1>10

\* A captured event that is kept is one more in the backlog, and that is its fate.
LEMMA KeptEvent ==
  ASSUME IInv, NEW k \in Clients, NEW event \in Event,
         event.client = k, event.seq = sequence[k] + 1,
         sequence' = [sequence EXCEPT ![k] = sequence[k] + 1],
         Backlog(k)' = Backlog(k) \cup {event},
         \A l \in Clients \ {k} : Backlog(l)' = Backlog(l),
         UNCHANGED <<dropped, failed, acked>>
  PROVE  /\ FateInv'
         /\ \A l \in Clients : IsFiniteSet(Backlog(l)')
         /\ Cardinality(Backlog(k)') = Cardinality(Backlog(k)) + 1
<1> USE DEF IInv
<1>1. sequence[k] \in Nat /\ sequence \in [Clients -> Nat]
  BY DEF TypeOK
<1>m. PICK m \in Nat : m = sequence[k] + 1
  BY <1>1
<1>2. event \notin Backlog(k)
  BY <1>1, BacklogMember
<1>3. /\ \A l \in Clients : IsFiniteSet(Backlog(l)')
      /\ Cardinality(Backlog(k)') = Cardinality(Backlog(k)) + 1
  <2>1. IsFiniteSet(Backlog(k))
    OBVIOUS
  <2>2. /\ IsFiniteSet(Backlog(k) \cup {event})
        /\ Cardinality(Backlog(k) \cup {event}) = Cardinality(Backlog(k)) + 1
    BY <1>2, <2>1, FS_AddElement
  <2> QED
    BY <2>2
<1>4. EveryEventAccounted'
  <2>1. ASSUME NEW l \in Clients, NEW n \in 1..sequence'[l], ~(l = k /\ n = m)
        PROVE  /\ n \in 1..sequence[l]
               /\ \A f \in Fates : Met(f, l, n)' <=> Met(f, l, n)
    <3>1. n \in 1..sequence[l] /\ n \in Nat
      BY <1>1, <1>m, <2>1
    <3>2. /\ Met("dropped", l, n)' <=> Met("dropped", l, n)
          /\ Met("failed", l, n)' <=> Met("failed", l, n)
          /\ Met("acked", l, n)' <=> Met("acked", l, n)
      BY DEF Met
    <3>3. Met("backlog", l, n)' <=> Met("backlog", l, n)
      BY <1>m, <2>1 DEF Met
    <3> QED
      BY <3>1, <3>2, <3>3 DEF Fates
  <2>2. \A f \in Fates : Met(f, k, m)' <=> f = "backlog"
    <3>1. Met("backlog", k, m)'
      BY <1>m DEF Met
    <3>2. ~Met("failed", k, m)' /\ ~Met("acked", k, m)' /\ ~Met("dropped", k, m)'
      BY <1>1, <1>m DEF Met, FateInv
    <3> QED
      BY <3>1, <3>2 DEF Fates
  <2>3. "backlog" \in Fates
    BY DEF Fates
  <2>4. EveryEventAccounted
    BY DEF FateInv
  <2> QED
    BY <2>1, <2>2, <2>3, <2>4, FateStep
<1>5. FateInv'
  <2>1. \A e \in dropped \cup failed \cup acked : e.client \in Clients /\ e.seq \in 1..sequence[e.client]
    BY EventFields DEF TypeOK, FateInv
  <2>2. \A l \in Clients : 1..sequence[l] \subseteq 1..sequence'[l]
    BY <1>1
  <2> QED
    BY <1>4, <2>1, <2>2 DEF FateInv
<1> QED
  BY <1>3, <1>5

\* An idle drain loop takes the event at once.
LEMMA TakeStep ==
  ASSUME IInv, NEW k \in Clients, NEW size \in Sizes, Enqueue(k, size), UNCHANGED outcome,
         ~(k \in closed \/ Full(k, size)), sending[k] = None
  PROVE  /\ FateInv' /\ QueueInv' /\ BacklogBounded'
         /\ \A l \in Clients : IsFiniteSet(Backlog(l)')
         /\ sending' \in [Clients -> Event \cup {None}]
         /\ stage' \in [Clients -> {"idle", "send", "read"}]
         /\ UNCHANGED <<queue, dropped, pressed>>
         /\ pendingEvents' \in [Clients -> Nat] /\ pendingBytes' \in [Clients -> Nat]
<1> DEFINE event == [client |-> k, seq |-> sequence[k] + 1, size |-> size]
<1> USE ExtensionAssumption DEF IInv
<1>1. /\ sequence' = [sequence EXCEPT ![k] = sequence[k] + 1]
      /\ pendingEvents' = [pendingEvents EXCEPT ![k] = pendingEvents[k] + 1]
      /\ pendingBytes' = [pendingBytes EXCEPT ![k] = pendingBytes[k] + size]
      /\ sending' = [sending EXCEPT ![k] = event]
      /\ stage' = [stage EXCEPT ![k] = "send"]
      /\ UNCHANGED <<queue, dropped, pressed>>
  BY DEF Enqueue
<1>2. UNCHANGED <<failed, acked>>
  BY DEF outcome
<1>3. event \in Event /\ event # None /\ event.client = k /\ event.seq = sequence[k] + 1 /\ event.size = size
  BY NewEvent
<1> HIDE DEF event
<1>4. /\ sequence[k] \in Nat /\ pendingEvents[k] \in Nat /\ pendingBytes[k] \in Nat /\ size \in Nat
      /\ sequence'[k] = sequence[k] + 1 /\ sending'[k] = event /\ stage'[k] = "send"
      /\ pendingEvents'[k] = pendingEvents[k] + 1 /\ pendingBytes'[k] = pendingBytes[k] + size
  BY <1>1 DEF TypeOK
<1>5. queue[k] = <<>> /\ Len(queue[k]) = 0
  BY EmptySeq DEF QueueInv, InOrder
<1>6. \A l \in Clients \ {k} :
        /\ queue'[l] = queue[l] /\ sending'[l] = sending[l] /\ stage'[l] = stage[l]
        /\ sequence'[l] = sequence[l] /\ pendingBytes'[l] = pendingBytes[l] /\ pendingEvents'[l] = pendingEvents[l]
        /\ InOrder(l) /\ BytesAddUp(l)
  BY <1>1 DEF TypeOK, QueueInv, BacklogBounded
<1>7. \A l \in Clients \ {k} : InOrder(l)' /\ BytesAddUp(l)' /\ Backlog(l)' = Backlog(l)
  BY <1>6, SameClient
<1>8. Backlog(k) = {} /\ Backlog(k)' = {event}
  BY <1>1, <1>3, <1>4, <1>5 DEF Backlog
<1>9. /\ FateInv'
      /\ \A l \in Clients : IsFiniteSet(Backlog(l)')
      /\ Cardinality(Backlog(k)') = Cardinality(Backlog(k)) + 1
  BY <1>1, <1>2, <1>3, <1>7, <1>8, KeptEvent
<1>10. InOrder(k)'
  BY <1>1, <1>3, <1>4, <1>5 DEF InOrder
<1>11. QueueInv'
  BY <1>7, <1>10 DEF QueueInv
<1>12. BytesAddUp(k)'
  <2>1. pendingBytes[k] = 0
    BY <1>5 DEF BacklogBounded, BytesAddUp
  <2>2. size <= MaxPendingBytes
    BY <1>4, <2>1 DEF Full
  <2> DEFINE total == [i \in 0..0 |-> size]
  <2>3. total \in [0..Len(queue'[k]) -> 0..MaxPendingBytes]
    BY <1>1, <1>4, <1>5, <2>2
  <2>4. /\ total[0] = IF sending'[k] = None THEN 0 ELSE sending'[k].size
        /\ \A i \in 1..Len(queue'[k]) : total[i] = total[i - 1] + queue'[k][i].size
        /\ \A i, j \in 0..Len(queue'[k]) : i <= j => total[i] <= total[j]
        /\ pendingBytes'[k] = total[Len(queue'[k])]
    BY <1>1, <1>3, <1>4, <1>5, <2>1
  <2> QED
    BY <2>3, <2>4 DEF BytesAddUp
<1>13. BacklogBounded'
  <2>1. pendingEvents'[k] = Cardinality(Backlog(k)') /\ pendingEvents'[k] <= MaxPendingEvents
    BY <1>4, <1>9 DEF BacklogBounded, Full
  <2> QED
    BY <1>6, <1>7, <1>12, <2>1 DEF BacklogBounded
<1>p. pendingEvents \in [Clients -> Nat] /\ pendingBytes \in [Clients -> Nat]
  BY DEF TypeOK
<1>14. pendingEvents' \in [Clients -> Nat] /\ pendingBytes' \in [Clients -> Nat]
  BY <1>1, <1>4, <1>p
<1>15. /\ sending' \in [Clients -> Event \cup {None}]
       /\ stage' \in [Clients -> {"idle", "send", "read"}]
  BY <1>1, <1>3 DEF TypeOK
<1> QED
  BY <1>1, <1>9, <1>11, <1>13, <1>14, <1>15

\* A busy drain loop finds the event at the end of the queue.
LEMMA AppendStep ==
  ASSUME IInv, NEW k \in Clients, NEW size \in Sizes, Enqueue(k, size), UNCHANGED outcome,
         ~(k \in closed \/ Full(k, size)), sending[k] # None
  PROVE  /\ FateInv' /\ QueueInv' /\ BacklogBounded'
         /\ \A l \in Clients : IsFiniteSet(Backlog(l)')
         /\ queue' \in [Clients -> Seq(Event)]
         /\ UNCHANGED <<sending, stage, dropped, pressed>>
         /\ pendingEvents' \in [Clients -> Nat] /\ pendingBytes' \in [Clients -> Nat]
<1> DEFINE event == [client |-> k, seq |-> sequence[k] + 1, size |-> size]
           len == Len(queue[k])
<1> USE ExtensionAssumption DEF IInv
<1>1. /\ sequence' = [sequence EXCEPT ![k] = sequence[k] + 1]
      /\ pendingEvents' = [pendingEvents EXCEPT ![k] = pendingEvents[k] + 1]
      /\ pendingBytes' = [pendingBytes EXCEPT ![k] = pendingBytes[k] + size]
      /\ queue' = [queue EXCEPT ![k] = Append(queue[k], event)]
      /\ UNCHANGED <<sending, stage, dropped, pressed>>
  BY DEF Enqueue
<1>2. UNCHANGED <<failed, acked>>
  BY DEF outcome
<1>3. event \in Event /\ event # None /\ event.client = k /\ event.seq = sequence[k] + 1 /\ event.size = size
  BY NewEvent
<1> HIDE DEF event
<1>4. /\ sequence[k] \in Nat /\ pendingEvents[k] \in Nat /\ pendingBytes[k] \in Nat /\ size \in Nat
      /\ sequence'[k] = sequence[k] + 1 /\ queue'[k] = Append(queue[k], event)
      /\ pendingEvents'[k] = pendingEvents[k] + 1 /\ pendingBytes'[k] = pendingBytes[k] + size
  BY <1>1 DEF TypeOK
<1>q. queue[k] \in Seq(Event) /\ sending[k] \in Event /\ sending[k].seq \in Nat
  BY EventFields DEF TypeOK
<1>5. /\ queue'[k] \in Seq(Event) /\ len \in Nat /\ Len(queue'[k]) = len + 1
      /\ \A i \in 1..len : queue'[k][i] = queue[k][i]
      /\ queue'[k][len + 1] = event
  BY <1>3, <1>4, <1>q, AppendProperties, LenProperties
<1>6. \A l \in Clients \ {k} :
        /\ queue'[l] = queue[l] /\ sending'[l] = sending[l] /\ stage'[l] = stage[l]
        /\ sequence'[l] = sequence[l] /\ pendingBytes'[l] = pendingBytes[l] /\ pendingEvents'[l] = pendingEvents[l]
        /\ InOrder(l) /\ BytesAddUp(l)
  BY <1>1 DEF TypeOK, QueueInv, BacklogBounded
<1>7. \A l \in Clients \ {k} : InOrder(l)' /\ BytesAddUp(l)' /\ Backlog(l)' = Backlog(l)
  BY <1>6, SameClient
<1>8. Backlog(k)' = Backlog(k) \cup {event}
  <2> SUFFICES ASSUME NEW e PROVE e \in Backlog(k)' <=> e \in Backlog(k) \/ e = event
    OBVIOUS
  <2>1. e \in Backlog(k)' <=> (\E i \in 1..(len + 1) : e = queue'[k][i]) \/ e = sending[k]
    BY <1>1, <1>5 DEF Backlog
  <2>2. e \in Backlog(k) <=> (\E i \in 1..len : e = queue[k][i]) \/ e = sending[k]
    BY DEF Backlog
  <2>3. (\E i \in 1..(len + 1) : e = queue'[k][i]) <=> (\E i \in 1..len : e = queue[k][i]) \/ e = event
    <3>1. 1..(len + 1) = 1..len \cup {len + 1}
      BY <1>5
    <3>2. \A i \in 1..(len + 1) :
            e = queue'[k][i] <=> (i \in 1..len /\ e = queue[k][i]) \/ (i = len + 1 /\ e = event)
      <4> TAKE i \in 1..(len + 1)
      <4>1. CASE i \in 1..len
        BY <1>5, <4>1
      <4>2. CASE i = len + 1
        BY <1>5, <4>2
      <4> QED
        BY <3>1, <4>1, <4>2
    <3> HIDE DEF len
    <3> QED
      BY <3>1, <3>2
  <2> QED
    BY <2>1, <2>2, <2>3
<1>9. /\ FateInv'
      /\ \A l \in Clients : IsFiniteSet(Backlog(l)')
      /\ Cardinality(Backlog(k)') = Cardinality(Backlog(k)) + 1
  BY <1>1, <1>2, <1>3, <1>7, <1>8, KeptEvent
<1>10. InOrder(k)'
  <2>1. InOrder(k)
    BY DEF QueueInv
  <2>2. \A i \in 1..len : queue[k][i].seq \in Nat
    BY <1>q, ElementOfSeq, EventFields
  <2>3. \A i \in 1..len : queue[k][i].seq < event.seq
    <3>1. \A i \in 1..len : queue[k][i].seq <= sequence[k]
      BY <2>1 DEF InOrder
    <3> QED
      BY <1>3, <1>4, <2>2, <3>1, SMTT(30)
  <2>4. sending[k].seq < event.seq /\ sending[k].seq \in 1..sequence'[k]
    BY <1>3, <1>4, <1>q, <2>1 DEF InOrder
  <2>5. ASSUME NEW i \in 1..Len(queue'[k])
        PROVE  /\ queue'[k][i].client = k
               /\ sending'[k].seq < queue'[k][i].seq /\ queue'[k][i].seq <= sequence'[k]
               /\ \A j \in 1..Len(queue'[k]) : i < j => queue'[k][i].seq < queue'[k][j].seq
    <3>1. CASE i = len + 1
      BY <1>1, <1>3, <1>4, <1>5, <2>4, <3>1
    <3>2. CASE i \in 1..len
      <4>1. /\ queue[k][i].client = k /\ sending[k].seq < queue[k][i].seq
            /\ queue[k][i].seq <= sequence[k]
            /\ \A j \in 1..len : i < j => queue[k][i].seq < queue[k][j].seq
        BY <2>1, <3>2 DEF InOrder
      <4>2. queue[k][i].seq <= sequence'[k]
        BY <1>4, <2>2, <3>2, <4>1, SMTT(30)
      <4> QED
        BY <1>1, <1>5, <2>3, <3>2, <4>1, <4>2
    <3> QED
      BY <1>5, <3>1, <3>2
  <2> QED
    BY <1>1, <2>1, <2>4, <2>5 DEF InOrder
<1>11. QueueInv'
  BY <1>7, <1>10 DEF QueueInv
<1>12. BytesAddUp(k)'
  <2>1. PICK total \in [0..len -> 0..MaxPendingBytes] :
          /\ total[0] = sending[k].size
          /\ \A i \in 1..len : total[i] = total[i - 1] + queue[k][i].size
          /\ \A i, j \in 0..len : i <= j => total[i] <= total[j]
          /\ pendingBytes[k] = total[len]
    BY DEF BacklogBounded, BytesAddUp
  <2>2. pendingBytes[k] + size <= MaxPendingBytes
    BY <1>4 DEF Full
  <2> DEFINE more == [i \in 0..(len + 1) |-> IF i = len + 1 THEN pendingBytes[k] + size ELSE total[i]]
  <2>3. more \in [0..Len(queue'[k]) -> 0..MaxPendingBytes]
    BY <1>4, <1>5, <2>1, <2>2, SMTT(30)
  <2>4. more[0] = IF sending'[k] = None THEN 0 ELSE sending'[k].size
    BY <1>1, <1>5, <2>1
  <2>5. \A i \in 1..Len(queue'[k]) : more[i] = more[i - 1] + queue'[k][i].size
    <3> SUFFICES ASSUME NEW i \in 1..(len + 1)
                 PROVE  more[i] = more[i - 1] + queue'[k][i].size
      BY <1>5
    <3>1. CASE i = len + 1
      BY <1>3, <1>5, <2>1, <3>1
    <3>2. CASE i \in 1..len
      <4>1. more[i] = total[i] /\ more[i - 1] = total[i - 1]
        BY <1>5, <3>2, SMTT(30)
      <4> QED
        BY <1>5, <2>1, <3>2, <4>1
    <3> QED
      BY <1>5, <3>1, <3>2
  <2>6. \A i, j \in 0..Len(queue'[k]) : i <= j => more[i] <= more[j]
    <3> SUFFICES ASSUME NEW i \in 0..(len + 1), NEW j \in 0..(len + 1), i <= j
                 PROVE  more[i] <= more[j]
      BY <1>5
    <3>1. CASE j \in 0..len
      BY <1>5, <2>1, <3>1
    <3>2. CASE j = len + 1 /\ i \in 0..len
      <4>1. i \in 0..len /\ len \in 0..len /\ i <= len
        BY <1>5, <3>2
      <4>2. total[i] <= total[len]
        BY <2>1, <4>1
      <4>3. total[i] \in 0..MaxPendingBytes
        BY <4>1
      <4>4. pendingBytes[k] = total[len]
        BY <2>1
      <4> QED
        BY <1>4, <1>5, <3>2, <4>2, <4>3, <4>4
    <3>3. CASE j = len + 1 /\ i = len + 1
      BY <1>4, <1>5, <3>3
    <3> QED
      BY <1>5, <3>1, <3>2, <3>3
  <2>7. pendingBytes'[k] = more[Len(queue'[k])]
    BY <1>4, <1>5
  <2> QED
    BY <2>3, <2>4, <2>5, <2>6, <2>7 DEF BytesAddUp
<1>13. BacklogBounded'
  <2>1. pendingEvents'[k] = Cardinality(Backlog(k)') /\ pendingEvents'[k] <= MaxPendingEvents
    BY <1>4, <1>9 DEF BacklogBounded, Full
  <2> QED
    BY <1>6, <1>7, <1>12, <2>1 DEF BacklogBounded
<1>p. pendingEvents \in [Clients -> Nat] /\ pendingBytes \in [Clients -> Nat]
  BY DEF TypeOK
<1>14. pendingEvents' \in [Clients -> Nat] /\ pendingBytes' \in [Clients -> Nat]
  BY <1>1, <1>4, <1>p, SMTT(30)
<1>15. queue' \in [Clients -> Seq(Event)]
  BY <1>1, <1>4, <1>5 DEF TypeOK
<1> QED
  BY <1>1, <1>9, <1>11, <1>13, <1>14, <1>15
-----------------------------------------------------------------------------
(* The drain loop goes on *)

\* The event being sent is the oldest of the backlog.
LEMMA OldestFirst ==
  ASSUME TypeOK, QueueInv, NEW k \in Clients, NEW e \in Backlog(k), e # sending[k]
  PROVE  sending[k].seq < e.seq /\ sending[k].seq \in Nat /\ e.seq \in Nat
<1>1. PICK i \in 1..Len(queue[k]) : e = queue[k][i]
  BY DEF Backlog
<1>2. sending[k].seq < e.seq
  BY <1>1 DEF QueueInv, InOrder
<1>3. sending[k] # None
  BY <1>1, EmptySeq DEF QueueInv, InOrder
<1>4. sending[k] \in Event
  BY <1>3 DEF TypeOK
<1>5. e \in Event
  BY BacklogMember
<1> QED
  BY <1>2, <1>4, <1>5, EventFields

\* The event whose request is over leaves the backlog, and new is its fate.
LEMMA SettledEvent ==
  ASSUME IInv, NEW k \in Clients, sending[k] # None,
         NEW new \in {"acked", "failed"},
         UNCHANGED <<sequence, dropped>>,
         acked' = IF new = "acked" THEN acked \cup {sending[k]} ELSE acked,
         failed' = IF new = "failed" THEN failed \cup {sending[k]} ELSE failed,
         Backlog(k)' = Backlog(k) \ {sending[k]},
         \A l \in Clients \ {k} : Backlog(l)' = Backlog(l)
  PROVE  /\ FateInv'
         /\ \A l \in Clients : IsFiniteSet(Backlog(l)')
         /\ Cardinality(Backlog(k)') = Cardinality(Backlog(k)) - 1
<1> USE DEF IInv
<1>1. PICK event \in Event : event = sending[k]
  BY DEF TypeOK
<1>2. event \in Backlog(k)
  BY <1>1 DEF Backlog
<1>3. event.client = k /\ event.seq \in 1..sequence[k]
  BY <1>2, BacklogMember
<1>4. PICK m \in Nat : m = event.seq
  BY <1>1, EventFields
<1>5. sequence \in [Clients -> Nat]
  BY DEF TypeOK
<1>6. \A e \in Backlog(k) : e # event => e.seq # m
  BY <1>1, <1>4, OldestFirst
<1>7. /\ \A l \in Clients : IsFiniteSet(Backlog(l)')
      /\ Cardinality(Backlog(k)') = Cardinality(Backlog(k)) - 1
  <2>1. IsFiniteSet(Backlog(k))
    OBVIOUS
  <2>2. /\ IsFiniteSet(Backlog(k) \ {event})
        /\ Cardinality(Backlog(k) \ {event}) = Cardinality(Backlog(k)) - 1
    BY <1>2, <2>1, FS_RemoveElement
  <2> QED
    BY <1>1, <2>2
<1>8. EveryEventAccounted'
  <2>1. ASSUME NEW l \in Clients, NEW n \in 1..sequence'[l], ~(l = k /\ n = m)
        PROVE  /\ n \in 1..sequence[l]
               /\ \A f \in Fates : Met(f, l, n)' <=> Met(f, l, n)
    <3>1. n \in 1..sequence[l]
      OBVIOUS
    <3>2. Met("dropped", l, n)' <=> Met("dropped", l, n)
      BY DEF Met
    <3>3. Met("acked", l, n)' <=> Met("acked", l, n)
      BY <1>1, <1>3, <1>4, <2>1 DEF Met
    <3>4. Met("failed", l, n)' <=> Met("failed", l, n)
      BY <1>1, <1>3, <1>4, <2>1 DEF Met
    <3>5. Met("backlog", l, n)' <=> Met("backlog", l, n)
      BY <1>1, <1>3, <1>4, <2>1 DEF Met
    <3> QED
      BY <3>1, <3>2, <3>3, <3>4, <3>5 DEF Fates
  <2>2. EveryEventAccounted
    BY DEF FateInv
  <2>3. \A f \in Fates : Met(f, k, m) <=> f = "backlog"
    <3>1. Met("backlog", k, m)
      BY <1>2, <1>3, <1>4 DEF Met
    <3>2. PICK fate \in Fates : \A other \in Fates : Met(other, k, m) <=> other = fate
      BY <1>3, <1>4, <2>2 DEF EveryEventAccounted
    <3> QED
      BY <3>1, <3>2 DEF Fates
  <2>4. \A f \in Fates : Met(f, k, m)' <=> f = new
    <3>1. ~Met("backlog", k, m)'
      BY <1>1, <1>6 DEF Met
    <3>2. ~Met("dropped", k, m)'
      BY <2>3 DEF Met, Fates
    <3>3. ~Met("acked", k, m) /\ ~Met("failed", k, m)
      BY <2>3 DEF Fates
    <3>4. Met("acked", k, m)' <=> new = "acked"
      BY <1>1, <1>3, <1>4, <3>3 DEF Met
    <3>5. Met("failed", k, m)' <=> new = "failed"
      BY <1>1, <1>3, <1>4, <3>3 DEF Met
    <3> QED
      BY <3>1, <3>2, <3>4, <3>5 DEF Fates
  <2>5. new \in Fates
    BY DEF Fates
  <2> QED
    BY <2>1, <2>2, <2>4, <2>5, FateStep
<1>9. FateInv'
  BY <1>1, <1>3, <1>8 DEF FateInv
<1> QED
  BY <1>7, <1>9

\* With an empty queue the drain loop ends.
LEMMA LoopEnds ==
  ASSUME IInv, NEW k \in Clients, sending[k] # None, NextEvent(k), queue[k] = <<>>
  PROVE  /\ Backlog(k)' = Backlog(k) \ {sending[k]}
         /\ InOrder(k)' /\ BytesAddUp(k)'
         /\ queue' \in [Clients -> Seq(Event)]
         /\ sending' \in [Clients -> Event \cup {None}]
         /\ stage' \in [Clients -> {"idle", "send", "read"}]
         /\ pendingBytes'[k] \in Nat
<1> USE ExtensionAssumption DEF IInv
<1>1. /\ pendingBytes'[k] = pendingBytes[k] - sending[k].size
      /\ sending'[k] = None /\ stage'[k] = "idle" /\ queue' = queue
      /\ queue' \in [Clients -> Seq(Event)]
      /\ sending' \in [Clients -> Event \cup {None}]
      /\ stage' \in [Clients -> {"idle", "send", "read"}]
  BY DEF NextEvent, TypeOK
<1>2. Len(queue[k]) = 0
  BY EmptySeq
<1>3. Backlog(k)' = Backlog(k) \ {sending[k]}
  BY <1>1, <1>2 DEF Backlog
<1>4. InOrder(k)'
  BY <1>1, <1>2 DEF InOrder
<1>5. sending[k].size \in Nat /\ pendingBytes[k] = sending[k].size
  <2>1. sending[k].size \in Nat
    BY EventFields DEF TypeOK
  <2>2. pendingBytes[k] = sending[k].size
    BY <1>2 DEF BacklogBounded, BytesAddUp
  <2> QED
    BY <2>1, <2>2
<1>6. BytesAddUp(k)'
  <2> DEFINE total == [i \in 0..0 |-> 0]
  <2>1. total \in [0..Len(queue'[k]) -> 0..MaxPendingBytes]
    BY <1>1, <1>2
  <2>2. /\ total[0] = IF sending'[k] = None THEN 0 ELSE sending'[k].size
        /\ \A i \in 1..Len(queue'[k]) : total[i] = total[i - 1] + queue'[k][i].size
        /\ \A i, j \in 0..Len(queue'[k]) : i <= j => total[i] <= total[j]
        /\ pendingBytes'[k] = total[Len(queue'[k])]
    BY <1>1, <1>2, <1>5
  <2> QED
    BY <2>1, <2>2 DEF BytesAddUp
<1> QED
  BY <1>1, <1>3, <1>4, <1>5, <1>6

\* Otherwise it takes the head of the queue.
LEMMA LoopTakesHead ==
  ASSUME IInv, NEW k \in Clients, sending[k] # None, NextEvent(k), queue[k] # <<>>
  PROVE  /\ Backlog(k)' = Backlog(k) \ {sending[k]}
         /\ InOrder(k)' /\ BytesAddUp(k)'
         /\ queue' \in [Clients -> Seq(Event)]
         /\ sending' \in [Clients -> Event \cup {None}]
         /\ stage' \in [Clients -> {"idle", "send", "read"}]
         /\ pendingBytes'[k] \in Nat
<1> DEFINE len == Len(queue[k])
           old == sending[k]
<1> USE ExtensionAssumption DEF IInv
<1>1. /\ pendingBytes'[k] = pendingBytes[k] - old.size
      /\ sending' = [sending EXCEPT ![k] = Head(queue[k])]
      /\ stage' = [stage EXCEPT ![k] = "send"]
      /\ queue' = [queue EXCEPT ![k] = Tail(queue[k])]
      /\ sequence' = sequence
  BY DEF NextEvent, TypeOK
<1>2. /\ queue \in [Clients -> Seq(Event)] /\ sending \in [Clients -> Event \cup {None}]
      /\ stage \in [Clients -> {"idle", "send", "read"}] /\ sequence[k] \in Nat
      /\ pendingBytes[k] \in Nat
  BY DEF TypeOK
<1>3. /\ queue[k] \in Seq(Event) /\ len \in Nat \ {0}
      /\ old \in Event /\ old.seq \in Nat /\ old.size \in Nat
  BY <1>2, EmptySeq, EventFields
<1>4. /\ sending'[k] = queue[k][1] /\ stage'[k] = "send" /\ queue'[k] \in Seq(Event)
      /\ Len(queue'[k]) = len - 1
      /\ \A i \in 1..(len - 1) : queue'[k][i] = queue[k][i + 1]
  <2>1. Head(queue[k]) = queue[k][1]
    BY <1>3
  <2>2. sending'[k] = Head(queue[k]) /\ queue'[k] = Tail(queue[k]) /\ stage'[k] = "send"
    BY <1>1, <1>2
  <2> QED
    BY <1>3, <2>1, <2>2, HeadTailProperties
<1>5. \A i \in 1..len : queue[k][i] \in Event /\ queue[k][i].seq \in Nat /\ queue[k][i].size \in Nat
                        /\ queue[k][i] # None
  BY <1>3, ElementOfSeq, EventFields
<1>6. \A i \in 1..len :
        /\ queue[k][i].client = k
        /\ old.seq < queue[k][i].seq /\ queue[k][i].seq <= sequence[k]
        /\ \A j \in 1..len : i < j => queue[k][i].seq < queue[k][j].seq
  BY DEF QueueInv, InOrder
<1>7. /\ queue' \in [Clients -> Seq(Event)]
      /\ sending' \in [Clients -> Event \cup {None}]
      /\ stage' \in [Clients -> {"idle", "send", "read"}]
  BY <1>1, <1>2, <1>3, HeadTailProperties
<1> HIDE DEF len, old
<1>8. 1 \in 1..len /\ \A i \in 1..(len - 1) : i \in 1..len /\ i + 1 \in 1..len /\ 1 < i + 1
  BY <1>3
<1>9. Backlog(k)' = Backlog(k) \ {old}
  <2> SUFFICES ASSUME NEW e PROVE e \in Backlog(k)' <=> e \in Backlog(k) /\ e # old
    OBVIOUS
  <2>1. e \in Backlog(k)' <=> (\E i \in 1..(len - 1) : e = queue'[k][i]) \/ e = queue[k][1]
    BY <1>4, <1>5, <1>8 DEF Backlog
  <2>2. e \in Backlog(k) <=> (\E i \in 1..len : e = queue[k][i]) \/ e = old
    BY DEF Backlog, old, len
  <2>3. ASSUME NEW i \in 1..len, e = queue[k][i]
        PROVE  e # old /\ e \in Backlog(k)'
    <3>1. e # old
      BY <1>3, <1>5, <1>6, <2>3, SMTT(30)
    <3>2. CASE i = 1
      BY <2>1, <2>3, <3>1, <3>2
    <3>3. CASE i # 1
      <4>1. i - 1 \in 1..(len - 1) /\ (i - 1) + 1 = i
        BY <1>3, <3>3
      <4>2. queue'[k][i - 1] = queue[k][i]
        BY <1>4, <4>1
      <4> QED
        BY <2>1, <2>3, <3>1, <4>1, <4>2
    <3> QED
      BY <3>2, <3>3
  <2>4. ASSUME e \in Backlog(k)' PROVE \E i \in 1..len : e = queue[k][i]
    BY <1>4, <1>8, <2>1, <2>4
  <2> QED
    BY <2>2, <2>3, <2>4
<1>10. InOrder(k)'
  <2>1. sending'[k].client = k /\ sending'[k].seq \in 1..sequence[k] /\ sending'[k] # None
    <3>1. queue[k][1].client = k /\ old.seq < queue[k][1].seq /\ queue[k][1].seq <= sequence[k]
      BY <1>6, <1>8
    <3>2. queue[k][1].seq \in Nat /\ queue[k][1] # None
      BY <1>5, <1>8
    <3> QED
      BY <1>2, <1>3, <1>4, <3>1, <3>2
  <2>2. ASSUME NEW i \in 1..(len - 1)
        PROVE  /\ queue'[k][i].client = k
               /\ sending'[k].seq < queue'[k][i].seq /\ queue'[k][i].seq <= sequence[k]
               /\ \A j \in 1..(len - 1) : i < j => queue'[k][i].seq < queue'[k][j].seq
    <3>1. queue'[k][i] = queue[k][i + 1] /\ i + 1 \in 1..len /\ 1 < i + 1
      BY <1>4, <1>8
    <3>2. queue'[k][i].client = k /\ queue'[k][i].seq <= sequence[k]
      BY <1>6, <3>1
    <3>3. sending'[k].seq < queue'[k][i].seq
      BY <1>4, <1>6, <1>8, <3>1
    <3>4. ASSUME NEW j \in 1..(len - 1), i < j PROVE queue'[k][i].seq < queue'[k][j].seq
      <4>1. queue'[k][j] = queue[k][j + 1] /\ j + 1 \in 1..len /\ i + 1 < j + 1
        BY <1>4, <1>8, <3>4
      <4> QED
        BY <1>6, <3>1, <4>1
    <3> QED
      BY <3>2, <3>3, <3>4
  <2> QED
    BY <1>1, <1>4, <2>1, <2>2 DEF InOrder
<1>11. BytesAddUp(k)' /\ pendingBytes'[k] \in Nat
  <2>1. PICK total \in [0..len -> 0..MaxPendingBytes] :
          /\ total[0] = old.size
          /\ \A i \in 1..len : total[i] = total[i - 1] + queue[k][i].size
          /\ \A i, j \in 0..len : i <= j => total[i] <= total[j]
          /\ pendingBytes[k] = total[len]
    BY DEF BacklogBounded, BytesAddUp, len, old
  <2>2. \A i \in 0..len : total[i] \in 0..MaxPendingBytes /\ total[i] \in Nat
    OBVIOUS
  <2>3. \A i \in 0..(len - 1) : i + 1 \in 0..len /\ i + 1 \in 1..len /\ i \in 0..len
    BY <1>3
  <2>4. 0 \in 0..len /\ len \in 0..len /\ 0 <= len /\ 0 \in 0..(len - 1) /\ len - 1 \in 0..(len - 1)
    BY <1>3
  <2>5. \A i \in 0..len : total[i] - old.size \in 0..MaxPendingBytes
    <3> TAKE i \in 0..len
    <3>1. total[0] <= total[i]
      BY <2>1, <2>4
    <3> QED
      BY <1>3, <2>1, <2>2, <3>1, SMTT(30)
  <2> DEFINE rest == [i \in 0..(len - 1) |-> total[i + 1] - old.size]
  <2>6. rest \in [0..(len - 1) -> 0..MaxPendingBytes]
    BY <2>3, <2>5
  <2>7. rest[0] = sending'[k].size
    <3>1. rest[0] = total[1] - old.size
      BY <2>4
    <3>2. total[1] = total[0] + queue[k][1].size
      BY <1>8, <2>1
    <3>3. sending'[k] = queue[k][1]
      BY <1>4
    <3>4. old.size \in Nat /\ queue[k][1].size \in Nat
      BY <1>3, <1>5, <1>8
    <3>5. total[0] = old.size
      BY <2>1
    <3> HIDE DEF rest
    <3> QED
      BY <3>1, <3>2, <3>3, <3>4, <3>5
  <2>8. ASSUME NEW i \in 1..(len - 1)
        PROVE  rest[i] = rest[i - 1] + queue'[k][i].size
    <3>1. i \in 0..(len - 1) /\ i - 1 \in 0..(len - 1) /\ (i - 1) + 1 = i /\ (i + 1) - 1 = i /\ i \in 0..len
      BY <1>3, SMTT(30)
    <3>2. rest[i] = total[i + 1] - old.size /\ rest[i - 1] = total[i] - old.size
      BY <3>1
    <3>3. total[i + 1] = total[i] + queue[k][i + 1].size
      BY <1>8, <2>1, <3>1
    <3>4. queue'[k][i] = queue[k][i + 1] /\ queue[k][i + 1].size \in Nat
      BY <1>4, <1>5, <1>8
    <3>5. total[i] \in Nat
      BY <2>2, <3>1
    <3>6. old.size \in Nat
      BY <1>3
    <3> HIDE DEF rest
    <3> QED
      BY <3>2, <3>3, <3>4, <3>5, <3>6
  <2>9. ASSUME NEW i \in 0..(len - 1), NEW j \in 0..(len - 1), i <= j
        PROVE  rest[i] <= rest[j]
    <3>1. total[i + 1] <= total[j + 1]
      BY <2>1, <2>3, <2>9
    <3>2. total[i + 1] \in Nat /\ total[j + 1] \in Nat
      BY <2>2, <2>3
    <3> QED
      BY <1>3, <3>1, <3>2
  <2>10. pendingBytes'[k] = rest[len - 1] /\ pendingBytes'[k] \in Nat
    <3>1. rest[len - 1] = total[len] - old.size
      BY <1>3, <2>4
    <3> QED
      BY <1>1, <2>1, <2>4, <2>5, <3>1 DEF old
  <2>11. sending'[k] # None
    BY <1>4, <1>5, <1>8
  <2> HIDE DEF rest
  <2> QED
    BY <1>4, <2>6, <2>7, <2>8, <2>9, <2>10, <2>11 DEF BytesAddUp
<1> QED
  BY <1>7, <1>9, <1>10, <1>11 DEF old

\* The request of client k is over: what Acknowledge and RequestFails have in common.
LEMMA NextStep ==
  ASSUME IInv, NEW k \in Clients, sending[k] # None, NextEvent(k),
         NEW new \in {"acked", "failed"},
         acked' = IF new = "acked" THEN acked \cup {sending[k]} ELSE acked,
         failed' = IF new = "failed" THEN failed \cup {sending[k]} ELSE failed
  PROVE  /\ FateInv' /\ QueueInv' /\ BacklogBounded'
         /\ \A l \in Clients : IsFiniteSet(Backlog(l)')
         /\ queue' \in [Clients -> Seq(Event)]
         /\ sending' \in [Clients -> Event \cup {None}]
         /\ stage' \in [Clients -> {"idle", "send", "read"}]
         /\ pendingEvents' \in [Clients -> Nat] /\ pendingBytes' \in [Clients -> Nat]
         /\ UNCHANGED <<sequence, dropped, pressed>>
<1> USE DEF IInv
<1>1. /\ Backlog(k)' = Backlog(k) \ {sending[k]}
      /\ InOrder(k)' /\ BytesAddUp(k)'
      /\ queue' \in [Clients -> Seq(Event)]
      /\ sending' \in [Clients -> Event \cup {None}]
      /\ stage' \in [Clients -> {"idle", "send", "read"}]
      /\ pendingBytes'[k] \in Nat
  BY LoopEnds, LoopTakesHead
<1>2. UNCHANGED <<sequence, dropped, pressed>>
  BY DEF NextEvent
<1>3. pendingEvents \in [Clients -> Nat] /\ pendingBytes \in [Clients -> Nat]
  BY DEF TypeOK
<1>4. /\ pendingEvents' = [pendingEvents EXCEPT ![k] = pendingEvents[k] - 1]
      /\ pendingBytes' = [pendingBytes EXCEPT ![k] = pendingBytes[k] - sending[k].size]
  BY DEF NextEvent
<1>5. pendingEvents'[k] = pendingEvents[k] - 1
  BY <1>3, <1>4
<1>6. \A l \in Clients \ {k} :
        /\ queue'[l] = queue[l] /\ sending'[l] = sending[l] /\ stage'[l] = stage[l]
        /\ sequence'[l] = sequence[l] /\ pendingBytes'[l] = pendingBytes[l] /\ pendingEvents'[l] = pendingEvents[l]
        /\ InOrder(l) /\ BytesAddUp(l)
  <2>1. \A l \in Clients \ {k} : queue'[l] = queue[l] /\ sending'[l] = sending[l] /\ stage'[l] = stage[l]
    BY SMTT(30) DEF NextEvent, TypeOK
  <2>2. \A l \in Clients \ {k} : pendingBytes'[l] = pendingBytes[l] /\ pendingEvents'[l] = pendingEvents[l]
    BY <1>3, <1>4
  <2> QED
    BY <1>2, <2>1, <2>2 DEF QueueInv, BacklogBounded
<1>7. \A l \in Clients \ {k} : InOrder(l)' /\ BytesAddUp(l)' /\ Backlog(l)' = Backlog(l)
  BY <1>6, SameClient
<1>8. /\ FateInv'
      /\ \A l \in Clients : IsFiniteSet(Backlog(l)')
      /\ Cardinality(Backlog(k)') = Cardinality(Backlog(k)) - 1
  BY <1>1, <1>2, <1>7, SettledEvent
<1>9. QueueInv'
  BY <1>1, <1>7 DEF QueueInv
<1>10. pendingEvents'[k] \in Nat
  <2>1. IsFiniteSet(Backlog(k)') /\ pendingEvents'[k] = Cardinality(Backlog(k)')
    BY <1>5, <1>8 DEF BacklogBounded
  <2> QED
    BY <2>1, FS_CardinalityType
<1>11. pendingEvents' \in [Clients -> Nat] /\ pendingBytes' \in [Clients -> Nat]
  <2>1. \A l \in Clients : pendingEvents'[l] \in Nat /\ pendingBytes'[l] \in Nat
    BY <1>1, <1>3, <1>6, <1>10
  <2>2. pendingEvents' = [l \in Clients |-> pendingEvents'[l]]
    BY <1>3, <1>4
  <2>3. pendingBytes' = [l \in Clients |-> pendingBytes'[l]]
    BY <1>3, <1>4
  <2> HIDE DEF IInv
  <2> QED
    BY <2>1, <2>2, <2>3
<1>12. BacklogBounded'
  <2>1. pendingEvents[k] \in Nat /\ MaxPendingEvents \in Nat
    BY <1>3, ExtensionAssumption
  <2>2. pendingEvents'[k] = Cardinality(Backlog(k)') /\ pendingEvents'[k] <= MaxPendingEvents
    BY <1>5, <1>8, <2>1 DEF BacklogBounded
  <2>3. \A l \in Clients \ {k} : pendingEvents'[l] = Cardinality(Backlog(l)') /\ pendingEvents'[l] <= MaxPendingEvents
    BY <1>6, <1>7 DEF BacklogBounded
  <2> HIDE DEF IInv
  <2> QED
    BY <1>1, <1>7, <2>2, <2>3 DEF BacklogBounded
<1> QED
  BY <1>1, <1>2, <1>8, <1>9, <1>11, <1>12

-----------------------------------------------------------------------------
(* What the daemon has *)

\* The sequence of the youngest event of client k that was sent or is being sent.
Mark(k) == IF sending[k] = None THEN sequence[k] ELSE sending[k].seq

LEMMA MarkNat ==
  ASSUME TypeOK, NEW k \in Clients
  PROVE  Mark(k) \in Nat
<1>1. CASE sending[k] = None
  BY <1>1 DEF Mark, TypeOK
<1>2. CASE sending[k] # None
  BY <1>2, EventFields DEF Mark, TypeOK
<1> QED
  BY <1>1, <1>2

\* A captured event takes nothing back that was sent.
LEMMA MarkAfterEnqueue ==
  ASSUME TypeOK, NEW k \in Clients, NEW size \in Sizes, Enqueue(k, size), NEW l \in Clients
  PROVE  Mark(l)' \in Nat /\ Mark(l) <= Mark(l)'
<1> DEFINE event == [client |-> k, seq |-> sequence[k] + 1, size |-> size]
<1>1. sequence' = [sequence EXCEPT ![k] = sequence[k] + 1]
  BY DEF Enqueue
<1>2. sending' = sending \/ (sending[k] = None /\ sending' = [sending EXCEPT ![k] = event])
  BY DEF Enqueue
<1>3. event # None /\ event.seq = sequence[k] + 1
  BY NewEvent
<1> HIDE DEF event
<1>4. sequence[l] \in Nat /\ sequence'[l] \in Nat /\ sequence[l] <= sequence'[l]
  BY <1>1, SMTT(30) DEF TypeOK
<1>5. Mark(l) \in Nat
  BY MarkNat
<1>6. CASE sending'[l] = sending[l]
  BY <1>4, <1>5, <1>6 DEF Mark
<1>7. CASE l = k /\ sending[k] = None /\ sending' = [sending EXCEPT ![k] = event]
  BY <1>3, <1>4, <1>7 DEF Mark, TypeOK
<1>8. CASE l # k /\ sending' = [sending EXCEPT ![k] = event]
  BY <1>6, <1>8 DEF TypeOK
<1> QED
  BY <1>2, <1>6, <1>7, <1>8

\* Nor does the drain loop.
LEMMA MarkAfterNext ==
  ASSUME TypeOK, QueueInv, NEW k \in Clients, sending[k] # None, NextEvent(k), NEW l \in Clients
  PROVE  Mark(l)' \in Nat /\ Mark(l) <= Mark(l)'
<1>1. sequence' = sequence /\ sequence[k] \in Nat
  BY DEF NextEvent, TypeOK
<1>2. Mark(l) \in Nat
  BY MarkNat
<1>3. CASE l # k
  <2>1. sending'[l] = sending[l]
    BY <1>3, SMTT(30) DEF NextEvent, TypeOK
  <2> QED
    BY <1>1, <1>2, <2>1 DEF Mark
<1>4. CASE l = k /\ queue[k] = <<>>
  <2>1. sending'[k] = None
    BY <1>4 DEF NextEvent, TypeOK
  <2>2. sending[k].seq \in 1..sequence[k]
    BY DEF QueueInv, InOrder
  <2> QED
    BY <1>1, <1>4, <2>1, <2>2 DEF Mark
<1>5. CASE l = k /\ queue[k] # <<>>
  <2>1. queue[k] \in Seq(Event)
    BY DEF TypeOK
  <2>2. 1 \in 1..Len(queue[k]) /\ Head(queue[k]) = queue[k][1]
    BY <1>5, <2>1, EmptySeq
  <2>3. sending'[k] = queue[k][1]
    BY <1>5, <2>2 DEF NextEvent, TypeOK
  <2>4. sending[k].seq < queue[k][1].seq
    BY <2>2 DEF QueueInv, InOrder
  <2>5. queue[k][1] \in Event
    BY <2>1, <2>2, ElementOfSeq
  <2>6. queue[k][1].seq \in Nat /\ queue[k][1] # None /\ sending[k].seq \in Nat
    BY <2>5, EventFields DEF TypeOK
  <2> QED
    BY <1>5, <2>3, <2>4, <2>6 DEF Mark
<1> QED
  BY <1>3, <1>4, <1>5

\* As long as nothing sent is taken back, what the daemon has was sent.
LEMMA SentStays ==
  ASSUME TypeOK, NEW e \in Event, Sent(e), \A l \in Clients : Mark(l)' \in Nat /\ Mark(l) <= Mark(l)'
  PROVE  Sent(e)'
<1>1. e.client \in Clients /\ e.seq \in Nat
  BY EventFields
<1>2. e.seq <= Mark(e.client)
  BY DEF Sent, Mark
<1>3. e.seq <= Mark(e.client)'
  BY <1>1, <1>2, MarkNat
<1> QED
  BY <1>3 DEF Sent, Mark

LEMMA StoreStays ==
  ASSUME TypeOK, StoreInv, UNCHANGED <<peer, acked>>,
         \A l \in Clients : Mark(l)' \in Nat /\ Mark(l) <= Mark(l)'
  PROVE  StoreInv'
<1>1. UNCHANGED <<inflight, stored, acked>>
  BY DEF peer
<1>2. \A e \in inflight : Sent(e)'
  BY SentStays DEF TypeOK, StoreInv
<1>3. \A k \in Clients : \A i \in 1..Len(stored'[k]) : Sent(stored[k][i])'
  <2> TAKE k \in Clients
  <2> TAKE i \in 1..Len(stored'[k])
  <2>1. PICK e \in Event : e = stored[k][i]
    BY <1>1, ElementOfSeq DEF TypeOK
  <2>2. Sent(e)'
    BY <1>1, <2>1, SentStays DEF StoreInv
  <2>3. stored'[k][i] = e
    BY <1>1, <2>1
  <2> QED
    BY <2>2, <2>3
<1>4. \A k \in Clients : \A i \in 1..Len(stored[k]) : stored[k][i].client = k
  BY DEF StoreInv
<1> QED
  BY <1>1, <1>2, <1>3, <1>4 DEF StoreInv

-----------------------------------------------------------------------------
(* The actions *)

LEMMA EnqueueStep ==
  ASSUME IInv, NEW k \in Clients, NEW size \in Sizes, Enqueue(k, size), UNCHANGED <<outcome, peer>>,
         cur' \in Clients, closed' \subseteq Clients, ended' \subseteq Clients, flushing' \subseteq Clients
  PROVE  IInv'
<1>1. TypeOK /\ StoreInv /\ UNCHANGED outcome
  BY DEF IInv
<1>2. /\ queue \in [Clients -> Seq(Event)] /\ sending \in [Clients -> Event \cup {None}]
      /\ stage \in [Clients -> {"idle", "send", "read"}]
      /\ pendingEvents \in [Clients -> Nat] /\ pendingBytes \in [Clients -> Nat]
      /\ dropped \subseteq Event /\ pressed \subseteq dropped
  BY <1>1 DEF TypeOK
<1>3. /\ FateInv' /\ QueueInv' /\ BacklogBounded'
      /\ \A l \in Clients : IsFiniteSet(Backlog(l)')
      /\ queue' \in [Clients -> Seq(Event)] /\ sending' \in [Clients -> Event \cup {None}]
      /\ stage' \in [Clients -> {"idle", "send", "read"}]
      /\ pendingEvents' \in [Clients -> Nat] /\ pendingBytes' \in [Clients -> Nat]
      /\ dropped' \subseteq Event /\ pressed' \subseteq dropped'
  <2>1. CASE k \in closed \/ Full(k, size)
    <3>1. /\ FateInv' /\ QueueInv' /\ BacklogBounded'
          /\ dropped' \subseteq Event /\ pressed' \subseteq dropped'
          /\ UNCHANGED <<queue, sending, stage, pendingEvents, pendingBytes>>
      BY <1>1, <2>1, DropStep
    <3>2. \A l \in Clients : IsFiniteSet(Backlog(l)')
      BY <3>1 DEF Backlog, IInv
    <3> QED
      BY <1>2, <3>1, <3>2
  <2>2. CASE ~(k \in closed \/ Full(k, size)) /\ sending[k] = None
    BY <1>1, <1>2, <2>2, TakeStep
  <2>3. CASE ~(k \in closed \/ Full(k, size)) /\ sending[k] # None
    BY <1>1, <1>2, <2>3, AppendStep
  <2> QED
    BY <2>1, <2>2, <2>3
<1>4. sequence' \in [Clients -> Nat]
  <2>1. sequence' = [sequence EXCEPT ![k] = sequence[k] + 1] /\ sequence \in [Clients -> Nat]
    BY <1>1 DEF Enqueue, TypeOK
  <2> QED
    BY <2>1
<1>5. /\ acked' \subseteq Event /\ failed' \subseteq Event /\ inflight' \subseteq Event
      /\ stored' \in [Clients -> Seq(Event)]
  BY <1>1 DEF TypeOK, outcome, peer
<1>6. TypeOK'
  BY <1>3, <1>4, <1>5 DEF TypeOK
<1>7. StoreInv'
  <2>1. \A l \in Clients : Mark(l)' \in Nat /\ Mark(l) <= Mark(l)'
    BY <1>1, MarkAfterEnqueue
  <2>2. UNCHANGED <<peer, acked>>
    BY DEF outcome
  <2> QED
    BY <1>1, <2>1, <2>2, StoreStays
<1> QED
  BY <1>3, <1>6, <1>7 DEF IInv

\* TypeOK and the session's variables when a request is over.
LEMMA SettleStep ==
  ASSUME IInv, NEW k \in Clients, sending[k] # None, NextEvent(k), UNCHANGED <<session, peer>>,
         NEW new \in {"acked", "failed"},
         acked' = IF new = "acked" THEN acked \cup {sending[k]} ELSE acked,
         failed' = IF new = "failed" THEN failed \cup {sending[k]} ELSE failed
  PROVE  /\ TypeOK' /\ FateInv' /\ QueueInv' /\ BacklogBounded'
         /\ \A l \in Clients : IsFiniteSet(Backlog(l)')
         /\ \A l \in Clients : Mark(l)' \in Nat /\ Mark(l) <= Mark(l)'
<1>1. /\ FateInv' /\ QueueInv' /\ BacklogBounded'
      /\ \A l \in Clients : IsFiniteSet(Backlog(l)')
      /\ queue' \in [Clients -> Seq(Event)]
      /\ sending' \in [Clients -> Event \cup {None}]
      /\ stage' \in [Clients -> {"idle", "send", "read"}]
      /\ pendingEvents' \in [Clients -> Nat] /\ pendingBytes' \in [Clients -> Nat]
      /\ UNCHANGED <<sequence, dropped, pressed>>
  BY NextStep
<1>2. TypeOK /\ QueueInv
  BY DEF IInv
<1>3. acked' \subseteq Event /\ failed' \subseteq Event
  BY <1>2 DEF TypeOK
<1>4. /\ sequence' \in [Clients -> Nat] /\ dropped' \subseteq Event /\ pressed' \subseteq dropped'
  BY <1>1, <1>2 DEF TypeOK
<1>5. /\ cur' \in Clients /\ closed' \subseteq Clients /\ ended' \subseteq Clients /\ flushing' \subseteq Clients
      /\ inflight' \subseteq Event /\ stored' \in [Clients -> Seq(Event)]
  BY <1>2 DEF TypeOK, session, peer
<1>6. TypeOK'
  BY <1>1, <1>3, <1>4, <1>5 DEF TypeOK
<1>7. \A l \in Clients : Mark(l)' \in Nat /\ Mark(l) <= Mark(l)'
  BY <1>2, MarkAfterNext
<1> QED
  BY <1>1, <1>6, <1>7

LEMMA RequestFailsStep ==
  ASSUME IInv, NEW k \in Clients, RequestFails(k)
  PROVE  IInv'
<1>1. sending[k] # None
  BY DEF IInv, QueueInv, InOrder, RequestFails
<1>2. /\ NextEvent(k) /\ UNCHANGED <<session, peer>>
      /\ acked' = acked /\ failed' = failed \cup {sending[k]}
  BY DEF RequestFails
<1>3. /\ TypeOK' /\ FateInv' /\ QueueInv' /\ BacklogBounded'
      /\ \A l \in Clients : IsFiniteSet(Backlog(l)')
      /\ \A l \in Clients : Mark(l)' \in Nat /\ Mark(l) <= Mark(l)'
  <2>1. PICK new \in {"acked", "failed"} : new = "failed"
    OBVIOUS
  <2> QED
    BY <1>1, <1>2, <2>1, SettleStep
<1>4. StoreInv'
  <2>1. TypeOK /\ StoreInv /\ UNCHANGED <<peer, acked>>
    BY <1>2 DEF IInv
  <2> QED
    BY <1>3, <2>1, StoreStays
<1> QED
  BY <1>3, <1>4 DEF IInv

\* The daemon answers the event being sent, and nothing younger is stored.
LEMMA AcknowledgeStep ==
  ASSUME IInv, NEW k \in Clients, Acknowledge(k)
  PROVE  IInv'
<1>1. sending[k] # None
  BY DEF IInv, QueueInv, InOrder, Acknowledge
<1>2. /\ NextEvent(k) /\ UNCHANGED <<session, peer>>
      /\ acked' = acked \cup {sending[k]} /\ failed' = failed
      /\ \E i \in 1..Len(stored[k]) : stored[k][i] = sending[k]
  BY DEF Acknowledge
<1>3. /\ TypeOK' /\ FateInv' /\ QueueInv' /\ BacklogBounded'
      /\ \A l \in Clients : IsFiniteSet(Backlog(l)')
      /\ \A l \in Clients : Mark(l)' \in Nat /\ Mark(l) <= Mark(l)'
  <2>1. PICK new \in {"acked", "failed"} : new = "acked"
    OBVIOUS
  <2> QED
    BY <1>1, <1>2, <2>1, SettleStep
<1>4. TypeOK /\ StoreInv /\ QueueInv
  BY DEF IInv
<1>5. PICK event \in Event : event = sending[k]
  BY <1>1, <1>4 DEF TypeOK
<1>6. event.client = k /\ event.seq \in Nat
  BY <1>1, <1>4, <1>5, EventFields DEF QueueInv, InOrder
<1>7. UNCHANGED <<inflight, stored>>
  BY <1>2 DEF peer
<1>8. \A e \in inflight : Sent(e)'
  BY <1>3, <1>4, SentStays DEF TypeOK, StoreInv
<1>9. \A l \in Clients : \A i \in 1..Len(stored'[l]) : stored'[l][i].client = l /\ Sent(stored[l][i])'
  <2> TAKE l \in Clients
  <2> TAKE i \in 1..Len(stored'[l])
  <2>1. PICK e \in Event : e = stored[l][i]
    BY <1>4, <1>7, ElementOfSeq DEF TypeOK
  <2>2. Sent(e)' /\ e.client = l
    BY <1>3, <1>4, <1>7, <2>1, SentStays DEF StoreInv
  <2>3. stored'[l][i] = e
    BY <1>7, <2>1
  <2> QED
    BY <2>2, <2>3
<1>10. \A j \in 1..Len(stored[k]) : ~(event.seq < stored[k][j].seq)
  <2> TAKE j \in 1..Len(stored[k])
  <2>1. stored[k][j].client = k /\ Sent(stored[k][j]) /\ stored[k][j] \in Event
    BY <1>4, ElementOfSeq DEF StoreInv, TypeOK
  <2>2. stored[k][j].seq <= event.seq
    BY <1>1, <1>5, <2>1 DEF Sent
  <2>3. stored[k][j].seq \in Nat
    BY <2>1, EventFields
  <2> QED
    BY <1>6, <2>2, <2>3
<1>11. ASSUME NEW e \in acked'
       PROVE  /\ \E i \in 1..Len(stored[e.client]) : stored[e.client][i] = e
              /\ \A j \in 1..Len(stored[e.client]) :
                   e.seq < stored[e.client][j].seq => \E i \in 1..(j - 1) : stored[e.client][i] = e
  <2>1. CASE e = event
    BY <1>2, <1>5, <1>6, <1>10, <2>1
  <2>2. CASE e \in acked
    BY <1>4, <2>2 DEF StoreInv
  <2> QED
    BY <1>2, <1>5, <2>1, <2>2
<1>12. StoreInv'
  BY <1>7, <1>8, <1>9, <1>11 DEF StoreInv
<1> QED
  BY <1>3, <1>12 DEF IInv

\* A step that neither captures, takes nor settles an event.
LEMMA QuietStep ==
  ASSUME IInv,
         UNCHANGED <<sequence, queue, sending, pendingEvents, pendingBytes, dropped, failed, acked>>,
         \A l \in Clients : stage'[l] = "idle" <=> stage[l] = "idle"
  PROVE  /\ QueueInv' /\ FateInv' /\ BacklogBounded'
         /\ \A l \in Clients : IsFiniteSet(Backlog(l)')
         /\ \A l \in Clients : Mark(l)' \in Nat /\ Mark(l) <= Mark(l)'
<1> USE DEF IInv
<1>1. QueueInv'
  BY DEF QueueInv, InOrder
<1>2. \A l \in Clients : Backlog(l)' = Backlog(l) /\ (BytesAddUp(l)' <=> BytesAddUp(l))
  BY DEF Backlog, BytesAddUp
<1>3. BacklogBounded' /\ \A l \in Clients : IsFiniteSet(Backlog(l)')
  BY <1>2 DEF BacklogBounded
<1>4. \A l \in Clients : \A n : \A f \in Fates : Met(f, l, n)' <=> Met(f, l, n)
  BY <1>2 DEF Met
<1>5. EveryEventAccounted'
  <2> SUFFICES ASSUME NEW l \in Clients, NEW n \in 1..sequence'[l]
               PROVE  \E fate \in Fates : \A other \in Fates : Met(other, l, n)' <=> other = fate
    BY DEF EveryEventAccounted
  <2>1. PICK fate \in Fates : \A other \in Fates : Met(other, l, n) <=> other = fate
    BY DEF FateInv, EveryEventAccounted
  <2> QED
    BY <1>4, <2>1
<1>6. FateInv'
  BY <1>5 DEF FateInv
<1>7. \A l \in Clients : Mark(l)' \in Nat /\ Mark(l) <= Mark(l)'
  <2> TAKE l \in Clients
  <2>1. Mark(l) \in Nat
    BY MarkNat
  <2>2. Mark(l)' = Mark(l)
    BY DEF Mark
  <2> QED
    BY <2>1, <2>2
<1> QED
  BY <1>1, <1>3, <1>6, <1>7

LEMMA SendStep ==
  ASSUME IInv, NEW k \in Clients, Send(k)
  PROVE  IInv'
<1>1. /\ stage[k] = "send" /\ stage' = [stage EXCEPT ![k] = "read"]
      /\ inflight' = inflight \cup {sending[k]}
      /\ UNCHANGED <<sequence, queue, sending, pendingEvents, pendingBytes, dropped, pressed>>
      /\ UNCHANGED <<acked, failed, cur, closed, ended, flushing, stored>>
  BY DEF Send, outcome, session
<1>2. TypeOK /\ QueueInv /\ StoreInv
  BY DEF IInv
<1>3. stage \in [Clients -> {"idle", "send", "read"}]
  BY <1>2 DEF TypeOK
<1>4. stage' \in [Clients -> {"idle", "send", "read"}]
  BY <1>1, <1>3
<1>5. \A l \in Clients : stage'[l] = "idle" <=> stage[l] = "idle"
  BY <1>1, <1>3
<1>6. /\ QueueInv' /\ FateInv' /\ BacklogBounded'
      /\ \A l \in Clients : IsFiniteSet(Backlog(l)')
      /\ \A l \in Clients : Mark(l)' \in Nat /\ Mark(l) <= Mark(l)'
  BY <1>1, <1>5, QuietStep
<1>7. sending[k] # None
  BY <1>1, <1>2 DEF QueueInv, InOrder
<1>8. sending[k] \in Event /\ sending[k].client = k /\ sending[k].seq \in Nat
  BY <1>2, <1>7, EventFields DEF TypeOK, QueueInv, InOrder
<1>9. TypeOK'
  BY <1>1, <1>2, <1>4, <1>8 DEF TypeOK
<1>10. \A e : Sent(e)' <=> Sent(e)
  BY <1>1 DEF Sent
<1>11. Sent(sending[k])
  BY <1>7, <1>8 DEF Sent
<1>12. StoreInv'
  <2>1. \A e \in inflight' : Sent(e)'
    BY <1>1, <1>2, <1>10, <1>11 DEF StoreInv
  <2>2. \A l \in Clients : \A i \in 1..Len(stored'[l]) : stored'[l][i].client = l /\ Sent(stored[l][i])'
    BY <1>1, <1>2 DEF StoreInv, Sent
  <2>3. \A e \in acked' :
          /\ \E i \in 1..Len(stored'[e.client]) : stored'[e.client][i] = e
          /\ \A j \in 1..Len(stored'[e.client]) :
               e.seq < stored'[e.client][j].seq => \E i \in 1..(j - 1) : stored'[e.client][i] = e
    BY <1>1, <1>2 DEF StoreInv
  <2> QED
    BY <2>1, <2>2, <2>3 DEF StoreInv
<1> QED
  BY <1>6, <1>9, <1>12 DEF IInv

LEMMA FlushEndsStep ==
  ASSUME IInv, NEW k \in Clients, FlushEnds(k)
  PROVE  IInv'
<1>1. /\ UNCHANGED <<sequence, queue, sending, stage, pendingEvents, pendingBytes, dropped, pressed>>
      /\ UNCHANGED <<acked, failed, cur, ended, inflight, stored>>
      /\ flushing' = flushing \ {k} /\ closed' = closed \cup {cur}
  BY DEF FlushEnds, capture, outcome, peer
<1>2. TypeOK /\ StoreInv
  BY DEF IInv
<1>3. TypeOK'
  BY <1>1, <1>2 DEF TypeOK
<1>4. /\ QueueInv' /\ FateInv' /\ BacklogBounded'
      /\ \A l \in Clients : IsFiniteSet(Backlog(l)')
      /\ \A l \in Clients : Mark(l)' \in Nat /\ Mark(l) <= Mark(l)'
  BY <1>1, QuietStep
<1>5. StoreInv'
  BY <1>1, <1>2, <1>4, StoreStays DEF peer
<1> QED
  BY <1>3, <1>4, <1>5 DEF IInv

\* Whatever the daemon stores next, all it acknowledged is stored already.
LEMMA DaemonStoresStep ==
  ASSUME IInv, DaemonStores
  PROVE  IInv'
<1>1. PICK event \in inflight :
        /\ stored' = [stored EXCEPT ![event.client] = Append(stored[event.client], event)]
        /\ inflight' = inflight \ {event}
  BY DEF DaemonStores
<1>2. /\ UNCHANGED <<sequence, queue, sending, stage, pendingEvents, pendingBytes, dropped, pressed>>
      /\ UNCHANGED <<acked, failed, cur, closed, ended, flushing>>
  BY DEF DaemonStores, capture, outcome, session
<1>3. TypeOK /\ StoreInv
  BY DEF IInv
<1>4. event \in Event
  BY <1>3 DEF TypeOK
<1>5. PICK k \in Clients : k = event.client
  BY <1>4, EventFields
<1>6. PICK len \in Nat : len = Len(stored[k])
  BY <1>3, LenProperties DEF TypeOK
<1>7. stored \in [Clients -> Seq(Event)]
  BY <1>3 DEF TypeOK
<1>8. /\ stored'[k] \in Seq(Event) /\ Len(stored'[k]) = len + 1
      /\ \A i \in 1..len : stored'[k][i] = stored[k][i]
      /\ stored'[k][len + 1] = event
  <2>1. stored'[k] = Append(stored[k], event) /\ stored[k] \in Seq(Event)
    BY <1>1, <1>5, <1>7
  <2> QED
    BY <1>4, <1>6, <2>1, AppendProperties
<1>9. \A l \in Clients \ {k} : stored'[l] = stored[l]
  BY <1>1, <1>5, <1>7
<1>10. stored' \in [Clients -> Seq(Event)]
  BY <1>1, <1>4, <1>5, <1>7, AppendProperties
<1>11. TypeOK'
  BY <1>1, <1>2, <1>3, <1>10 DEF TypeOK
<1>12. /\ QueueInv' /\ FateInv' /\ BacklogBounded'
       /\ \A l \in Clients : IsFiniteSet(Backlog(l)')
  BY <1>2, QuietStep
<1>13. \A e : Sent(e)' <=> Sent(e)
  BY <1>2 DEF Sent
<1>14. \A i \in 1..(len + 1) : i \in 1..len \/ i = len + 1
  OBVIOUS
<1>15. \A l \in Clients : \A i \in 1..Len(stored'[l]) : stored'[l][i].client = l /\ Sent(stored[l][i])'
  <2> SUFFICES ASSUME NEW l \in Clients, NEW i \in 1..Len(stored'[l])
               PROVE  stored'[l][i].client = l /\ Sent(stored[l][i])'
    OBVIOUS
  <2>1. CASE l # k
    <3>1. PICK e : e = stored[l][i] /\ e = stored'[l][i]
      BY <1>9, <2>1
    <3>2. e.client = l /\ Sent(e)
      BY <1>3, <1>9, <2>1, <3>1 DEF StoreInv
    <3>3. Sent(e)'
      BY <1>13, <3>2
    <3> QED
      BY <3>1, <3>2, <3>3
  <2>2. CASE l = k /\ i \in 1..len
    <3>1. PICK e : e = stored[l][i] /\ e = stored'[l][i]
      BY <1>8, <2>2
    <3>2. e.client = l /\ Sent(e)
      <4>1. i \in 1..Len(stored[l])
        BY <1>6, <2>2
      <4>2. stored[l][i].client = l /\ Sent(stored[l][i])
        BY <1>3, <4>1 DEF StoreInv
      <4> QED
        BY <3>1, <4>2
    <3>3. Sent(e)'
      BY <1>13, <3>2
    <3> QED
      BY <3>1, <3>2, <3>3
  <2>3. CASE l = k /\ i = len + 1
    <3>1. Sent(event)'
      BY <1>3, <1>13 DEF StoreInv
    <3>2. stored'[l][i] = event
      BY <1>8, <2>3
    <3> QED
      BY <1>5, <2>3, <3>1, <3>2
  <2> QED
    BY <1>8, <1>14, <2>1, <2>2, <2>3
<1>16. ASSUME NEW e \in acked
       PROVE  /\ \E i \in 1..Len(stored'[e.client]) : stored'[e.client][i] = e
              /\ \A j \in 1..Len(stored'[e.client]) :
                   e.seq < stored'[e.client][j].seq => \E i \in 1..(j - 1) : stored'[e.client][i] = e
  <2>1. /\ \E i \in 1..Len(stored[e.client]) : stored[e.client][i] = e
        /\ \A j \in 1..Len(stored[e.client]) :
             e.seq < stored[e.client][j].seq => \E i \in 1..(j - 1) : stored[e.client][i] = e
    BY <1>3 DEF StoreInv
  <2>2. e.client \in Clients
    BY <1>3, EventFields DEF TypeOK
  <2>3. CASE e.client # k
    BY <1>9, <2>1, <2>2, <2>3
  <2>4. CASE e.client = k
    <3>1. PICK i \in 1..len : stored[k][i] = e
      BY <1>6, <2>1, <2>4
    <3>2. i \in 1..(len + 1) /\ stored'[k][i] = e
      BY <1>8, <3>1
    <3>3. ASSUME NEW j \in 1..(len + 1), e.seq < stored'[k][j].seq
          PROVE  \E h \in 1..(j - 1) : stored'[k][h] = e
      <4>1. CASE j = len + 1
        BY <3>2, <4>1
      <4>2. CASE j \in 1..len
        <5>1. e.seq < stored[k][j].seq
          BY <1>8, <3>3, <4>2
        <5>2. PICK h \in 1..(j - 1) : stored[k][h] = e
          BY <1>6, <2>1, <2>4, <4>2, <5>1
        <5>3. h \in 1..len
          BY <4>2
        <5> QED
          BY <1>8, <5>2, <5>3
      <4> QED
        BY <1>14, <4>1, <4>2
    <3> QED
      BY <1>8, <2>4, <3>2, <3>3
  <2> QED
    BY <2>3, <2>4
<1>17. StoreInv'
  <2>1. \A e \in inflight' : Sent(e)'
    BY <1>1, <1>3, <1>13 DEF StoreInv
  <2> QED
    BY <1>2, <1>15, <1>16, <2>1 DEF StoreInv
<1> QED
  BY <1>11, <1>12, <1>17 DEF IInv

LEMMA StepInv == IInv /\ [Next]_vars => IInv'
<1> SUFFICES ASSUME IInv, [Next]_vars PROVE IInv'
  OBVIOUS
<1>1. TypeOK /\ StoreInv
  BY DEF IInv
<1>2. /\ cur \in Clients /\ closed \subseteq Clients /\ ended \subseteq Clients /\ flushing \subseteq Clients
      /\ MaxSessions \in Nat
  BY <1>1, ExtensionAssumption DEF TypeOK
<1>3. ASSUME NEW size \in Sizes, SessionStart(size) PROVE IInv'
  <2>1. cur + 1 \in Clients
    BY <1>2, <1>3 DEF SessionStart, Clients
  <2>2. /\ cur' \in Clients /\ UNCHANGED <<closed, ended, flushing>> /\ UNCHANGED <<outcome, peer>>
        /\ Enqueue(cur + 1, size)
    BY <1>3, <2>1 DEF SessionStart
  <2> QED
    BY <1>2, <2>1, <2>2, EnqueueStep
<1>4. ASSUME NEW size \in Sizes, Observe(size) PROVE IInv'
  <2>1. Enqueue(cur, size) /\ UNCHANGED <<outcome, peer>> /\ UNCHANGED <<cur, closed, ended, flushing>>
    BY <1>4 DEF Observe, session
  <2> QED
    BY <1>2, <2>1, EnqueueStep
<1>5. ASSUME NEW size \in Sizes, SessionShutdown(size) PROVE IInv'
  <2>1. /\ Enqueue(cur, size) /\ UNCHANGED <<outcome, peer>> /\ UNCHANGED <<cur, closed>>
        /\ ended' \subseteq Clients /\ flushing' \subseteq Clients
    BY <1>2, <1>5 DEF SessionShutdown
  <2> QED
    BY <1>2, <2>1, EnqueueStep
<1>6. ASSUME NEW k \in Clients, FlushEnds(k) \/ Drain(k) PROVE IInv'
  BY <1>6, FlushEndsStep, SendStep, AcknowledgeStep, RequestFailsStep DEF Drain
<1>7. CASE DaemonStores
  BY <1>7, DaemonStoresStep
<1>8. CASE UNCHANGED vars
  <2>1. /\ UNCHANGED <<sequence, queue, sending, stage, pendingEvents, pendingBytes, dropped, pressed>>
        /\ UNCHANGED <<acked, failed, cur, closed, ended, flushing, inflight, stored>>
    BY <1>8 DEF vars, capture, outcome, session, peer
  <2>2. TypeOK'
    BY <1>1, <2>1 DEF TypeOK
  <2>3. /\ QueueInv' /\ FateInv' /\ BacklogBounded'
        /\ \A l \in Clients : IsFiniteSet(Backlog(l)')
        /\ \A l \in Clients : Mark(l)' \in Nat /\ Mark(l) <= Mark(l)'
    BY <2>1, QuietStep
  <2>4. StoreInv'
    BY <1>1, <2>1, <2>3, StoreStays DEF peer
  <2> QED
    BY <2>2, <2>3, <2>4 DEF IInv
<1> QED
  BY <1>3, <1>4, <1>5, <1>6, <1>7, <1>8 DEF Next

-----------------------------------------------------------------------------
(* The theorems *)

\* The inductive invariant of the capture clients holds in every reachable state.
THEOREM ExtensionInvariant == Spec => []IInv
<1> QED
  BY InitInv, StepInv, PTL DEF Spec

\* Every variable keeps its type; no counter of a capture client becomes negative.
THEOREM ExtensionTypeOK == Spec => []TypeOK
<1>1. IInv => TypeOK
  BY DEF IInv
<1> QED
  BY <1>1, ExtensionInvariant, PTL

\* pendingEvents and pendingBytes, which enqueue decides by, are at every moment the
\* number and the bytes of the events queued or being sent, and within their limits.
THEOREM CountersExact == Spec => []BacklogBounded
<1>1. IInv => BacklogBounded
  BY DEF IInv
<1> QED
  BY <1>1, ExtensionInvariant, PTL

\* Every event the observer captured is in exactly one place: in the backlog, dropped
\* by enqueue, failed, or acknowledged by the daemon.
THEOREM OneFate == Spec => []EveryEventAccounted
<1>1. IInv => EveryEventAccounted
  BY DEF IInv, FateInv
<1> QED
  BY <1>1, ExtensionInvariant, PTL

\* The drain loop's one request at a time keeps the acknowledged events of a session in
\* the daemon in the order they were captured.
THEOREM StoredInOrder == Spec => []AckedInOrder
<1>1. IInv => AckedInOrder
  <2> SUFFICES ASSUME IInv, NEW e \in acked, NEW f \in acked, e.client = f.client, e.seq < f.seq
               PROVE  \E i, j \in 1..Len(stored[e.client]) :
                        i < j /\ stored[e.client][i] = e /\ stored[e.client][j] = f
    BY DEF AckedInOrder
  <2>1. StoreInv /\ TypeOK
    BY DEF IInv
  <2>2. PICK j \in 1..Len(stored[e.client]) : stored[e.client][j] = f
    BY <2>1 DEF StoreInv
  <2>3. PICK i \in 1..(j - 1) : stored[e.client][i] = e
    BY <2>1, <2>2 DEF StoreInv
  <2>4. i \in 1..Len(stored[e.client]) /\ i < j
    <3>1. e.client \in Clients
      BY <2>1, EventFields DEF TypeOK
    <3>2. Len(stored[e.client]) \in Nat
      BY <2>1, <3>1, LenProperties DEF TypeOK
    <3> QED
      BY <3>2
  <2> QED
    BY <2>2, <2>3, <2>4
<1> QED
  BY <1>1, ExtensionInvariant, PTL
=============================================================================
