----------------------- MODULE ServerLifecycleProofs -----------------------
(***************************************************************************)
(* Safety of ServerLifecycle for every number of connections, slots and    *)
(* callers of Close: slots are neither leaked nor freed twice, resources   *)
(* are released in the order that protects their users, and a Close that   *)
(* returned left nothing behind.                                           *)
(***************************************************************************)
EXTENDS ServerLifecycle, FiniteSetTheorems, TLAPS

LEMMA InitInv == Init => IInv
<1> SUFFICES ASSUME Init PROVE IInv
  OBVIOUS
<1>1. Holders = {} /\ Counted = {}
  BY DEF Init, Holders, Counted
<1>2. SlotsAccounted
  BY <1>1, FS_EmptySet DEF Init, SlotsAccounted, Holders
<1>3. TypeOK
  <2>1. /\ startDone \in BOOLEAN /\ closeDone \in BOOLEAN
        /\ lockHeld \in BOOLEAN /\ storeOpen \in BOOLEAN /\ listening \in BOOLEAN /\ socketFile \in BOOLEAN
        /\ stuck \in BOOLEAN
    BY Zenon DEF Init
  <2> QED
    BY LifecycleAssumption, <2>1 DEF Init, TypeOK
<1>4. StartInv /\ CloseInv /\ ConnInv
  BY <1>1 DEF Init, StartInv, CloseInv, ConnInv, AfterStart, AfterListener, AfterAccept,
    AfterConns, AfterStore, AfterSocket
<1> QED
  BY <1>2, <1>3, <1>4 DEF IInv

-----------------------------------------------------------------------------
(* Start *)

LEMMA StartSafe ==
  ASSUME IInv, StartCall \/ StartStep \/ StartFails
  PROVE  TypeOK' /\ StartInv' /\ CloseInv' /\ ConnInv' /\ Holders' = Holders /\ slots' = slots
<1> USE DEF IInv, StartInv, CloseInv, ConnInv, Counted, Holders,
      AfterStart, AfterListener, AfterAccept, AfterConns, AfterStore, AfterSocket,
      network, resources
<1>1. CASE StartCall
  BY <1>1 DEF StartCall, TypeOK
<1>2. CASE StartFails
  BY <1>2 DEF StartFails, ResetBacklog, RemoveSocket, TypeOK
<1>3. CASE StartLock
  BY <1>3 DEF StartLock, TypeOK
<1>4. CASE StartStore
  BY <1>4 DEF StartStore, TypeOK
<1>5. CASE StartListen
  BY <1>5 DEF StartListen, TypeOK
<1>6. CASE StartPublish
  BY <1>6 DEF StartPublish, TypeOK
<1>7. CASE StartReturns
  BY <1>7 DEF StartReturns, TypeOK
<1> QED
  BY <1>1, <1>2, <1>3, <1>4, <1>5, <1>6, <1>7 DEF StartStep

-----------------------------------------------------------------------------
(* Accept loop and connection goroutines *)

\* What these steps leave alone keeps the invariants of Start and Close.
LEMMA ConnSafe ==
  ASSUME IInv, NEW c \in Conns, ConnStep(c)
  PROVE  StartInv' /\ CloseInv' /\ ConnInv'
<1> USE DEF IInv, TypeOK, StartInv, CloseInv, ConnInv, Counted,
      AfterStart, AfterListener, AfterAccept, AfterConns, AfterStore, AfterSocket,
      resources
<1>1. CASE Connect(c)
  BY <1>1 DEF Connect
<1>2. CASE Accept(c)
  BY <1>2 DEF Accept
<1>3. CASE Admit(c)
  BY <1>3 DEF Admit
<1>4. CASE ServeEnds(c)
  BY <1>4 DEF ServeEnds
<1>5. CASE DropConnection(c)
  BY <1>5 DEF DropConnection
<1>6. CASE ReleaseSlot(c)
  BY <1>6 DEF ReleaseSlot
<1> QED
  BY <1>1, <1>2, <1>3, <1>4, <1>5, <1>6 DEF ConnStep

\* Whoever holds a slot is counted in slots.
LEMMA HoldersFinite ==
  ASSUME IInv
  PROVE  /\ IsFiniteSet(Holders)
         /\ slots = Cardinality(Holders)
         /\ \A c \in Holders : slots > 0
<1>1. IsFiniteSet(Holders)
  BY LifecycleAssumption, FS_Subset DEF Holders
<1>2. slots = Cardinality(Holders)
  BY DEF IInv, SlotsAccounted, Holders
<1>3. ASSUME NEW c \in Holders PROVE slots > 0
  <2>1. Cardinality(Holders) # 0
    BY <1>1, FS_EmptySet
  <2> QED
    BY <1>1, <1>2, <2>1, FS_CardinalityType
<1> QED
  BY <1>1, <1>2, <1>3

\* A slot is taken with a connection and given back with it: the limit holds and
\* nothing leaks on any of the three paths that free one.
LEMMA ConnSlots ==
  ASSUME IInv, NEW c \in Conns, ConnStep(c)
  PROVE  TypeOK' /\ SlotsAccounted'
<1> USE LifecycleAssumption DEF resources
<1>h. /\ IsFiniteSet(Holders) /\ slots = Cardinality(Holders)
      /\ \A d \in Holders : slots > 0
  BY HoldersFinite
<1>t. TypeOK
  BY DEF IInv
<1>1. CASE Accept(c) /\ slots < MaxConnections
  <2>1. c \notin Holders /\ Holders' = Holders \cup {c}
    BY <1>1, <1>t DEF Accept, Holders, TypeOK
  <2>2. slots' = slots + 1
    BY <1>1, <1>t DEF Accept, TypeOK
  <2>3. SlotsAccounted'
    BY <1>h, <2>1, <2>2, FS_AddElement DEF SlotsAccounted, Holders
  <2> QED
    BY <1>1, <1>t, <2>3 DEF Accept, TypeOK
<1>2. CASE ReleaseSlot(c) \/ (Admit(c) /\ state # "Running")
  <2>1. c \in Holders /\ Holders' = Holders \ {c}
    BY <1>2, <1>t DEF ReleaseSlot, Admit, Holders, TypeOK
  <2>2. slots' = slots - 1
    BY <1>2 DEF ReleaseSlot, Admit
  <2>3. SlotsAccounted'
    BY <1>h, <2>1, <2>2, FS_RemoveElement DEF SlotsAccounted, Holders
  <2>4. slots' \in 0..MaxConnections
    BY <1>h, <1>t, <2>1, <2>2 DEF TypeOK
  <2> QED
    BY <1>2, <1>t, <2>3, <2>4 DEF ReleaseSlot, Admit, TypeOK
<1>3. CASE \/ Connect(c) \/ ServeEnds(c) \/ DropConnection(c)
           \/ (Accept(c) /\ slots = MaxConnections)
           \/ (Admit(c) /\ state = "Running")
  <2>1. Holders' = Holders /\ slots' = slots
    BY <1>3, <1>t DEF Connect, ServeEnds, DropConnection, Accept, Admit, Holders, TypeOK
  <2>2. SlotsAccounted'
    BY <1>h, <2>1 DEF SlotsAccounted, Holders
  <2> QED
    BY <1>3, <1>t, <2>2 DEF Connect, ServeEnds, DropConnection, Accept, Admit, TypeOK
<1> QED
  <2>1. Accept(c) => slots < MaxConnections \/ slots = MaxConnections
    BY DEF Accept
  <2> QED
    BY <1>1, <1>2, <1>3, <2>1 DEF ConnStep

-----------------------------------------------------------------------------
(* Close *)

LEMMA CloseSafe ==
  ASSUME IInv, NEW k \in Closers, CloseCall(k) \/ CloseStep(k)
  PROVE  TypeOK' /\ StartInv' /\ CloseInv' /\ ConnInv' /\ Holders' = Holders /\ slots' = slots
<1> USE DEF IInv, TypeOK, StartInv, CloseInv, ConnInv, Counted, Holders,
      AfterStart, AfterListener, AfterAccept, AfterConns, AfterStore, AfterSocket,
      network, resources, Move
<1>1. CASE CloseCall(k)
  BY <1>1 DEF CloseCall
<1>2. CASE CloseEnter(k)
  BY <1>2 DEF CloseEnter
<1>3. CASE CloseAwaitStart(k)
  BY <1>3 DEF CloseAwaitStart
<1>4. CASE CloseAwaitClose(k)
  BY <1>4 DEF CloseAwaitClose
<1>5. CASE CloseListener(k)
  <2>1. listening' \in BOOLEAN
    BY <1>5, Zenon DEF CloseListener
  <2> QED
    BY <1>5, <2>1 DEF CloseListener, ResetBacklog
<1>6. CASE CloseAwaitAccept(k)
  BY <1>6 DEF CloseAwaitAccept
<1>7. CASE CloseConns(k)
  BY <1>7 DEF CloseConns
<1>8. CASE CloseAwaitConns(k)
  BY <1>8 DEF CloseAwaitConns
<1>9. CASE CloseStore(k)
  <2>1. storeOpen' \in BOOLEAN
    BY <1>9, Zenon DEF CloseStore
  <2> QED
    BY <1>9, <2>1 DEF CloseStore
<1>10. CASE CloseSocket(k)
  <2>1. socketFile' \in BOOLEAN /\ stuck' \in BOOLEAN
    BY <1>10, Zenon DEF CloseSocket, RemoveSocket
  <2> QED
    BY <1>10, <2>1 DEF CloseSocket, RemoveSocket
<1>11. CASE CloseLock(k)
  BY <1>11, ZenonT(30) DEF CloseLock
<1>12. CASE CloseFinish(k)
  BY <1>12 DEF CloseFinish
<1>13. CASE CloseSignal(k)
  BY <1>13 DEF CloseSignal
<1> QED
  BY <1>1, <1>2, <1>3, <1>4, <1>5, <1>6, <1>7, <1>8, <1>9, <1>10, <1>11, <1>12, <1>13 DEF CloseStep

-----------------------------------------------------------------------------
(* The theorems *)

LEMMA StepInv == IInv /\ [Next]_vars => IInv'
<1> SUFFICES ASSUME IInv, [Next]_vars PROVE IInv'
  OBVIOUS
<1>h. ASSUME Holders' = Holders, slots' = slots PROVE SlotsAccounted'
  BY <1>h DEF IInv, SlotsAccounted, Holders
<1>1. CASE StartCall \/ StartFails \/ StartStep
  BY <1>1, <1>h, StartSafe DEF IInv
<1>2. CASE AcceptEnds
  <2> USE DEF AcceptEnds, IInv, resources
  <2>1. TypeOK'
    BY <1>2 DEF TypeOK
  <2>2. StartInv' /\ CloseInv' /\ ConnInv' /\ Holders' = Holders /\ slots' = slots
    BY <1>2 DEF TypeOK, StartInv, CloseInv, ConnInv, Counted, Holders,
      AfterStart, AfterListener, AfterAccept, AfterConns, AfterStore, AfterSocket
  <2> QED
    BY <2>1, <2>2, <1>h
<1>3. ASSUME NEW c \in Conns, ConnStep(c) PROVE IInv'
  BY <1>3, ConnSafe, ConnSlots DEF IInv
<1>4. ASSUME NEW k \in Closers, CloseCall(k) \/ CloseStep(k) PROVE IInv'
  BY <1>4, <1>h, CloseSafe DEF IInv
<1>5. CASE UNCHANGED vars
  BY <1>5 DEF vars, IInv, TypeOK, StartInv, CloseInv, ConnInv, Counted, SlotsAccounted
<1> QED
  BY <1>1, <1>2, <1>3, <1>4, <1>5 DEF Next

\* The inductive invariant of Start, Close, the accept loop and its connections.
THEOREM LifecycleInvariant == Spec => []IInv
BY InitInv, StepInv, PTL DEF Spec

\* The variables of the server keep their types; slots stays within the capacity of
\* the channel s.slots.
THEOREM LifecycleTypeOK == Spec => []TypeOK
<1>1. IInv => TypeOK
  BY DEF IInv
<1> QED
  BY LifecycleInvariant, <1>1, PTL

\* acceptLoop and dropConnection: a slot is held by exactly the connections that are
\* admitted, served or dropped, whatever Close does meanwhile.
THEOREM NoSlotLeaks == Spec => []SlotsAccounted
<1>1. IInv => SlotsAccounted
  BY DEF IInv
<1> QED
  BY LifecycleInvariant, <1>1, PTL

\* Close and the cleanup of Start: no handler runs on a closed store, and store,
\* listener and socket exist only under the instance lock (a socket that could not be
\* removed outlives it).
THEOREM ReleasedInOrder == Spec => []ReleaseOrder
<1>1. IInv => ReleaseOrder
  BY DEF IInv, ConnInv, Counted, ReleaseOrder
<1> QED
  BY LifecycleInvariant, <1>1, PTL

\* Close returns to nobody, neither to the goroutine that closed the server nor to
\* one that waited for it, before everything is released.
THEOREM ReturnedMeansClosed == Spec => []CloseReturnsClosed
<1>1. IInv => CloseReturnsClosed
  BY DEF IInv, CloseInv, ConnInv, Counted, CloseReturnsClosed
<1> QED
  BY LifecycleInvariant, <1>1, PTL
=============================================================================
