----------------------- MODULE DaemonInstancesProofs -----------------------
(***************************************************************************)
(* Safety of DaemonInstances for every set of processes: the lock makes    *)
(* Start and Close critical sections, so the database has one owner and a  *)
(* running daemon keeps its socket.                                        *)
(***************************************************************************)
EXTENDS DaemonInstances, TLAPS

\* A new node is a node; the sentinel is none.
LEMMA NewNodeType ==
  ASSUME TypeOK, NEW kind \in {"socket", "file"}, NEW owner \in Owners
  PROVE  /\ NewNode(kind, owner) \in Node
         /\ NewNode(kind, owner) # None
         /\ NewNode(kind, owner).owner = owner
         /\ NewNode(kind, owner).kind = kind
BY InstancesAssumption DEF NewNode, Node, TypeOK

LEMMA InitInv == Init => IInv
BY InstancesAssumption DEF Init, IInv, TypeOK, LockInv, StageInv, KindInv, ReachableDaemon,
  PathClearedForListen, Stages

\* Every step keeps the types.
LEMMA StepType == IInv /\ [Next]_vars => TypeOK'
<1> SUFFICES ASSUME IInv, [Next]_vars PROVE TypeOK'
  OBVIOUS
<1> USE InstancesAssumption DEF IInv, TypeOK, Stages, directory, sockets, Goto
<1>1. CASE Intrude
  <2>1. PICK kind \in {"socket", "file"} : path' = NewNode(kind, Outsider)
    BY <1>1 DEF Intrude
  <2>2. path' \in Node
    BY <2>1, NewNodeType DEF Owners
  <2> QED
    BY <1>1, <2>2 DEF Intrude
<1>2. ASSUME NEW p \in Procs, Listen(p) PROVE TypeOK'
  <2>1. NewNode("socket", p) \in Node
    BY NewNodeType DEF Owners
  <2> QED
    BY <1>2, <2>1 DEF Listen
<1>3. ASSUME NEW p \in Procs, Quarantine(p) \/ Inspect(p) PROVE TypeOK'
  BY <1>3 DEF Quarantine, Inspect, AfterRemove
<1>4. ASSUME NEW p \in Procs, Launch(p) \/ AcquireLock(p) \/ OpenStore(p) \/ Recover(p) \/ Identify(p)
      PROVE  TypeOK'
  BY <1>4 DEF Launch, AcquireLock, OpenStore, Recover, Identify
<1>5. ASSUME NEW p \in Procs, Close(p) \/ CloseListener(p) \/ CloseStore(p) \/ Release(p)
      PROVE  TypeOK'
  BY <1>5 DEF Close, CloseListener, CloseStore, Release
<1>6. ASSUME NEW p \in Procs, Crash(p) PROVE TypeOK'
  BY <1>6 DEF Crash
<1>7. CASE UNCHANGED vars
  BY <1>7 DEF vars
<1> QED
  BY <1>1, <1>2, <1>3, <1>4, <1>5, <1>6, <1>7 DEF Next, Step

\* The steps of Start and Close keep the rest: only the lock holder touches the
\* path, the quarantine and the store.
LEMMA StepSafe ==
  IInv /\ [Next]_vars => (LockInv /\ StageInv /\ KindInv /\ ReachableDaemon /\ PathClearedForListen)'
<1> DEFINE Safe == LockInv /\ StageInv /\ KindInv /\ ReachableDaemon /\ PathClearedForListen
<1> SUFFICES ASSUME IInv, [Next]_vars PROVE Safe'
  OBVIOUS
<1> USE InstancesAssumption DEF IInv, TypeOK, LockInv, StageInv, KindInv, ReachableDaemon,
      PathClearedForListen, directory, sockets, Goto
<1>1. CASE Intrude
  <2>1. path' # None /\ path'.owner = Outsider
    BY <1>1, NewNodeType DEF Intrude, Owners
  <2> QED
    BY <1>1, <2>1 DEF Intrude
<1>2. ASSUME NEW p \in Procs, Listen(p) PROVE Safe'
  <2>1. /\ NewNode("socket", p) \in Node /\ NewNode("socket", p) # None
        /\ NewNode("socket", p).kind = "socket"
    BY NewNodeType DEF Owners
  <2> QED
    BY <1>2, <2>1 DEF Listen
<1>3. ASSUME NEW p \in Procs, Quarantine(p) PROVE Safe'
  BY <1>3 DEF Quarantine, AfterRemove
<1>4. ASSUME NEW p \in Procs, Inspect(p) PROVE Safe'
  BY <1>4 DEF Inspect, AfterRemove
<1>5. ASSUME NEW p \in Procs, Launch(p) PROVE Safe'
  BY <1>5 DEF Launch
<1>6. ASSUME NEW p \in Procs, AcquireLock(p) PROVE Safe'
  BY <1>6 DEF AcquireLock
<1>7. ASSUME NEW p \in Procs, OpenStore(p) \/ Recover(p) PROVE Safe'
  BY <1>7 DEF OpenStore, Recover
<1>8. ASSUME NEW p \in Procs, Identify(p) PROVE Safe'
  BY <1>8 DEF Identify
<1>9. ASSUME NEW p \in Procs, Close(p) \/ CloseListener(p) PROVE Safe'
  BY <1>9 DEF Close, CloseListener
<1>10. ASSUME NEW p \in Procs, CloseStore(p) PROVE Safe'
  BY <1>10 DEF CloseStore
<1>11. ASSUME NEW p \in Procs, Release(p) PROVE Safe'
  BY <1>11 DEF Release
<1>12. ASSUME NEW p \in Procs, Crash(p) PROVE Safe'
  BY <1>12 DEF Crash
<1>13. CASE UNCHANGED vars
  BY <1>13 DEF vars
<1> QED
  BY <1>1, <1>2, <1>3, <1>4, <1>5, <1>6, <1>7, <1>8, <1>9, <1>10, <1>11, <1>12, <1>13 DEF Next, Step

\* The inductive invariant of the start and close protocol.
THEOREM InstancesInvariant == Spec => []IInv
<1>1. IInv /\ [Next]_vars => IInv'
  BY StepType, StepSafe DEF IInv
<1> QED
  BY InitInv, <1>1, PTL DEF Spec

\* One process at a time has the evidence database open (server.go, Start and
\* Close: the store is opened after AcquireLock and closed before Release).
THEOREM OneStoreOwner == Spec => []SingleStore
<1>1. IInv => SingleStore
  BY DEF IInv, TypeOK, LockInv, StageInv, SingleStore
<1> QED
  BY InstancesInvariant, <1>1, PTL

\* A running daemon's path leads to its own listener unless an outsider put a
\* node there (runtime_lock.go, removeStaleSocket).
THEOREM RunningIsReachable == Spec => []ReachableDaemon
<1>1. IInv => ReachableDaemon
  BY DEF IInv
<1> QED
  BY InstancesInvariant, <1>1, PTL

\* Sockets of dead daemons never stop the next one from listening.
THEOREM ListenPathCleared == Spec => []PathClearedForListen
<1>1. IInv => PathClearedForListen
  BY DEF IInv
<1> QED
  BY InstancesInvariant, <1>1, PTL

\* Every variable keeps its type, whatever daemons start, crash and close.
THEOREM InstancesTypeOK == Spec => []TypeOK
<1>1. IInv => TypeOK
  BY DEF IInv
<1> QED
  BY InstancesInvariant, <1>1, PTL

\* No step of any daemon deletes a file that is not a socket.
THEOREM FilesNeverDeleted == Spec => FilesPreserved
<1>1. IInv /\ [Next]_vars => [\A n \in Present : n.kind = "file" => n \in Present']_vars
  <2> SUFFICES ASSUME IInv, Next, NEW n \in Present, n.kind = "file"
               PROVE  n \in Present'
    BY DEF Present
  <2>a. n # None /\ (n = path \/ (\E q \in Procs : n = quarantine[q]) \/ n \in leftover)
    BY DEF Present
  <2> DEFINE Kept == n = path' \/ (\E q \in Procs : n = quarantine'[q]) \/ n \in leftover'
  <2> SUFFICES Kept
    BY <2>a DEF Present
  <2> USE <2>a, InstancesAssumption DEF IInv, TypeOK, directory, sockets, Goto
  <2>1. CASE Intrude
    BY <2>1 DEF Intrude, KindInv
  <2>2. ASSUME NEW p \in Procs, Quarantine(p) PROVE Kept
    <3>1. ASSUME NEW q \in Procs, n = quarantine[q] PROVE Kept
      BY <2>2, <3>1 DEF Quarantine
    <3>2. CASE n = path
      BY <2>2, <3>2 DEF Quarantine
    <3> QED
      BY <2>2, <3>1, <3>2 DEF Quarantine
  <2>3. ASSUME NEW p \in Procs, Inspect(p) PROVE Kept
    <3>1. CASE n = quarantine[p]
      BY <2>3, <3>1 DEF Inspect, Expected
    <3>2. ASSUME NEW q \in Procs \ {p}, n = quarantine[q] PROVE Kept
      BY <2>3, <3>2 DEF Inspect
    <3>3. CASE n = path \/ n \in leftover
      BY <2>3, <3>3 DEF Inspect
    <3> QED
      BY <3>1, <3>2, <3>3
  <2>4. ASSUME NEW p \in Procs, Crash(p) PROVE Kept
    BY <2>4 DEF Crash
  <2>5. ASSUME NEW p \in Procs, Listen(p) PROVE Kept
    BY <2>5 DEF Listen
  <2>6. ASSUME NEW p \in Procs,
               \/ Launch(p) \/ AcquireLock(p) \/ OpenStore(p) \/ Recover(p) \/ Identify(p)
               \/ Close(p) \/ CloseListener(p) \/ CloseStore(p) \/ Release(p)
        PROVE  Kept
    BY <2>6 DEF Launch, AcquireLock, OpenStore, Recover, Identify, Close, CloseListener,
                CloseStore, Release
  <2> QED
    BY <2>1, <2>2, <2>3, <2>4, <2>5, <2>6 DEF Next, Step
<1> QED
  BY InstancesInvariant, <1>1, PTL DEF FilesPreserved, Spec
=============================================================================
