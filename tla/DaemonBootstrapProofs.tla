----------------------- MODULE DaemonBootstrapProofs -----------------------
(***************************************************************************)
(* ensureDaemon for any number of Pi processes, sessions and retries: the  *)
(* map of attempts holds exactly the attempts under way.                   *)
(***************************************************************************)
EXTENDS DaemonBootstrap, TLAPS

\* TypeOK and AttemptShared are inductive together.
BootInv == TypeOK /\ AttemptShared

\* AttemptShared, session by session.
LEMMA SharedMeans ==
  ASSUME TypeOK
  PROVE  AttemptShared <=>
           /\ \A s \in Sessions : boot[s] = "pause" <=> attempt[HostOf[s]] = s
           /\ \A h \in Hosts : attempt[h] # None => HostOf[attempt[h]] = h
           /\ \A s \in Sessions : boot[s] = "joined" => attempt[HostOf[s]] # None
<1> USE BootstrapAssumption DEF TypeOK
<1>1. ASSUME AttemptShared
      PROVE  /\ \A s \in Sessions : boot[s] = "pause" <=> attempt[HostOf[s]] = s
             /\ \A h \in Hosts : attempt[h] # None => HostOf[attempt[h]] = h
             /\ \A s \in Sessions : boot[s] = "joined" => attempt[HostOf[s]] # None
  <2>1. \A h \in Hosts : \A s \in Sessions : HostOf[s] = h /\ boot[s] = "pause" <=> s = attempt[h] /\ s # None
    BY <1>1 DEF AttemptShared
  <2> QED
    BY <1>1, <2>1 DEF AttemptShared
<1>2. ASSUME /\ \A s \in Sessions : boot[s] = "pause" <=> attempt[HostOf[s]] = s
             /\ \A h \in Hosts : attempt[h] # None => HostOf[attempt[h]] = h
             /\ \A s \in Sessions : boot[s] = "joined" => attempt[HostOf[s]] # None
      PROVE  AttemptShared
  <2> SUFFICES ASSUME NEW h \in Hosts
               PROVE  {s \in Sessions : HostOf[s] = h /\ boot[s] = "pause"} = {attempt[h]} \ {None}
    BY <1>2 DEF AttemptShared
  <2>1. ASSUME NEW s \in Sessions, HostOf[s] = h, boot[s] = "pause" PROVE s = attempt[h] /\ s # None
    BY <1>2, <2>1
  <2>2. ASSUME attempt[h] # None
        PROVE  attempt[h] \in Sessions /\ HostOf[attempt[h]] = h /\ boot[attempt[h]] = "pause"
    BY <1>2, <2>2
  <2> QED
    BY <2>1, <2>2
<1> QED
  BY <1>1, <1>2

LEMMA InitInv == Init => BootInv
<1> SUFFICES ASSUME Init PROVE BootInv
  OBVIOUS
<1> USE BootstrapAssumption
<1>1. TypeOK
  BY DEF Init, TypeOK
<1>2. AttemptShared
  BY <1>1, SharedMeans DEF Init
<1> QED
  BY <1>1, <1>2 DEF BootInv

\* The promise of the attempt of session s settles.
LEMMA SettleStep ==
  ASSUME BootInv, NEW s \in Sessions, boot[s] = "pause", Settle(s), UNCHANGED <<host, retries, child, daemon>>
  PROVE  BootInv'
<1> DEFINE h == HostOf[s]
<1> USE BootstrapAssumption DEF BootInv
<1>1. /\ \A t \in Sessions : boot'[t] = IF t = s \/ (HostOf[t] = h /\ boot[t] = "joined") THEN "done" ELSE boot[t]
      /\ attempt' = [attempt EXCEPT ![h] = None]
      /\ boot' \in [Sessions -> {"none", "health", "joined", "pause", "done"}]
  BY DEF Settle, TypeOK
<1>2. TypeOK'
  BY <1>1 DEF TypeOK
<1>3. h \in Hosts /\ attempt'[h] = None /\ \A g \in Hosts \ {h} : attempt'[g] = attempt[g]
  BY <1>1 DEF TypeOK
<1>4. /\ \A t \in Sessions : boot[t] = "pause" <=> attempt[HostOf[t]] = t
      /\ \A g \in Hosts : attempt[g] # None => HostOf[attempt[g]] = g
      /\ \A t \in Sessions : boot[t] = "joined" => attempt[HostOf[t]] # None
  BY SharedMeans
<1>5. ASSUME NEW t \in Sessions
      PROVE  /\ boot'[t] = "pause" <=> attempt'[HostOf[t]] = t
             /\ boot'[t] = "joined" => attempt'[HostOf[t]] # None
  <2>1. CASE HostOf[t] = h
    <3>1. boot'[t] # "pause" /\ boot'[t] # "joined"
      BY <1>1, <1>4, <2>1
    <3> QED
      BY <1>3, <2>1, <3>1
  <2>2. CASE HostOf[t] # h
    BY <1>1, <1>3, <1>4, <2>2
  <2> QED
    BY <2>1, <2>2
<1>6. \A g \in Hosts : attempt'[g] # None => HostOf[attempt'[g]] = g
  BY <1>3, <1>4
<1>7. AttemptShared'
  BY <1>2, <1>5, <1>6 DEF AttemptShared, TypeOK
<1> QED
  BY <1>2, <1>7

\* A session registers its attempt only where none is registered.
LEMMA SpawnStep ==
  ASSUME BootInv, NEW s \in Sessions, Spawn(s)
  PROVE  BootInv'
<1> DEFINE h == HostOf[s]
<1> USE BootstrapAssumption DEF BootInv
<1>1. h \in Hosts /\ attempt[h] = None /\ boot[s] = "health"
  BY DEF Spawn, Unregistered
<1>2. /\ \A t \in Sessions : boot[t] = "pause" <=> attempt[HostOf[t]] = t
      /\ \A g \in Hosts : attempt[g] # None => HostOf[attempt[g]] = g
      /\ \A t \in Sessions : boot[t] = "joined" => attempt[HostOf[t]] # None
  BY SharedMeans
<1>3. TypeOK'
  BY DEF Spawn, Boot, TypeOK
<1>4. CASE boot' = [boot EXCEPT ![s] = "done"] /\ UNCHANGED attempt
  BY <1>1, <1>2, <1>3, <1>4 DEF AttemptShared, TypeOK
<1>5. CASE boot' = [boot EXCEPT ![s] = "pause"] /\ attempt' = [attempt EXCEPT ![h] = s]
  <2>1. /\ boot'[s] = "pause" /\ \A t \in Sessions \ {s} : boot'[t] = boot[t]
        /\ attempt'[h] = s /\ \A g \in Hosts \ {h} : attempt'[g] = attempt[g]
    BY <1>1, <1>5 DEF TypeOK
  <2>2. ASSUME NEW t \in Sessions
        PROVE  /\ boot'[t] = "pause" <=> attempt'[HostOf[t]] = t
               /\ boot'[t] = "joined" => attempt'[HostOf[t]] # None
    <3>1. CASE t = s
      BY <2>1, <3>1
    <3>2. CASE t # s /\ HostOf[t] = h
      BY <1>1, <1>2, <2>1, <3>2
    <3>3. CASE HostOf[t] # h
      BY <1>2, <2>1, <3>3
    <3> QED
      BY <3>1, <3>2, <3>3
  <2>3. \A g \in Hosts : attempt'[g] # None => HostOf[attempt'[g]] = g
    BY <1>2, <2>1
  <2> QED
    BY <1>3, <2>2, <2>3 DEF AttemptShared, TypeOK
<1> QED
  BY <1>4, <1>5 DEF Spawn, Boot

\* The steps that only move session s, to a place where it has no attempt.
LEMMA MoveStep ==
  ASSUME BootInv, NEW s \in Sessions, EnsureDaemon(s) \/ Healthy(s) \/ Join(s)
  PROVE  BootInv'
<1> USE BootstrapAssumption DEF BootInv
<1>1. /\ UNCHANGED <<host, retries, attempt, child, daemon>>
      /\ boot[s] \in {"none", "health"}
      /\ \/ boot' = [boot EXCEPT ![s] = "health"] \/ boot' = [boot EXCEPT ![s] = "done"]
         \/ boot' = [boot EXCEPT ![s] = "joined"] /\ attempt[HostOf[s]] # None
  BY DEF EnsureDaemon, Healthy, Join, Boot
<1>2. /\ \A t \in Sessions : boot[t] = "pause" <=> attempt[HostOf[t]] = t
      /\ \A g \in Hosts : attempt[g] # None => HostOf[attempt[g]] = g
      /\ \A t \in Sessions : boot[t] = "joined" => attempt[HostOf[t]] # None
  BY SharedMeans
<1>3. TypeOK'
  BY <1>1 DEF TypeOK
<1>4. ASSUME NEW t \in Sessions
      PROVE  /\ boot'[t] = "pause" <=> boot[t] = "pause"
             /\ boot'[t] = "joined" => attempt[HostOf[t]] # None
  BY <1>1, <1>2 DEF TypeOK
<1>5. AttemptShared'
  BY <1>1, <1>2, <1>3, <1>4 DEF AttemptShared, TypeOK
<1> QED
  BY <1>3, <1>5

\* A step that leaves the map and every call alone keeps AttemptShared.
LEMMA QuietStep ==
  ASSUME AttemptShared, UNCHANGED <<boot, attempt>>
  PROVE  AttemptShared'
BY DEF AttemptShared

LEMMA StepInv == BootInv /\ [Next]_vars => BootInv'
<1> SUFFICES ASSUME BootInv, [Next]_vars PROVE BootInv'
  OBVIOUS
<1> USE BootstrapAssumption
<1>1. ASSUME NEW s \in Sessions, Retry(s) PROVE BootInv'
  <2>1. CASE Settle(s) /\ UNCHANGED retries
    BY <1>1, <2>1, SettleStep DEF Retry
  <2>2. CASE /\ retries[s] + 1 < MaxRetries
             /\ retries' = [retries EXCEPT ![s] = retries[s] + 1]
             /\ UNCHANGED <<boot, attempt>>
    <3>1. TypeOK'
      <4>1. retries \in [Sessions -> 0..(MaxRetries - 1)] /\ retries[s] + 1 \in 0..(MaxRetries - 1)
        BY <2>2 DEF BootInv, TypeOK
      <4>2. retries' \in [Sessions -> 0..(MaxRetries - 1)]
        BY <2>2, <4>1
      <4> QED
        BY <1>1, <2>2, <4>2 DEF Retry, BootInv, TypeOK
    <3> QED
      BY <2>2, <3>1, QuietStep DEF BootInv
  <2> QED
    BY <1>1, <2>1, <2>2 DEF Retry
<1>2. ASSUME NEW s \in Sessions, EnsureDaemon(s) \/ Step(s) PROVE BootInv'
  BY <1>1, <1>2, MoveStep, SpawnStep DEF Step
<1>3. ASSUME NEW s \in Sessions, ChildStarts(s) PROVE BootInv'
  <2>1. TypeOK'
    <3>1. daemon' \in BOOLEAN
      BY <1>3, Zenon DEF ChildStarts
    <3> QED
      BY <1>3, <3>1 DEF ChildStarts, BootInv, TypeOK
  <2> QED
    BY <1>3, <2>1, QuietStep DEF ChildStarts, BootInv
<1>4. CASE DaemonEnds
  <2>1. TypeOK'
    <3>1. daemon' \in BOOLEAN
      BY <1>4, Zenon DEF DaemonEnds
    <3> QED
      BY <1>4, <3>1 DEF DaemonEnds, BootInv, TypeOK
  <2> QED
    BY <1>4, <2>1, QuietStep DEF DaemonEnds, BootInv
<1>5. CASE UNCHANGED vars
  <2>1. TypeOK'
    BY <1>5 DEF vars, BootInv, TypeOK
  <2> QED
    BY <1>5, <2>1, QuietStep DEF vars, BootInv
<1> QED
  BY <1>2, <1>3, <1>4, <1>5 DEF Next

\* The inductive invariant of the bootstrap.
THEOREM BootstrapInvariant == Spec => []BootInv
<1> QED
  BY InitInv, StepInv, PTL DEF Spec

\* Every variable keeps its type: no call makes more health checks than it may.
THEOREM BootstrapTypeOK == Spec => []TypeOK
<1>1. BootInv => TypeOK
  BY DEF BootInv
<1> QED
  BY <1>1, BootstrapInvariant, PTL

\* daemonAttempts holds exactly the attempts under way: no session of a process spawns
\* a daemon during the attempt of another, and who waits for one is woken by it.
THEOREM OneAttemptPerHost == Spec => []AttemptShared
<1>1. BootInv => AttemptShared
  BY DEF BootInv
<1> QED
  BY <1>1, BootstrapInvariant, PTL
=============================================================================
