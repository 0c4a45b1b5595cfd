-------------------------- MODULE FrontendsProofs --------------------------
(***************************************************************************)
(* The commands beside the daemon, for any number of processes, handlers,  *)
(* pieces of a page and launches: who is told of success has the whole     *)
(* page, files are whole, servers agree on the token, and the RPC client   *)
(* outlives the handlers.                                                  *)
(***************************************************************************)
EXTENDS Frontends, TLAPS

\* Types, one variable at a time.
LEMMA Types ==
  ASSUME IInv
  PROVE  /\ cmd \in [Procs -> Commands \cup {None}] /\ id \in [Procs -> Launches \cup {None}]
         /\ main \in [Procs -> Places] /\ tries \in [Procs -> 0..1]
         /\ token \in [Procs -> Launches \cup {None}]
         /\ MaxLaunches \in Nat /\ launched \in 0..MaxLaunches /\ None \notin Nat
         /\ \A p \in Procs : main[p] # "down" => id[p] \in Launches
         /\ \A t \in temps : t \in [owner : Launches, full : BOOLEAN] /\ t.owner \in Nat
BY FrontendsAssumption DEF IInv, TypeOK, PlaceInv, Launches

\* The temporary file of a live process.
LEMMA TempFile ==
  ASSUME IInv, NEW p \in Procs, main[p] # "down"
  PROVE  /\ Temp(p, TRUE) \in [owner : Launches, full : BOOLEAN]
         /\ Temp(p, FALSE) \in [owner : Launches, full : BOOLEAN]
<1>1. id[p] \in Launches
  BY Types
<1> QED
  BY <1>1 DEF Temp

\* The token file, when there is one, is whole.
LEMMA TokenFile ==
  ASSUME IInv, file # None
  PROVE  file.owner \in Launches /\ file.full = TRUE /\ file = [owner |-> file.owner, full |-> TRUE]
<1>1. file \in [owner : Launches, full : BOOLEAN]
  BY DEF IInv, TypeOK
<1>2. file.full \in BOOLEAN /\ file.owner \in Launches
  BY <1>1
<1>3. file.full
  BY DEF IInv, TokenInv
<1>4. file.full = TRUE
  BY <1>2, <1>3
<1> QED
  BY <1>1, <1>2, <1>4

-----------------------------------------------------------------------------
(* The main goroutine *)

\* Steps of the main goroutine leave the handlers alone.
LEMMA HandlersKeep ==
  ASSUME IInv, UNCHANGED <<cmd, gate, work>>
  PROVE  WorkInv' /\ CompleteOrFlagged'
BY DEF IInv, WorkInv, CompleteOrFlagged

LEMMA HealthStep ==
  ASSUME IInv, NEW p \in Procs, Health(p)
  PROVE  IInv'
<1> USE FrontendsAssumption, Types
<1>1. TypeOK'
  BY DEF Health, Goto, IInv, TypeOK, Places, Launches, disk
<1>2. PlaceInv'
  BY DEF Health, Goto, IInv, PlaceInv, Drained, disk
<1>3. TempInv'
  BY DEF Health, Goto, IInv, TempInv, PlaceInv, disk
<1>4. TokenInv'
  BY DEF Health, Goto, IInv, TokenInv, TokenAgreed, disk
<1>5. FilesWhole'
  BY DEF Health, Goto, IInv, FilesWhole, TempInv, disk
<1>6. TokenAgreed'
  BY DEF Health, Goto, IInv, TokenAgreed, TokenInv, disk
<1>7. ClientOutlivesHandlers'
  BY DEF Health, Goto, IInv, ClientOutlivesHandlers, PlaceInv, Drained, disk
<1>8. WorkInv' /\ CompleteOrFlagged'
  BY HandlersKeep DEF Health
<1> QED
  BY <1>1, <1>2, <1>3, <1>4, <1>5, <1>6, <1>7, <1>8 DEF IInv

\* A process that finds the token file takes the token in it, which is all there.
LEMMA ReadTokenStep ==
  ASSUME IInv, NEW p \in Procs, ReadToken(p)
  PROVE  IInv'
<1> USE FrontendsAssumption, Types
<1>1. TypeOK'
  BY DEF ReadToken, Goto, IInv, TypeOK, Places, Launches, disk
<1>2. PlaceInv'
  BY DEF ReadToken, Goto, IInv, PlaceInv, Drained, disk
<1>3. TempInv'
  BY DEF ReadToken, Goto, IInv, TempInv, PlaceInv, disk
<1>4. TokenInv'
  BY DEF ReadToken, Goto, IInv, TokenInv, TokenAgreed, disk
<1>5. FilesWhole'
  BY DEF ReadToken, Goto, IInv, FilesWhole, TempInv, disk
<1>6. TokenAgreed'
  BY TokenFile DEF ReadToken, Goto, IInv, TokenAgreed, TokenInv, disk
<1>7. ClientOutlivesHandlers'
  BY DEF ReadToken, Goto, IInv, ClientOutlivesHandlers, PlaceInv, Drained, disk
<1>8. WorkInv' /\ CompleteOrFlagged'
  BY HandlersKeep DEF ReadToken
<1> QED
  BY <1>1, <1>2, <1>3, <1>4, <1>5, <1>6, <1>7, <1>8 DEF IInv

\* The temporary file of the token belongs to a process that will rename or remove it.
LEMMA CreateTokenStep ==
  ASSUME IInv, NEW p \in Procs, CreateToken(p)
  PROVE  IInv'
<1> USE FrontendsAssumption, Types
<1>1. TypeOK'
  <2>1. main[p] # "down"
    BY DEF CreateToken
  <2> QED
    BY <2>1, TempFile DEF CreateToken, Goto, IInv, TypeOK, Places, disk
<1>2. PlaceInv'
  BY DEF CreateToken, Goto, IInv, PlaceInv, Drained, disk
<1>3. TempInv'
  BY DEF CreateToken, Goto, Temp, IInv, TempInv, PlaceInv, disk
<1>4. TokenInv'
  BY DEF CreateToken, Goto, Temp, IInv, TokenInv, TokenAgreed, disk
<1>5. FilesWhole'
  BY DEF CreateToken, Goto, Temp, IInv, FilesWhole, TempInv, disk
<1>6. TokenAgreed'
  BY DEF CreateToken, Goto, IInv, TokenAgreed, TokenInv, disk
<1>7. ClientOutlivesHandlers'
  BY DEF CreateToken, Goto, IInv, ClientOutlivesHandlers, PlaceInv, Drained, disk
<1>8. WorkInv' /\ CompleteOrFlagged'
  BY HandlersKeep DEF CreateToken
<1> QED
  BY <1>1, <1>2, <1>3, <1>4, <1>5, <1>6, <1>7, <1>8 DEF IInv

LEMMA WriteTokenStep ==
  ASSUME IInv, NEW p \in Procs, WriteToken(p)
  PROVE  IInv'
<1> USE FrontendsAssumption, Types
<1>1. TypeOK'
  <2>1. main[p] # "down"
    BY DEF WriteToken
  <2> QED
    BY <2>1, TempFile DEF WriteToken, Goto, IInv, TypeOK, Places, disk
<1>2. PlaceInv'
  BY DEF WriteToken, Goto, IInv, PlaceInv, Drained, disk
<1>3. TempInv'
  BY DEF WriteToken, Goto, Temp, IInv, TempInv, PlaceInv, disk
<1>4. TokenInv'
  BY DEF WriteToken, Goto, Temp, IInv, TokenInv, TokenAgreed, disk
<1>5. FilesWhole'
  BY DEF WriteToken, Goto, Temp, IInv, FilesWhole, TempInv, disk
<1>6. TokenAgreed'
  BY DEF WriteToken, Goto, IInv, TokenAgreed, TokenInv, disk
<1>7. ClientOutlivesHandlers'
  BY DEF WriteToken, Goto, IInv, ClientOutlivesHandlers, PlaceInv, Drained, disk
<1>8. WorkInv' /\ CompleteOrFlagged'
  BY HandlersKeep DEF WriteToken
<1> QED
  BY <1>1, <1>2, <1>3, <1>4, <1>5, <1>6, <1>7, <1>8 DEF IInv

\* Who renames first decides the token; who comes late looks again.
LEMMA PublishTokenStep ==
  ASSUME IInv, NEW p \in Procs, PublishToken(p)
  PROVE  IInv'
<1> USE FrontendsAssumption, Types
<1>1. /\ main[p] = "publish" /\ temps' = {t \in temps : t.owner # id[p]}
      /\ UNCHANGED <<cmd, id, gate, work, target, crashed, launched>>
      /\ \/ /\ file = None /\ file' = Temp(p, TRUE)
            /\ token' = [token EXCEPT ![p] = id[p]]
            /\ main' = [main EXCEPT ![p] = "listen"] /\ UNCHANGED tries
         \/ /\ file # None /\ main' = [main EXCEPT ![p] = "read"]
            /\ tries' = [tries EXCEPT ![p] = 1] /\ UNCHANGED <<file, token>>
  BY DEF PublishToken, Discard, Goto, IInv, TokenInv
<1>2. id[p] \in Launches /\ Temp(p, TRUE) \in [owner : Launches, full : BOOLEAN]
  BY <1>1, TempFile
<1>3. Temp(p, TRUE) = [owner |-> id[p], full |-> TRUE] /\ Temp(p, TRUE) # None
  BY <1>2 DEF Temp
<1>a. /\ main' \in [Procs -> Places] /\ main'[p] \in {"listen", "read"}
      /\ \A q \in Procs \ {p} : main'[q] = main[q]
  BY <1>1 DEF Places
<1>b. token' \in [Procs -> Launches \cup {None}] /\ tries' \in [Procs -> 0..1]
  <2>1. CASE token' = [token EXCEPT ![p] = id[p]] /\ UNCHANGED tries
    BY <1>2, <2>1
  <2>2. CASE tries' = [tries EXCEPT ![p] = 1] /\ UNCHANGED token
    BY <2>2
  <2> QED
    BY <1>1, <2>1, <2>2
<1>c. file' \in [owner : Launches, full : BOOLEAN] \cup {None}
  BY <1>1, <1>2 DEF IInv, TypeOK
<1>4. TypeOK'
  BY <1>1, <1>a, <1>b, <1>c DEF IInv, TypeOK
<1>5. PlaceInv'
  <2>1. PlaceInv
    BY DEF IInv
  <2> QED
    BY <1>1, <1>a, <2>1 DEF PlaceInv, Drained
<1>6. TempInv'
  BY <1>1 DEF IInv, TempInv
<1>7. TokenInv'
  <2>1. TokenInv
    BY DEF IInv
  <2>2. file' # None
    BY <1>1, <1>3
  <2>3. file'.full
    <3>1. CASE file' = file
      BY <2>1, <2>2, <3>1 DEF TokenInv
    <3>2. CASE file' = [owner |-> id[p], full |-> TRUE]
      <4>1. file'.full = TRUE
        BY <3>2
      <4> QED
        BY <4>1
    <3> QED
      BY <1>1, <1>3, <3>1, <3>2
  <2>4. \A q \in Procs \ {p} : tries'[q] = tries[q]
    BY <1>1
  <2> QED
    BY <1>a, <2>1, <2>2, <2>3, <2>4 DEF TokenInv
<1>8. FilesWhole'
  <2>1. FilesWhole /\ TempInv
    BY DEF IInv
  <2> QED
    BY <1>1, <1>a, <2>1 DEF FilesWhole, TempInv
<1>9. TokenAgreed'
  <2>1. CASE file = None
    <3>1. \A q \in Procs : ~(main[q] \in {"listen", "announce", "serving", "shutdown"} /\ cmd[q] = "serve")
      BY <2>1 DEF IInv, TokenInv
    <3> QED
      BY <1>1, <1>3, <2>1, <3>1 DEF IInv, TokenAgreed
  <2>2. CASE file # None
    BY <1>1, <2>2 DEF IInv, TokenAgreed
  <2> QED
    BY <2>1, <2>2
<1>10. ClientOutlivesHandlers'
  BY <1>1 DEF IInv, ClientOutlivesHandlers
<1>11. WorkInv' /\ CompleteOrFlagged'
  BY <1>1, HandlersKeep
<1> QED
  BY <1>4, <1>5, <1>6, <1>7, <1>8, <1>9, <1>10, <1>11 DEF IInv

LEMMA ListenStep ==
  ASSUME IInv, NEW p \in Procs, Listen(p)
  PROVE  IInv'
<1> USE FrontendsAssumption, Types
<1>1. TypeOK'
  BY DEF Listen, Goto, IInv, TypeOK, Places, Launches, disk
<1>2. PlaceInv'
  BY DEF Listen, Goto, IInv, PlaceInv, Drained, disk
<1>3. TempInv'
  BY DEF Listen, Goto, IInv, TempInv, PlaceInv, disk
<1>4. TokenInv'
  BY DEF Listen, Goto, IInv, TokenInv, TokenAgreed, disk
<1>5. FilesWhole'
  BY DEF Listen, Goto, IInv, FilesWhole, TempInv, disk
<1>6. TokenAgreed'
  BY DEF Listen, Goto, IInv, TokenAgreed, TokenInv, disk
<1>7. ClientOutlivesHandlers'
  BY DEF Listen, Goto, IInv, ClientOutlivesHandlers, PlaceInv, Drained, disk
<1>8. WorkInv' /\ CompleteOrFlagged'
  BY HandlersKeep DEF Listen
<1> QED
  BY <1>1, <1>2, <1>3, <1>4, <1>5, <1>6, <1>7, <1>8 DEF IInv

LEMMA AnnounceStep ==
  ASSUME IInv, NEW p \in Procs, Announce(p)
  PROVE  IInv'
<1> USE FrontendsAssumption, Types
<1>1. TypeOK'
  BY DEF Announce, Goto, IInv, TypeOK, Places, Launches, disk
<1>2. PlaceInv'
  BY DEF Announce, Goto, IInv, PlaceInv, Drained, disk
<1>3. TempInv'
  BY DEF Announce, Goto, IInv, TempInv, PlaceInv, disk
<1>4. TokenInv'
  BY DEF Announce, Goto, IInv, TokenInv, TokenAgreed, disk
<1>5. FilesWhole'
  BY DEF Announce, Goto, IInv, FilesWhole, TempInv, disk
<1>6. TokenAgreed'
  BY DEF Announce, Goto, IInv, TokenAgreed, TokenInv, disk
<1>7. ClientOutlivesHandlers'
  BY DEF Announce, Goto, IInv, ClientOutlivesHandlers, PlaceInv, Drained, disk
<1>8. WorkInv' /\ CompleteOrFlagged'
  BY HandlersKeep DEF Announce
<1> QED
  BY <1>1, <1>2, <1>3, <1>4, <1>5, <1>6, <1>7, <1>8 DEF IInv

\* Every error path removes the temporary file before the client is closed.
LEMMA FailsStep ==
  ASSUME IInv, NEW p \in Procs, Fails(p)
  PROVE  IInv'
<1> USE FrontendsAssumption, Types
<1>1. TypeOK'
  BY DEF Fails, Goto, Discard, IInv, TypeOK, Places, Launches, disk
<1>2. PlaceInv'
  BY DEF Fails, Goto, Discard, IInv, PlaceInv, Drained, disk
<1>3. TempInv'
  BY DEF Fails, Goto, Discard, IInv, TempInv, PlaceInv, disk
<1>4. TokenInv'
  BY DEF Fails, Goto, Discard, IInv, TokenInv, TokenAgreed, disk
<1>5. FilesWhole'
  BY DEF Fails, Goto, Discard, IInv, FilesWhole, TempInv, disk
<1>6. TokenAgreed'
  BY DEF Fails, Goto, Discard, IInv, TokenAgreed, TokenInv, disk
<1>7. ClientOutlivesHandlers'
  BY DEF Fails, Goto, Discard, IInv, ClientOutlivesHandlers, PlaceInv, Drained, disk
<1>8. WorkInv' /\ CompleteOrFlagged'
  BY HandlersKeep DEF Fails
<1> QED
  BY <1>1, <1>2, <1>3, <1>4, <1>5, <1>6, <1>7, <1>8 DEF IInv

LEMMA StopStep ==
  ASSUME IInv, NEW p \in Procs, Stop(p)
  PROVE  IInv'
<1> USE FrontendsAssumption, Types
<1>1. TypeOK'
  BY DEF Stop, Goto, IInv, TypeOK, Places, Launches, disk
<1>2. PlaceInv'
  BY DEF Stop, Goto, IInv, PlaceInv, Drained, disk
<1>3. TempInv'
  BY DEF Stop, Goto, IInv, TempInv, PlaceInv, disk
<1>4. TokenInv'
  BY DEF Stop, Goto, IInv, TokenInv, TokenAgreed, disk
<1>5. FilesWhole'
  BY DEF Stop, Goto, IInv, FilesWhole, TempInv, disk
<1>6. TokenAgreed'
  BY DEF Stop, Goto, IInv, TokenAgreed, TokenInv, disk
<1>7. ClientOutlivesHandlers'
  BY DEF Stop, Goto, IInv, ClientOutlivesHandlers, PlaceInv, Drained, disk
<1>8. WorkInv' /\ CompleteOrFlagged'
  BY HandlersKeep DEF Stop
<1> QED
  BY <1>1, <1>2, <1>3, <1>4, <1>5, <1>6, <1>7, <1>8 DEF IInv

\* serve reaches the deferred Close of its client only with its handlers idle.
LEMMA ShutdownStep ==
  ASSUME IInv, NEW p \in Procs, Shutdown(p)
  PROVE  IInv'
<1> USE FrontendsAssumption, Types
<1>1. TypeOK'
  BY DEF Shutdown, Goto, IInv, TypeOK, Places, Launches, disk
<1>2. PlaceInv'
  BY DEF Shutdown, Goto, IInv, PlaceInv, Drained, disk
<1>3. TempInv'
  BY DEF Shutdown, Goto, IInv, TempInv, PlaceInv, disk
<1>4. TokenInv'
  BY DEF Shutdown, Goto, IInv, TokenInv, TokenAgreed, disk
<1>5. FilesWhole'
  BY DEF Shutdown, Goto, IInv, FilesWhole, TempInv, disk
<1>6. TokenAgreed'
  BY DEF Shutdown, Goto, IInv, TokenAgreed, TokenInv, disk
<1>7. ClientOutlivesHandlers'
  BY DEF Shutdown, Goto, IInv, ClientOutlivesHandlers, PlaceInv, Drained, disk
<1>8. WorkInv' /\ CompleteOrFlagged'
  BY HandlersKeep DEF Shutdown
<1> QED
  BY <1>1, <1>2, <1>3, <1>4, <1>5, <1>6, <1>7, <1>8 DEF IInv

LEMMA FetchedStep ==
  ASSUME IInv, NEW p \in Procs, Fetched(p)
  PROVE  IInv'
<1> USE FrontendsAssumption, Types
<1>1. TypeOK'
  BY DEF Fetched, Goto, Discard, IInv, TypeOK, Places, Launches, disk
<1>2. PlaceInv'
  BY DEF Fetched, Goto, Discard, IInv, PlaceInv, Drained, disk
<1>3. TempInv'
  BY DEF Fetched, Goto, Discard, IInv, TempInv, PlaceInv, disk
<1>4. TokenInv'
  BY DEF Fetched, Goto, Discard, IInv, TokenInv, TokenAgreed, disk
<1>5. FilesWhole'
  BY DEF Fetched, Goto, Discard, IInv, FilesWhole, TempInv, disk
<1>6. TokenAgreed'
  BY DEF Fetched, Goto, Discard, IInv, TokenAgreed, TokenInv, disk
<1>7. ClientOutlivesHandlers'
  BY DEF Fetched, Goto, Discard, IInv, ClientOutlivesHandlers, PlaceInv, Drained, disk
<1>8. WorkInv' /\ CompleteOrFlagged'
  BY HandlersKeep DEF Fetched
<1> QED
  BY <1>1, <1>2, <1>3, <1>4, <1>5, <1>6, <1>7, <1>8 DEF IInv

\* The page that replaces the output file is the one the client reported complete.
LEMMA RenameStep ==
  ASSUME IInv, NEW p \in Procs, Rename(p)
  PROVE  IInv'
<1> USE FrontendsAssumption, Types
<1>1. TypeOK'
  <2>1. 1 \in 1..Workers[p] /\ work[p] \in [1..Workers[p] -> Work]
    BY DEF IInv, TypeOK
  <2>2. work[p][1] \in Work
    BY <2>1
  <2>3. work[p][1].page \in Pages /\ work[p][1].bytes \in 0..Pieces
    BY <2>2 DEF Work
  <2>4. target' \in [owner : Launches, page : Pages, bytes : 0..Pieces]
    BY <2>3 DEF Rename
  <2> QED
    BY <2>4 DEF Rename, Goto, IInv, TypeOK, Places
<1>2. PlaceInv'
  BY DEF Rename, Goto, IInv, PlaceInv, Drained, disk
<1>3. TempInv'
  BY DEF Rename, Goto, IInv, TempInv, PlaceInv, disk
<1>4. TokenInv'
  BY DEF Rename, Goto, IInv, TokenInv, TokenAgreed, disk
<1>5. FilesWhole'
  <2>1. /\ target' = [owner |-> id[p], page |-> work[p][1].page, bytes |-> work[p][1].bytes]
        /\ temps' = {t \in temps : t.owner # id[p]}
        /\ main' = [main EXCEPT ![p] = "close"] /\ UNCHANGED <<id, crashed>>
    BY DEF Rename, Goto
  <2>2. work[p][1].bytes = Want(work[p][1].page)
    <3>1. 1 \in 1..Workers[p]
      OBVIOUS
    <3>2. /\ work[p][1].at = "respond" /\ work[p][1].route = "payload" /\ work[p][1].code = "ok"
          /\ cmd[p] # "serve"
      BY DEF Rename, IInv, PlaceInv
    <3> QED
      BY <3>1, <3>2 DEF IInv, WorkInv, CompleteOrFlagged
  <2>3. target' # None => target'.bytes = Want(target'.page)
    BY <2>1, <2>2
  <2>4. \A t \in temps' : t.owner \in crashed' \/ \E q \in Procs : t.owner = id'[q] /\ main'[q] # "close"
    BY <2>1 DEF IInv, FilesWhole
  <2> QED
    BY <2>3, <2>4 DEF FilesWhole, Want
<1>6. TokenAgreed'
  BY DEF Rename, Goto, IInv, TokenAgreed, TokenInv, disk
<1>7. ClientOutlivesHandlers'
  BY DEF Rename, Goto, IInv, ClientOutlivesHandlers, PlaceInv, Drained, disk
<1>8. WorkInv' /\ CompleteOrFlagged'
  BY HandlersKeep DEF Rename
<1> QED
  BY <1>1, <1>2, <1>3, <1>4, <1>5, <1>6, <1>7, <1>8 DEF IInv

-----------------------------------------------------------------------------
(* The handlers *)

\* What a handler of process p may make of its work.
Allowed(p, k, new) ==
  LET w == work[p][k] IN
  /\ new.at = "idle" => new = Idle
  /\ new.at \in {"accepted", "gate", "rpc"} => new.bytes = 0
  /\ new.at = "accepted" \/ new.trailer => cmd[p] = "serve"
  /\ new.at = "respond" /\ new.route = "payload" =>
       /\ new.code = "ok" /\ ~new.trailer => new.bytes = Want(new.page)
       /\ cmd[p] = "serve" /\ new.code # "ok" => new.bytes = 0
  /\ \/ main[p] \in {"announce", "serving"} \/ w.at \in {"accepted", "gate", "rpc", "stream"}
     \/ w.at = "respond" /\ cmd[p] \in {"serve", "mcp"}
  /\ cmd[p] = "inspectFile" /\ w.route = "payload" => new.route = "payload"

LEMMA WorkUpdate ==
  ASSUME IInv, NEW p \in Procs, NEW k \in 1..Workers[p], NEW new \in Work,
         work' = [work EXCEPT ![p] = [work[p] EXCEPT ![k] = new]]
  PROVE  /\ work' = [q \in Procs |-> work'[q]]
         /\ \A q \in Procs \ {p} : work'[q] = work[q]
         /\ work'[p] \in [1..Workers[p] -> Work] /\ work'[p][k] = new
         /\ \A j \in 1..Workers[p] \ {k} : work'[p][j] = work[p][j]
<1>1. work = [q \in Procs |-> work[q]] /\ work[p] \in [1..Workers[p] -> Work]
  BY DEF IInv, TypeOK, WorkInv
<1>2. work'[p] = [work[p] EXCEPT ![k] = new] /\ \A q \in Procs \ {p} : work'[q] = work[q]
  BY <1>1
<1>3. work' = [q \in Procs |-> work'[q]]
  BY <1>1
<1> QED
  BY <1>1, <1>2, <1>3

LEMMA HandlerStep ==
  ASSUME IInv, NEW p \in Procs, NEW k \in 1..Workers[p], NEW new \in Work, Allowed(p, k, new),
         work' = [work EXCEPT ![p] = [work[p] EXCEPT ![k] = new]],
         gate' = [q \in Procs |-> gate'[q]],
         \A q \in Procs : gate'[q] \in 1..Workers[q] \cup {None},
         UNCHANGED <<procVars, disk, crashed, launched>>
  PROVE  IInv'
<1> DEFINE w == work[p][k]
<1>1. UNCHANGED <<cmd, id, main, tries, token, file, temps, target, crashed, launched>>
  BY DEF procVars, disk
<1>2. /\ work' = [q \in Procs |-> work'[q]]
      /\ \A q \in Procs \ {p} : work'[q] = work[q]
      /\ work'[p] \in [1..Workers[p] -> Work] /\ work'[p][k] = new
      /\ \A j \in 1..Workers[p] \ {k} : work'[p][j] = work[p][j]
  BY WorkUpdate
<1>3. TypeOK'
  <2>1. \A q \in Procs : work'[q] \in [1..Workers[q] -> Work]
    BY <1>2 DEF IInv, TypeOK
  <2> QED
    BY <1>1, <2>1 DEF IInv, TypeOK
<1>4. WorkInv'
  <2>1. ASSUME NEW q \in Procs, NEW j \in 1..Workers[q], work'[q][j] = work[q][j]
        PROVE  /\ work'[q][j].at = "idle" => work'[q][j] = Idle
               /\ work'[q][j].at \in {"accepted", "gate", "rpc"} => work'[q][j].bytes = 0
               /\ work'[q][j].at = "accepted" \/ work'[q][j].trailer => cmd'[q] = "serve"
    BY <1>1, <2>1 DEF IInv, WorkInv
  <2>2. /\ work'[p][k].at = "idle" => work'[p][k] = Idle
        /\ work'[p][k].at \in {"accepted", "gate", "rpc"} => work'[p][k].bytes = 0
        /\ work'[p][k].at = "accepted" \/ work'[p][k].trailer => cmd'[p] = "serve"
    BY <1>1, <1>2 DEF Allowed
  <2>3. \A q \in Procs : \A j \in 1..Workers[q] : (q = p /\ j = k) \/ work'[q][j] = work[q][j]
    BY <1>2
  <2> QED
    BY <1>2, <2>1, <2>2, <2>3 DEF WorkInv
<1>5. CompleteOrFlagged'
  <2> SUFFICES ASSUME NEW q \in Procs, NEW j \in 1..Workers[q],
                      work'[q][j].at = "respond", work'[q][j].route = "payload"
               PROVE  /\ work'[q][j].code = "ok" /\ ~work'[q][j].trailer =>
                           work'[q][j].bytes = Want(work'[q][j].page)
                      /\ cmd'[q] = "serve" /\ work'[q][j].code # "ok" => work'[q][j].bytes = 0
    BY DEF CompleteOrFlagged, Want
  <2>1. CASE q = p /\ j = k
    BY <1>1, <1>2, <2>1 DEF Allowed
  <2>2. CASE ~(q = p /\ j = k)
    <3>1. work'[q][j] = work[q][j]
      BY <1>2, <2>2
    <3> QED
      BY <1>1, <3>1 DEF IInv, CompleteOrFlagged
  <2> QED
    BY <2>1, <2>2
<1>6. main[p] \in {"announce", "serving"} \/ w.at # "idle"
  BY DEF Allowed
<1>7. main[p] \notin {"down", "health", "read", "create", "write", "publish", "listen"}
  BY <1>6 DEF IInv, PlaceInv, Drained
<1>8. PlaceInv'
  <2>1. \A q \in Procs \ {p} : Drained(q) => Drained(q)'
    BY <1>2 DEF Drained
  <2>2. 1 \in 1..Workers[p]
    BY FrontendsAssumption
  <2>3. PlaceInv
    BY DEF IInv
  <2>4. cmd[p] = "inspectFile" /\ main[p] \in {"fetch", "rename"} => work'[p][1].route = "payload"
    <3>1. CASE k = 1
      BY <1>2, <2>3, <3>1 DEF PlaceInv, Allowed
    <3>2. CASE k # 1
      BY <1>2, <2>2, <2>3, <3>2 DEF PlaceInv
    <3> QED
      BY <3>1, <3>2
  <2>5. main[p] = "rename" => cmd[p] = "inspectFile" /\ work'[p][1].at = "respond" /\ work'[p][1].code = "ok"
    <3>1. CASE k = 1
      BY <2>3, <3>1 DEF PlaceInv, Allowed
    <3>2. CASE k # 1
      BY <1>2, <2>2, <2>3, <3>2 DEF PlaceInv
    <3> QED
      BY <3>1, <3>2
  <2> QED
    BY <1>1, <1>2, <1>7, <2>1, <2>3, <2>4, <2>5 DEF PlaceInv
<1>9. ClientOutlivesHandlers'
  <2>1. ~(main[p] = "close" /\ cmd[p] = "serve")
    BY <1>6 DEF IInv, ClientOutlivesHandlers
  <2> QED
    BY <1>1, <1>2, <2>1 DEF IInv, ClientOutlivesHandlers
<1>10. TempInv' /\ TokenInv' /\ FilesWhole' /\ TokenAgreed'
  <2>1. TempInv' /\ FilesWhole'
    BY <1>1 DEF IInv, TempInv, FilesWhole, Want
  <2>2. TokenInv' /\ TokenAgreed'
    BY <1>1 DEF IInv, TokenInv, TokenAgreed
  <2> QED
    BY <2>1, <2>2
<1> QED
  BY <1>3, <1>4, <1>5, <1>8, <1>9, <1>10 DEF IInv

\* The fields of a handler's work.
LEMMA WorkFields ==
  ASSUME IInv, NEW p \in Procs, NEW k \in 1..Workers[p]
  PROVE  /\ work[p][k] \in Work /\ work[p][k].route \in Routes /\ work[p][k].page \in Pages
         /\ work[p][k].bytes \in 0..Pieces /\ work[p][k].code \in Codes /\ work[p][k].trailer \in BOOLEAN
         /\ work[p][k].bytes \in Nat /\ Pieces \in Nat
<1>1. work[p] \in [1..Workers[p] -> Work]
  BY DEF IInv, TypeOK
<1>2. work[p][k] \in Work
  BY <1>1
<1> QED
  BY <1>2, FrontendsAssumption DEF Work

\* The gate after a release, and when it is left alone.
LEMMA GateReleased ==
  ASSUME IInv, NEW p \in Procs, NEW k \in 1..Workers[p], NEW outcome,
         Release(p, k, outcome) \/ UNCHANGED gate
  PROVE  /\ gate' = [q \in Procs |-> gate'[q]]
         /\ \A q \in Procs : gate'[q] \in 1..Workers[q] \cup {None}
<1>1. gate = [q \in Procs |-> gate[q]] /\ \A q \in Procs : gate[q] \in 1..Workers[q] \cup {None}
  BY DEF IInv, WorkInv, TypeOK
<1>2. CASE UNCHANGED gate
  BY <1>1, <1>2
<1>3. CASE gate' = [gate EXCEPT ![p] = IF gate[p] = k THEN None ELSE gate[p]]
  BY <1>1, <1>3
<1> QED
  BY <1>2, <1>3 DEF Release

\* A change of one field of a handler's place is a change of its work.
LEMMA WorkNested ==
  ASSUME IInv, NEW p \in Procs, NEW k \in 1..Workers[p], NEW at
  PROVE  [work EXCEPT ![p][k].at = at] =
           [work EXCEPT ![p] = [work[p] EXCEPT ![k] = [work[p][k] EXCEPT !.at = at]]]
OBVIOUS

\* An operation that ends with success has the whole page, and a response that ends
\* with an error status has none of it.
LEMMA FinishStep ==
  ASSUME IInv, NEW p \in Procs, NEW k \in 1..Workers[p],
         NEW outcome \in {"ok", "not_found", "unavailable"}, Finish(p, k, outcome),
         work[p][k].at \in {"gate", "rpc", "stream"},
         outcome = "ok" /\ work[p][k].route = "payload" => work[p][k].bytes = Want(work[p][k].page),
         UNCHANGED <<procVars, disk, crashed, launched>>
  PROVE  IInv'
<1> DEFINE w == work[p][k]
<1>1. w \in Work /\ w.bytes \in Nat
  BY WorkFields
<1>2. PICK accepted \in BOOLEAN, started \in Started(w, outcome) :
        work' = [work EXCEPT
         ![p][k].at = "respond",
         ![p][k].code = IF cmd[p] = "serve" THEN HttpCode(outcome, started)
                        ELSE IF cmd[p] = "mcp" THEN ToolCode(w, outcome, accepted)
                        ELSE outcome,
         ![p][k].trailer = cmd[p] = "serve" /\ outcome # "ok" /\ started]
  BY DEF Finish
<1> DEFINE code == IF cmd[p] = "serve" THEN HttpCode(outcome, started)
                   ELSE IF cmd[p] = "mcp" THEN ToolCode(w, outcome, accepted)
                   ELSE outcome
           trailer == cmd[p] = "serve" /\ outcome # "ok" /\ started
           new == [w EXCEPT !.at = "respond", !.code = code, !.trailer = trailer]
<1>3. work' = [work EXCEPT ![p] = [work[p] EXCEPT ![k] = new]]
  <2>1. work = [q \in Procs |-> work[q]] /\ work[p] \in [1..Workers[p] -> Work]
    BY DEF IInv, TypeOK, WorkInv
  <2> QED
    BY <1>1, <1>2, <2>1, ZenonT(30) DEF Work
<1>4. ~started => w.bytes = 0
  <2>1. started = (w.bytes > 0) \/ started = TRUE
    BY Zenon DEF Started
  <2>2. w.bytes > 0 => started
    BY <2>1, Zenon
  <2> QED
    BY <1>1, <2>2
<1>5. code \in {"ok", "not_found", "unavailable", "invalid"} /\ code \in Codes
  BY DEF HttpCode, ToolCode, Codes
<1>6. trailer \in BOOLEAN
  BY Zenon
<1>7. /\ cmd[p] = "serve" /\ code # "ok" => ~started
      /\ code = "ok" /\ ~trailer => outcome = "ok"
  BY DEF HttpCode, ToolCode
<1>8. trailer => cmd[p] = "serve"
  OBVIOUS
<1> HIDE DEF code, trailer
<1>9. /\ new \in Work /\ new.at = "respond" /\ new.code = code /\ new.trailer = trailer
      /\ new.route = w.route /\ new.page = w.page /\ new.bytes = w.bytes
  BY <1>1, <1>5, <1>6 DEF Work
<1> HIDE DEF new, w
<1>10. Allowed(p, k, new)
  BY <1>4, <1>7, <1>8, <1>9 DEF Allowed, w
<1>11. /\ gate' = [q \in Procs |-> gate'[q]]
       /\ \A q \in Procs : gate'[q] \in 1..Workers[q] \cup {None}
  BY GateReleased DEF Finish
<1> QED
  BY <1>3, <1>9, <1>10, <1>11, HandlerStep

\* The work a request or a refusal begins with.
LEMMA FreshWork ==
  ASSUME NEW at \in {"idle", "accepted", "gate", "respond"}, NEW route \in Routes, NEW page \in Pages, NEW code \in Codes
  PROVE  LET new == Fresh(at, route, page, code) IN
         /\ new \in Work /\ new.at = at /\ new.route = route /\ new.page = page
         /\ new.bytes = 0 /\ new.code = code /\ ~new.trailer
<1>1. 0 \in 0..Pieces
  BY FrontendsAssumption
<1>2. FALSE \in BOOLEAN
  BY Zenon
<1> DEFINE new == Fresh(at, route, page, code)
<1>3. new \in Work
  BY <1>1, <1>2 DEF Work, Fresh
<1>4. /\ new.at = at /\ new.route = route /\ new.page = page
      /\ new.bytes = 0 /\ new.code = code /\ ~new.trailer
  BY DEF Fresh
<1> QED
  BY <1>3, <1>4

\* The values of a fresh piece of work that are constants of the code.
LEMMA FreshValues ==
  "other" \in Routes /\ "empty" \in Pages /\ "none" \in Codes /\ "invalid" \in Codes
BY DEF Routes, Pages, Codes

\* A request of a server is refused with a code, or begins an operation.
LEMMA ArriveStep ==
  ASSUME IInv, NEW p \in Procs, NEW k \in 1..Workers[p],
         main[p] = "serving" \/ work[p][k].at = "accepted", cmd[p] # "inspectFile",
         UNCHANGED <<procVars, gate, disk, crashed, launched>>,
         \/ \E route \in Routes, page \in Pages : Begin(p, k, route, page)
         \/ \E code \in Codes : work' = [work EXCEPT ![p][k] = Fresh("respond", "other", "empty", code)]
  PROVE  IInv'
<1>0. /\ gate' = [q \in Procs |-> gate'[q]]
      /\ \A q \in Procs : gate'[q] \in 1..Workers[q] \cup {None}
  BY GateReleased
<1>u. UNCHANGED <<procVars, disk, crashed, launched>>
  OBVIOUS
<1>1. ASSUME NEW route \in Routes, NEW page \in Pages, Begin(p, k, route, page) PROVE IInv'
  <2> DEFINE new == Fresh("gate", route, page, "none")
  <2>1. new \in Work /\ new.at = "gate" /\ new.bytes = 0 /\ ~new.trailer
    BY FreshWork, FreshValues
  <2>2. work' = [work EXCEPT ![p] = [work[p] EXCEPT ![k] = new]]
    BY <1>1 DEF Begin
  <2> HIDE DEF new
  <2>3. Allowed(p, k, new)
    BY <2>1 DEF Allowed
  <2> QED
    BY <1>0, <1>u, <2>1, <2>2, <2>3, HandlerStep
<1>2. ASSUME NEW code \in Codes, work' = [work EXCEPT ![p][k] = Fresh("respond", "other", "empty", code)]
      PROVE  IInv'
  <2> DEFINE new == Fresh("respond", "other", "empty", code)
  <2>1. new \in Work /\ new.at = "respond" /\ new.route = "other" /\ ~new.trailer
    BY FreshWork, FreshValues
  <2>2. work' = [work EXCEPT ![p] = [work[p] EXCEPT ![k] = new]]
    BY <1>2
  <2> HIDE DEF new
  <2>3. Allowed(p, k, new)
    BY <2>1 DEF Allowed
  <2> QED
    BY <1>0, <1>u, <2>1, <2>2, <2>3, HandlerStep
<1> QED
  BY <1>1, <1>2

\* A connection comes without a byte and goes without a trace.
LEMMA AcceptStep ==
  ASSUME IInv, NEW p \in Procs, NEW k \in 1..Workers[p], Accept(p, k)
  PROVE  IInv'
<1> DEFINE new == Fresh("accepted", "other", "empty", "none")
<1>1. new \in Work /\ new.at = "accepted" /\ new.bytes = 0 /\ ~new.trailer
  BY FreshWork, FreshValues
<1>2. /\ work' = [work EXCEPT ![p] = [work[p] EXCEPT ![k] = new]]
      /\ UNCHANGED <<procVars, disk, crashed, launched>>
  BY DEF Accept
<1>3. /\ gate' = [q \in Procs |-> gate'[q]]
      /\ \A q \in Procs : gate'[q] \in 1..Workers[q] \cup {None}
  BY GateReleased DEF Accept
<1>4. main[p] \in {"announce", "serving"} /\ cmd[p] = "serve"
  BY DEF Accept
<1> HIDE DEF new
<1>5. Allowed(p, k, new)
  BY <1>1, <1>4 DEF Allowed
<1> QED
  BY <1>1, <1>2, <1>3, <1>5, HandlerStep

LEMMA DropStep ==
  ASSUME IInv, NEW p \in Procs, NEW k \in 1..Workers[p], Drop(p, k)
  PROVE  IInv'
<1>1. Idle \in Work /\ Idle.at = "idle" /\ ~Idle.trailer
  BY FreshWork, FreshValues DEF Idle
<1>2. /\ work' = [work EXCEPT ![p] = [work[p] EXCEPT ![k] = Idle]]
      /\ UNCHANGED <<procVars, disk, crashed, launched>>
  BY DEF Drop
<1>3. /\ gate' = [q \in Procs |-> gate'[q]]
      /\ \A q \in Procs : gate'[q] \in 1..Workers[q] \cup {None}
  BY GateReleased DEF Drop
<1>4. work[p][k].at = "accepted" /\ cmd[p] = "serve"
  BY DEF Drop, IInv, WorkInv
<1>5. Allowed(p, k, Idle)
  BY <1>1, <1>4 DEF Allowed
<1> QED
  BY <1>1, <1>2, <1>3, <1>5, HandlerStep

LEMMA ServeHTTPStep ==
  ASSUME IInv, NEW p \in Procs, NEW k \in 1..Workers[p], ServeHTTP(p, k)
  PROVE  IInv'
<1>1. PICK r \in HttpRequests[p] :
       \/ Refusal(p, r) = "none" /\ Begin(p, k, r.route, r.page)
       \/ work' = [work EXCEPT ![p][k] = Fresh("respond", "other", "empty", Refusal(p, r))]
  BY DEF ServeHTTP
<1>2. r.route \in Routes /\ r.page \in Pages
  BY FrontendsAssumption
<1>3. Refusal(p, r) \in Codes
  BY DEF Refusal, Codes
<1>4. /\ work[p][k].at = "accepted" /\ cmd[p] # "inspectFile"
      /\ UNCHANGED <<procVars, gate, disk, crashed, launched>>
  BY DEF ServeHTTP, IInv, WorkInv
<1> QED
  BY <1>1, <1>2, <1>3, <1>4, ArriveStep

LEMMA CallToolStep ==
  ASSUME IInv, NEW p \in Procs, NEW k \in 1..Workers[p], CallTool(p, k)
  PROVE  IInv'
<1>1. /\ main[p] = "serving" /\ cmd[p] # "inspectFile"
      /\ UNCHANGED <<procVars, gate, disk, crashed, launched>>
  BY DEF CallTool
<1>2. \/ \E route \in Routes, page \in Pages : Begin(p, k, route, page)
      \/ \E code \in Codes : work' = [work EXCEPT ![p][k] = Fresh("respond", "other", "empty", code)]
  <2>1. {"payload", "status", "search", "metadata"} \subseteq Routes /\ "empty" \in Pages /\ "invalid" \in Codes
    BY DEF Routes, Pages, Codes
  <2> QED
    BY <2>1 DEF CallTool
<1> QED
  BY <1>1, <1>2, ArriveStep

LEMMA AcquireStep ==
  ASSUME IInv, NEW p \in Procs, NEW k \in 1..Workers[p], Acquire(p, k)
  PROVE  IInv'
<1> DEFINE w == work[p][k]
           new == [w EXCEPT !.at = "rpc"]
<1>1. w \in Work /\ w.bytes = 0 /\ w.at = "gate" /\ (w.trailer => cmd[p] = "serve")
  BY WorkFields DEF Acquire, IInv, WorkInv
<1>2. work' = [work EXCEPT ![p] = [work[p] EXCEPT ![k] = new]]
  BY WorkNested DEF Acquire
<1>3. /\ new \in Work /\ new.at = "rpc" /\ new.bytes = 0 /\ new.route = w.route
      /\ new.trailer = w.trailer
  BY <1>1 DEF Work
<1>4. gate = [q \in Procs |-> gate[q]] /\ \A q \in Procs : gate[q] \in 1..Workers[q] \cup {None}
  BY DEF IInv, WorkInv, TypeOK
<1>5. /\ gate' = [q \in Procs |-> gate'[q]]
      /\ \A q \in Procs : gate'[q] \in 1..Workers[q] \cup {None}
  BY <1>4 DEF Acquire
<1>6. UNCHANGED <<procVars, disk, crashed, launched>>
  BY DEF Acquire
<1> HIDE DEF new, w
<1>7. Allowed(p, k, new)
  BY <1>1, <1>3 DEF Allowed, w
<1> QED
  BY <1>2, <1>3, <1>5, <1>6, <1>7, HandlerStep

LEMMA GiveUpStep ==
  ASSUME IInv, NEW p \in Procs, NEW k \in 1..Workers[p], GiveUp(p, k)
  PROVE  IInv'
<1>1. /\ Finish(p, k, "unavailable") /\ work[p][k].at = "gate"
      /\ UNCHANGED <<procVars, disk, crashed, launched>>
  BY DEF GiveUp
<1> QED
  BY <1>1, FinishStep

\* A reply opens the stream, starts the second call of a status, or ends the operation.
LEMMA ReplyStep ==
  ASSUME IInv, NEW p \in Procs, NEW k \in 1..Workers[p], Reply(p, k)
  PROVE  IInv'
<1> DEFINE w == work[p][k]
<1>1. w \in Work /\ w.bytes = 0 /\ w.at = "rpc" /\ (w.trailer => cmd[p] = "serve")
  BY WorkFields DEF Reply, IInv, WorkInv
<1>2. UNCHANGED <<procVars, disk, crashed, launched>>
  BY DEF Reply
<1>3. ASSUME w.route = "payload", work' = [work EXCEPT ![p][k].at = "stream"], UNCHANGED gate
      PROVE  IInv'
  <2> DEFINE new == [w EXCEPT !.at = "stream"]
  <2>1. work' = [work EXCEPT ![p] = [work[p] EXCEPT ![k] = new]]
    BY <1>3, WorkNested
  <2>2. new \in Work /\ new.at = "stream" /\ new.route = w.route /\ new.trailer = w.trailer
    BY <1>1 DEF Work
  <2>3. /\ gate' = [q \in Procs |-> gate'[q]]
        /\ \A q \in Procs : gate'[q] \in 1..Workers[q] \cup {None}
    BY <1>3, GateReleased
  <2> HIDE DEF new, w
  <2>4. Allowed(p, k, new)
    BY <1>1, <2>2 DEF Allowed, w
  <2> QED
    BY <1>2, <2>1, <2>2, <2>3, <2>4, HandlerStep
<1>4. ASSUME w.route = "status", work' = [work EXCEPT ![p][k].at = "gate", ![p][k].route = "info"],
             Release(p, k, "ok")
      PROVE  IInv'
  <2> DEFINE new == [w EXCEPT !.at = "gate", !.route = "info"]
  <2>1. work' = [work EXCEPT ![p] = [work[p] EXCEPT ![k] = new]]
    <3>1. work = [q \in Procs |-> work[q]] /\ work[p] \in [1..Workers[p] -> Work]
      BY DEF IInv, TypeOK, WorkInv
    <3> QED
      BY <1>1, <1>4, <3>1 DEF Work
  <2>2. new \in Work /\ new.at = "gate" /\ new.bytes = 0 /\ new.trailer = w.trailer
    BY <1>1 DEF Work, Routes
  <2>3. /\ gate' = [q \in Procs |-> gate'[q]]
        /\ \A q \in Procs : gate'[q] \in 1..Workers[q] \cup {None}
    BY <1>4, GateReleased
  <2> HIDE DEF new
  <2>4. Allowed(p, k, new)
    BY <1>1, <1>4, <2>2 DEF Allowed
  <2> QED
    BY <1>2, <2>1, <2>2, <2>3, <2>4, HandlerStep
<1>5. ASSUME w.route # "payload", Finish(p, k, "ok") PROVE IInv'
  BY <1>1, <1>2, <1>5, FinishStep
<1>6. ASSUME Finish(p, k, "not_found") PROVE IInv'
  BY <1>1, <1>2, <1>6, FinishStep
<1>7. ASSUME Finish(p, k, "unavailable") PROVE IInv'
  BY <1>1, <1>2, <1>7, FinishStep
<1> QED
  BY <1>3, <1>4, <1>5, <1>6, <1>7 DEF Reply

\* A stream delivers no more than the page, and succeeds only with all of it.
LEMMA StreamStep ==
  ASSUME IInv, NEW p \in Procs, NEW k \in 1..Workers[p], Stream(p, k)
  PROVE  IInv'
<1> DEFINE w == work[p][k]
<1>1. w \in Work /\ w.bytes \in Nat /\ Pieces \in Nat /\ w.at = "stream" /\ (w.trailer => cmd[p] = "serve")
  BY WorkFields DEF Stream, IInv, WorkInv
<1>2. UNCHANGED <<procVars, disk, crashed, launched>>
  BY DEF Stream
<1>3. ASSUME More(w), work' = [work EXCEPT ![p][k].bytes = @ + 1], UNCHANGED gate
      PROVE  IInv'
  <2> DEFINE new == [w EXCEPT !.bytes = w.bytes + 1]
  <2>1. work' = [work EXCEPT ![p] = [work[p] EXCEPT ![k] = new]]
    <3>1. work = [q \in Procs |-> work[q]] /\ work[p] \in [1..Workers[p] -> Work]
      BY DEF IInv, TypeOK, WorkInv
    <3> QED
      BY <1>1, <1>3, <3>1 DEF Work
  <2>2. w.bytes + 1 \in 0..Pieces
    BY <1>1, <1>3 DEF More, Want
  <2>3. new \in Work /\ new.at = "stream" /\ new.route = w.route /\ new.trailer = w.trailer
    BY <1>1, <2>2 DEF Work
  <2>4. /\ gate' = [q \in Procs |-> gate'[q]]
        /\ \A q \in Procs : gate'[q] \in 1..Workers[q] \cup {None}
    BY <1>3, GateReleased
  <2> HIDE DEF new
  <2>5. Allowed(p, k, new)
    BY <1>1, <2>3 DEF Allowed
  <2> QED
    BY <1>2, <2>1, <2>3, <2>4, <2>5, HandlerStep
<1>4. ASSUME Complete(w), Finish(p, k, "ok") PROVE IInv'
  BY <1>1, <1>2, <1>4, FinishStep DEF Complete
<1>5. ASSUME Finish(p, k, "unavailable") PROVE IInv'
  BY <1>1, <1>2, <1>5, FinishStep
<1> QED
  BY <1>3, <1>4, <1>5 DEF Stream

LEMMA RespondStep ==
  ASSUME IInv, NEW p \in Procs, NEW k \in 1..Workers[p], Respond(p, k)
  PROVE  IInv'
<1>1. Idle \in Work /\ Idle.at = "idle" /\ ~Idle.trailer
  BY FreshWork, FreshValues DEF Idle
<1>2. /\ work' = [work EXCEPT ![p] = [work[p] EXCEPT ![k] = Idle]]
      /\ UNCHANGED <<procVars, disk, crashed, launched>>
  BY DEF Respond
<1>3. /\ gate' = [q \in Procs |-> gate'[q]]
      /\ \A q \in Procs : gate'[q] \in 1..Workers[q] \cup {None}
  BY GateReleased DEF Respond
<1>4. Allowed(p, k, Idle)
  BY <1>1 DEF Allowed, Respond
<1> QED
  BY <1>1, <1>2, <1>3, <1>4, HandlerStep

-----------------------------------------------------------------------------
(* The start and the end of a process *)

\* What is idle has no route of its own, no byte and no trailer.
LEMMA IdleWork == Idle \in Work /\ Idle.at = "idle" /\ Idle.bytes = 0 /\ ~Idle.trailer
BY FreshWork, FreshValues DEF Idle

\* Where each command begins.
LEMMA FirstPlaces ==
  ASSUME NEW c \in Commands
  PROVE  /\ FirstPlace[c] \in {"health", "serving", "ask", "temp"}
         /\ FirstPlace[c] \in {"serving", "ask", "temp"} => c # "serve"
BY DEF Commands, FirstPlace

\* A new process has a launch number nobody had before.
LEMMA LaunchStep ==
  ASSUME IInv, NEW p \in Procs, Launch(p)
  PROVE  IInv'
<1> USE FrontendsAssumption, Types
<1>1. PICK c \in Runs[p] : cmd' = [cmd EXCEPT ![p] = c] /\ main' = [main EXCEPT ![p] = FirstPlace[c]]
  BY DEF Launch, Goto
<1>2. c \in Commands
  OBVIOUS
<1> DEFINE place == FirstPlace[c]
<1>3. place \in {"health", "serving", "ask", "temp"} /\ (place \in {"serving", "ask", "temp"} => c # "serve")
  BY <1>2, FirstPlaces
<1> HIDE DEF place
<1>4. cmd'[p] = c /\ main'[p] = place /\ \A q \in Procs \ {p} : cmd'[q] = cmd[q] /\ main'[q] = main[q]
  BY <1>1 DEF place
<1>5. /\ UNCHANGED <<tries, token, gate, work, file, temps, target, crashed>>
      /\ launched < MaxLaunches /\ launched' = launched + 1 /\ main[p] = "down"
      /\ id' = [id EXCEPT ![p] = launched + 1]
  BY DEF Launch, disk
<1>6. launched + 1 \in Launches /\ launched' \in 0..MaxLaunches
  BY <1>5 DEF Launches
<1>7. id'[p] = launched + 1 /\ \A q \in Procs \ {p} : id'[q] = id[q]
  BY <1>5
<1>8. id[p] = None /\ Drained(p)
  BY <1>5 DEF IInv, PlaceInv
<1>9. TypeOK'
  <2>1. cmd' \in [Procs -> Commands \cup {None}]
    BY <1>1, <1>2
  <2>2. id' \in [Procs -> Launches \cup {None}]
    BY <1>5, <1>6
  <2>3. main' \in [Procs -> Places]
    <3>1. place \in Places
      BY <1>3 DEF Places
    <3> QED
      BY <1>1, <3>1 DEF place
  <2> QED
    BY <1>5, <1>6, <2>1, <2>2, <2>3 DEF IInv, TypeOK
<1>10. PlaceInv'
  <2>1. Drained(p)' /\ \A q \in Procs : Drained(q) => Drained(q)'
    BY <1>5, <1>8 DEF Drained
  <2>2. launched + 1 # None
    BY <1>5
  <2> QED
    BY <1>3, <1>4, <1>5, <1>7, <2>1, <2>2 DEF IInv, PlaceInv
<1>11. WorkInv' /\ CompleteOrFlagged'
  <2>1. \A k \in 1..Workers[p] : work[p][k] = Idle
    BY <1>8 DEF Drained, IInv, WorkInv
  <2>2. \A k \in 1..Workers[p] : ~work[p][k].trailer /\ work[p][k].at = "idle"
    BY <2>1, IdleWork
  <2>3. WorkInv'
    BY <1>4, <1>5, <2>2 DEF IInv, WorkInv
  <2>4. CompleteOrFlagged'
    BY <1>4, <1>5, <2>2 DEF IInv, CompleteOrFlagged, Want
  <2> QED
    BY <2>3, <2>4
<1>12. TempInv'
  BY <1>4, <1>5, <1>7 DEF IInv, TempInv, Launches
<1>13. TokenInv'
  BY <1>3, <1>4, <1>5 DEF IInv, TokenInv
<1>14. FilesWhole'
  <2>1. \A t \in temps : t.owner # id[p]
    BY <1>8
  <2> QED
    BY <1>4, <1>5, <1>7, <2>1 DEF IInv, FilesWhole, Want
<1>15. TokenAgreed' /\ ClientOutlivesHandlers'
  <2>1. TokenAgreed'
    BY <1>3, <1>4, <1>5 DEF IInv, TokenAgreed
  <2>2. ClientOutlivesHandlers'
    BY <1>3, <1>4, <1>5 DEF IInv, ClientOutlivesHandlers
  <2> QED
    BY <2>1, <2>2
<1> QED
  BY <1>9, <1>10, <1>11, <1>12, <1>13, <1>14, <1>15 DEF IInv

\* Nothing refers to a process that is gone but the files it left when it was killed.
LEMMA GoneStep ==
  ASSUME IInv, NEW p \in Procs, Gone(p), UNCHANGED <<disk, launched>>,
         crashed \subseteq crashed', crashed' \subseteq Launches,
         \A t \in temps : t.owner = id[p] => t.owner \in crashed'
  PROVE  IInv'
<1> USE FrontendsAssumption, Types
<1>1. UNCHANGED <<file, temps, target, launched>>
  BY DEF disk
<1>2. /\ cmd'[p] = None /\ main'[p] = "down" /\ id'[p] = None /\ tries'[p] = 0 /\ token'[p] = None
      /\ \A q \in Procs \ {p} : /\ cmd'[q] = cmd[q] /\ main'[q] = main[q] /\ id'[q] = id[q]
                                /\ tries'[q] = tries[q] /\ token'[q] = token[q]
  BY DEF Gone, Goto
<1>3. gate = [q \in Procs |-> gate[q]] /\ work = [q \in Procs |-> work[q]]
  BY DEF IInv, WorkInv
<1>4. /\ gate' = [q \in Procs |-> gate'[q]] /\ gate'[p] = None
      /\ \A q \in Procs \ {p} : gate'[q] = gate[q]
  BY <1>3 DEF Gone
<1>5. /\ work' = [q \in Procs |-> work'[q]] /\ work'[p] = NoWork(p)
      /\ \A q \in Procs \ {p} : work'[q] = work[q]
  BY <1>3 DEF Gone
<1>6. work'[p] \in [1..Workers[p] -> Work] /\ \A k \in 1..Workers[p] : work'[p][k] = Idle
  BY <1>5, IdleWork DEF NoWork
<1>7. TypeOK'
  <2>1. /\ cmd' \in [Procs -> Commands \cup {None}] /\ id' \in [Procs -> Launches \cup {None}]
        /\ tries' \in [Procs -> 0..1] /\ token' \in [Procs -> Launches \cup {None}]
    BY DEF Gone
  <2>2. main' \in [Procs -> Places]
    BY DEF Gone, Goto, Places
  <2>3. \A q \in Procs : gate'[q] \in 1..Workers[q] \cup {None} /\ work'[q] \in [1..Workers[q] -> Work]
    BY <1>4, <1>5, <1>6 DEF IInv, TypeOK
  <2> QED
    BY <1>1, <2>1, <2>2, <2>3 DEF IInv, TypeOK
<1>8. Drained(p)' /\ \A q \in Procs \ {p} : Drained(q) => Drained(q)'
  BY <1>5, <1>6, IdleWork DEF Drained
<1>9. PlaceInv'
  BY <1>2, <1>5, <1>8 DEF IInv, PlaceInv
<1>10. WorkInv'
  <2>1. \A q \in Procs \ {p} : \A k \in 1..Workers[q] :
          /\ work'[q][k].at = "idle" => work'[q][k] = Idle
          /\ work'[q][k].at \in {"accepted", "gate", "rpc"} => work'[q][k].bytes = 0
          /\ work'[q][k].at = "accepted" \/ work'[q][k].trailer => cmd'[q] = "serve"
    BY <1>2, <1>5 DEF IInv, WorkInv
  <2>2. \A k \in 1..Workers[p] : /\ work'[p][k] = Idle /\ work'[p][k].at = "idle"
                                  /\ work'[p][k].bytes = 0 /\ ~work'[p][k].trailer
    BY <1>6, IdleWork
  <2> QED
    BY <1>4, <1>5, <2>1, <2>2 DEF WorkInv
<1>11. CompleteOrFlagged'
  <2>1. \A k \in 1..Workers[p] : work'[p][k].at = "idle"
    BY <1>6, IdleWork
  <2> QED
    BY <1>2, <1>5, <2>1 DEF IInv, CompleteOrFlagged, Want
<1>12. TempInv'
  BY <1>1, <1>2 DEF IInv, TempInv
<1>13. TokenInv' /\ TokenAgreed'
  BY <1>1, <1>2 DEF IInv, TokenInv, TokenAgreed
<1>14. FilesWhole'
  <2>1. ASSUME NEW t \in temps
        PROVE  t.owner \in crashed' \/ \E q \in Procs : t.owner = id'[q] /\ main'[q] # "close"
    <3>1. CASE t.owner \in crashed \/ t.owner = id[p]
      BY <3>1
    <3>2. CASE t.owner \notin crashed /\ t.owner # id[p]
      <4>1. PICK q \in Procs : t.owner = id[q] /\ main[q] # "close"
        BY <3>2 DEF IInv, FilesWhole
      <4> QED
        BY <1>2, <3>2, <4>1
    <3> QED
      BY <3>1, <3>2
  <2> QED
    BY <1>1, <2>1 DEF IInv, FilesWhole, Want
<1>15. ClientOutlivesHandlers'
  BY <1>2, <1>5 DEF IInv, ClientOutlivesHandlers
<1> QED
  BY <1>7, <1>9, <1>10, <1>11, <1>12, <1>13, <1>14, <1>15 DEF IInv

LEMMA CloseClientStep ==
  ASSUME IInv, NEW p \in Procs, CloseClient(p)
  PROVE  IInv'
<1>1. \A t \in temps : t.owner # id[p]
  BY DEF CloseClient, IInv, TempInv
<1>2. crashed \subseteq Launches /\ crashed' = crashed /\ Gone(p) /\ UNCHANGED <<disk, launched>>
  BY DEF CloseClient, IInv, TypeOK
<1> QED
  BY <1>1, <1>2, GoneStep

LEMMA CrashStep ==
  ASSUME IInv, NEW p \in Procs, Crash(p)
  PROVE  IInv'
<1>1. crashed \subseteq Launches
  BY DEF IInv, TypeOK
<1>2. Gone(p) /\ UNCHANGED <<disk, launched>> /\ crashed \subseteq crashed'
  BY DEF Crash
<1>3. crashed' \subseteq Launches
  BY <1>1, Types DEF Crash
<1>4. \A t \in temps : t.owner = id[p] => t.owner \in crashed'
  BY DEF Crash
<1> QED
  BY <1>2, <1>3, <1>4, GoneStep

\* The one operation of a command begins; inspect --output has its temporary file by then.
LEMMA AskStep ==
  ASSUME IInv, NEW p \in Procs, Ask(p)
  PROVE  IInv'
<1>1. /\ main[p] \in {"ask", "temp"} /\ main' = [main EXCEPT ![p] = "fetch"]
      /\ temps' = temps \cup (IF main[p] = "temp" THEN {Temp(p, FALSE)} ELSE {})
      /\ UNCHANGED <<cmd, id, tries, token, gate, file, target, crashed, launched>>
  BY DEF Ask, Goto
<1>2. main'[p] = "fetch" /\ \A q \in Procs \ {p} : main'[q] = main[q]
  BY <1>1, Types
<1>3. \E route \in Routes, page \in Pages :
        Begin(p, 1, route, page) /\ (cmd[p] = "inspectFile" => route = "payload")
  <2>1. {"payload", "info", "status", "search"} \subseteq Routes /\ "empty" \in Pages
    BY DEF Routes, Pages
  <2>2. CASE cmd[p] = "query"
    <3>1. PICK route \in {"info", "status", "search"} : Begin(p, 1, route, "empty")
      BY <2>2 DEF Ask
    <3>2. route \in Routes /\ "empty" \in Pages
      BY <2>1
    <3> QED
      BY <2>2, <3>1, <3>2
  <2>3. CASE cmd[p] # "query"
    <3>1. PICK page \in Pages : Begin(p, 1, "payload", page)
      BY <2>3 DEF Ask
    <3> QED
      BY <2>1, <3>1
  <2> QED
    BY <2>2, <2>3
<1>4. PICK route \in Routes, page \in Pages :
        Begin(p, 1, route, page) /\ (cmd[p] = "inspectFile" => route = "payload")
  BY <1>3
<1> DEFINE new == Fresh("gate", route, page, "none")
<1>5. new \in Work /\ new.at = "gate" /\ new.route = route /\ new.bytes = 0 /\ ~new.trailer
  BY FreshWork, FreshValues
<1>6. 1 \in 1..Workers[p]
  BY FrontendsAssumption
<1>7. work' = [work EXCEPT ![p] = [work[p] EXCEPT ![1] = new]]
  BY <1>4 DEF Begin
<1> HIDE DEF new
<1>8. /\ work' = [q \in Procs |-> work'[q]]
      /\ \A q \in Procs \ {p} : work'[q] = work[q]
      /\ work'[p] \in [1..Workers[p] -> Work] /\ work'[p][1] = new
      /\ \A j \in 1..Workers[p] \ {1} : work'[p][j] = work[p][j]
  <2>1. PICK k \in 1..Workers[p] : k = 1
    BY <1>6
  <2>2. work' = [work EXCEPT ![p] = [work[p] EXCEPT ![k] = new]]
    BY <1>7, <2>1
  <2>3. /\ work' = [q \in Procs |-> work'[q]]
        /\ \A q \in Procs \ {p} : work'[q] = work[q]
        /\ work'[p] \in [1..Workers[p] -> Work] /\ work'[p][k] = new
        /\ \A j \in 1..Workers[p] \ {k} : work'[p][j] = work[p][j]
    BY <1>5, <2>2, WorkUpdate
  <2> QED
    BY <2>1, <2>3
<1> USE FrontendsAssumption, Types
<1>9. cmd[p] # "serve"
  BY <1>1 DEF IInv, PlaceInv
<1>10. temps' \subseteq temps \cup {Temp(p, FALSE)} /\ Temp(p, FALSE).owner = id[p]
  BY <1>1 DEF Temp
<1>11. TypeOK'
  <2>1. main' \in [Procs -> Places]
    BY <1>1 DEF Places
  <2>2. \A q \in Procs : work'[q] \in [1..Workers[q] -> Work]
    BY <1>8 DEF IInv, TypeOK
  <2>3. temps' \subseteq [owner : Launches, full : BOOLEAN]
    BY <1>1, <1>10, TempFile DEF IInv, TypeOK
  <2> QED
    BY <1>1, <2>1, <2>2, <2>3 DEF IInv, TypeOK
<1>12. PlaceInv'
  <2>1. \A q \in Procs \ {p} : Drained(q) => Drained(q)'
    BY <1>8 DEF Drained
  <2> QED
    BY <1>1, <1>2, <1>4, <1>5, <1>8, <1>9, <2>1 DEF IInv, PlaceInv
<1>13. \A q \in Procs : \A j \in 1..Workers[q] : (q = p /\ j = 1) \/ work'[q][j] = work[q][j]
  BY <1>8
<1>14. WorkInv'
  <2>1. ASSUME NEW q \in Procs, NEW j \in 1..Workers[q]
        PROVE  /\ work'[q][j].at = "idle" => work'[q][j] = Idle
               /\ work'[q][j].at \in {"accepted", "gate", "rpc"} => work'[q][j].bytes = 0
               /\ work'[q][j].at = "accepted" \/ work'[q][j].trailer => cmd'[q] = "serve"
    <3>1. CASE q = p /\ j = 1
      BY <1>5, <1>8, <3>1
    <3>2. CASE work'[q][j] = work[q][j]
      BY <1>1, <3>2 DEF IInv, WorkInv
    <3> QED
      BY <1>13, <3>1, <3>2
  <2>2. gate' = [q \in Procs |-> gate'[q]]
    BY <1>1 DEF IInv, WorkInv
  <2> QED
    BY <1>8, <2>1, <2>2 DEF WorkInv
<1>15. CompleteOrFlagged'
  <2> SUFFICES ASSUME NEW q \in Procs, NEW j \in 1..Workers[q],
                      work'[q][j].at = "respond", work'[q][j].route = "payload"
               PROVE  /\ work'[q][j].code = "ok" /\ ~work'[q][j].trailer =>
                           work'[q][j].bytes = Want(work'[q][j].page)
                      /\ cmd'[q] = "serve" /\ work'[q][j].code # "ok" => work'[q][j].bytes = 0
    BY DEF CompleteOrFlagged, Want
  <2>1. work'[q][j] = work[q][j]
    BY <1>5, <1>8, <1>13
  <2> QED
    BY <1>1, <2>1 DEF IInv, CompleteOrFlagged
<1>16. TempInv'
  <2>1. \A t \in temps : t.owner # id[p]
    BY <1>1 DEF IInv, TempInv
  <2>2. id[p] \in Launches /\ id[p] # None
    BY <1>1 DEF Launches
  <2>3. ASSUME NEW t \in temps'
        PROVE  /\ t.owner <= launched
               /\ \A q \in Procs : t.owner = id[q] => main'[q] \in {"write", "publish", "fetch", "rename"}
    <3>1. CASE t \in temps
      BY <1>2, <2>1, <3>1 DEF IInv, TempInv
    <3>2. CASE t.owner = id[p]
      BY <1>2, <2>2, <3>2 DEF IInv, TempInv
    <3> QED
      BY <1>10, <3>1, <3>2
  <2> QED
    BY <1>1, <2>3 DEF IInv, TempInv
<1>17. TokenInv' /\ TokenAgreed'
  BY <1>1, <1>2 DEF IInv, TokenInv, TokenAgreed
<1>18. FilesWhole'
  <2>1. ASSUME NEW t \in temps'
        PROVE  t.owner \in crashed \/ \E q \in Procs : t.owner = id[q] /\ main'[q] # "close"
    <3>1. CASE t \in temps
      BY <1>2, <3>1 DEF IInv, FilesWhole
    <3>2. CASE t.owner = id[p]
      BY <1>2, <3>2
    <3> QED
      BY <1>10, <3>1, <3>2
  <2> QED
    BY <1>1, <2>1 DEF IInv, FilesWhole, Want
<1>19. ClientOutlivesHandlers'
  <2> SUFFICES ASSUME NEW q \in Procs, main'[q] = "close", cmd'[q] = "serve"
               PROVE  \A k \in 1..Workers[q] : work'[q][k].at = "idle"
    BY DEF ClientOutlivesHandlers
  <2>1. q # p /\ main[q] = "close" /\ cmd[q] = "serve"
    BY <1>1, <1>2
  <2>2. work'[q] = work[q]
    BY <1>8, <2>1
  <2> QED
    BY <2>1, <2>2 DEF IInv, ClientOutlivesHandlers
<1> QED
  BY <1>11, <1>12, <1>14, <1>15, <1>16, <1>17, <1>18, <1>19 DEF IInv

-----------------------------------------------------------------------------
(* The invariant and what follows from it *)

LEMMA InitIInv == Init => IInv
<1> SUFFICES ASSUME Init PROVE IInv
  OBVIOUS
<1> USE FrontendsAssumption
<1>1. \A p \in Procs : /\ cmd[p] = None /\ id[p] = None /\ main[p] = "down" /\ tries[p] = 0
                       /\ token[p] = None /\ gate[p] = None /\ work[p] = NoWork(p)
  BY DEF Init
<1>2. \A p \in Procs : /\ work[p] \in [1..Workers[p] -> Work]
                       /\ \A k \in 1..Workers[p] : work[p][k] = Idle
  <2> SUFFICES ASSUME NEW p \in Procs
               PROVE  /\ work[p] \in [1..Workers[p] -> Work]
                      /\ \A k \in 1..Workers[p] : work[p][k] = Idle
    OBVIOUS
  <2>1. work[p] = [k \in 1..Workers[p] |-> Idle]
    BY <1>1 DEF NoWork
  <2> QED
    BY <2>1, IdleWork
<1>3. TypeOK
  <2>1. /\ cmd \in [Procs -> Commands \cup {None}] /\ id \in [Procs -> Launches \cup {None}]
        /\ tries \in [Procs -> 0..1] /\ token \in [Procs -> Launches \cup {None}]
    BY DEF Init
  <2>2. main \in [Procs -> Places]
    BY DEF Init, Places
  <2>3. file = None /\ temps = {} /\ target = None /\ crashed = {} /\ launched = 0 /\ 0 \in 0..MaxLaunches
    BY DEF Init
  <2> QED
    BY <1>1, <1>2, <2>1, <2>2, <2>3 DEF TypeOK
<1>4. PlaceInv
  BY <1>1, <1>2, IdleWork DEF PlaceInv, Drained
<1>5. WorkInv
  <2>1. gate = [p \in Procs |-> gate[p]] /\ work = [p \in Procs |-> work[p]]
    BY DEF Init
  <2> QED
    BY <1>2, <2>1, IdleWork DEF WorkInv
<1>6. TempInv /\ TokenInv
  <2>1. temps = {} /\ file = None
    BY DEF Init
  <2> QED
    BY <1>1, <2>1 DEF TempInv, TokenInv
<1>7. CompleteOrFlagged
  BY <1>2, IdleWork DEF CompleteOrFlagged
<1>8. FilesWhole
  BY DEF Init, FilesWhole
<1>9. TokenAgreed /\ ClientOutlivesHandlers
  BY <1>1 DEF TokenAgreed, ClientOutlivesHandlers
<1> QED
  BY <1>3, <1>4, <1>5, <1>6, <1>7, <1>8, <1>9 DEF IInv

LEMMA IdleStep == IInv /\ UNCHANGED vars => IInv'
<1> SUFFICES ASSUME IInv, UNCHANGED vars PROVE IInv'
  OBVIOUS
<1>1. UNCHANGED <<cmd, id, main, tries, token, gate, work, file, temps, target, crashed, launched>>
  BY DEF vars, procVars, disk
<1>2. TypeOK' /\ PlaceInv'
  BY <1>1 DEF IInv, TypeOK, PlaceInv, Drained
<1>3. WorkInv' /\ CompleteOrFlagged'
  BY <1>1, HandlersKeep
<1>4. TempInv' /\ TokenInv'
  BY <1>1 DEF IInv, TempInv, TokenInv
<1>5. FilesWhole' /\ TokenAgreed' /\ ClientOutlivesHandlers'
  BY <1>1 DEF IInv, FilesWhole, TokenAgreed, ClientOutlivesHandlers, Want
<1> QED
  BY <1>2, <1>3, <1>4, <1>5 DEF IInv

LEMMA StepIInv == IInv /\ [Next]_vars => IInv'
<1> SUFFICES ASSUME IInv, Next PROVE IInv'
  BY IdleStep
<1>1. PICK p \in Procs :
        \/ Launch(p) \/ Stop(p) \/ Crash(p) \/ Main(p)
        \/ \E k \in 1..Workers[p] :
             \/ Accept(p, k) \/ ServeHTTP(p, k) \/ CallTool(p, k)
             \/ Acquire(p, k) \/ GiveUp(p, k) \/ Handler(p, k)
  BY DEF Next
<1>2. CASE Launch(p) \/ Stop(p) \/ Crash(p)
  BY <1>2, LaunchStep, StopStep, CrashStep
<1>3. CASE Main(p)
  BY <1>3, HealthStep, ReadTokenStep, CreateTokenStep, WriteTokenStep, PublishTokenStep, ListenStep,
     AnnounceStep, FailsStep, ShutdownStep, CloseClientStep, AskStep, FetchedStep, RenameStep DEF Main
<1>4. CASE \E k \in 1..Workers[p] :
             \/ Accept(p, k) \/ ServeHTTP(p, k) \/ CallTool(p, k)
             \/ Acquire(p, k) \/ GiveUp(p, k) \/ Handler(p, k)
  BY <1>4, AcceptStep, ServeHTTPStep, CallToolStep, AcquireStep, GiveUpStep, DropStep, ReplyStep, StreamStep,
     RespondStep DEF Handler
<1> QED
  BY <1>1, <1>2, <1>3, <1>4

\* The inductive invariant of the commands holds in every reachable state.
THEOREM FrontendsInvariant == Spec => []IInv
BY InitIInv, StepIInv, PTL DEF Spec

\* Types, of any number of processes and handlers.
THEOREM FrontendsTypeOK == Spec => []TypeOK
<1>1. IInv => TypeOK
  BY DEF IInv
<1> QED
  BY <1>1, FrontendsInvariant, PTL

\* Whoever is told of success has the whole page, however handlers, failures of the
\* stream and ends of the process interleave (httpapi.payload, mcp.readPayload, runInspect).
THEOREM SuccessMeansWhole == Spec => []CompleteOrFlagged
<1>1. IInv => CompleteOrFlagged
  BY DEF IInv
<1> QED
  BY <1>1, FrontendsInvariant, PTL

\* The --output file is a whole page and temporary files are left only by a kill, for
\* any number of commands that write the same file (runInspect, createHTTPTokenAt).
THEOREM OutputWhole == Spec => []FilesWhole
<1>1. IInv => FilesWhole
  BY DEF IInv
<1> QED
  BY <1>1, FrontendsInvariant, PTL

\* Any number of servers that start at once agree on the token in the file, and none
\* runs out of attempts (LoadOrCreateHTTPToken).
THEOREM ServersAgree == Spec => []TokenAgreed
<1>1. IInv => TokenAgreed
  BY DEF IInv
<1> QED
  BY <1>1, FrontendsInvariant, PTL

\* serve closes its RPC client after its last handler (the defers of runServe).
THEOREM ClientClosedLast == Spec => []ClientOutlivesHandlers
<1>1. IInv => ClientOutlivesHandlers
  BY DEF IInv
<1> QED
  BY <1>1, FrontendsInvariant, PTL
=============================================================================
