------------------------- MODULE DaemonReadsProofs -------------------------
(***************************************************************************)
(* The daemon with its readers is still the daemon: every theorem about    *)
(* CaptureDaemon holds beside them.  And what a reader of acknowledged     *)
(* evidence receives is exact, for every chunk size, payload, page and     *)
(* number of connections.                                                  *)
(***************************************************************************)
EXTENDS DaemonReads, CaptureDaemonProofs, SequenceTheorems

-----------------------------------------------------------------------------
(* Readers change nothing of the capture side. *)

LEMMA ReadStepIsStep == [ReadNext]_allVars => [Next]_vars
<1>1. ASSUME UNCHANGED allVars PROVE UNCHANGED vars
  BY <1>1 DEF allVars
<1>2. ASSUME Lifecycle \/ CloseDone \/ ReadCrash PROVE Next
  BY <1>2 DEF Lifecycle, CloseDone, ReadCrash, Next
<1>3. ASSUME NEW c \in Conns, Capturing(c) \/ CaptureOn(c) \/ CaptureDb(c) PROVE Next
  BY <1>3 DEF Capturing, CaptureOn, CaptureDb, Next
<1>4. ASSUME NEW c \in Conns, (ReceiveRead(c) /\ UNCHANGED vars) \/ ReadOn(c) \/ ReadDb(c)
      PROVE  UNCHANGED vars
  BY <1>4 DEF ReadOn, ReadDb
<1>5. QED
  BY <1>1, <1>2, <1>3, <1>4 DEF ReadNext

\* The composed daemon implements the daemon without readers: no reader, however slow,
\* changes what captures store, decide and acknowledge.
THEOREM ReadersDoNotDisturb == ReadSpec => Spec
  BY ReadStepIsStep, PTL DEF ReadSpec, ReadInit, Spec

-----------------------------------------------------------------------------
(* Rows that are as long as their indexes say begin where their indexes say. *)

Placed(ends, total) ==
  (\A i \in 1..Len(ends) : validChunk(ChunkLen(ends, i), i - 1, total)) =>
    \A i \in 1..Len(ends) : ends[i] = Min2(i * ChunkSize, total)

PlacedInv ==
  /\ \A c \in Conns : pc[c] = "stream" => Placed(cuts[c], Size[req[c].payload])
  /\ \A e \in Events : events[e] # None => Placed(events[e].cuts, Size[events[e].payload])

LEMMA NextEnd ==
  ASSUME NEW x \in Nat, NEW S \in Nat, NEW total \in Nat, x < total
  PROVE  x + Min2(total - x, S) = Min2(x + S, total)
  BY DEF Min2

\* One Read, short or not, keeps the rows placed.
LEMMA ExtendPlaced ==
  ASSUME NEW ends \in Seq(Nat), NEW total \in Nat, NEW n \in Nat,
         Placed(ends, total), Consumed(ends) < total
  PROVE  Placed(Append(ends, Consumed(ends) + n), total)
<1> DEFINE k == Len(ends)
           done == Consumed(ends)
           new == Append(ends, done + n)
<1>1. k \in Nat /\ done \in Nat /\ ChunkSize \in Nat /\ ChunkSize > 0 /\ k * ChunkSize \in Nat
  BY ConsumedNat, ConstantsAssumption
<1>2. new \in Seq(Nat) /\ Len(new) = k + 1 /\ new[k + 1] = done + n
      /\ \A i \in 1..k : new[i] = ends[i]
  BY <1>1
<1>3. SUFFICES ASSUME \A i \in 1..Len(new) : validChunk(ChunkLen(new, i), i - 1, total)
               PROVE  \A i \in 1..Len(new) : new[i] = Min2(i * ChunkSize, total)
  BY DEF Placed
<1>4. \A i \in 1..k : ends[i] = Min2(i * ChunkSize, total)
  <2>1. ASSUME NEW i \in 1..k PROVE validChunk(ChunkLen(ends, i), i - 1, total)
    <3>1. i \in 1..Len(new) /\ ChunkLen(new, i) = ChunkLen(ends, i)
      BY <1>1, <1>2 DEF ChunkLen
    <3>2. QED
      BY <1>3, <3>1
  <2>2. QED
    BY <2>1 DEF Placed
<1>5. done = k * ChunkSize
  <2>1. CASE k = 0
    BY <1>1, <2>1 DEF Consumed
  <2>2. CASE k > 0
    <3>1. done = ends[k] /\ k \in 1..k
      BY <1>1, <2>2 DEF Consumed
    <3>2. QED
      BY <1>1, <1>4, <3>1 DEF Min2
  <2>3. QED
    BY <1>1, <2>1, <2>2
<1>6. n = Min2(total - k * ChunkSize, ChunkSize)
  <2>1. validChunk(ChunkLen(new, k + 1), k, total)
    <3>1. k + 1 \in 1..Len(new) /\ (k + 1) - 1 = k
      BY <1>1, <1>2
    <3>2. QED
      BY <1>3, <3>1
  <2>2. ChunkLen(new, k + 1) = n
    <3>1. CASE k = 0
      BY <1>1, <1>2, <1>5, <3>1 DEF ChunkLen
    <3>2. CASE k > 0
      <4>1. new[k] = done
        BY <1>1, <1>2, <3>2 DEF Consumed
      <4>2. QED
        BY <1>1, <1>2, <3>2, <4>1 DEF ChunkLen
    <3>3. QED
      BY <1>1, <3>1, <3>2
  <2>3. QED
    BY <2>1, <2>2 DEF validChunk
<1>7. (k + 1) * ChunkSize = k * ChunkSize + ChunkSize
  BY <1>1
<1>8. new[k + 1] = Min2((k + 1) * ChunkSize, total)
  <2>1. k * ChunkSize + n = Min2(k * ChunkSize + ChunkSize, total)
    BY <1>1, <1>5, <1>6, NextEnd
  <2>2. QED
    BY <1>2, <1>5, <1>7, <2>1
<1>9. ASSUME NEW i \in 1..Len(new) PROVE new[i] = Min2(i * ChunkSize, total)
  <2>1. i \in 1..k \/ i = k + 1
    BY <1>1, <1>2
  <2>2. QED
    BY <1>2, <1>4, <1>8, <2>1
<1>10. QED
  BY <1>9

LEMMA InitPlaced == Init => PlacedInv
  BY DEF Init, PlacedInv

\* Steps that neither open a transaction, read the connection nor commit.
LEMMA QuietPlaced ==
  ASSUME PlacedInv, UNCHANGED events,
         \A c \in Conns : pc'[c] = "stream" =>
           pc[c] = "stream" /\ cuts'[c] = cuts[c] /\ req'[c] = req[c]
  PROVE  PlacedInv'
  BY DEF PlacedInv

LEMMA AppendPlaced ==
  ASSUME IInv, PlacedInv, NEW c \in Conns, AppendEvent(c)
  PROVE  PlacedInv'
<1>1. \A total : Placed(<<>>, total)
  BY DEF Placed
<1>2. ASSUME NEW d \in Conns, pc'[d] = "stream"
      PROVE  Placed(cuts'[d], Size[req'[d].payload])
  <2>1. CASE d = c
    <3>1. cuts'[c] = <<>>
      BY <1>2, <2>1 DEF AppendEvent, Goto, Answer, IInv, TypeOK
    <3>2. QED
      BY <1>1, <2>1, <3>1
  <2>2. CASE d # c
    <3>1. pc[d] = "stream" /\ cuts'[d] = cuts[d] /\ req'[d] = req[d]
      BY <1>2, <2>2 DEF AppendEvent, Goto, Answer, IInv, TypeOK
    <3>2. QED
      BY <3>1 DEF PlacedInv
  <2>3. QED
    BY <2>1, <2>2
<1>3. QED
  BY <1>2 DEF PlacedInv, AppendEvent

LEMMA ConsumePlaced ==
  ASSUME IInv, PlacedInv, NEW c \in Conns, consumeEvidence(c)
  PROVE  PlacedInv'
<1> DEFINE total == Size[req[c].payload]
           done == Consumed(cuts[c])
<1>1. req[c] \in Requests /\ total - done > 0
  BY DEF IInv, HandlerInv, consumeEvidence
<1>2. total \in Nat /\ cuts[c] \in Seq(Nat) /\ done \in Nat /\ done < total
  BY <1>1, RequestFields, ConsumedNat DEF IInv, TypeOK
<1>3. PICK n \in ReadSizes(Min2(ChunkSize, total - done)) :
        cuts' = [cuts EXCEPT ![c] =
                   IF pc[c] = "stream" THEN Append(cuts[c], done + n) ELSE <<done + n>>]
  BY DEF consumeEvidence
<1>4. n \in Nat
  BY <1>2, <1>3, ReadSizesNat
<1>5. ASSUME NEW d \in Conns, pc'[d] = "stream"
      PROVE  Placed(cuts'[d], Size[req'[d].payload])
  <2>1. pc[d] = "stream" /\ req'[d] = req[d] /\ Placed(cuts[d], Size[req[d].payload])
    BY <1>5 DEF consumeEvidence, PlacedInv
  <2>2. CASE d = c
    <3>1. cuts'[c] = Append(cuts[c], done + n)
      BY <1>3, <2>1, <2>2 DEF IInv, TypeOK
    <3>2. Placed(Append(cuts[c], done + n), total)
      BY <1>2, <1>4, <2>1, <2>2, ExtendPlaced
    <3>3. QED
      BY <2>1, <2>2, <3>1, <3>2
  <2>3. CASE d # c
    BY <1>3, <2>1, <2>3 DEF IInv, TypeOK
  <2>4. QED
    BY <2>2, <2>3
<1>6. QED
  BY <1>5 DEF PlacedInv, consumeEvidence

LEMMA CommitPlaced ==
  ASSUME IInv, PlacedInv, NEW c \in Conns, CommitEvent(c)
  PROVE  PlacedInv'
<1> DEFINE r == req[c]
           row1 == [meta |-> r.meta, payload |-> r.payload, cuts |-> cuts[c]]
<1>1. Placed(row1.cuts, Size[row1.payload])
  BY DEF CommitEvent, PlacedInv
<1>2. events' = [events EXCEPT ![r.event] = row1]
  BY DEF CommitEvent
<1> HIDE DEF row1
<1>3. ASSUME NEW e \in Events, events'[e] # None
      PROVE  Placed(events'[e].cuts, Size[events'[e].payload])
  BY <1>1, <1>2, <1>3 DEF PlacedInv, IInv, TypeOK
<1>4. ASSUME NEW d \in Conns, pc'[d] = "stream"
      PROVE  pc[d] = "stream" /\ cuts'[d] = cuts[d] /\ req'[d] = req[d]
  BY <1>4 DEF CommitEvent, EndTransaction, Goto, IInv, TypeOK
<1>5. QED
  BY <1>3, <1>4 DEF PlacedInv

LEMMA StepPlaced == IInv /\ PlacedInv /\ [Next]_vars => PlacedInv'
<1> SUFFICES ASSUME IInv, PlacedInv, [Next]_vars PROVE PlacedInv'
  OBVIOUS
<1>1. CASE UNCHANGED vars
  BY <1>1, QuietPlaced DEF vars
<1>2. CASE Start \/ StopAdmission \/ CloseConnections \/ FinishClose \/ Crash
  BY <1>2, QuietPlaced DEF Start, StopAdmission, CloseConnections, FinishClose, Crash
<1>3. ASSUME NEW c \in Conns,
             \/ Receive(c) \/ BeginCaptureAttempt(c) \/ ReadHeader(c)
             \/ MarkCaptureIncomplete(c) \/ CompleteCaptureAttempt(c) \/ Respond(c)
      PROVE  PlacedInv'
  <2>1. UNCHANGED <<events, cuts>>
    BY <1>3 DEF Receive, BeginCaptureAttempt, ReadHeader, MarkCaptureIncomplete,
                CompleteCaptureAttempt, Respond
  <2>2. ASSUME NEW d \in Conns, pc'[d] = "stream"
        PROVE  pc[d] = "stream" /\ req'[d] = req[d]
    BY <1>3, <2>2 DEF Receive, BeginCaptureAttempt, ReadHeader, MarkCaptureIncomplete,
                CompleteCaptureAttempt, Respond, Goto, Answer, IInv, TypeOK
  <2>3. QED
    BY <2>1, <2>2, QuietPlaced
<1>4. ASSUME NEW c \in Conns, AbortAppend(c) \/ CompareEvent(c)
      PROVE  PlacedInv'
  <2>1. ASSUME NEW d \in Conns, pc'[d] = "stream"
        PROVE  pc[d] = "stream" /\ req'[d] = req[d] /\ cuts'[d] = cuts[d]
    BY <1>4, <2>1 DEF AbortAppend, CompareEvent, EndTransaction, Goto, Answer, IInv, TypeOK
  <2>2. QED
    BY <1>4, <2>1, QuietPlaced DEF AbortAppend, CompareEvent
<1>5. CASE Next
  BY <1>2, <1>3, <1>4, <1>5, NextCases, AppendPlaced, ConsumePlaced, CommitPlaced
<1>6. QED
  BY <1>1, <1>5

-----------------------------------------------------------------------------
(* Where a reader is in its page. *)

Progress(c) ==
  \/ row[c] = FirstRow(read[c]) /\ got[c] = <<>>
  \/ /\ row[c] * ChunkSize > read[c].offset
     /\ Len(got[c]) = Min2(page[c], row[c] * ChunkSize - read[c].offset)
     /\ Prefix(c)

ReaderInv(c) ==
  /\ at[c] # "idle" => read[c] \in Reads
  /\ at[c] \in {"announce", "query", "open", "rows"} =>
       /\ Stored(c) # None
       /\ page[c] = PageLength(Total(c), read[c].offset, read[c].limit)
  /\ at[c] \in {"open", "rows"} => read[c].offset < Total(c)
  /\ at[c] \in {"idle", "lookup", "announce", "query", "open"} => got[c] = <<>>
  /\ at[c] = "open" => row[c] = FirstRow(read[c])
  /\ at[c] = "rows" /\ Intact(Stored(c)) => Progress(c)

RInv == ReadTypeOK /\ \A c \in Conns : ReaderInv(c)

LEMMA DivBounds ==
  ASSUME NEW o \in Nat
  PROVE  LET q == o \div ChunkSize IN
         q \in Nat /\ q * ChunkSize \in Nat /\ q * ChunkSize <= o /\ o < q * ChunkSize + ChunkSize
<1> DEFINE S == ChunkSize
           q == o \div S
           r == o % S
<1>1. S \in Nat /\ S > 0
  BY ConstantsAssumption
<1>2. q \in Nat /\ r \in Nat /\ o = S * q + r /\ r < S
  BY <1>1
<1> HIDE DEF q, r
<1>3. q * S = S * q /\ q * S \in Nat
  BY <1>1, <1>2
<1>4. QED
  BY <1>1, <1>2, <1>3 DEF q

LEMMA ReadFields ==
  ASSUME NEW r \in Reads
  PROVE  r.event \in Events /\ r.offset \in Nat /\ r.limit \in Nat
  BY ReadsAssumption

\* A page is no longer than what is left of the event.
LEMMA PageBounds ==
  ASSUME NEW t \in Nat, NEW o \in Nat, NEW l \in Nat
  PROVE  PageLength(t, o, l) \in Nat /\ (o < t => PageLength(t, o, l) <= t - o)
  BY DEF PageLength

\* The handler and ReadEventEvidence compute the same length.
LEMMA LengthsAgree ==
  ASSUME IInv, RInv, NEW c \in Conns, at[c] = "rows"
  PROVE  Remaining(c) = page[c]
<1>1. read[c].offset < Total(c) /\ page[c] = PageLength(Total(c), read[c].offset, read[c].limit)
  BY DEF RInv, ReaderInv
<1>2. read[c] \in Reads /\ Stored(c) # None /\ read[c].offset \in Nat /\ read[c].event \in Events
  BY ReadFields DEF RInv, ReaderInv
<1>3. Total(c) \in Nat
  BY <1>2, ConstantsAssumption DEF Stored, IInv, TypeOK, EventRow, Total
<1>4. QED
  BY <1>1, <1>2, <1>3 DEF Remaining, PageLength

LEMMA MultMonotone ==
  ASSUME NEW a \in Nat, NEW b \in Nat, NEW S \in Nat, a >= b
  PROVE  a * S >= b * S
<1>1. PICK d \in Nat : a = b + d
  <2>1. a - b \in Nat /\ a = b + (a - b)
    OBVIOUS
  <2>2. QED
    BY <2>1
<1>2. a * S = b * S + d * S /\ b * S \in Nat /\ d * S \in Nat
  BY <1>1
<1>3. QED
  BY <1>2

\* Consecutive offsets, continued.
LEMMA Continue ==
  ASSUME NEW s \in Seq(Nat), NEW o \in Nat, NEW len \in Nat,
         \A i \in 1..Len(s) : s[i] = o + i - 1
  PROVE  LET g == s \o [i \in 1..len |-> (o + Len(s)) + i - 1] IN
         Len(g) = Len(s) + len /\ \A i \in 1..Len(g) : g[i] = o + i - 1
<1> DEFINE m == Len(s)
           slice == [i \in 1..len |-> (o + m) + i - 1]
           g == s \o slice
<1>1. m \in Nat /\ slice \in Seq(Int) /\ Len(slice) = len /\ s \in Seq(Int)
  OBVIOUS
<1>2. \A i \in 1..len : slice[i] = (o + m) + i - 1
  OBVIOUS
<1> HIDE DEF slice
<1>3. Len(g) = m + len /\ \A i \in 1..(m + len) : g[i] = IF i <= m THEN s[i] ELSE slice[i - m]
  BY <1>1, ConcatProperties
<1>4. ASSUME NEW i \in 1..Len(g) PROVE g[i] = o + i - 1
  <2>1. g[i] = IF i <= m THEN s[i] ELSE slice[i - m]
    BY <1>3
  <2>2. i \in Int /\ (i <= m => i \in 1..m) /\ (i > m => i - m \in 1..len)
    BY <1>1, <1>3
  <2>3. QED
    BY <1>1, <1>2, <2>1, <2>2
<1>5. QED
  BY <1>3, <1>4 DEF slice

\* While bytes are left, the next row of intact evidence is there, is valid, and
\* continues the page without gap or overlap.
LEMMA NextRow ==
  ASSUME IInv, PlacedInv, RInv, NEW c \in Conns, at[c] = "rows",
         Intact(Stored(c)), Progress(c), Left(c) > 0
  PROVE  /\ ~RowRefused(c)
         /\ LET g == got[c] \o RowSlice(c) IN
            /\ (row[c] + 1) * ChunkSize > read[c].offset
            /\ Len(g) = Min2(page[c], (row[c] + 1) * ChunkSize - read[c].offset)
            /\ \A i \in 1..Len(g) : g[i] = read[c].offset + i - 1
<1> DEFINE S == ChunkSize
           o == read[c].offset
           t == Total(c)
           r == row[c]
           p == page[c]
           m == Len(got[c])
           ends == Stored(c).cuts
           x == r * S
           n == Len(ends)
<1>1. ReaderInv(c) /\ read[c] \in Reads /\ Stored(c) # None /\ read[c].event \in Events /\ o < t
  BY ReadFields DEF RInv, ReaderInv
<1>2. Stored(c) \in EventRow
  BY <1>1 DEF Stored, IInv, TypeOK
<1>3. /\ S \in Nat /\ S > 0 /\ o \in Nat /\ t \in Nat /\ ends \in Seq(Nat) /\ n \in Nat
      /\ r \in Nat /\ got[c] \in Seq(Nat) /\ m \in Nat
  BY <1>1, <1>2, ReadFields, ConstantsAssumption DEF EventRow, Total, RInv, ReadTypeOK
<1>4. p \in Nat /\ p <= t - o /\ m < p
  <2>1. p = PageLength(t, o, read[c].limit)
    BY <1>1 DEF ReaderInv
  <2>2. p \in Nat /\ p <= t - o
    <3>1. read[c].limit \in Nat
      BY <1>1, ReadFields
    <3>2. o \in Nat /\ t \in Nat /\ o < t
      BY <1>1, <1>3
    <3> HIDE DEF o, t, p
    <3>3. QED
      BY <2>1, <3>1, <3>2, PageBounds
  <2>3. p - m > 0
    BY LengthsAgree DEF Left
  <2>4. QED
    BY <1>3, <2>2, <2>3
<1>5. x \in Nat
  BY <1>3
<1>6. \/ m = 0 /\ x <= o /\ o < x + S
      \/ x > o /\ m = x - o
  <2>1. CASE r = FirstRow(read[c]) /\ got[c] = <<>>
    BY <1>3, <2>1, DivBounds DEF FirstRow
  <2>2. CASE r * S > o /\ m = Min2(p, r * S - o)
    BY <1>3, <1>4, <1>5, <2>2 DEF Min2
  <2>3. QED
    BY <2>1, <2>2 DEF Progress
<1>7. /\ \A i \in 1..n : validChunk(ChunkLen(ends, i), i - 1, t)
      /\ Consumed(ends) = t
  BY DEF Intact, storedEvidence, Total
<1>8. \A i \in 1..n : ends[i] = Min2(i * S, t)
  <2>1. Placed(ends, t)
    BY <1>1 DEF PlacedInv, Stored, Total
  <2>2. QED
    BY <1>7, <2>1 DEF Placed
<1> HIDE DEF x, o, t, p, m, r, ends, S
<1>9. r < n
  <2>1. n # 0
    BY <1>1, <1>3, <1>7 DEF Consumed
  <2>2. t = Min2(n * S, t) /\ n * S \in Nat
    BY <1>3, <1>7, <1>8, <2>1 DEF Consumed
  <2>3. x < n * S
    BY <1>1, <1>3, <1>4, <1>5, <1>6, <2>2 DEF Min2
  <2>4. SUFFICES ASSUME r >= n PROVE FALSE
    BY <1>3
  <2>5. r * S >= n * S
    BY <1>3, <2>4, MultMonotone
  <2>6. x >= n * S
    BY <2>5 DEF x
  <2> DEFINE y == n * S
  <2>7. y \in Nat /\ x < y /\ x >= y
    BY <2>2, <2>3, <2>6
  <2> HIDE DEF y
  <2>8. QED
    BY <1>5, <2>7
<1>10. r + 1 \in 1..n /\ (r + 1) - 1 = r
  BY <1>3, <1>9
<1>11. validChunk(ChunkLen(ends, r + 1), r, t)
  BY <1>7, <1>10
<1>12. ChunkLen(ends, r + 1) = Min2(t - x, S)
  BY <1>11 DEF validChunk, x, S
<1>13. r <= LastRow(c)
  <2>1. o + p \in Nat /\ x < o + p
    BY <1>3, <1>4, <1>5, <1>6
  <2>2. r <= ((o + p) - 1) \div ChunkSize
    BY <1>3, <2>1, IndexInRange DEF x, S
  <2>3. LastRow(c) = ((o + p) - 1) \div ChunkSize
    BY <1>3, <1>4, LengthsAgree DEF LastRow, o, p
  <2>4. QED
    BY <2>2, <2>3
<1>14. ~RowRefused(c)
  <2>1. LastRow(c) \in Int
    BY <1>3, <1>4, LengthsAgree DEF LastRow, o, p, S
  <2>2. QED
    BY <1>3, <1>9, <1>11, <1>13, <2>1 DEF RowRefused, r, ends, t
<1> DEFINE base == IF r = 0 THEN 0 ELSE ends[r]
           skip == SkipInRow(c)
           len == Min2(ChunkLen(ends, r + 1) - skip, p - m)
<1>15. base = x
  <2>1. CASE r = 0
    BY <1>3, <2>1 DEF x
  <2>2. CASE r # 0
    <3>1. r \in 1..n /\ x < t
      BY <1>1, <1>3, <1>4, <1>5, <1>6, <1>9, <2>2
    <3>2. QED
      BY <1>3, <1>5, <1>8, <2>2, <3>1 DEF Min2, x
  <2>3. QED
    BY <2>1, <2>2
<1>16. skip = IF o > x THEN o - x ELSE 0
  BY DEF SkipInRow, o, x, r, S
<1> HIDE DEF base, skip
<1>17. len \in Nat /\ m + len = Min2(p, (x + S) - o) /\ x + S > o /\ base + skip = o + m
  <2> DEFINE cl == ChunkLen(ends, r + 1)
  <2>1. cl = Min2(t - x, S) /\ len = Min2(cl - skip, p - m)
    BY <1>12
  <2> HIDE DEF cl, len
  <2>2. S \in Nat /\ o \in Nat /\ t \in Nat /\ x \in Nat /\ p \in Nat /\ m \in Nat /\ o < t
    BY <1>1, <1>3, <1>4, <1>5
  <2>3. CASE m = 0 /\ x <= o /\ o < x + S
    <3>1. skip = o - x
      BY <1>16, <2>2, <2>3
    <3>2. QED
      BY <1>4, <1>15, <2>1, <2>2, <2>3, <3>1 DEF Min2
  <2>4. CASE x > o /\ m = x - o
    <3>1. skip = 0
      BY <1>16, <2>2, <2>4
    <3>2. QED
      BY <1>3, <1>4, <1>15, <2>1, <2>2, <2>4, <3>1 DEF Min2
  <2>5. QED
    BY <1>6, <2>3, <2>4
<1> HIDE DEF len
<1>18. RowSlice(c) = [i \in 1..len |-> base + skip + i - 1]
  BY LengthsAgree DEF RowSlice, len, base, skip, ends, r, p, m, Left
<1>19. (r + 1) * S = x + S
  BY <1>3 DEF x
<1>20. RowSlice(c) = [i \in 1..len |-> (o + m) + i - 1]
  BY <1>17, <1>18
<1>21. \A i \in 1..m : got[c][i] = o + i - 1
  <2>1. CASE got[c] = <<>>
    BY <2>1 DEF m
  <2>2. CASE Prefix(c)
    BY <2>2 DEF Prefix, m, o
  <2>3. QED
    BY <2>1, <2>2 DEF Progress
<1>22. LET g == got[c] \o RowSlice(c) IN
       Len(g) = m + len /\ \A i \in 1..Len(g) : g[i] = o + i - 1
  BY <1>3, <1>17, <1>20, <1>21, Continue DEF m
<1>23. QED
  BY <1>14, <1>17, <1>19, <1>22 DEF o, p, r, S

-----------------------------------------------------------------------------
(* Every step keeps the readers' invariant. *)

\* Whoever does not move keeps its place: committed evidence does not change under it.
LEMMA KeepReader ==
  ASSUME ReadTypeOK, NEW c \in Conns, ReaderInv(c),
         \A e \in Events : events[e] # None => events'[e] = events[e],
         at'[c] = at[c], read'[c] = read[c], page'[c] = page[c], row'[c] = row[c], got'[c] = got[c]
  PROVE  ReaderInv(c)'
<1>1. CASE at[c] \in {"announce", "query", "open", "rows"}
  <2>1. read[c] \in Reads /\ Stored(c) # None
    BY <1>1 DEF ReaderInv
  <2>2. Stored(c)' = Stored(c)
    BY <2>1, ReadFields DEF Stored
  <2>3. Total(c)' = Total(c) /\ Intact(Stored(c))' = Intact(Stored(c))
    BY <2>2 DEF Total, Intact
  <2>4. Progress(c)' = Progress(c)
    BY DEF Progress, Prefix, FirstRow
  <2>5. QED
    BY <2>2, <2>3, <2>4 DEF ReaderInv, FirstRow
<1>2. CASE at[c] \notin {"announce", "query", "open", "rows"}
  BY <1>2 DEF ReaderInv
<1>3. QED
  BY <1>1, <1>2

\* A handler that returns or is not in a read holds nothing.
LEMMA IdleReader ==
  ASSUME NEW c \in Conns, at'[c] = "idle", got'[c] = <<>>
  PROVE  ReaderInv(c)'
  BY DEF ReaderInv

\* One reader moves: types, its own place, and that of the others.
LEMMA OneReader ==
  ASSUME IInv, RInv, UNCHANGED vars, NEW c \in Conns, ReadTypeOK', ReaderInv(c)',
         \A d \in Conns : d # c =>
           /\ at'[d] = at[d] /\ read'[d] = read[d] /\ page'[d] = page[d]
           /\ row'[d] = row[d] /\ got'[d] = got[d]
  PROVE  RInv'
<1>1. ASSUME NEW d \in Conns, d # c PROVE ReaderInv(d)'
  BY <1>1, KeepReader DEF RInv, vars
<1>2. QED
  BY <1>1 DEF RInv

LEMMA ReturnStep ==
  ASSUME IInv, RInv, UNCHANGED vars, NEW c \in Conns, Return(c)
  PROVE  RInv'
<1>1. ReadTypeOK'
  BY NoChunks DEF RInv, ReadTypeOK, Return, Move, Places
<1>2. ReaderInv(c)'
  BY IdleReader DEF RInv, ReadTypeOK, Return, Move
<1>3. QED
  BY <1>1, <1>2, OneReader DEF RInv, ReadTypeOK, Return, Move

LEMMA ReceiveReadStep ==
  ASSUME IInv, RInv, UNCHANGED vars, NEW c \in Conns, ReceiveRead(c)
  PROVE  RInv'
<1>1. ReadTypeOK'
  BY DEF RInv, ReadTypeOK, ReceiveRead, Move, Places
<1>2. ReaderInv(c)'
  BY DEF RInv, ReadTypeOK, ReaderInv, ReceiveRead, Move
<1>3. QED
  BY <1>1, <1>2, OneReader DEF RInv, ReadTypeOK, ReceiveRead, Move

LEMMA LookupStep ==
  ASSUME IInv, RInv, UNCHANGED vars, NEW c \in Conns, Lookup(c)
  PROVE  RInv'
<1> DEFINE length == PageLength(Total(c), read[c].offset, read[c].limit)
<1>1. read[c] \in Reads /\ got[c] = <<>>
  BY DEF RInv, ReaderInv, Lookup
<1>2. CASE Stored(c) # None /\ page' = [page EXCEPT ![c] = length] /\ Move(c, "announce")
  <2>1. length \in Nat
    <3>1. Stored(c) \in EventRow
      BY <1>1, <1>2, ReadFields DEF Stored, IInv, TypeOK
    <3>2. Total(c) \in Nat
      BY <3>1, ConstantsAssumption DEF Total, EventRow
    <3>3. QED
      BY <1>1, <3>2, ReadFields, PageBounds
  <2> HIDE DEF length
  <2>2. ReadTypeOK'
    BY <1>2, <2>1 DEF RInv, ReadTypeOK, Lookup, Move, Places
  <2>3. at'[c] = "announce" /\ page'[c] = length /\ UNCHANGED <<read, got, events>>
    BY <1>2 DEF RInv, ReadTypeOK, Lookup, Move, vars
  <2>4. Stored(c)' = Stored(c) /\ Total(c)' = Total(c)
    BY <2>3 DEF Stored, Total
  <2>5. ReaderInv(c)'
    BY <1>1, <1>2, <2>3, <2>4 DEF ReaderInv, length
  <2>6. QED
    BY <1>2, <2>2, <2>5, OneReader DEF RInv, ReadTypeOK, Lookup, Move
<1>3. CASE Move(c, "answer") /\ UNCHANGED page
  <2>1. ReadTypeOK'
    BY <1>3 DEF RInv, ReadTypeOK, Lookup, Move, Places
  <2>2. ReaderInv(c)'
    BY <1>1, <1>3 DEF RInv, ReadTypeOK, ReaderInv, Lookup, Move
  <2>3. QED
    BY <1>3, <2>1, <2>2, OneReader DEF RInv, ReadTypeOK, Lookup, Move
<1>4. QED
  BY <1>2, <1>3 DEF Lookup

\* A reader goes on to its next place with its page as it is.
LEMMA AdvanceStep ==
  ASSUME IInv, RInv, UNCHANGED vars, NEW c \in Conns, UNCHANGED <<read, page, got>>,
         \/ at[c] = "announce" /\ Move(c, "query") /\ UNCHANGED row
         \/ /\ at[c] = "query" /\ Move(c, "open") /\ read[c].offset < Total(c)
            /\ row' = [row EXCEPT ![c] = FirstRow(read[c])]
         \/ at[c] = "open" /\ Move(c, "rows") /\ UNCHANGED row
  PROVE  RInv'
<1>1. read[c] \in Reads /\ got[c] = <<>> /\ FirstRow(read[c]) \in Nat
  BY ReadFields, DivBounds DEF RInv, ReaderInv, FirstRow
<1>2. ReadTypeOK'
  BY <1>1 DEF RInv, ReadTypeOK, Move, Places
<1>3. Stored(c)' = Stored(c) /\ Total(c)' = Total(c)
  BY DEF Stored, Total, vars
<1>4. ReaderInv(c)'
  BY <1>1, <1>3 DEF RInv, ReadTypeOK, ReaderInv, Progress, FirstRow, Move
<1>5. QED
  BY <1>2, <1>4, OneReader DEF RInv, ReadTypeOK, Move

LEMMA SliceType ==
  ASSUME IInv, RInv, NEW c \in Conns, at[c] = "rows", ~RowRefused(c)
  PROVE  RowSlice(c) \in Seq(Nat)
<1> DEFINE ends == Stored(c).cuts
           base == IF row[c] = 0 THEN 0 ELSE ends[row[c]]
           skip == SkipInRow(c)
           len == Min2(ChunkLen(ends, row[c] + 1) - skip, Left(c))
           k == IF len >= 0 THEN len ELSE 0
<1>1. read[c] \in Reads /\ Stored(c) # None /\ read[c].offset \in Nat /\ read[c].event \in Events
  BY ReadFields DEF RInv, ReaderInv
<1>2. ends \in Seq(Nat)
  BY <1>1 DEF Stored, IInv, TypeOK, EventRow
<1>3. row[c] \in Nat /\ row[c] + 1 \in 1..Len(ends) /\ page[c] \in Nat /\ Len(got[c]) \in Nat
  BY <1>2 DEF RowRefused, RInv, ReadTypeOK
<1>4. base \in Nat
  BY <1>2, <1>3, SMTT(30)
<1>5. skip \in Nat
  <2>1. row[c] * ChunkSize \in Nat
    BY <1>3, ConstantsAssumption
  <2>2. QED
    BY <1>1, <2>1 DEF SkipInRow
<1>6. ChunkLen(ends, row[c] + 1) \in Int
  <2>1. ends[row[c] + 1] \in Nat
    BY <1>2, <1>3
  <2>2. CASE row[c] = 0
    BY <2>1, <2>2 DEF ChunkLen
  <2>3. CASE row[c] # 0
    <3>1. ends[(row[c] + 1) - 1] \in Nat
      BY <1>2, <1>3, <2>3, SMTT(30)
    <3>2. QED
      BY <2>1, <3>1 DEF ChunkLen
  <2>4. QED
    BY <2>2, <2>3
<1> HIDE DEF base, skip
<1>7. len \in Int /\ k \in Nat
  BY <1>3, <1>5, <1>6, LengthsAgree, SMTT(30) DEF Min2, Left
<1>8. RowSlice(c) = [i \in 1..len |-> base + skip + i - 1]
  BY DEF RowSlice, base, skip
<1> HIDE DEF len
<1>9. 1..len = 1..k
  BY <1>7
<1>10. \A i \in 1..k : base + skip + i - 1 \in Nat
  BY <1>4, <1>5, <1>7
<1> HIDE DEF k
<1>11. [i \in 1..k |-> base + skip + i - 1] \in Seq(Nat)
  BY <1>7, <1>10
<1>12. QED
  BY <1>8, <1>9, <1>11

LEMMA SendRowStep ==
  ASSUME IInv, PlacedInv, RInv, UNCHANGED vars, NEW c \in Conns, SendRow(c)
  PROVE  RInv'
<1> DEFINE g == got[c] \o RowSlice(c)
<1>1. at[c] = "rows" /\ at'[c] = "rows" /\ Left(c) > 0 /\ UNCHANGED <<at, read, page>>
  BY DEF SendRow
<1>2. ReaderInv(c) /\ read[c] \in Reads /\ got[c] \in Seq(Nat) /\ row[c] \in Nat
  BY <1>1 DEF RInv, ReaderInv, ReadTypeOK
<1>3. got' = [got EXCEPT ![c] = g] /\ row' = [row EXCEPT ![c] = row[c] + 1]
  BY DEF SendRow
<1> HIDE DEF g
<1>4. g \in Seq(Nat)
  BY <1>1, <1>2, SliceType, ConcatProperties DEF g, SendRow
<1>5. ReadTypeOK'
  BY <1>1, <1>2, <1>3, <1>4 DEF RInv, ReadTypeOK
<1>6. got'[c] = g /\ row'[c] = row[c] + 1
  BY <1>3 DEF RInv, ReadTypeOK
<1>7. Stored(c)' = Stored(c) /\ Total(c)' = Total(c) /\ Intact(Stored(c))' = Intact(Stored(c))
  BY <1>1 DEF Stored, Total, Intact, vars
<1>8. ASSUME Intact(Stored(c)) PROVE Progress(c)'
  <2>1. Progress(c)
    BY <1>1, <1>2, <1>8 DEF ReaderInv
  <2>2. /\ (row[c] + 1) * ChunkSize > read[c].offset
        /\ Len(g) = Min2(page[c], (row[c] + 1) * ChunkSize - read[c].offset)
        /\ \A i \in 1..Len(g) : g[i] = read[c].offset + i - 1
    BY <1>1, <1>8, <2>1, NextRow DEF g
  <2>3. Len(g) <= page[c]
    <3>1. page[c] \in Nat /\ (row[c] + 1) * ChunkSize \in Nat /\ read[c].offset \in Nat
      BY <1>2, ReadFields, ConstantsAssumption DEF RInv, ReadTypeOK
    <3>2. QED
      BY <2>2, <3>1 DEF Min2
  <2>4. Prefix(c)'
    BY <1>1, <1>6, <2>2, <2>3 DEF Prefix
  <2>5. QED
    BY <1>1, <1>6, <2>2, <2>4 DEF Progress
<1>9. ReaderInv(c)'
  BY <1>1, <1>2, <1>7, <1>8 DEF ReaderInv
<1>10. QED
  BY <1>1, <1>3, <1>5, <1>9, OneReader DEF RInv, ReadTypeOK

LEMMA InitReaders == ReadInit => PlacedInv /\ RInv
<1> SUFFICES ASSUME ReadInit PROVE PlacedInv /\ RInv
  OBVIOUS
<1>1. ReadTypeOK
  BY NoChunks DEF ReadInit, ReadTypeOK, Places
<1>2. \A c \in Conns : ReaderInv(c)
  BY DEF ReadInit, ReaderInv
<1>3. QED
  BY <1>1, <1>2, InitPlaced DEF RInv, ReadInit

LEMMA StepReaders ==
  IInv /\ PlacedInv /\ RInv /\ [ReadNext]_allVars => PlacedInv' /\ RInv'
<1> SUFFICES ASSUME IInv, PlacedInv, RInv, [ReadNext]_allVars PROVE PlacedInv' /\ RInv'
  OBVIOUS
<1>1. [Next]_vars
  BY ReadStepIsStep
<1>2. PlacedInv'
  BY <1>1, StepPlaced
<1>3. ASSUME UNCHANGED readVars PROVE RInv'
  <2>1. ReadTypeOK'
    BY <1>3 DEF readVars, RInv, ReadTypeOK
  <2>2. \A e \in Events : events[e] # None => events'[e] = events[e]
    BY <1>1, EventsStep
  <2>3. \A c \in Conns : ReaderInv(c)'
    BY <1>3, <2>2, KeepReader DEF readVars, RInv
  <2>4. QED
    BY <2>1, <2>3 DEF RInv
<1>4. ASSUME ReadCrash PROVE RInv'
  <2>1. ReadTypeOK'
    BY <1>4, NoChunks DEF ReadCrash, ReadTypeOK, Places
  <2>2. \A c \in Conns : ReaderInv(c)'
    BY <1>4, IdleReader DEF ReadCrash
  <2>3. QED
    BY <2>1, <2>2 DEF RInv
<1>5. ASSUME NEW c \in Conns, UNCHANGED vars, ReadNetworkStep(c) PROVE RInv'
  <2>1. ASSUME ~Return(c) PROVE SendRow(c) \/ (Announce(c) /\ Move(c, "query") /\ UNCHANGED <<read, page, row, got>>)
    BY <1>5, <2>1 DEF ReadNetworkStep, Reply, Announce, CloseRows
  <2>2. QED
    BY <1>5, <2>1, ReturnStep, SendRowStep, AdvanceStep DEF Announce
<1>6. ASSUME NEW c \in Conns, UNCHANGED vars, ReadDatabaseStep(c) PROVE RInv'
  <2>1. CASE Lookup(c)
    BY <1>6, <2>1, LookupStep
  <2>2. CASE QueryMetadata(c)
    BY <1>6, <2>2, ReturnStep, AdvanceStep DEF QueryMetadata
  <2>3. CASE OpenRows(c)
    BY <1>6, <2>3, ReturnStep, AdvanceStep DEF OpenRows
  <2>4. QED
    BY <1>6, <2>1, <2>2, <2>3 DEF ReadDatabaseStep
<1>7. ASSUME NEW c \in Conns, ReceiveRead(c) /\ UNCHANGED vars PROVE RInv'
  BY <1>7, ReceiveReadStep
<1>8. RInv'
  <2>1. CASE Lifecycle \/ CloseDone \/ UNCHANGED allVars
    BY <1>3, <2>1 DEF Lifecycle, CloseDone, allVars
  <2>2. ASSUME NEW c \in Conns, Capturing(c) \/ CaptureOn(c) \/ CaptureDb(c) PROVE RInv'
    BY <1>3, <2>2 DEF Capturing, CaptureOn, CaptureDb
  <2>3. QED
    BY <1>4, <1>5, <1>6, <1>7, <2>1, <2>2 DEF ReadNext, ReadOn, ReadDb
<1>9. QED
  BY <1>2, <1>8

\* Readers stay well formed and where their requests put them, whatever captures,
\* crashes and restarts do beside them.
THEOREM ReaderInvariant == ReadSpec => [](IInv /\ PlacedInv /\ RInv)
<1>1. ReadSpec => []IInv
  BY ReadersDoNotDisturb, DaemonInvariant, PTL
<1>2. QED
  BY <1>1, InitReaders, StepReaders, PTL DEF ReadSpec

\* What the invariant says of a page of intact evidence.
LEMMA IntactPage ==
  ASSUME IInv, PlacedInv, RInv, NEW c \in Conns, at[c] = "rows", Intact(Stored(c))
  PROVE  /\ page[c] = Len(got[c]) + Left(c)
         /\ Prefix(c)
         /\ Left(c) > 0 => ~RowRefused(c)
<1>1. Progress(c)
  BY DEF RInv, ReaderInv
<1>l. page[c] = Len(got[c]) + Left(c)
  <2>1. page[c] \in Nat /\ Len(got[c]) \in Nat
    BY DEF RInv, ReadTypeOK
  <2>2. QED
    BY <2>1, LengthsAgree DEF Left
<1>2. Prefix(c)
  <2>1. CASE got[c] = <<>>
    BY <2>1 DEF Prefix, RInv, ReadTypeOK
  <2>2. QED
    BY <1>1, <2>1 DEF Progress
<1>3. QED
  BY <1>1, <1>l, <1>2, NextRow

\* Whatever page of acknowledged evidence a client asks for, at whatever offset and
\* with whatever chunk size, every byte it receives is the one asked for, the header
\* announces as many as are sent, and no row check refuses it before the page is complete.
THEOREM AcknowledgedReadsExact == ReadSpec => []AckedReadsExact
<1>1. IInv /\ PlacedInv /\ RInv => AckedReadsExact
  <2>1. SUFFICES ASSUME IInv, PlacedInv, RInv, NEW c \in Conns, at[c] = "rows",
                        NEW r \in acked, r.event = read[c].event
                 PROVE  /\ page[c] = Len(got[c]) + Left(c)
                        /\ Prefix(c)
                        /\ Left(c) > 0 => ~RowRefused(c)
    BY DEF AckedReadsExact
  <2>2. Intact(Stored(c))
    BY <2>1 DEF IInv, AckedIsStored, Stored
  <2>3. QED
    BY <2>1, <2>2, IntactPage
<1>2. QED
  BY <1>1, ReaderInvariant, PTL

\* If no Read at capture time was short, every page of every event is exact; TLC refutes
\* this without the hypothesis.
THEOREM FullReadsKeepPagesExact ==
  ASSUME ShortReads = FALSE
  PROVE  ReadSpec => []ReadsExact
<1>1. ReadSpec => []EvidenceReadable
  BY ReadersDoNotDisturb, FullReadsKeepEvidenceReadable, PTL
<1>2. IInv /\ PlacedInv /\ RInv /\ EvidenceReadable => ReadsExact
  <2>1. SUFFICES ASSUME IInv, PlacedInv, RInv, EvidenceReadable, NEW c \in Conns, at[c] = "rows"
                 PROVE  Prefix(c)
    BY DEF ReadsExact
  <2>2. Intact(Stored(c))
    BY <2>1, ReadFields DEF RInv, ReaderInv, EvidenceReadable, Stored
  <2>3. QED
    BY <2>1, <2>2, IntactPage
<1>3. QED
  BY <1>1, <1>2, ReaderInvariant, PTL
=============================================================================
