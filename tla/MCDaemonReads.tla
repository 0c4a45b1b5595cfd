--------------------------- MODULE MCDaemonReads ---------------------------
(* Instances of DaemonReads for TLC. *)
EXTENDS DaemonReads, TLC

CONSTANTS c1, c2, a1, e1, m1, p

\* A full chunk and a shorter one.
MCSize == p :> 3

MCRequests == {[attempt |-> a1, event |-> e1, meta |-> m1, payload |-> p]}

Read(op, offset, limit) == [op |-> op, event |-> e1, offset |-> offset, limit |-> limit]

\* The whole event, a page across the chunk boundary, the last chunk with a limit
\* past the end, an offset at the end, and the two operations of one statement.
MCReads == {
  Read("payload", 0, 0), Read("payload", 1, 2), Read("payload", 2, 9),
  Read("payload", 3, 1), Read("metadata", 0, 0), Read("search", 0, 0)}
=============================================================================
