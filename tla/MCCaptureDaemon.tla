-------------------------- MODULE MCCaptureDaemon --------------------------
(* Instances of CaptureDaemon for TLC. *)
EXTENDS CaptureDaemon, TLC

CONSTANTS c1, c2, a1, a2, e1, m1, m2, p, q, z

\* p and q have the same length, two chunks of it; z is the empty payload.
MCSize == p :> 3 @@ q :> 3 @@ z :> 0

Request(attempt, event, meta, payload) ==
  [attempt |-> attempt, event |-> event, meta |-> meta, payload |-> payload]

\* One event that two clients send: the same request twice (a retry), a duplicate
\* under another request_id, other bytes of the same length under the same
\* request_id, other metadata with the same bytes, and no bytes at all.
ContestedRequests == {
  Request(a2, e1, m2, z),
  Request(a1, e1, m1, p), Request(a2, e1, m1, p),
  Request(a1, e1, m1, q), Request(a2, e1, m2, p)}

\* Connections are interchangeable (used for safety runs only).
ConnSymmetry == Permutations(Conns)
=============================================================================
