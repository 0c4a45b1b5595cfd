------------------------- MODULE MCServerLifecycle -------------------------
(* Instance of ServerLifecycle for TLC. *)
EXTENDS ServerLifecycle, TLC
CONSTANTS c1, c2, c3, k1, k2
=============================================================================
