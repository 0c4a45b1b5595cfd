------------------------- MODULE MCDaemonBootstrap -------------------------
(* Instance of DaemonBootstrap for TLC. *)
EXTENDS DaemonBootstrap, TLC
CONSTANTS h1, h2, s1, s2, s3

\* Two sessions in one Pi process and one in another.
MCHostOf == s1 :> h1 @@ s2 :> h1 @@ s3 :> h2
============================================================================
