-------------------------- MODULE MCDaemonInstances --------------------------
(* Instance of DaemonInstances for TLC. *)
EXTENDS DaemonInstances, TLC
CONSTANTS p1, p2
==============================================================================
