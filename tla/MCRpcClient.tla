---------------------------- MODULE MCRpcClient ----------------------------
(* Instance of RpcClient for TLC. *)
EXTENDS RpcClient, TLC
CONSTANTS o1, o2
============================================================================
