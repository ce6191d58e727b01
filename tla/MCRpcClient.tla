---------------------------- MODULE MCRpcClient ----------------------------
(* A small instance of RpcClient for TLC: a thread that calls directly and *)
(* submits asynchronous calls, a worker, and ids that are reused.          *)
EXTENDS RpcClient

CONSTANTS u1, w1, ctl, i1, i2
=============================================================================
