------------------------------ MODULE MCServer ------------------------------
(* A small instance of Server for TLC: the thread that calls start, and    *)
(* another that may call stop.                                             *)
EXTENDS Server

CONSTANTS starter, stopper
=============================================================================
