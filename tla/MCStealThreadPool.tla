------------------------- MODULE MCStealThreadPool -------------------------
(* A small instance of StealThreadPool for TLC: two submitters.            *)
EXTENDS StealThreadPool

CONSTANTS s1, s2
=============================================================================
