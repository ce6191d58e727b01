------------------------ MODULE MCSimpleThreadPool ------------------------
(* A small instance of SimpleThreadPool for TLC: three workers, one of     *)
(* which may be lost to a blocking task, and two submitters.               *)
EXTENDS SimpleThreadPool

CONSTANTS w1, w2, w3, s1, s2
=============================================================================
