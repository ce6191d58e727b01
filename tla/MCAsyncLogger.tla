--------------------------- MODULE MCAsyncLogger ---------------------------
(* A small instance of AsyncLogger for TLC.                                *)
EXTENDS AsyncLogger

CONSTANTS a1, s1, lt, ow
============================================================================
