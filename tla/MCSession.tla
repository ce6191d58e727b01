----------------------------- MODULE MCSession -----------------------------
(* Session with a message of each kind of length.                          *)
EXTENDS Session, TLC

CONSTANTS small, full, large, wraps

(* The smallest, the largest that fits, one more, and one whose length     *)
(* modulo 2^16 is small again.                                             *)
Lengths == (small :> 1) @@ (full :> 1024) @@ (large :> 1025) @@ (wraps :> 65546)
=============================================================================
