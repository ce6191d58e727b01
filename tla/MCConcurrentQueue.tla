------------------------ MODULE MCConcurrentQueue ------------------------
(* Instances of ConcurrentQueue for TLC: which thread calls what.          *)
EXTENDS ConcurrentQueue, TLC

CONSTANTS p1, p2, c1, c2

(* Two producers, one of which also stops the queue; a consumer that waits *)
(* and polls, as the workers of the pools do, and one that waits with and  *)
(* without the timeout and steals.                                         *)
MixedOps == (p1 :> {"push"}) @@ (p2 :> {"push", "exit"})
            @@ (c1 :> {"pop", "try"}) @@ (c2 :> {"pop", "timed", "steal"})
============================================================================
