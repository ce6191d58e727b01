------------------------------- MODULE Deque -------------------------------
(***************************************************************************)
(* What a ConcurrentQueue<T> promises its users, without threads' steps,   *)
(* locks or nodes.                                                         *)
(*                                                                         *)
(* Elements are numbered by the order in which their push took effect, so  *)
(* the content of the queue is a set of numbers: the oldest element is the *)
(* least one and the newest is the greatest.  Every element is handed to   *)
(* exactly one thread; everybody takes the oldest, except that a thread    *)
(* that steals may take the newest.                                        *)
(***************************************************************************)
EXTENDS Integers

CONSTANTS Threads,   \* the threads that use the queue
          Stealers,  \* those of them that call try_steal
          MaxPush,   \* how many elements are ever pushed
          Nil        \* "nobody"

VARIABLES items,     \* the elements in the queue
          pushed,    \* how many elements have been pushed so far
          holder     \* who was handed each element

dequeVars == <<items, pushed, holder>>

Init ==
    /\ items = {}
    /\ pushed = 0
    /\ holder = [k \in 1..MaxPush |-> Nil]

Put ==
    /\ pushed < MaxPush
    /\ pushed' = pushed + 1
    /\ items' = items \cup {pushed + 1}
    /\ UNCHANGED holder

Take(t, k) ==
    /\ items' = items \ {k}
    /\ holder[k] = Nil
    /\ holder' = [holder EXCEPT ![k] = t]
    /\ UNCHANGED pushed

TakeOldest(t) ==
    \E k \in items : (\A j \in items : k <= j) /\ Take(t, k)

TakeNewest(t) ==
    \E k \in items : (\A j \in items : j <= k) /\ Take(t, k)

Next ==
    \/ Put
    \/ \E t \in Threads : TakeOldest(t)
    \/ \E t \in Stealers : TakeNewest(t)

Spec == Init /\ [][Next]_dequeVars
=============================================================================
