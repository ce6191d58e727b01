-------------------------- MODULE ConcurrentQueue --------------------------
(***************************************************************************)
(* NBRaft/concurrentqueue.h: the linked queue with a head mutex, a tail    *)
(* mutex and one condition variable on which every thread pool of the      *)
(* repository and the asynchronous logger are built.                       *)
(*                                                                         *)
(* Granularity.  What runs under the tail mutex alone (get_tail, the block *)
(* in push) is one step: nobody else can see the fields it touches.  What  *)
(* runs under the head mutex is split wherever another thread may act in   *)
(* between: the mutex is held from the predicate of the wait to the end of *)
(* pop_head, or until the wait blocks.  push and Exit notify with neither  *)
(* mutex held, in a step of their own.                                     *)
(*                                                                         *)
(* Nodes are numbered in the order they are linked in, and never reused;   *)
(* the element of the k-th push is the number k.                           *)
(***************************************************************************)
EXTENDS Integers, FiniteSets

CONSTANTS Threads,   \* the threads that call the queue
          Ops,       \* Ops[t]: the operations thread t calls, in any order
          MaxPush,   \* bound: how many elements are pushed
          Nil        \* no thread

OpNames == {"push", "pop", "timed", "try", "steal", "exit"}

ASSUME QueueAssumption ==
    /\ MaxPush \in Nat
    /\ Nil \notin Threads
    /\ Ops \in [Threads -> SUBSET OpNames]

Nodes   == 0..MaxPush
NullPtr == -1          \* nullptr, for next and prev
NoData  == 0           \* a node whose data is null or moved from
Elems   == 1..MaxPush

VARIABLES
    live,      \* the nodes owned by the chain of unique_ptrs from m_head
    head,      \* m_head
    tail,      \* m_tail
    data,      \* node::data
    next,      \* node::next
    prev,      \* node::prev
    count,     \* m_count
    bstop,     \* m_bstop
    headMutex, \* who holds m_head_mutex
    pc,        \* where each thread is in its operation
    op,        \* which of the two waiting operations a thread is in
    pushes,    \* history: how many pushes have linked their node
    holder,    \* history: which thread each element was returned to
    missed,    \* history: how many notifications of a push came while a
               \* thread that was about to wait had not yet started to
    stranded   \* history: the threads of which this is true of Exit's

vars == <<live, head, tail, data, next, prev, count, bstop, headMutex, pc, op,
          pushes, holder, missed, stranded>>

chain == <<live, head, tail, data, next, prev>>

Asleep   == {t \in Threads : pc[t] = "asleep"}
Blocking == {t \in Threads : pc[t] = "block"}

-----------------------------------------------------------------------------
Init ==
    /\ live = {0}
    /\ head = 0
    /\ tail = 0
    /\ data = [n \in Nodes |-> NoData]
    /\ next = [n \in Nodes |-> NullPtr]
    /\ prev = [n \in Nodes |-> NullPtr]
    /\ count = 0
    /\ bstop = FALSE
    /\ headMutex = Nil
    /\ pc = [t \in Threads |-> "idle"]
    /\ op = [t \in Threads |-> "pop"]
    /\ pushes = 0
    /\ holder = [k \in Elems |-> Nil]
    /\ missed = 0
    /\ stranded = {}

(* The pieces of the operations, each after the mistake a run must notice. *)

LinkPrevToHead(p) == prev' = [prev EXCEPT ![p] = head]
LinkPrev(p)       == prev' = [prev EXCEPT ![p] = tail]

LinkNextForgotten(p) == next' = [next EXCEPT ![p] = NullPtr]
LinkNext(p)          == next' = [next EXCEPT ![tail] = p, ![p] = NullPtr]

CutNextForgotten(p) == UNCHANGED next
CutNext(p)          == next' = [next EXCEPT ![p] = NullPtr]

TailLockOnly == TRUE
BothLocks    == headMutex = Nil    \* the tail mutex is free between steps

(* Thread t leaves its operation and notifies one of the sleeping threads, *)
(* if there is one.                                                        *)
NotifyNobody(t) == pc' = [pc EXCEPT ![t] = "idle"] /\ UNCHANGED missed
NotifyOne(t) ==
    \/ /\ Asleep = {}
       /\ pc' = [pc EXCEPT ![t] = "idle"]
       /\ missed' = IF Blocking = {} THEN missed ELSE missed + 1
    \/ /\ \E w \in Asleep : pc' = [pc EXCEPT ![t] = "idle", ![w] = "woken"]
       /\ UNCHANGED missed

(* Thread t leaves its operation and notifies all the sleeping threads.    *)
NotifyOnlyOne(t) == NotifyOne(t) /\ stranded' = Blocking
NotifyAll(t) ==
    /\ pc' = [u \in Threads |-> IF u = t THEN "idle"
                                ELSE IF u \in Asleep THEN "woken" ELSE pc[u]]
    /\ stranded' = Blocking
    /\ UNCHANGED missed

-----------------------------------------------------------------------------
(* push: link the new dummy node behind the tail, under the tail mutex.    *)
PushLink(t) ==
    /\ "push" \in Ops[t]
    /\ pc[t] = "idle"
    /\ pushes < MaxPush
    /\ LET p == pushes + 1
       IN  /\ live' = live \cup {p}
           /\ data' = [data EXCEPT ![tail] = p]
           /\ LinkPrev(p)
           /\ LinkNext(p)
           /\ tail' = p
           /\ pushes' = p
    /\ pc' = [pc EXCEPT ![t] = "notify"]
    /\ UNCHANGED <<head, count, bstop, headMutex, op, holder, missed, stranded>>

(* push: the counter, then notify_one, with no mutex held.                 *)
PushNotify(t) ==
    /\ pc[t] = "notify"
    /\ count' = count + 1
    /\ NotifyOne(t)
    /\ UNCHANGED <<chain, bstop, headMutex, op, pushes, holder, stranded>>

(* wait_and_pop and wait_and_pop_timeout: lock the head mutex.             *)
WaitLock(t) ==
    /\ pc[t] = "idle"
    /\ headMutex = Nil
    /\ \E o \in Ops[t] \cap {"pop", "timed"} : op' = [op EXCEPT ![t] = o]
    /\ headMutex' = t
    /\ pc' = [pc EXCEPT ![t] = "check"]
    /\ UNCHANGED <<chain, count, bstop, pushes, holder, missed, stranded>>

Ready == head # tail \/ bstop      \* the predicate of both waits

(* The predicate is evaluated under the head mutex.  A false one leads to  *)
(* the wait; after the timeout wait_for evaluates it once more and gives   *)
(* up when it is still false.                                              *)
WaitCheck(t) ==
    /\ pc[t] \in {"check", "lastcheck"}
    /\ \/ /\ Ready
          /\ pc' = [pc EXCEPT ![t] = "take"]
          /\ UNCHANGED headMutex
       \/ /\ ~Ready
          /\ pc[t] = "check"
          /\ pc' = [pc EXCEPT ![t] = "block"]
          /\ UNCHANGED headMutex
       \/ /\ ~Ready
          /\ pc[t] = "lastcheck"
          /\ pc' = [pc EXCEPT ![t] = "idle"]
          /\ headMutex' = Nil
    /\ UNCHANGED <<chain, count, bstop, op, pushes, holder, missed, stranded>>

(* The wait releases the mutex and starts to wait, atomically.             *)
WaitBlock(t) ==
    /\ pc[t] = "block"
    /\ pc' = [pc EXCEPT ![t] = "asleep"]
    /\ headMutex' = Nil
    /\ UNCHANGED <<chain, count, bstop, op, pushes, holder, missed, stranded>>

(* A condition variable may wake a waiter nobody notified.                 *)
SpuriousWake(t) ==
    /\ pc[t] = "asleep"
    /\ pc' = [pc EXCEPT ![t] = "woken"]
    /\ UNCHANGED <<chain, count, bstop, headMutex, op, pushes, holder, missed, stranded>>

(* wait_for: the 100 milliseconds are over.                                *)
WaitTimeout(t) ==
    /\ pc[t] = "asleep"
    /\ op[t] = "timed"
    /\ pc' = [pc EXCEPT ![t] = "expired"]
    /\ UNCHANGED <<chain, count, bstop, headMutex, op, pushes, holder, missed, stranded>>

WaitReacquire(t) ==
    /\ headMutex = Nil
    /\ \/ pc[t] = "woken"   /\ pc' = [pc EXCEPT ![t] = "check"]
       \/ pc[t] = "expired" /\ pc' = [pc EXCEPT ![t] = "lastcheck"]
    /\ headMutex' = t
    /\ UNCHANGED <<chain, count, bstop, op, pushes, holder, missed, stranded>>

(* After the wait m_bstop is read again: a stopped queue returns nothing,  *)
(* whatever it still holds.                                                *)
WaitStopped(t) ==
    /\ pc[t] = "take"
    /\ \/ /\ bstop
          /\ pc' = [pc EXCEPT ![t] = "idle"]
          /\ headMutex' = Nil
       \/ /\ ~bstop
          /\ pc' = [pc EXCEPT ![t] = "pop"]
          /\ UNCHANGED headMutex
    /\ UNCHANGED <<chain, count, bstop, op, pushes, holder, missed, stranded>>

(* pop_head: the head moves on, the old head and its data go to thread t.  *)
UnlinkHead(t) ==
    /\ holder' = [holder EXCEPT ![data[head]] = t]
    /\ head' = next[head]
    /\ live' = live \ {head}
    /\ count' = count - 1
    /\ UNCHANGED <<tail, data, next, prev>>

WaitPop(t) ==
    /\ pc[t] = "pop"
    /\ UnlinkHead(t)
    /\ pc' = [pc EXCEPT ![t] = "idle"]
    /\ headMutex' = Nil
    /\ UNCHANGED <<bstop, op, pushes, missed, stranded>>

(* try_pop finds an element: lock, test and pop_head.  (When it finds none *)
(* nothing changes.)                                                       *)
TryPop(t) ==
    /\ "try" \in Ops[t]
    /\ pc[t] = "idle"
    /\ headMutex = Nil
    /\ head # tail
    /\ UnlinkHead(t)
    /\ UNCHANGED <<bstop, headMutex, pc, op, pushes, missed, stranded>>

(* try_steal finds an element: with both mutexes, move the data out of the *)
(* node before the tail and make that node the dummy.                      *)
TrySteal(t) ==
    /\ "steal" \in Ops[t]
    /\ pc[t] = "idle"
    /\ BothLocks
    /\ head # tail
    /\ LET p == prev[tail]
       IN  /\ holder' = [holder EXCEPT ![data[p]] = t]
           /\ data' = [data EXCEPT ![p] = NoData]
           /\ tail' = p
           /\ CutNext(p)
    /\ live' = live \ {tail}
    /\ count' = count - 1
    /\ UNCHANGED <<head, prev, bstop, headMutex, pc, op, pushes, missed, stranded>>

(* Exit (and the destructor): store the flag, then notify_all, with no     *)
(* mutex held.  Bound: it is called once.                                  *)
ExitStore(t) ==
    /\ "exit" \in Ops[t]
    /\ pc[t] = "idle"
    /\ ~bstop
    /\ bstop' = TRUE
    /\ pc' = [pc EXCEPT ![t] = "notifyall"]
    /\ UNCHANGED <<chain, count, headMutex, op, pushes, holder, missed, stranded>>

ExitNotify(t) ==
    /\ pc[t] = "notifyall"
    /\ NotifyAll(t)
    /\ UNCHANGED <<chain, count, bstop, headMutex, op, pushes, holder>>

-----------------------------------------------------------------------------
Next ==
    \E t \in Threads :
        \/ PushLink(t) \/ PushNotify(t)
        \/ WaitLock(t) \/ WaitCheck(t) \/ WaitBlock(t)
        \/ SpuriousWake(t) \/ WaitTimeout(t) \/ WaitReacquire(t)
        \/ WaitStopped(t) \/ WaitPop(t)
        \/ TryPop(t) \/ TrySteal(t)
        \/ ExitStore(t) \/ ExitNotify(t)

Spec == Init /\ [][Next]_vars

(***************************************************************************)
(* Fairness: a thread that is inside an operation keeps running, a timed   *)
(* wait expires, consumers call again (the worker loops of the pools), and *)
(* a thread that keeps finding the head mutex free gets it in the end.     *)
(* Nothing is assumed of spurious wake-ups, try_pop, try_steal or Exit.    *)
(***************************************************************************)
Progress(t) ==
    PushNotify(t) \/ WaitCheck(t) \/ WaitBlock(t) \/ WaitTimeout(t)
        \/ WaitStopped(t) \/ WaitPop(t) \/ ExitNotify(t)

Acquire(t) == WaitLock(t) \/ WaitReacquire(t)

FairSpec ==
    Spec /\ \A t \in Threads : WF_vars(Progress(t)) /\ SF_vars(Acquire(t))

-----------------------------------------------------------------------------
PcNames == {"idle", "notify", "check", "lastcheck", "block", "asleep",
            "woken", "expired", "take", "pop", "notifyall"}

(* The head mutex is held exactly in these places.                         *)
HoldsHead == {"check", "lastcheck", "block", "take", "pop"}

(* Type invariant: the variables stay in their types.                      *)
TypeOK ==
    /\ live \in SUBSET Nodes
    /\ head \in Nodes /\ tail \in Nodes
    /\ data \in [Nodes -> {NoData} \cup Elems]
    /\ next \in [Nodes -> {NullPtr} \cup Nodes]
    /\ prev \in [Nodes -> {NullPtr} \cup Nodes]
    /\ count \in Int
    /\ bstop \in BOOLEAN
    /\ headMutex \in Threads \cup {Nil}
    /\ pc \in [Threads -> PcNames]
    /\ op \in [Threads -> {"pop", "timed"}]
    /\ pushes \in Nat /\ pushes <= MaxPush
    /\ holder \in [Elems -> Threads \cup {Nil}]
    /\ missed \in Nat
    /\ stranded \in SUBSET Threads

(* The chain the two mutexes share is well formed in every state: from the *)
(* head, next leads through all the nodes the queue owns to the tail, prev *)
(* leads back, and every node but the dummy holds an element pushed before *)
(* that of its successor.  pop_head follows next, try_steal follows prev.  *)
ChainInv ==
    /\ head \in live
    /\ tail \in live
    /\ next[tail] = NullPtr
    /\ \A n \in live : head <= n /\ n <= tail /\ n <= pushes
    /\ \A n \in live \ {tail} :
         /\ next[n] \in live
         /\ n < next[n]
         /\ prev[next[n]] = n
         /\ data[n] \in 1..pushes
         /\ \A m \in live : m <= n \/ next[n] <= m
         /\ \A m \in live \ {tail} : n < m => data[n] < data[m]
    /\ \A n \in live \ {head} :
         /\ prev[n] \in live \ {tail}
         /\ next[prev[n]] = n

(* Whoever is past the predicate of its wait still finds an element, or a  *)
(* stopped queue: nobody can empty the queue under the head mutex it holds.*)
TakeInv ==
    \A t \in Threads :
        /\ pc[t] \in HoldsHead <=> headMutex = t
        /\ pc[t] = "pop" => head # tail
        /\ pc[t] = "take" => Ready

(* The elements in the queue: those of all the nodes but the dummy.        *)
Items == {data[n] : n \in live \ {tail}}

(* No element is in somebody's hands and also in the queue or not yet      *)
(* pushed.                                                                 *)
HolderInv == \A k \in Elems : k > pushes \/ k \in Items => holder[k] = Nil

(* While consumers sleep, the elements in the queue never outnumber the    *)
(* notifications still to come, the consumers already awake and the        *)
(* notifications lost to a thread that had not started to wait.  So nobody *)
(* sleeps next to an element that no one is going to take unless push lost *)
(* its notification, and each one it loses leaves at most one behind.      *)
WakeupsCoverItems ==
    Asleep # {} /\ ~bstop =>
        Cardinality(Items) <= missed + Cardinality({t \in Threads : pc[t] \in
            {"notify", "woken", "expired", "check", "lastcheck", "take", "pop"}})

(* The queue is a Deque: no element is lost, handed out twice or invented, *)
(* pops are first-in first-out, only try_steal takes the newest.           *)
D == INSTANCE Deque WITH
        Stealers <- {t \in Threads : "steal" \in Ops[t]},
        items <- Items, pushed <- pushes
ImplementsDeque == D!Spec

(* Of the elements pushed, all are taken but as many as notifications met  *)
(* a thread between its predicate and its wait, unless the queue is        *)
(* stopped: then what it still holds is given to nobody.                   *)
Delivered ==
    \A k \in Elems :
        (pushes >= k) ~> (bstop \/ Cardinality({j \in 1..k : holder[j] = Nil}) <= missed)

(* Exit sets every waiting thread free but one that its own notification   *)
(* met between its predicate and its wait.                                 *)
StopReleases == bstop ~> (Asleep \subseteq stranded)
=============================================================================
