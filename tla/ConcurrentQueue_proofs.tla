----------------------- MODULE ConcurrentQueue_proofs -----------------------
(***************************************************************************)
(* ConcurrentQueue, for every set of threads, every assignment of          *)
(* operations to them and every number of pushes: the chain of nodes is    *)
(* well formed in every reachable state, and the queue implements Deque.   *)
(*                                                                         *)
(* Types and chain are proved together: that head' = next[head] is a node  *)
(* at all is a fact about the chain.                                       *)
(***************************************************************************)
EXTENDS ConcurrentQueue, FiniteSetTheorems, TLAPS

IInv == TypeOK /\ ChainInv /\ TakeInv /\ HolderInv

USE QueueAssumption DEF Nodes, Elems, NullPtr, NoData

-----------------------------------------------------------------------------
(* The first state: one dummy node, nobody in an operation.                *)
LEMMA InitIInv == Init => IInv
<1> SUFFICES ASSUME Init PROVE IInv
  OBVIOUS
<1>1. TypeOK
  <2>1. 0 \in Nodes /\ {0} \in SUBSET Nodes /\ 0 <= MaxPush
    OBVIOUS
  <2>2. /\ data \in [Nodes -> {NoData} \cup Elems]
        /\ next \in [Nodes -> {NullPtr} \cup Nodes]
        /\ prev \in [Nodes -> {NullPtr} \cup Nodes]
        /\ holder \in [Elems -> Threads \cup {Nil}]
    BY DEF Init
  <2>3. pc \in [Threads -> PcNames] /\ op \in [Threads -> {"pop", "timed"}]
    BY DEF Init, PcNames
  <2>4. bstop \in BOOLEAN /\ missed \in Nat /\ stranded \in SUBSET Threads /\ headMutex \in Threads \cup {Nil}
    BY DEF Init
  <2>5. /\ live \in SUBSET Nodes /\ head \in Nodes /\ tail \in Nodes
        /\ count \in Int /\ pushes \in Nat /\ pushes <= MaxPush
    <3>1. live = {0} /\ head = 0 /\ tail = 0 /\ count = 0 /\ pushes = 0
      BY DEF Init
    <3> QED
      BY <2>1, <3>1
  <2> QED
    BY <2>2, <2>3, <2>4, <2>5 DEF TypeOK
<1>2. ChainInv
  BY DEF Init, ChainInv
<1>3. TakeInv
  BY DEF Init, TakeInv, HoldsHead
<1>4. HolderInv
  BY DEF Init, HolderInv
<1> QED
  BY <1>1, <1>2, <1>3, <1>4 DEF IInv

(* A thread in one of the places where the head mutex is held holds it, so *)
(* two threads are never there together, and none is while it is free.     *)
LEMMA Exclusive ==
  ASSUME IInv, NEW t \in Threads, NEW u \in Threads,
         pc[t] \in HoldsHead, pc[u] \in HoldsHead
  PROVE  t = u
  BY DEF IInv, TakeInv

-----------------------------------------------------------------------------
(* The two facts that make TrySteal right: the node before the tail is in  *)
(* the chain, and the tail is its successor.                               *)
LEMMA BeforeTail ==
  ASSUME IInv, head # tail
  PROVE  /\ prev[tail] \in live \ {tail}
         /\ next[prev[tail]] = tail
         /\ data[prev[tail]] \in 1..pushes
         /\ head <= prev[tail] /\ prev[tail] < tail
         /\ \A m \in live : m <= prev[tail] \/ m = tail
<1>1. tail \in live \ {head}
  BY DEF IInv, ChainInv
<1>2. prev[tail] \in live \ {tail} /\ next[prev[tail]] = tail
  BY <1>1 DEF IInv, ChainInv
<1>3. \A m \in live : m \in Int /\ m <= tail
  BY DEF IInv, ChainInv, TypeOK
<1> QED
  BY <1>2, <1>3 DEF IInv, ChainInv, TypeOK

(* The counterpart for pop_head.                                           *)
LEMMA AfterHead ==
  ASSUME IInv, head # tail
  PROVE  /\ head \in live \ {tail}
         /\ next[head] \in live \ {head}
         /\ prev[next[head]] = head
         /\ data[head] \in 1..pushes
         /\ \A m \in live : m = head \/ next[head] <= m
<1>1. head \in live \ {tail} /\ \A m \in live : m \in Int /\ head <= m
  BY DEF IInv, ChainInv, TypeOK
<1> QED
  BY <1>1 DEF IInv, ChainInv, TypeOK

-----------------------------------------------------------------------------
(* What each of the three operations that change the chain does to it.     *)
LEMMA PushLinkChain ==
  ASSUME IInv, NEW t \in Threads, PushLink(t)
  PROVE  /\ TypeOK' /\ ChainInv'
         /\ head' # tail'
         /\ Items' = Items \cup {pushes + 1}
<1> DEFINE p == pushes + 1
<1>0. /\ data' = [data EXCEPT ![tail] = p]
      /\ prev' = [prev EXCEPT ![p] = tail]
      /\ next' = [next EXCEPT ![tail] = p, ![p] = NullPtr]
  BY DEF PushLink, LinkPrev, LinkNext
<1>1. /\ live' = live \cup {p}
      /\ tail' = p /\ pushes' = p /\ head' = head
      /\ pushes \in Nat /\ p \in Nodes /\ p \in Elems
  BY DEF IInv, PushLink, TypeOK
<1>2. /\ live \subseteq 0..pushes /\ p \notin live
      /\ tail \in live /\ head \in live /\ live \subseteq Nodes
  BY <1>1 DEF IInv, TypeOK, ChainInv
<1>3. TypeOK'
  BY <1>0, <1>1, <1>2 DEF IInv, TypeOK, PushLink, PcNames
<1>4. \A n \in live \ {tail} : next'[n] = next[n] /\ data'[n] = data[n]
  BY <1>0, <1>1, <1>2 DEF IInv, TypeOK
<1>5. /\ next'[tail] = p /\ data'[tail] = p /\ prev'[p] = tail
      /\ next'[p] = NullPtr
      /\ \A n \in live : prev'[n] = prev[n]
  BY <1>0, <1>1, <1>2 DEF IInv, TypeOK
<1>6. live' \ {tail'} = live
  BY <1>1, <1>2
<1>7. \A n \in live' : head' <= n /\ n <= tail' /\ n <= pushes'
  BY <1>1, <1>2 DEF IInv, ChainInv
<1>8. ASSUME NEW n \in live
      PROVE  /\ next'[n] \in live'
             /\ n < next'[n]
             /\ prev'[next'[n]] = n
             /\ data'[n] \in 1..pushes'
             /\ \A m \in live' : m <= n \/ next'[n] <= m
             /\ \A m \in live : n < m => data'[n] < data'[m]
  <2>1. \A m \in live : m \in Nat /\ m <= tail /\ m <= pushes
    BY <1>1, <1>2 DEF IInv, ChainInv
  <2>2. CASE n = tail
    BY <1>1, <1>2, <1>5, <2>1, <2>2
  <2>3. CASE n # tail
    <3>1. /\ next[n] \in live /\ n < next[n] /\ prev[next[n]] = n
          /\ data[n] \in 1..pushes
          /\ \A m \in live : m <= n \/ next[n] <= m
          /\ \A m \in live \ {tail} : n < m => data[n] < data[m]
      BY <2>3 DEF IInv, ChainInv
    <3>2. next'[n] = next[n] /\ data'[n] = data[n] /\ prev'[next[n]] = n
      BY <1>4, <1>5, <2>3, <3>1
    <3>3. ASSUME NEW m \in live' PROVE m <= n \/ next'[n] <= m
      <4>1. next[n] \in Nat /\ next[n] <= pushes
        BY <2>1, <3>1
      <4>2. CASE m = p
        BY <1>1, <3>2, <4>1, <4>2
      <4>3. CASE m \in live
        BY <3>1, <3>2, <4>3
      <4> QED
        BY <1>1, <4>2, <4>3
    <3>4. ASSUME NEW m \in live, n < m PROVE data'[n] < data'[m]
      <4>1. CASE m = tail
        BY <1>1, <1>5, <3>1, <3>2, <4>1
      <4>2. CASE m # tail
        BY <1>4, <3>1, <3>2, <3>4, <4>2
      <4> QED
        BY <4>1, <4>2
    <3> QED
      BY <1>1, <3>1, <3>2, <3>3, <3>4
  <2> QED
    BY <2>2, <2>3
<1>9. ASSUME NEW n \in live' \ {head'}
      PROVE  /\ prev'[n] \in live' \ {tail'}
             /\ next'[prev'[n]] = n
  <2>1. CASE n = p
    BY <1>1, <1>2, <1>5, <2>1
  <2>2. CASE n # p
    <3>1. n \in live \ {head}
      BY <1>1, <2>2
    <3>2. prev[n] \in live \ {tail} /\ next[prev[n]] = n
      BY <3>1 DEF IInv, ChainInv
    <3> QED
      BY <1>1, <1>2, <1>4, <1>5, <3>1, <3>2
  <2> QED
    BY <2>1, <2>2
<1>10. ChainInv'
  <2>1. head' \in live' /\ tail' \in live' /\ next'[tail'] = NullPtr
    BY <1>1, <1>2, <1>5
  <2> QED
    BY <1>6, <1>7, <1>8, <1>9, <2>1 DEF ChainInv
<1>11. Items' = Items \cup {p}
  <2>1. Items' = {data'[n] : n \in live}
    BY <1>6 DEF Items
  <2>2. Items' = {data'[n] : n \in live \ {tail}} \cup {data'[tail]}
    BY <1>2, <2>1
  <2>3. {data'[n] : n \in live \ {tail}} = Items
    BY <1>4 DEF Items
  <2> QED
    BY <1>5, <2>2, <2>3
<1> QED
  BY <1>1, <1>2, <1>3, <1>10, <1>11

(* pop_head, called by whoever holds the head mutex.                       *)
LEMMA UnlinkHeadChain ==
  ASSUME IInv, NEW t \in Threads, UnlinkHead(t), head # tail,
         UNCHANGED <<pushes, bstop, op, missed, stranded>>,
         headMutex' \in Threads \cup {Nil}, pc' \in [Threads -> PcNames]
  PROVE  /\ TypeOK' /\ ChainInv'
         /\ data[head] \in Items /\ \A k \in Items : data[head] <= k
         /\ Items' = Items \ {data[head]}
         /\ holder' = [holder EXCEPT ![data[head]] = t]
<1>1. /\ holder' = [holder EXCEPT ![data[head]] = t]
      /\ head' = next[head] /\ live' = live \ {head} /\ count' = count - 1
      /\ tail' = tail /\ data' = data /\ next' = next /\ prev' = prev
      /\ pushes' = pushes
  BY DEF UnlinkHead
<1>2. /\ head \in live \ {tail} /\ next[head] \in live \ {head}
      /\ prev[next[head]] = head /\ data[head] \in 1..pushes
      /\ \A m \in live : m = head \/ next[head] <= m
  BY AfterHead
<1>3. live \subseteq Nodes /\ tail \in live /\ pushes \in Nat /\ pushes <= MaxPush
  BY DEF IInv, TypeOK, ChainInv
<1>4. TypeOK'
  <2>1. live' \in SUBSET Nodes /\ head' \in Nodes /\ count' \in Int
    BY <1>1, <1>2, <1>3 DEF IInv, TypeOK
  <2>2. holder' \in [Elems -> Threads \cup {Nil}]
    BY <1>1, <1>2, <1>3 DEF IInv, TypeOK
  <2> QED
    BY <1>1, <2>1, <2>2 DEF IInv, TypeOK
<1>5. \A n \in live' : head' <= n /\ n <= tail' /\ n <= pushes'
  BY <1>1, <1>2 DEF IInv, ChainInv
<1>6. ASSUME NEW n \in live' \ {tail'}
      PROVE  /\ next'[n] \in live'
             /\ n < next'[n]
             /\ prev'[next'[n]] = n
             /\ data'[n] \in 1..pushes'
             /\ \A m \in live' : m <= n \/ next'[n] <= m
             /\ \A m \in live' \ {tail'} : n < m => data'[n] < data'[m]
  <2>1. n \in live \ {tail} /\ n # head /\ n \in Nat /\ head \in Nat /\ head <= n
    BY <1>1, <1>2, <1>3 DEF IInv, ChainInv
  <2>2. /\ next[n] \in live /\ n < next[n] /\ prev[next[n]] = n
        /\ data[n] \in 1..pushes
        /\ \A m \in live : m <= n \/ next[n] <= m
        /\ \A m \in live \ {tail} : n < m => data[n] < data[m]
    BY <2>1 DEF IInv, ChainInv
  <2>3. next[n] # head
    BY <1>3, <2>1, <2>2
  <2> QED
    BY <1>1, <2>2, <2>3
<1>7. ASSUME NEW n \in live' \ {head'}
      PROVE  prev'[n] \in live' \ {tail'} /\ next'[prev'[n]] = n
  <2>1. prev[n] \in live \ {tail} /\ next[prev[n]] = n
    BY <1>1 DEF IInv, ChainInv
  <2> QED
    BY <1>1, <2>1
<1>8. ChainInv'
  <2>1. head' \in live' /\ tail' \in live' /\ next'[tail'] = NullPtr
    BY <1>1, <1>2, <1>3 DEF IInv, ChainInv
  <2> QED
    BY <1>5, <1>6, <1>7, <2>1 DEF ChainInv
<1>9. \A n \in live \ {tail} : n = head \/ data[head] < data[n]
  <2>1. \A n \in live : n \in Nat /\ head <= n
    BY <1>3 DEF IInv, ChainInv
  <2> QED
    BY <1>2, <2>1 DEF IInv, ChainInv
<1>10. \A n \in live \ {tail} : data[n] \in Nat
  BY DEF IInv, ChainInv
<1>11. data[head] \in Items /\ \A k \in Items : data[head] <= k
  BY <1>2, <1>9, <1>10 DEF Items
<1>12. Items' = Items \ {data[head]}
  <2>1. Items' = {data[n] : n \in (live \ {head}) \ {tail}}
    BY <1>1 DEF Items
  <2> QED
    BY <1>2, <1>9, <1>10, <2>1 DEF Items
<1> QED
  BY <1>1, <1>4, <1>8, <1>11, <1>12

(* try_steal, with both mutexes.                                           *)
LEMMA TryStealChain ==
  ASSUME IInv, NEW t \in Threads, TrySteal(t)
  PROVE  /\ TypeOK' /\ ChainInv'
         /\ data[prev[tail]] \in Items /\ \A k \in Items : k <= data[prev[tail]]
         /\ Items' = Items \ {data[prev[tail]]}
<1> DEFINE p == prev[tail]
<1>1. /\ tail' = p /\ live' = live \ {tail} /\ count' = count - 1
      /\ head' = head /\ prev' = prev /\ pushes' = pushes
      /\ head # tail
  BY DEF TrySteal
<1>2. /\ holder' = [holder EXCEPT ![data[p]] = t]
      /\ data' = [data EXCEPT ![p] = NoData]
      /\ next' = [next EXCEPT ![p] = NullPtr]
  BY DEF TrySteal, CutNext
<1>3. /\ p \in live \ {tail} /\ next[p] = tail /\ data[p] \in 1..pushes
      /\ head <= p /\ p < tail /\ \A m \in live : m <= p \/ m = tail
  BY <1>1, BeforeTail
<1>4. /\ live \subseteq Nodes /\ tail \in live /\ head \in live
      /\ pushes \in Nat /\ pushes <= MaxPush
  BY DEF IInv, TypeOK, ChainInv
<1>5. TypeOK'
  <2>1. live' \in SUBSET Nodes /\ tail' \in Nodes /\ count' \in Int
    BY <1>1, <1>3, <1>4 DEF IInv, TypeOK
  <2>2. /\ holder' \in [Elems -> Threads \cup {Nil}]
        /\ data' \in [Nodes -> {NoData} \cup Elems]
        /\ next' \in [Nodes -> {NullPtr} \cup Nodes]
    BY <1>2, <1>3, <1>4 DEF IInv, TypeOK
  <2> QED
    BY <1>1, <2>1, <2>2 DEF IInv, TypeOK, TrySteal
<1>6. /\ next'[p] = NullPtr
      /\ \A n \in live \ {p} : next'[n] = next[n] /\ data'[n] = data[n]
  BY <1>2, <1>3, <1>4 DEF IInv, TypeOK
<1>7. \A n \in live' : head' <= n /\ n <= tail' /\ n <= pushes'
  BY <1>1, <1>3 DEF IInv, ChainInv
<1>8. ASSUME NEW n \in live' \ {tail'}
      PROVE  /\ next'[n] \in live'
             /\ n < next'[n]
             /\ prev'[next'[n]] = n
             /\ data'[n] \in 1..pushes'
             /\ \A m \in live' : m <= n \/ next'[n] <= m
             /\ \A m \in live' \ {tail'} : n < m => data'[n] < data'[m]
  <2>1. n \in live \ {tail} /\ n # p
    BY <1>1
  <2>2. /\ next[n] \in live /\ n < next[n] /\ prev[next[n]] = n
        /\ data[n] \in 1..pushes
        /\ \A m \in live : m <= n \/ next[n] <= m
        /\ \A m \in live \ {tail} : n < m => data[n] < data[m]
    BY <2>1 DEF IInv, ChainInv
  <2>3. next[n] # tail
    BY <2>1, <2>2
  <2> QED
    BY <1>1, <1>6, <2>1, <2>2, <2>3
<1>9. ASSUME NEW n \in live' \ {head'}
      PROVE  prev'[n] \in live' \ {tail'} /\ next'[prev'[n]] = n
  <2>1. n # tail /\ prev[n] \in live \ {tail} /\ next[prev[n]] = n
    BY <1>1 DEF IInv, ChainInv
  <2>2. prev[n] # p
    BY <1>3, <2>1
  <2> QED
    BY <1>1, <1>6, <2>1, <2>2
<1>10. ChainInv'
  <2>1. head' \in live' /\ tail' \in live' /\ next'[tail'] = NullPtr
    BY <1>1, <1>3, <1>4, <1>6
  <2> QED
    BY <1>7, <1>8, <1>9, <2>1 DEF ChainInv
<1>11. \A n \in live \ {tail} : n = p \/ data[n] < data[p]
  <2>1. ASSUME NEW n \in live \ {tail} PROVE n = p \/ n < p
    <3>1. n \in Nat /\ p \in Nat
      <4>1. n \in live /\ p \in live
        BY <1>3
      <4>2. \A m \in live : m \in Nat
        BY <1>4
      <4> QED
        BY <4>1, <4>2
    <3>2. n <= p
      BY <1>3
    <3> QED
      BY <3>1, <3>2
  <2> QED
    BY <1>3, <2>1 DEF IInv, ChainInv
<1>12. \A n \in live \ {tail} : data[n] \in Nat
  BY DEF IInv, ChainInv
<1>13. data[p] \in Items /\ \A k \in Items : k <= data[p]
  BY <1>3, <1>11, <1>12 DEF Items
<1>14. Items' = Items \ {data[p]}
  <2>1. Items' = {data[n] : n \in (live \ {tail}) \ {p}}
    <3>1. live' \ {tail'} = (live \ {tail}) \ {p}
      BY <1>1
    <3> QED
      BY <1>6, <3>1 DEF Items
  <2> QED
    BY <1>3, <1>11, <1>12, <2>1 DEF Items
<1> QED
  BY <1>5, <1>10, <1>13, <1>14

-----------------------------------------------------------------------------
(* The three parts of the invariant that the other steps touch.            *)

(* A step that leaves the chain alone keeps it well formed.                *)
LEMMA ChainKept ==
  ASSUME IInv, UNCHANGED <<chain, pushes>>
  PROVE  ChainInv' /\ Items' = Items
  BY DEF IInv, ChainInv, chain, Items

(* Elements are handed out once: whatever is handed out leaves the queue.  *)
LEMMA HolderKept ==
  ASSUME IInv, NEW k \in Items, NEW t \in Threads,
         Items' = Items \ {k}, pushes' = pushes,
         holder' = [holder EXCEPT ![k] = t]
  PROVE  HolderInv'
<1>1. /\ k \in 1..pushes /\ pushes \in Nat
      /\ holder \in [Elems -> Threads \cup {Nil}]
  BY DEF IInv, ChainInv, Items, TypeOK
<1>2. \A j \in Elems : j # k => holder'[j] = holder[j]
  BY <1>1
<1> QED
  BY <1>1, <1>2 DEF IInv, HolderInv

(* Thread t moves from one place to another without touching the chain.    *)
LEMMA MoveKept ==
  ASSUME IInv, NEW t \in Threads, NEW q \in PcNames,
         UNCHANGED <<chain, bstop, pushes, holder>>,
         missed' \in Nat, stranded' \in SUBSET Threads, count' \in Int, op' \in [Threads -> {"pop", "timed"}],
         pc' = [pc EXCEPT ![t] = q],
         headMutex' \in Threads \cup {Nil},
         IF q \in HoldsHead THEN headMutex' = t /\ headMutex \in {t, Nil}
         ELSE IF pc[t] \in HoldsHead THEN headMutex' = Nil
         ELSE headMutex' = headMutex,
         q = "pop" => head # tail,
         q = "take" => Ready
  PROVE  IInv'
<1>1. TypeOK'
  BY DEF IInv, TypeOK, chain
<1>2. ChainInv' /\ Items' = Items /\ HolderInv'
  <2>1. ChainInv' /\ Items' = Items
    BY ChainKept
  <2> QED
    BY <2>1 DEF IInv, HolderInv
<1>3. TakeInv'
  <2> SUFFICES ASSUME NEW u \in Threads
               PROVE  /\ pc'[u] \in HoldsHead <=> headMutex' = u
                      /\ pc'[u] = "pop" => head' # tail'
                      /\ pc'[u] = "take" => Ready'
    BY DEF TakeInv
  <2>1. /\ pc[u] \in HoldsHead <=> headMutex = u
        /\ pc[t] \in HoldsHead <=> headMutex = t
        /\ pc[u] = "pop" => head # tail
        /\ pc[u] = "take" => Ready
    BY DEF IInv, TakeInv
  <2>2. (Ready' <=> Ready) /\ head' = head /\ tail' = tail
    BY DEF Ready, chain
  <2>3. pc'[t] = q /\ (u # t => pc'[u] = pc[u])
    BY DEF IInv, TypeOK
  <2> QED
    BY <2>1, <2>2, <2>3
<1> QED
  BY <1>1, <1>2, <1>3 DEF IInv

(* A step that only notifies or stores the flag: whoever it moves neither  *)
(* held the head mutex nor does so now.                                    *)
LEMMA NotifyKept ==
  ASSUME IInv, UNCHANGED <<chain, headMutex, pushes, holder, op>>,
         bstop' \in BOOLEAN, bstop => bstop', missed' \in Nat, stranded' \in SUBSET Threads, count' \in Int,
         pc' \in [Threads -> PcNames],
         \A u \in Threads :
             pc'[u] = pc[u] \/ (pc[u] \notin HoldsHead /\ pc'[u] \notin HoldsHead)
  PROVE  IInv'
<1>1. TypeOK'
  BY DEF IInv, TypeOK, chain
<1>2. ChainInv' /\ Items' = Items
  BY ChainKept
<1>3. HolderInv'
  BY <1>2 DEF IInv, HolderInv
<1>4. TakeInv'
  <2> SUFFICES ASSUME NEW u \in Threads
               PROVE  /\ pc'[u] \in HoldsHead <=> headMutex' = u
                      /\ pc'[u] = "pop" => head' # tail'
                      /\ pc'[u] = "take" => Ready'
    BY DEF TakeInv
  <2>1. /\ pc[u] \in HoldsHead <=> headMutex = u
        /\ pc[u] = "pop" => head # tail
        /\ pc[u] = "take" => Ready
    BY DEF IInv, TakeInv
  <2>2. (Ready => Ready') /\ head' = head /\ tail' = tail
    BY DEF Ready, chain
  <2>3. "pop" \in HoldsHead /\ "take" \in HoldsHead
    BY DEF HoldsHead
  <2> QED
    BY <2>1, <2>2, <2>3
<1> QED
  BY <1>1, <1>2, <1>3, <1>4 DEF IInv

-----------------------------------------------------------------------------
(* One step per action.                                                    *)
LEMMA NextIInv == IInv /\ [Next]_vars => IInv'
<1> SUFFICES ASSUME IInv, [Next]_vars PROVE IInv'
  OBVIOUS
<1>0. /\ missed \in Nat /\ stranded \in SUBSET Threads /\ count \in Int /\ op \in [Threads -> {"pop", "timed"}]
      /\ pc \in [Threads -> PcNames] /\ headMutex \in Threads \cup {Nil}
      /\ bstop \in BOOLEAN
  BY DEF IInv, TypeOK
<1>1. CASE UNCHANGED vars
  <2>1. TypeOK' /\ TakeInv'
    BY <1>1 DEF IInv, TypeOK, TakeInv, Ready, vars
  <2>2. ChainInv' /\ Items' = Items
    BY <1>1, ChainKept DEF vars, chain
  <2> QED
    BY <1>1, <2>1, <2>2 DEF IInv, HolderInv, vars
<1>2. ASSUME NEW t \in Threads, PushLink(t) PROVE IInv'
  <2>1. TypeOK' /\ ChainInv' /\ head' # tail' /\ Items' = Items \cup {pushes + 1}
    BY <1>2, PushLinkChain
  <2>2. TakeInv'
    BY <1>0, <1>2, <2>1 DEF PushLink, IInv, TakeInv, Ready, HoldsHead
  <2>3. HolderInv'
    BY <1>2, <2>1 DEF PushLink, IInv, HolderInv, TypeOK
  <2> QED
    BY <2>1, <2>2, <2>3 DEF IInv
<1>3. ASSUME NEW t \in Threads, PushNotify(t) PROVE IInv'
  <2>1. /\ UNCHANGED <<chain, bstop, headMutex, op, pushes, holder>>
        /\ pc[t] = "notify" /\ count' \in Int
    BY <1>0, <1>3 DEF PushNotify
  <2>2. missed' \in Nat /\ stranded' \in SUBSET Threads
    BY <1>0, <1>3 DEF PushNotify, NotifyOne
  <2>3. \/ pc' = [pc EXCEPT ![t] = "idle"]
        \/ \E w \in Asleep : pc' = [pc EXCEPT ![t] = "idle", ![w] = "woken"]
    BY <1>3 DEF PushNotify, NotifyOne
  <2>4. /\ pc' \in [Threads -> PcNames]
        /\ \A u \in Threads :
             pc'[u] = pc[u] \/ (pc[u] \notin HoldsHead /\ pc'[u] \notin HoldsHead)
    BY <1>0, <2>1, <2>3 DEF Asleep, HoldsHead, PcNames
  <2> QED
    BY <1>0, <2>1, <2>2, <2>4, NotifyKept
<1>4. ASSUME NEW t \in Threads, WaitLock(t) PROVE IInv'
  <2>1. op' \in [Threads -> {"pop", "timed"}]
    BY <1>0, <1>4 DEF WaitLock
  <2> QED
    BY <1>0, <1>4, <2>1, MoveKept DEF WaitLock, HoldsHead, PcNames
<1>5. ASSUME NEW t \in Threads, WaitCheck(t) PROVE IInv'
  <2>1. /\ UNCHANGED <<chain, count, bstop, op, pushes, holder, missed, stranded>>
        /\ pc[t] \in HoldsHead /\ headMutex = t
    BY <1>5 DEF WaitCheck, HoldsHead, IInv, TakeInv
  <2>2. CASE Ready /\ pc' = [pc EXCEPT ![t] = "take"] /\ UNCHANGED headMutex
    BY <1>0, <2>1, <2>2, MoveKept DEF HoldsHead, PcNames
  <2>3. CASE pc' = [pc EXCEPT ![t] = "block"] /\ UNCHANGED headMutex
    BY <1>0, <2>1, <2>3, MoveKept DEF HoldsHead, PcNames
  <2>4. CASE pc' = [pc EXCEPT ![t] = "idle"] /\ headMutex' = Nil
    BY <1>0, <2>1, <2>4, MoveKept DEF HoldsHead, PcNames
  <2> QED
    BY <1>5, <2>2, <2>3, <2>4 DEF WaitCheck
<1>6. ASSUME NEW t \in Threads, WaitBlock(t) PROVE IInv'
  BY <1>0, <1>6, MoveKept DEF WaitBlock, HoldsHead, PcNames
<1>7. ASSUME NEW t \in Threads, SpuriousWake(t) PROVE IInv'
  BY <1>0, <1>7, MoveKept DEF SpuriousWake, HoldsHead, PcNames
<1>8. ASSUME NEW t \in Threads, WaitTimeout(t) PROVE IInv'
  BY <1>0, <1>8, MoveKept DEF WaitTimeout, HoldsHead, PcNames
<1>9. ASSUME NEW t \in Threads, WaitReacquire(t) PROVE IInv'
  BY <1>0, <1>9, MoveKept DEF WaitReacquire, HoldsHead, PcNames
<1>10. ASSUME NEW t \in Threads, WaitStopped(t) PROVE IInv'
  <2>1. /\ UNCHANGED <<chain, count, bstop, op, pushes, holder, missed, stranded>>
        /\ pc[t] \in HoldsHead /\ headMutex = t /\ Ready
    BY <1>10 DEF WaitStopped, HoldsHead, IInv, TakeInv
  <2>2. CASE pc' = [pc EXCEPT ![t] = "idle"] /\ headMutex' = Nil
    BY <1>0, <2>1, <2>2, MoveKept DEF HoldsHead, PcNames
  <2>3. CASE ~bstop /\ pc' = [pc EXCEPT ![t] = "pop"] /\ UNCHANGED headMutex
    BY <1>0, <2>1, <2>3, MoveKept DEF HoldsHead, PcNames, Ready
  <2> QED
    BY <1>10, <2>2, <2>3 DEF WaitStopped
<1>11. ASSUME NEW t \in Threads, WaitPop(t) PROVE IInv'
  <2>1. /\ pc[t] = "pop" /\ head # tail /\ headMutex = t /\ UnlinkHead(t)
        /\ pc' = [pc EXCEPT ![t] = "idle"] /\ headMutex' = Nil
        /\ UNCHANGED <<bstop, op, pushes, missed, stranded>>
    BY <1>11 DEF WaitPop, IInv, TakeInv, HoldsHead
  <2>2. pc' \in [Threads -> PcNames]
    BY <1>0, <2>1 DEF PcNames
  <2>3. /\ TypeOK' /\ ChainInv' /\ data[head] \in Items
        /\ Items' = Items \ {data[head]}
        /\ holder' = [holder EXCEPT ![data[head]] = t]
    BY <2>1, <2>2, UnlinkHeadChain
  <2>4. TakeInv'
    BY <1>0, <2>1 DEF IInv, TakeInv, HoldsHead
  <2> QED
    BY <2>1, <2>3, <2>4, HolderKept DEF IInv
<1>12. ASSUME NEW t \in Threads, TryPop(t) PROVE IInv'
  <2>1. /\ head # tail /\ headMutex = Nil /\ UnlinkHead(t)
        /\ UNCHANGED <<bstop, headMutex, pc, op, pushes, missed, stranded>>
    BY <1>12 DEF TryPop
  <2>2. /\ TypeOK' /\ ChainInv' /\ data[head] \in Items
        /\ Items' = Items \ {data[head]}
        /\ holder' = [holder EXCEPT ![data[head]] = t]
    BY <1>0, <2>1, UnlinkHeadChain
  <2>3. TakeInv'
    BY <1>0, <2>1 DEF IInv, TakeInv, HoldsHead
  <2> QED
    BY <2>1, <2>2, <2>3, HolderKept DEF IInv
<1>13. ASSUME NEW t \in Threads, TrySteal(t) PROVE IInv'
  <2>1. /\ headMutex = Nil /\ UNCHANGED <<headMutex, pc, pushes>>
        /\ holder' = [holder EXCEPT ![data[prev[tail]]] = t]
    BY <1>13 DEF TrySteal, BothLocks
  <2>2. /\ TypeOK' /\ ChainInv' /\ data[prev[tail]] \in Items
        /\ Items' = Items \ {data[prev[tail]]}
    BY <1>13, TryStealChain
  <2>3. TakeInv'
    BY <1>0, <2>1 DEF IInv, TakeInv, HoldsHead
  <2> QED
    BY <2>1, <2>2, <2>3, HolderKept DEF IInv
<1>14. ASSUME NEW t \in Threads, ExitStore(t) PROVE IInv'
  BY <1>0, <1>14, NotifyKept DEF ExitStore, HoldsHead, PcNames
<1>15. ASSUME NEW t \in Threads, ExitNotify(t) PROVE IInv'
  <2>1. /\ UNCHANGED <<chain, count, bstop, headMutex, op, pushes, holder>>
        /\ pc[t] = "notifyall" /\ NotifyAll(t)
    BY <1>15 DEF ExitNotify
  <2>2. missed' \in Nat /\ stranded' \in SUBSET Threads
    BY <1>0, <2>1 DEF NotifyAll, Blocking
  <2>3. /\ pc' \in [Threads -> PcNames]
        /\ \A u \in Threads :
             pc'[u] = pc[u] \/ (pc[u] \notin HoldsHead /\ pc'[u] \notin HoldsHead)
    BY <1>0, <2>1 DEF NotifyAll, Asleep, HoldsHead, PcNames
  <2> QED
    BY <1>0, <2>1, <2>2, <2>3, NotifyKept
<1> QED
  BY <1>1, <1>2, <1>3, <1>4, <1>5, <1>6, <1>7, <1>8, <1>9, <1>10, <1>11,
     <1>12, <1>13, <1>14, <1>15 DEF Next

-----------------------------------------------------------------------------
(* In every reachable state the two mutexes share a well-formed chain,     *)
(* whoever is about to pop finds an element, and no element is both in the *)
(* queue and in somebody's hands.                                          *)
THEOREM Invariance == Spec => []IInv
<1> QED
  BY InitIInv, NextIInv, PTL DEF Spec

(* The type invariant of the runs.                                         *)
THEOREM TypeCorrect == Spec => []TypeOK
<1>1. IInv => TypeOK
  BY DEF IInv
<1> QED
  BY <1>1, Invariance, PTL

(* The chain that push, pop_head and try_steal share is well formed.       *)
THEOREM ChainWellFormed == Spec => []ChainInv
<1>1. IInv => ChainInv
  BY DEF IInv
<1> QED
  BY <1>1, Invariance, PTL

(* The head mutex has one holder, and whoever is past the predicate of its *)
(* wait finds an element or a stopped queue.                               *)
THEOREM PopFindsElement == Spec => []TakeInv
<1>1. IInv => TakeInv
  BY DEF IInv
<1> QED
  BY <1>1, Invariance, PTL

-----------------------------------------------------------------------------
(* ConcurrentQueue implements Deque: the link step of push is Put, popping *)
(* the head takes the oldest element, try_steal the newest, and everything *)
(* else stutters.                                                          *)
LEMMA InitMapped == Init => D!Init
  BY DEF Init, D!Init, Items

LEMMA StepMapped == IInv /\ IInv' /\ [Next]_vars => [D!Next]_(D!dequeVars)
<1> SUFFICES ASSUME IInv, IInv', [Next]_vars
             PROVE  D!Next \/ UNCHANGED D!dequeVars
  OBVIOUS
<1>1. ASSUME NEW t \in Threads, PushLink(t) PROVE D!Next
  <2>1. Items' = Items \cup {pushes + 1}
    BY <1>1, PushLinkChain
  <2> QED
    BY <1>1, <2>1 DEF PushLink, D!Next, D!Put
<1>2. ASSUME NEW t \in Threads, WaitPop(t) \/ TryPop(t) PROVE D!Next
  <2>1. /\ UnlinkHead(t) /\ head # tail /\ UNCHANGED <<pushes, bstop, op, missed, stranded>>
        /\ headMutex' \in Threads \cup {Nil} /\ pc' \in [Threads -> PcNames]
    BY <1>2 DEF WaitPop, TryPop, IInv, TypeOK, TakeInv
  <2>2. /\ data[head] \in Items /\ \A k \in Items : data[head] <= k
        /\ Items' = Items \ {data[head]}
        /\ holder' = [holder EXCEPT ![data[head]] = t]
    BY <2>1, UnlinkHeadChain
  <2>3. holder[data[head]] = Nil
    BY <2>2 DEF IInv, HolderInv, ChainInv, Items, TypeOK
  <2> QED
    BY <2>1, <2>2, <2>3 DEF D!Next, D!TakeOldest, D!Take
<1>3. ASSUME NEW t \in Threads, TrySteal(t) PROVE D!Next
  <2>1. /\ "steal" \in Ops[t] /\ pushes' = pushes
        /\ holder' = [holder EXCEPT ![data[prev[tail]]] = t]
    BY <1>3 DEF TrySteal
  <2>2. /\ data[prev[tail]] \in Items /\ \A k \in Items : k <= data[prev[tail]]
        /\ Items' = Items \ {data[prev[tail]]}
    BY <1>3, TryStealChain
  <2>3. holder[data[prev[tail]]] = Nil
    BY <2>2 DEF IInv, HolderInv, ChainInv, Items, TypeOK
  <2> QED
    BY <2>1, <2>2, <2>3 DEF D!Next, D!TakeNewest, D!Take
<1>4. CASE UNCHANGED <<chain, pushes, holder>>
  BY <1>4, ChainKept DEF D!dequeVars
<1>5. CASE UNCHANGED vars
  BY <1>4, <1>5 DEF vars, chain
<1>6. ASSUME NEW t \in Threads,
             \/ PushNotify(t) \/ WaitLock(t) \/ WaitCheck(t) \/ WaitBlock(t)
             \/ SpuriousWake(t) \/ WaitTimeout(t) \/ WaitReacquire(t)
             \/ WaitStopped(t) \/ ExitStore(t) \/ ExitNotify(t)
      PROVE  UNCHANGED <<chain, pushes, holder>>
  BY <1>6 DEF PushNotify, WaitLock, WaitCheck, WaitBlock, SpuriousWake,
         WaitTimeout, WaitReacquire, WaitStopped, ExitStore, ExitNotify
<1> QED
  BY <1>1, <1>2, <1>3, <1>4, <1>5, <1>6 DEF Next

(* Every element pushed is handed to at most one thread, oldest first      *)
(* except to those who steal, for any number of threads and pushes.        *)
THEOREM Refinement == Spec => ImplementsDeque
<1> QED
  BY InitMapped, StepMapped, Invariance, PTL DEF Spec, ImplementsDeque, D!Spec

-----------------------------------------------------------------------------
(* Wake-ups.  WakeupsCoverItems is about sleeping threads only; a thread   *)
(* between its predicate and its wait must be counted among them, or the   *)
(* step into the wait would find nothing known.                            *)
AwakePlaces == {"notify", "woken", "expired", "check", "lastcheck", "take", "pop"}
Awake == {t \in Threads : pc[t] \in AwakePlaces}
Busy  == {t \in Threads : pc[t] # "idle"}

ExitInv  == \A t \in Threads : pc[t] = "notifyall" => bstop
CoverInv ==
    Asleep \cup Blocking # {} /\ ~bstop => Cardinality(Items) <= missed + Cardinality(Awake)

WakeInv == IsFiniteSet(Busy) /\ ExitInv /\ CoverInv

LEMMA ItemsFinite == ASSUME IInv PROVE IsFiniteSet(Items) /\ Cardinality(Items) \in Nat /\ Items \subseteq 1..pushes
<1>1. Items \subseteq 1..pushes /\ pushes \in Nat
  BY DEF IInv, ChainInv, Items, TypeOK
<1>2. IsFiniteSet(1..pushes)
  BY <1>1, FS_Interval
<1> QED
  BY <1>1, <1>2, FS_Subset, FS_CardinalityType

LEMMA AwakeFinite == ASSUME IsFiniteSet(Busy) PROVE IsFiniteSet(Awake) /\ Cardinality(Awake) \in Nat
<1>1. Awake \subseteq Busy
  BY DEF Awake, Busy, AwakePlaces
<1> QED
  BY <1>1, FS_Subset, FS_CardinalityType

LEMMA NoItems == ASSUME IInv, head = tail PROVE Items = {} /\ Cardinality(Items) = 0
<1>1. \A n \in live : n = tail
  BY DEF IInv, ChainInv, TypeOK
<1>2. Items = {}
  BY <1>1 DEF Items
<1> QED
  BY <1>2, FS_EmptySet

(* Nobody stops being awake, and no element is added.                      *)
LEMMA CoverKept ==
  ASSUME IInv, WakeInv, Items' \subseteq Items, Awake \subseteq Awake', IsFiniteSet(Awake'),
         UNCHANGED missed,
         Asleep' \cup Blocking' # {} /\ ~bstop' => Asleep \cup Blocking # {} /\ ~bstop
  PROVE  CoverInv'
<1>1. Cardinality(Items') <= Cardinality(Items) /\ Cardinality(Items) \in Nat /\ Cardinality(Items') \in Nat
  BY ItemsFinite, FS_Subset, FS_CardinalityType
<1>2. Cardinality(Awake) <= Cardinality(Awake') /\ Cardinality(Awake) \in Nat /\ Cardinality(Awake') \in Nat
  BY AwakeFinite, FS_Subset, FS_CardinalityType DEF WakeInv
<1>3. missed \in Nat
  BY DEF IInv, TypeOK
<1> QED
  BY <1>1, <1>2, <1>3 DEF WakeInv, CoverInv

(* Where a single thread moves.                                            *)
LEMMA OneMoves ==
  ASSUME IInv, WakeInv, NEW t \in Threads, NEW q, pc' = [pc EXCEPT ![t] = q]
  PROVE  /\ IsFiniteSet(Busy') /\ IsFiniteSet(Awake')
         /\ Awake'    = IF q \in AwakePlaces THEN Awake \cup {t} ELSE Awake \ {t}
         /\ Asleep'   = IF q = "asleep" THEN Asleep \cup {t} ELSE Asleep \ {t}
         /\ Blocking' = IF q = "block" THEN Blocking \cup {t} ELSE Blocking \ {t}
         /\ (q = "notifyall" => bstop') /\ (bstop => bstop') => ExitInv'
<1>1. pc'[t] = q /\ \A u \in Threads \ {t} : pc'[u] = pc[u]
  BY DEF IInv, TypeOK
<1>2. Busy' \subseteq Busy \cup {t} /\ Awake' \subseteq Busy'
  BY <1>1 DEF Busy, Awake, AwakePlaces
<1>3. IsFiniteSet(Busy')
  BY <1>2, FS_AddElement, FS_Subset DEF WakeInv
<1>4. IsFiniteSet(Awake')
  BY <1>2, <1>3, FS_Subset
<1>5. Awake' = IF q \in AwakePlaces THEN Awake \cup {t} ELSE Awake \ {t}
  BY <1>1 DEF Awake
<1>6. Asleep' = IF q = "asleep" THEN Asleep \cup {t} ELSE Asleep \ {t}
  BY <1>1 DEF Asleep
<1>7. Blocking' = IF q = "block" THEN Blocking \cup {t} ELSE Blocking \ {t}
  BY <1>1 DEF Blocking
<1>8. (q = "notifyall" => bstop') /\ (bstop => bstop') => ExitInv'
  BY <1>1 DEF WakeInv, ExitInv
<1> QED
  BY <1>3, <1>4, <1>5, <1>6, <1>7, <1>8

LEMMA LeavesIs ==
  ASSUME IInv, WakeInv, NEW t \in Threads, pc' = [pc EXCEPT ![t] = "idle"], UNCHANGED bstop
  PROVE  /\ IsFiniteSet(Busy') /\ Awake' = Awake \ {t}
         /\ Asleep' = Asleep \ {t} /\ Blocking' = Blocking \ {t} /\ ExitInv'
<1> DEFINE q == "idle"
<1>1. q \notin AwakePlaces /\ q # "asleep" /\ q # "block" /\ q # "notifyall"
  BY DEF AwakePlaces
<1>2. pc' = [pc EXCEPT ![t] = q]
  OBVIOUS
<1> HIDE DEF q
<1>3. /\ IsFiniteSet(Busy')
      /\ Awake' = IF q \in AwakePlaces THEN Awake \cup {t} ELSE Awake \ {t}
      /\ Asleep' = IF q = "asleep" THEN Asleep \cup {t} ELSE Asleep \ {t}
      /\ Blocking' = IF q = "block" THEN Blocking \cup {t} ELSE Blocking \ {t}
  BY <1>2, OneMoves
<1>4. ExitInv'
  BY <1>1, <1>2, OneMoves
<1> QED
  BY <1>1, <1>3, <1>4

LEMMA InitWake == Init => WakeInv
<1> SUFFICES ASSUME Init PROVE WakeInv
  OBVIOUS
<1>1. Busy = {} /\ Asleep \cup Blocking = {} /\ ExitInv
  BY DEF Init, Busy, Asleep, Blocking, ExitInv
<1> QED
  BY <1>1, FS_EmptySet DEF WakeInv, CoverInv

(* push: one more element, one more notification to come.                  *)
LEMMA PushLinkWake ==
  ASSUME IInv, WakeInv, NEW t \in Threads, PushLink(t)
  PROVE  WakeInv'
<1>1. pc' = [pc EXCEPT ![t] = "notify"] /\ pc[t] = "idle" /\ UNCHANGED <<bstop, missed, stranded>>
  BY DEF PushLink
<1>2. IsFiniteSet(Busy') /\ Awake' = Awake \cup {t} /\ Asleep' = Asleep \ {t} /\ Blocking' = Blocking \ {t} /\ ExitInv'
  BY <1>1, OneMoves DEF AwakePlaces
<1>3. t \notin Awake
  BY <1>1 DEF Awake, AwakePlaces
<1>4. Cardinality(Awake') = Cardinality(Awake) + 1 /\ Cardinality(Awake) \in Nat
  BY <1>2, <1>3, AwakeFinite, FS_AddElement DEF WakeInv
<1>5. Items' = Items \cup {pushes + 1} /\ pushes + 1 \notin Items
  <2>1. pushes + 1 \notin 1..pushes
    BY DEF IInv, TypeOK
  <2> QED
    BY <2>1, PushLinkChain, ItemsFinite
<1>6. Cardinality(Items') = Cardinality(Items) + 1 /\ Cardinality(Items) \in Nat
  BY <1>5, ItemsFinite, FS_AddElement
<1>7. missed \in Nat
  BY DEF IInv, TypeOK
<1> QED
  BY <1>1, <1>2, <1>4, <1>6, <1>7 DEF WakeInv, CoverInv

(* notify: the notification passes to a sleeping thread, or is counted as  *)
(* lost when nobody sleeps but one is about to.                            *)
LEMMA PushNotifyWake ==
  ASSUME IInv, WakeInv, NEW t \in Threads, PushNotify(t)
  PROVE  WakeInv'
<1>1. pc[t] = "notify" /\ NotifyOne(t) /\ UNCHANGED <<chain, pushes, bstop>> /\ t \in Awake
  BY DEF PushNotify, Awake, AwakePlaces
<1>2. Items' = Items
  BY <1>1, ChainKept
<1>3. CASE Asleep = {} /\ pc' = [pc EXCEPT ![t] = "idle"] /\ missed' = IF Blocking = {} THEN missed ELSE missed + 1
  <2>1. /\ IsFiniteSet(Busy') /\ Awake' = Awake \ {t}
        /\ Asleep' = Asleep \ {t} /\ Blocking' = Blocking \ {t} /\ ExitInv'
    BY <1>1, <1>3, LeavesIs
  <2>2. Cardinality(Awake') = Cardinality(Awake) - 1 /\ Cardinality(Awake) \in Nat
    BY <1>1, <2>1, AwakeFinite, FS_RemoveElement DEF WakeInv
  <2>3. CASE Blocking = {}
    BY <1>3, <2>1, <2>3 DEF WakeInv, CoverInv
  <2>4. CASE Blocking # {}
    <3>1. missed' = missed + 1 /\ missed \in Nat
      BY <1>3, <2>4 DEF IInv, TypeOK
    <3>2. missed' + Cardinality(Awake') = missed + Cardinality(Awake)
      BY <2>2, <3>1
    <3>3. ~bstop' => Cardinality(Items) <= missed + Cardinality(Awake)
      BY <1>1, <2>4 DEF WakeInv, CoverInv
    <3> QED
      BY <1>2, <2>1, <3>2, <3>3 DEF WakeInv, CoverInv
  <2> QED
    BY <2>3, <2>4
<1>4. ASSUME NEW w \in Asleep, pc' = [pc EXCEPT ![t] = "idle", ![w] = "woken"], UNCHANGED missed
      PROVE  WakeInv'
  <2>1. w \in Threads /\ w # t /\ w \notin Awake
    BY <1>1 DEF Asleep, Awake, AwakePlaces
  <2>2. pc'[t] = "idle" /\ pc'[w] = "woken" /\ \A u \in Threads \ {t, w} : pc'[u] = pc[u]
    BY <1>4, <2>1 DEF IInv, TypeOK
  <2>3. Busy' \subseteq Busy /\ ExitInv'
    BY <1>1, <2>1, <2>2 DEF Busy, ExitInv, WakeInv, Asleep
  <2>4. IsFiniteSet(Busy')
    BY <2>3, FS_Subset DEF WakeInv
  <2>5. Awake' = (Awake \ {t}) \cup {w}
    BY <2>1, <2>2 DEF Awake, AwakePlaces
  <2>6. IsFiniteSet(Awake \ {t}) /\ Cardinality(Awake \ {t}) = Cardinality(Awake) - 1 /\ Cardinality(Awake) \in Nat
    BY <1>1, AwakeFinite, FS_RemoveElement DEF WakeInv
  <2>7. Cardinality(Awake') = Cardinality(Awake \ {t}) + 1
    <3> DEFINE A == Awake \ {t}
    <3>1. IsFiniteSet(A) /\ w \notin A /\ Awake' = A \cup {w}
      BY <2>1, <2>5, <2>6
    <3> HIDE DEF A
    <3>2. Cardinality(A \cup {w}) = Cardinality(A) + 1
      BY <3>1, FS_AddElement
    <3>3. Cardinality(Awake') = Cardinality(A) + 1
      BY <3>1, <3>2, Zenon
    <3> QED
      BY <3>3 DEF A
  <2>8. Cardinality(Awake') = Cardinality(Awake)
    BY <2>6, <2>7
  <2> QED
    BY <1>1, <1>2, <1>4, <2>3, <2>4, <2>8 DEF WakeInv, CoverInv
<1> QED
  BY <1>1, <1>3, <1>4 DEF NotifyOne

(* The predicate: a thread that is going to wait has seen an empty queue.  *)
LEMMA WaitCheckWake ==
  ASSUME IInv, WakeInv, NEW t \in Threads, WaitCheck(t)
  PROVE  WakeInv'
<1>1. pc[t] \in {"check", "lastcheck"} /\ UNCHANGED <<chain, bstop, pushes, missed, stranded>> /\ t \in Awake
  BY DEF WaitCheck, Awake, AwakePlaces
<1>2. Items' = Items
  BY <1>1, ChainKept
<1>3. CASE Ready /\ pc' = [pc EXCEPT ![t] = "take"]
  <2>1. /\ IsFiniteSet(Busy') /\ IsFiniteSet(Awake') /\ Awake' = Awake \cup {t}
        /\ Asleep' = Asleep \ {t} /\ Blocking' = Blocking \ {t} /\ ExitInv'
    BY <1>1, <1>3, OneMoves DEF AwakePlaces
  <2>2. CoverInv'
    BY <1>1, <1>2, <2>1, CoverKept
  <2> QED
    BY <2>1, <2>2 DEF WakeInv
<1>4. ASSUME ~Ready, NEW q \in {"block", "idle"}, pc' = [pc EXCEPT ![t] = q]
      PROVE  WakeInv'
  <2>1. IsFiniteSet(Busy') /\ IsFiniteSet(Awake') /\ ExitInv'
    BY <1>1, <1>4, OneMoves
  <2>2. Cardinality(Items') = 0
    BY <1>2, <1>4, NoItems DEF Ready
  <2>3. Cardinality(Awake') \in Nat /\ missed' \in Nat
    BY <1>1, <2>1, FS_CardinalityType DEF IInv, TypeOK
  <2> QED
    BY <2>1, <2>2, <2>3 DEF WakeInv, CoverInv
<1> QED
  BY <1>3, <1>4 DEF WaitCheck

(* A thread that is awake takes an element away with it.                   *)
LEMMA WaitPopWake ==
  ASSUME IInv, WakeInv, NEW t \in Threads, WaitPop(t)
  PROVE  WakeInv'
<1>1. pc[t] = "pop" /\ pc' = [pc EXCEPT ![t] = "idle"] /\ UNCHANGED <<bstop, missed, stranded>> /\ t \in Awake
  BY DEF WaitPop, Awake, AwakePlaces
<1>2. /\ IsFiniteSet(Busy') /\ Awake' = Awake \ {t}
      /\ Asleep' = Asleep \ {t} /\ Blocking' = Blocking \ {t} /\ ExitInv'
  BY <1>1, LeavesIs
<1>3. data[head] \in Items /\ Items' = Items \ {data[head]}
  <2>1. /\ UnlinkHead(t) /\ head # tail /\ UNCHANGED <<pushes, bstop, op, missed, stranded>>
        /\ headMutex' \in Threads \cup {Nil} /\ pc' \in [Threads -> PcNames]
    BY <1>1 DEF WaitPop, IInv, TypeOK, TakeInv, PcNames
  <2> QED
    BY <2>1, UnlinkHeadChain
<1>4. Cardinality(Awake') = Cardinality(Awake) - 1 /\ Cardinality(Awake) \in Nat
  BY <1>1, <1>2, AwakeFinite, FS_RemoveElement DEF WakeInv
<1>5. Cardinality(Items') = Cardinality(Items) - 1 /\ Cardinality(Items) \in Nat
  BY <1>3, ItemsFinite, FS_RemoveElement
<1>6. missed \in Nat
  BY DEF IInv, TypeOK
<1> QED
  BY <1>1, <1>2, <1>4, <1>5, <1>6 DEF WakeInv, CoverInv

(* Steps of a thread that neither adds an element nor stops being awake.   *)
LEMMA QuietWake ==
  ASSUME IInv, WakeInv, NEW t \in Threads, NEW q, pc' = [pc EXCEPT ![t] = q],
         UNCHANGED <<chain, pushes, bstop, missed, stranded>>,
         \/ q \in AwakePlaces
         \/ q = "asleep" /\ pc[t] = "block"
  PROVE  WakeInv'
<1>1. /\ IsFiniteSet(Busy') /\ IsFiniteSet(Awake')
      /\ Awake' = IF q \in AwakePlaces THEN Awake \cup {t} ELSE Awake \ {t}
      /\ Asleep' = IF q = "asleep" THEN Asleep \cup {t} ELSE Asleep \ {t}
      /\ Blocking' = IF q = "block" THEN Blocking \cup {t} ELSE Blocking \ {t}
      /\ ExitInv'
  BY OneMoves DEF AwakePlaces
<1>2. Items' = Items
  BY ChainKept
<1>3. Awake \subseteq Awake' /\ (Asleep' \cup Blocking' # {} => Asleep \cup Blocking # {})
  BY <1>1 DEF Awake, AwakePlaces, Asleep, Blocking
<1>4. CoverInv'
  BY <1>1, <1>2, <1>3, CoverKept
<1> QED
  BY <1>1, <1>4 DEF WakeInv

LEMMA NextWake == IInv /\ WakeInv /\ [Next]_vars => WakeInv'
<1> SUFFICES ASSUME IInv, WakeInv, [Next]_vars PROVE WakeInv'
  OBVIOUS
<1>1. ASSUME NEW t \in Threads, PushLink(t) PROVE WakeInv'
  BY <1>1, PushLinkWake
<1>2. ASSUME NEW t \in Threads, PushNotify(t) PROVE WakeInv'
  BY <1>2, PushNotifyWake
<1>3. ASSUME NEW t \in Threads, WaitCheck(t) PROVE WakeInv'
  BY <1>3, WaitCheckWake
<1>4. ASSUME NEW t \in Threads, WaitPop(t) PROVE WakeInv'
  BY <1>4, WaitPopWake
<1>5. ASSUME NEW t \in Threads, WaitLock(t) \/ SpuriousWake(t) \/ WaitTimeout(t) \/ WaitReacquire(t) \/ WaitBlock(t)
      PROVE  WakeInv'
  <2>1. UNCHANGED <<chain, pushes, bstop, missed, stranded>>
    BY <1>5 DEF WaitLock, SpuriousWake, WaitTimeout, WaitReacquire, WaitBlock
  <2>2. CASE WaitLock(t)
    BY <2>1, <2>2, QuietWake DEF WaitLock, AwakePlaces
  <2>3. CASE SpuriousWake(t)
    BY <2>1, <2>3, QuietWake DEF SpuriousWake, AwakePlaces
  <2>4. CASE WaitTimeout(t)
    BY <2>1, <2>4, QuietWake DEF WaitTimeout, AwakePlaces
  <2>5. CASE WaitReacquire(t)
    BY <2>1, <2>5, QuietWake DEF WaitReacquire, AwakePlaces
  <2>6. CASE WaitBlock(t)
    BY <2>1, <2>6, QuietWake DEF WaitBlock
  <2> QED
    BY <1>5, <2>2, <2>3, <2>4, <2>5, <2>6
<1>6. ASSUME NEW t \in Threads, WaitStopped(t) PROVE WakeInv'
  <2>1. UNCHANGED <<chain, pushes, bstop, missed, stranded>>
    BY <1>6 DEF WaitStopped
  <2>2. CASE pc' = [pc EXCEPT ![t] = "pop"]
    BY <2>1, <2>2, QuietWake DEF AwakePlaces
  <2>3. CASE bstop /\ pc' = [pc EXCEPT ![t] = "idle"]
    <3>1. IsFiniteSet(Busy') /\ ExitInv'
      BY <2>1, <2>3, OneMoves
    <3> QED
      BY <2>1, <2>3, <3>1 DEF WakeInv, CoverInv
  <2> QED
    BY <1>6, <2>2, <2>3 DEF WaitStopped
<1>7. ASSUME NEW t \in Threads, TryPop(t) \/ TrySteal(t) PROVE WakeInv'
  <2>1. UNCHANGED <<pc, bstop, missed, stranded>>
    BY <1>7 DEF TryPop, TrySteal
  <2>2. Items' \subseteq Items
    <3>1. CASE TryPop(t)
      <4>1. /\ UnlinkHead(t) /\ head # tail /\ UNCHANGED <<pushes, bstop, op, missed, stranded>>
            /\ headMutex' \in Threads \cup {Nil} /\ pc' \in [Threads -> PcNames]
        BY <3>1 DEF TryPop, IInv, TypeOK
      <4> QED
        BY <4>1, UnlinkHeadChain
    <3>2. CASE TrySteal(t)
      BY <3>2, TryStealChain
    <3> QED
      BY <1>7, <3>1, <3>2
  <2>3. Busy' = Busy /\ Awake' = Awake /\ Asleep' = Asleep /\ Blocking' = Blocking /\ ExitInv'
    BY <2>1 DEF Busy, Awake, Asleep, Blocking, ExitInv, WakeInv
  <2>4. CoverInv'
    BY <2>1, <2>2, <2>3, AwakeFinite, CoverKept DEF WakeInv
  <2> QED
    BY <2>3, <2>4 DEF WakeInv
<1>8. ASSUME NEW t \in Threads, ExitStore(t) PROVE WakeInv'
  <2>1. bstop' /\ pc' = [pc EXCEPT ![t] = "notifyall"]
    BY <1>8 DEF ExitStore
  <2>2. IsFiniteSet(Busy') /\ ExitInv'
    BY <2>1, OneMoves
  <2> QED
    BY <2>1, <2>2 DEF WakeInv, CoverInv
<1>9. ASSUME NEW t \in Threads, ExitNotify(t) PROVE WakeInv'
  <2>1. bstop /\ bstop' /\ NotifyAll(t)
    BY <1>9 DEF ExitNotify, WakeInv, ExitInv
  <2>2. Busy' \subseteq Busy
    BY <2>1 DEF NotifyAll, Busy, Asleep
  <2>3. IsFiniteSet(Busy') /\ ExitInv'
    BY <2>1, <2>2, FS_Subset DEF WakeInv, ExitInv
  <2> QED
    BY <2>1, <2>3 DEF WakeInv, CoverInv
<1>10. CASE UNCHANGED vars
  BY <1>10 DEF vars, WakeInv, Busy, ExitInv, CoverInv, Asleep, Blocking, Awake, Items
<1> QED
  BY <1>1, <1>2, <1>3, <1>4, <1>5, <1>6, <1>7, <1>8, <1>9, <1>10 DEF Next

(* Nobody sleeps next to an element that no one is going to take, but for  *)
(* one element for each notification that fell between a predicate and its *)
(* wait: for any number of threads and elements.                           *)
THEOREM WakeupsSuffice == Spec => []WakeupsCoverItems
<1>1. WakeInv => WakeupsCoverItems
  BY DEF WakeInv, CoverInv, WakeupsCoverItems, Awake, AwakePlaces
<1>2. Spec => []WakeInv
  BY InitWake, NextWake, Invariance, PTL DEF Spec
<1> QED
  BY <1>1, <1>2, PTL
=============================================================================
