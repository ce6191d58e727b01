----------------------- MODULE StealThreadPool_proofs -----------------------
(***************************************************************************)
(* StealThreadPool, for every number of workers, all submitters and every  *)
(* number of tasks: stealing neither loses nor doubles a task.             *)
(***************************************************************************)
EXTENDS StealThreadPool, FiniteSetTheorems, TLAPS

USE PoolAssumption DEF Tasks, NoTask

-----------------------------------------------------------------------------
(* A queue holds a task once ...                                           *)
Waiting == UNION {ToSet(ques[i]) : i \in Workers}

QueueInv ==
    /\ \A i \in Workers : IsInjective(ques[i])
    /\ \A i, j \in Workers : i # j => ToSet(ques[i]) \cap ToSet(ques[j]) = {}

(* ... and a task that was submitted is in one queue, in the hands of one  *)
(* worker, or finished.                                                    *)
PlaceInv ==
    /\ Waiting \subseteq 1..entered /\ finished \subseteq 1..entered
    /\ Waiting \cap finished = {}
    /\ \A w \in Workers : task[w] # NoTask => task[w] \in 1..entered
    /\ \A w \in Workers : task[w] \notin Waiting /\ task[w] \notin finished
    /\ \A v, w \in Workers : v # w /\ task[v] # NoTask => task[v] # task[w]
    /\ \A w \in Workers : task[w] # NoTask <=> at[w] \in {"found", "run"}

(* The tasks being submitted are within the bound.                         *)
Busy == {u \in Submitters : sub[u] # "idle"}
BoundInv == IsFiniteSet(Busy) /\ entered + Cardinality(Busy) <= MaxTasks

IInv == TypeOK /\ QueueInv /\ PlaceInv /\ BoundInv

-----------------------------------------------------------------------------
(* What the operations of a queue do to a sequence without duplicates.     *)
LEMMA AppendNew ==
  ASSUME NEW q \in Seq(Tasks), IsInjective(q), NEW k \in Tasks, k \notin ToSet(q)
  PROVE  /\ Append(q, k) \in Seq(Tasks) /\ IsInjective(Append(q, k))
         /\ ToSet(Append(q, k)) = ToSet(q) \cup {k}
<1> DEFINE r == Append(q, k)
           n == Len(q) + 1
<1>1. /\ r \in Seq(Tasks) /\ Len(q) \in Nat /\ Len(r) = Len(q) + 1
      /\ \A i \in 1..Len(q) : r[i] = q[i]
      /\ r[n] = k
      /\ DOMAIN q = 1..Len(q) /\ DOMAIN r = 1..(Len(q) + 1)
  OBVIOUS
<1> HIDE DEF r
<1>2. n \in DOMAIN r /\ DOMAIN q = DOMAIN r \ {n} /\ \A i \in DOMAIN q : r[i] = q[i]
  BY <1>1
<1>3. r[n] = k
  BY <1>1
<1> HIDE DEF n
<1>4. ToSet(r) = ToSet(q) \cup {k}
  BY <1>2, <1>3 DEF ToSet
<1>5. IsInjective(r)
  <2>1. \A i \in DOMAIN q : q[i] # k
    BY DEF ToSet
  <2> QED
    BY <1>2, <1>3, <2>1 DEF IsInjective
<1> QED
  BY <1>1, <1>4, <1>5 DEF r

LEMMA RemoveHead ==
  ASSUME NEW q \in Seq(Tasks), IsInjective(q), q # <<>>
  PROVE  /\ Head(q) \in ToSet(q) /\ Tail(q) \in Seq(Tasks) /\ IsInjective(Tail(q))
         /\ ToSet(Tail(q)) = ToSet(q) \ {Head(q)}
<1> DEFINE k == Head(q)
           r == Tail(q)
<1>1. /\ Len(q) \in Nat \ {0} /\ r \in Seq(Tasks) /\ k = q[1]
      /\ \A i \in 1..(Len(q) - 1) : r[i] = q[i + 1]
      /\ DOMAIN q = 1..Len(q) /\ DOMAIN r = 1..(Len(q) - 1)
  OBVIOUS
<1> HIDE DEF k, r
<1>2. 1 \in DOMAIN q /\ \A i \in DOMAIN r : i + 1 \in DOMAIN q /\ i + 1 # 1
  BY <1>1
<1>3. \A i \in DOMAIN q \ {1} : i - 1 \in DOMAIN r /\ r[i - 1] = q[i]
  BY <1>1
<1>4. \A i \in DOMAIN q : q[i] = k => i = 1
  BY <1>1, <1>2 DEF IsInjective
<1>5. k \in ToSet(q)
  BY <1>1, <1>2 DEF ToSet
<1>6. ToSet(r) \subseteq ToSet(q) \ {k}
  BY <1>1, <1>2, <1>4 DEF ToSet
<1>7. ToSet(q) \ {k} \subseteq ToSet(r)
  <2> SUFFICES ASSUME NEW i \in DOMAIN q, q[i] # k PROVE q[i] \in ToSet(r)
    BY DEF ToSet
  <2>1. i # 1
    BY <1>1, <1>2
  <2> QED
    BY <1>3, <2>1 DEF ToSet
<1>8. IsInjective(r)
  <2> SUFFICES ASSUME NEW i \in DOMAIN r, NEW j \in DOMAIN r, r[i] = r[j] PROVE i = j
    BY DEF IsInjective
  <2>1. i + 1 = j + 1
    BY <1>1, <1>2 DEF IsInjective
  <2> QED
    BY <1>1, <2>1
<1> QED
  BY <1>1, <1>5, <1>6, <1>7, <1>8 DEF k, r

LEMMA RemoveLast ==
  ASSUME NEW q \in Seq(Tasks), IsInjective(q), q # <<>>
  PROVE  /\ Last(q) \in ToSet(q) /\ Front(q) \in Seq(Tasks) /\ IsInjective(Front(q))
         /\ ToSet(Front(q)) = ToSet(q) \ {Last(q)}
<1> DEFINE n == Len(q)
           r == Front(q)
<1>1. /\ n \in Nat \ {0} /\ r \in Seq(Tasks) /\ Last(q) = q[n]
      /\ \A i \in 1..(n - 1) : r[i] = q[i]
      /\ DOMAIN q = 1..n /\ DOMAIN r = 1..(n - 1)
  BY DEF Front, Last
<1> HIDE DEF n, r
<1>2. n \in DOMAIN q /\ DOMAIN r = DOMAIN q \ {n}
  BY <1>1
<1>3. \A i \in DOMAIN q : q[i] = q[n] => i = n
  BY <1>2 DEF IsInjective
<1>4. \A i \in DOMAIN r : r[i] = q[i]
  BY <1>1
<1>5. q[n] \in ToSet(q)
  BY <1>2 DEF ToSet
<1>6. ToSet(r) = ToSet(q) \ {q[n]}
  BY <1>2, <1>3, <1>4 DEF ToSet
<1>7. IsInjective(r)
  BY <1>2, <1>4 DEF IsInjective
<1> QED
  BY <1>1, <1>5, <1>6, <1>7 DEF r

-----------------------------------------------------------------------------
LEMMA InitIInv == Init => IInv
<1> SUFFICES ASSUME Init PROVE IInv
  OBVIOUS
<1>1. TypeOK
  <2>1. 0 \in Workers /\ entered \in 0..MaxTasks
    BY DEF Init, Workers
  <2> QED
    BY <2>1 DEF Init, TypeOK
<1>2. \A i \in Workers : ToSet(ques[i]) = {} /\ IsInjective(ques[i])
  BY DEF Init, ToSet, IsInjective
<1>3. Waiting = {}
  BY <1>2 DEF Waiting
<1>4. PlaceInv
  BY <1>3 DEF Init, PlaceInv
<1>5. BoundInv
  <2>1. Busy = {}
    BY DEF Init, Busy
  <2> QED
    BY <2>1, FS_EmptySet DEF Init, BoundInv
<1> QED
  BY <1>1, <1>2, <1>4, <1>5 DEF IInv, QueueInv

(* The index a submitter computes is one of a queue.                       *)
LEMMA SlotIsAQueue == \A i \in Workers : NextSlot(i) \in Workers
BY DEF NextSlot, Workers

-----------------------------------------------------------------------------
(* The three steps of submit.                                              *)
LEMMA LoadIndexInv == ASSUME IInv, NEW t \in Submitters, LoadIndex(t) PROVE IInv'
<1>1. /\ sub[t] = "idle" /\ sub' = [sub EXCEPT ![t] = "store"]
      /\ entered + Cardinality(Busy) < MaxTasks
      /\ slot' = [slot EXCEPT ![t] = NextSlot(index)]
      /\ UNCHANGED <<index, ques, done, worker, entered, finished>>
  BY DEF LoadIndex, Busy
<1>2. TypeOK'
  BY <1>1, SlotIsAQueue DEF IInv, TypeOK, worker
<1>3. Busy' = Busy \cup {t} /\ t \notin Busy
  BY <1>1 DEF Busy, IInv, TypeOK
<1>4. IsFiniteSet(Busy') /\ Cardinality(Busy') = Cardinality(Busy) + 1
  BY <1>3, FS_AddElement DEF IInv, BoundInv
<1>5. BoundInv'
  BY <1>1, <1>4, FS_CardinalityType DEF BoundInv, IInv, TypeOK
<1> QED
  BY <1>1, <1>2, <1>5 DEF IInv, QueueInv, PlaceInv, Waiting, worker

LEMMA StoreIndexInv == ASSUME IInv, NEW t \in Submitters, StoreIndex(t) PROVE IInv'
<1>1. /\ sub[t] = "store" /\ sub' = [sub EXCEPT ![t] = "push"]
      /\ index' = slot[t]
      /\ UNCHANGED <<slot, ques, done, worker, entered, finished>>
  BY DEF StoreIndex
<1>2. TypeOK'
  BY <1>1 DEF IInv, TypeOK, worker
<1>3. Busy' = Busy
  BY <1>1 DEF Busy, IInv, TypeOK
<1> QED
  BY <1>1, <1>2, <1>3 DEF IInv, QueueInv, PlaceInv, BoundInv, Waiting, worker

LEMMA PushInv ==
  ASSUME IInv, NEW t \in Submitters, Push(t)
  PROVE  IInv' /\ entered < MaxTasks /\ Waiting' = Waiting \cup {entered + 1}
<1> DEFINE s == slot[t]
           k == entered + 1
<1>1. /\ sub[t] = "push" /\ sub' = [sub EXCEPT ![t] = "idle"]
      /\ entered' = k /\ ques' = [ques EXCEPT ![s] = Append(ques[s], k)]
      /\ UNCHANGED <<index, slot, done, worker, finished>>
  BY DEF Push
<1>2. s \in Workers /\ ques \in [Workers -> Seq(Tasks)] /\ entered \in Nat
  BY DEF IInv, TypeOK
<1>3. BoundInv' /\ entered < MaxTasks
  <2>1. Busy' = Busy \ {t} /\ t \in Busy /\ IsFiniteSet(Busy)
    BY <1>1 DEF Busy, IInv, TypeOK, BoundInv
  <2>2. /\ IsFiniteSet(Busy') /\ Cardinality(Busy') = Cardinality(Busy) - 1
        /\ Cardinality(Busy) \in Nat /\ Cardinality(Busy') \in Nat
    BY <2>1, FS_RemoveElement, FS_CardinalityType
  <2> QED
    BY <1>1, <1>2, <2>2 DEF BoundInv, IInv
<1>4. k \in Tasks /\ k \notin 1..entered /\ k # NoTask
  BY <1>2, <1>3
<1>5. k \notin Waiting /\ k \notin finished /\ \A w \in Workers : task[w] # k
  BY <1>4 DEF IInv, PlaceInv
<1>6. \A i \in Workers : k \notin ToSet(ques[i])
  BY <1>5 DEF Waiting
<1>7. /\ Append(ques[s], k) \in Seq(Tasks) /\ IsInjective(Append(ques[s], k))
      /\ ToSet(Append(ques[s], k)) = ToSet(ques[s]) \cup {k}
  BY <1>2, <1>4, <1>6, AppendNew DEF IInv, QueueInv
<1>8. ques'[s] = Append(ques[s], k) /\ \A i \in Workers \ {s} : ques'[i] = ques[i]
  BY <1>1, <1>2
<1>9. ToSet(ques'[s]) = ToSet(ques[s]) \cup {k} /\ \A i \in Workers \ {s} : ToSet(ques'[i]) = ToSet(ques[i])
  BY <1>7, <1>8
<1>10. Waiting' = Waiting \cup {k}
  BY <1>2, <1>9 DEF Waiting
<1>11. TypeOK'
  <2>1. ques' \in [Workers -> Seq(Tasks)] /\ entered' \in 0..MaxTasks
    BY <1>1, <1>2, <1>3, <1>7
  <2> QED
    BY <1>1, <2>1 DEF IInv, TypeOK, worker
<1>12. QueueInv'
  <2>1. \A i \in Workers : IsInjective(ques'[i])
    BY <1>7, <1>8 DEF IInv, QueueInv
  <2>2. \A i, j \in Workers : i # j => ToSet(ques'[i]) \cap ToSet(ques'[j]) = {}
    BY <1>6, <1>9 DEF IInv, QueueInv
  <2> QED
    BY <2>1, <2>2 DEF QueueInv
<1>13. PlaceInv'
  <2>1. \A j \in 1..entered : j \in 1..k
    BY <1>2
  <2>2. Waiting' \subseteq 1..entered' /\ finished' \subseteq 1..entered'
    BY <1>1, <1>2, <1>10, <2>1 DEF IInv, PlaceInv
  <2> QED
    BY <1>1, <1>5, <1>10, <2>1, <2>2 DEF IInv, PlaceInv, worker
<1> QED
  BY <1>3, <1>10, <1>11, <1>12, <1>13 DEF IInv

-----------------------------------------------------------------------------
(* However a task leaves a queue, it is in the worker's hands after it.    *)
LEMMA TakeInv ==
  ASSUME IInv, NEW w \in Workers, NEW i \in Workers, NEW k, NEW rest \in Seq(Tasks),
         at[w] \in {"own", "scan"}, Take(w, i, k, rest),
         k \in ToSet(ques[i]), IsInjective(rest), ToSet(rest) = ToSet(ques[i]) \ {k}
  PROVE  /\ IInv' /\ task[w] = NoTask /\ task' = [task EXCEPT ![w] = k]
         /\ k \in Waiting /\ Waiting' = Waiting \ {k}
         /\ UNCHANGED <<entered, finished>>
<1>1. /\ ques' = [ques EXCEPT ![i] = rest] /\ task' = [task EXCEPT ![w] = k]
      /\ at' = [at EXCEPT ![w] = "found"]
      /\ UNCHANGED <<done, submit, scan, fails, backoff, entered, finished>>
  BY DEF Take, Goto
<1>2. task[w] = NoTask
  BY DEF IInv, PlaceInv
<1>3. k \in Waiting /\ k \in 1..entered /\ k \in Tasks
  <2>1. k \in Waiting
    BY DEF Waiting
  <2>2. k \in 1..entered /\ entered \in 0..MaxTasks
    BY <2>1 DEF IInv, PlaceInv, TypeOK
  <2> QED
    BY <2>1, <2>2
<1>4. ques'[i] = rest /\ \A j \in Workers \ {i} : ques'[j] = ques[j]
  BY <1>1 DEF IInv, TypeOK
<1>5. ToSet(ques'[i]) = ToSet(ques[i]) \ {k} /\ \A j \in Workers \ {i} : ToSet(ques'[j]) = ToSet(ques[j])
  BY <1>4
<1>6. \A j \in Workers \ {i} : k \notin ToSet(ques[j])
  BY DEF IInv, QueueInv
<1>7. Waiting' = Waiting \ {k}
  BY <1>5, <1>6 DEF Waiting
<1>8. TypeOK'
  BY <1>1, <1>3 DEF IInv, TypeOK, submit
<1>9. QueueInv'
  BY <1>4, <1>5 DEF IInv, QueueInv
<1>10. BoundInv'
  BY <1>1 DEF IInv, BoundInv, Busy, submit
<1>11. PlaceInv'
  <2>1. \A v \in Workers \ {w} : task'[v] = task[v] /\ at'[v] = at[v] /\ task[v] # k
    BY <1>1, <1>3 DEF IInv, PlaceInv, TypeOK
  <2>2. task'[w] = k /\ at'[w] = "found" /\ k # NoTask /\ k \notin finished
    BY <1>1, <1>3 DEF IInv, PlaceInv, TypeOK
  <2>3. Waiting' \subseteq 1..entered' /\ finished' \subseteq 1..entered' /\ Waiting' \cap finished' = {}
    BY <1>1, <1>7 DEF IInv, PlaceInv
  <2>4. \A v \in Workers :
          /\ task'[v] # NoTask => task'[v] \in 1..entered'
          /\ task'[v] \notin Waiting' /\ task'[v] \notin finished'
          /\ task'[v] # NoTask <=> at'[v] \in {"found", "run"}
    BY <1>1, <1>3, <1>7, <2>1, <2>2 DEF IInv, PlaceInv
  <2>5. \A u, v \in Workers : u # v /\ task'[u] # NoTask => task'[u] # task'[v]
    BY <2>1, <2>2 DEF IInv, PlaceInv
  <2> QED
    BY <2>3, <2>4, <2>5 DEF PlaceInv
<1> QED
  BY <1>1, <1>2, <1>3, <1>7, <1>8, <1>9, <1>10, <1>11 DEF IInv

LEMMA TakenInv ==
  ASSUME IInv, NEW w \in Workers, PopOwn(w) \/ Steal(w)
  PROVE  IInv' /\ \E k \in Waiting :
            /\ task[w] = NoTask /\ task' = [task EXCEPT ![w] = k]
            /\ Waiting' = Waiting \ {k}
            /\ UNCHANGED <<entered, finished>>
<1>1. CASE PopOwn(w)
  <2>1. /\ at[w] \in {"own", "scan"} /\ ques[w] \in Seq(Tasks) /\ ques[w] # <<>>
        /\ IsInjective(ques[w]) /\ Take(w, w, Head(ques[w]), Tail(ques[w]))
    BY <1>1 DEF PopOwn, IInv, TypeOK, QueueInv
  <2> QED
    BY <2>1, RemoveHead, TakeInv
<1>2. CASE Steal(w)
  <2> DEFINE q == ques[scan[w]]
  <2>1. scan[w] \in Workers
    BY <1>2 DEF Steal, Others
  <2>2. /\ at[w] \in {"own", "scan"} /\ q \in Seq(Tasks) /\ q # <<>>
        /\ IsInjective(q) /\ Take(w, scan[w], Last(q), Front(q))
    BY <1>2, <2>1 DEF Steal, StealNewest, IInv, TypeOK, QueueInv
  <2> QED
    BY <2>1, <2>2, RemoveLast, TakeInv
<1> QED
  BY <1>1, <1>2

LEMMA RunInv == ASSUME IInv, NEW w \in Workers, Run(w) PROVE IInv' /\ Waiting' = Waiting
<1>1. /\ at[w] = "run" /\ at' = [at EXCEPT ![w] = "loop"]
      /\ task' = [task EXCEPT ![w] = NoTask] /\ finished' = finished \cup {task[w]}
      /\ UNCHANGED <<ques, done, submit, scan, fails, backoff, entered>>
  BY DEF Run, Goto
<1>2. task[w] \in 1..entered /\ task[w] \in Tasks /\ task[w] \notin Waiting
  BY <1>1 DEF IInv, PlaceInv, TypeOK
<1>3. TypeOK'
  BY <1>1, <1>2 DEF IInv, TypeOK, submit
<1>4. Waiting' = Waiting /\ QueueInv' /\ BoundInv'
  BY <1>1 DEF Waiting, IInv, QueueInv, BoundInv, Busy, submit
<1>5. PlaceInv'
  <2>1. \A v \in Workers \ {w} : task'[v] = task[v] /\ at'[v] = at[v] /\ task[v] # task[w]
    BY <1>1, <1>2 DEF IInv, PlaceInv, TypeOK
  <2>2. task'[w] = NoTask /\ at'[w] = "loop"
    BY <1>1 DEF IInv, TypeOK
  <2>3. NoTask \notin Waiting /\ NoTask \notin finished
    BY DEF IInv, PlaceInv
  <2>4. Waiting' \subseteq 1..entered' /\ finished' \subseteq 1..entered' /\ Waiting' \cap finished' = {}
    BY <1>1, <1>2, <1>4 DEF IInv, PlaceInv
  <2>5. \A v \in Workers :
          /\ task'[v] # NoTask => task'[v] \in 1..entered'
          /\ task'[v] \notin Waiting' /\ task'[v] \notin finished'
          /\ task'[v] # NoTask <=> at'[v] \in {"found", "run"}
    BY <1>1, <1>2, <1>4, <2>1, <2>2, <2>3 DEF IInv, PlaceInv
  <2>6. \A u, v \in Workers : u # v /\ task'[u] # NoTask => task'[u] # task'[v]
    BY <2>1, <2>2 DEF IInv, PlaceInv
  <2> QED
    BY <2>4, <2>5, <2>6 DEF PlaceInv
<1> QED
  BY <1>3, <1>4, <1>5 DEF IInv

(* Every other step moves one worker between places of the same kind.      *)
LEMMA MoveInv ==
  ASSUME IInv, TypeOK', UNCHANGED <<ques, submit, task, entered, finished>>,
         NEW w \in Workers, NEW place, at' = [at EXCEPT ![w] = place],
         at[w] \in {"found", "run"} <=> place \in {"found", "run"}
  PROVE  IInv' /\ Waiting' = Waiting
<1>1. Waiting' = Waiting /\ QueueInv' /\ BoundInv'
  BY DEF Waiting, IInv, QueueInv, BoundInv, Busy, submit
<1>2. \A v \in Workers : at'[v] = IF v = w THEN place ELSE at[v]
  BY DEF IInv, TypeOK
<1>3. PlaceInv'
  BY <1>1, <1>2 DEF IInv, PlaceInv
<1> QED
  BY <1>1, <1>3 DEF IInv

Quiet(w) ==
    \/ LoopTest(w) \/ OwnEmpty(w) \/ ScanNext(w) \/ ScanEnds(w)
    \/ Found(w) \/ Yield(w) \/ BackOff(w) \/ Wake(w)

LEMMA QuietInv ==
  ASSUME IInv, (\E w \in Workers : Quiet(w)) \/ Destroy \/ UNCHANGED vars
  PROVE  IInv' /\ Waiting' = Waiting /\ UNCHANGED <<task, entered, finished>>
<1>0. TypeOK
  BY DEF IInv
<1> USE DEF Goto, submit, worker
<1>1. ASSUME NEW w \in Workers, LoopTest(w) PROVE IInv' /\ Waiting' = Waiting
  <2>1. TypeOK'
    BY <1>0, <1>1 DEF LoopTest, TypeOK
  <2> QED
    BY <1>1, <2>1, MoveInv DEF LoopTest
<1>2. ASSUME NEW w \in Workers, OwnEmpty(w) PROVE IInv' /\ Waiting' = Waiting
  <2>1. TypeOK'
    <3>1. scan' \in [Workers -> 0..PoolSize]
      BY <1>0, <1>2 DEF OwnEmpty, TypeOK
    <3> QED
      BY <1>0, <1>2, <3>1 DEF OwnEmpty, TypeOK
  <2> QED
    BY <1>2, <2>1, MoveInv DEF OwnEmpty
<1>3. ASSUME NEW w \in Workers, ScanNext(w) PROVE IInv' /\ Waiting' = Waiting
  <2>1. TypeOK'
    <3>1. scan' \in [Workers -> 0..PoolSize]
      <4>1. scan[w] + 1 \in 0..PoolSize
        BY <1>3 DEF ScanNext, Workers
      <4> QED
        BY <1>0, <1>3, <4>1 DEF ScanNext, TypeOK
    <3> QED
      BY <1>0, <1>3, <3>1 DEF ScanNext, TypeOK
  <2>2. at' = [at EXCEPT ![w] = at[w]]
    BY <1>0, <1>3 DEF ScanNext, TypeOK
  <2> QED
    BY <1>3, <2>1, <2>2, MoveInv DEF ScanNext
<1>4. ASSUME NEW w \in Workers, ScanEnds(w) PROVE IInv' /\ Waiting' = Waiting
  <2>1. TypeOK'
    BY <1>0, <1>4 DEF ScanEnds, TypeOK
  <2> QED
    BY <1>4, <2>1, MoveInv DEF ScanEnds
<1>5. ASSUME NEW w \in Workers, Found(w) PROVE IInv' /\ Waiting' = Waiting
  <2>1. TypeOK'
    <3>1. fails' \in [Workers -> 0..(MaxFail + 1)]
      BY <1>0, <1>5 DEF Found, TypeOK
    <3>2. backoff' \in [Workers -> Nat]
      BY <1>0, <1>5 DEF Found, ResetBackOff, TypeOK
    <3> QED
      BY <1>0, <1>5, <3>1, <3>2 DEF Found, TypeOK
  <2> QED
    BY <1>5, <2>1, MoveInv DEF Found, ResetBackOff
<1>6. ASSUME NEW w \in Workers, Yield(w) PROVE IInv' /\ Waiting' = Waiting
  <2>1. TypeOK'
    <3>1. fails' \in [Workers -> 0..(MaxFail + 1)]
      <4>1. fails[w] + 1 \in 0..(MaxFail + 1)
        <5>1. fails[w] \in 0..(MaxFail + 1) /\ fails[w] + 1 <= MaxFail
          BY <1>0, <1>6 DEF Yield, TypeOK
        <5> QED
          BY <5>1
      <4> QED
        BY <1>0, <1>6, <4>1 DEF Yield, TypeOK
    <3> QED
      BY <1>0, <1>6, <3>1 DEF Yield, TypeOK
  <2> QED
    BY <1>6, <2>1, MoveInv DEF Yield
<1>7. ASSUME NEW w \in Workers, BackOff(w) PROVE IInv' /\ Waiting' = Waiting
  <2>1. TypeOK'
    <3>1. fails' \in [Workers -> 0..(MaxFail + 1)]
      BY <1>0, <1>7 DEF BackOff, TypeOK
    <3> QED
      BY <1>0, <1>7, <3>1 DEF BackOff, TypeOK
  <2> QED
    BY <1>7, <2>1, MoveInv DEF BackOff
<1>8. ASSUME NEW w \in Workers, Wake(w) PROVE IInv' /\ Waiting' = Waiting
  <2>1. TypeOK'
    <3>1. backoff' \in [Workers -> Nat]
      <4>1. backoff[w] * 2 \in Nat /\ MaxBackOff \in Nat
        BY <1>0 DEF TypeOK
      <4> QED
        BY <1>0, <1>8, <4>1 DEF Wake, TypeOK
    <3> QED
      BY <1>0, <1>8, <3>1 DEF Wake, TypeOK
  <2> QED
    BY <1>8, <2>1, MoveInv DEF Wake
<1>9. CASE Destroy \/ UNCHANGED vars
  <2>1. UNCHANGED <<ques, submit, at, task, entered, finished>>
    BY <1>9 DEF Destroy, vars
  <2>2. TypeOK'
    BY <1>0, <1>9 DEF Destroy, vars, TypeOK
  <2> QED
    BY <2>1, <2>2 DEF IInv, QueueInv, PlaceInv, BoundInv, Busy, Waiting
<1>10. UNCHANGED <<task, entered, finished>>
  BY DEF Quiet, LoopTest, OwnEmpty, ScanNext, ScanEnds, Found, Yield, BackOff, Wake, Destroy, vars
<1> QED
  BY <1>1, <1>2, <1>3, <1>4, <1>5, <1>6, <1>7, <1>8, <1>9, <1>10 DEF Quiet

LEMMA NextIInv == IInv /\ [Next]_vars => IInv'
BY LoadIndexInv, StoreIndexInv, PushInv, TakenInv, RunInv, QuietInv DEF Next, Quiet

-----------------------------------------------------------------------------
(* In every reachable state a task is in one place.                        *)
THEOREM Invariance == Spec => []IInv
<1> QED
  BY InitIInv, NextIInv, PTL DEF Spec

(* The type invariant: no index is out of range, and tasks stay within the *)
(* bound although submit reads and stores the index in separate steps.     *)
THEOREM TypeCorrect == Spec => []TypeOK
<1>1. IInv => TypeOK
  BY DEF IInv
<1> QED
  BY <1>1, Invariance, PTL

-----------------------------------------------------------------------------
(* Push is Enter, PopOwn and Steal are Begin, Run is Finish.               *)
LEMMA InitMapped == Init => E!Init
<1> SUFFICES ASSUME Init PROVE Waiting = {} /\ task = [w \in Workers |-> NoTask] /\ entered = 0 /\ finished = {}
  BY DEF E!Init, Waiting
<1>1. \A i \in Workers : ToSet(ques[i]) = {}
  BY DEF Init, ToSet
<1> QED
  BY <1>1 DEF Init, Waiting

LEMMA StepMapped == IInv /\ [Next]_vars => [E!Next]_(E!executorVars)
<1> SUFFICES ASSUME IInv, [Next]_vars PROVE E!Next \/ UNCHANGED E!executorVars
  OBVIOUS
<1> USE DEF Waiting
<1>1. ASSUME NEW t \in Submitters, Push(t) PROVE E!Next
  BY <1>1, PushInv DEF Push, worker, E!Next, E!Enter
<1>2. ASSUME NEW w \in Workers, PopOwn(w) \/ Steal(w) PROVE E!Next
  BY <1>2, TakenInv DEF E!Next, E!Begin
<1>3. ASSUME NEW w \in Workers, Run(w) PROVE E!Next
  <2>1. task[w] # NoTask /\ task[w] \notin finished
    BY <1>3 DEF Run, IInv, PlaceInv
  <2> QED
    BY <1>3, <2>1, RunInv DEF Run, E!Next, E!Finish
<1>4. ASSUME NEW t \in Submitters, LoadIndex(t) \/ StoreIndex(t) PROVE UNCHANGED E!executorVars
  BY <1>4 DEF LoadIndex, StoreIndex, worker, E!executorVars
<1> QED
  BY <1>1, <1>2, <1>3, <1>4, QuietInv DEF Next, Quiet, E!executorVars

(* Every task that was submitted runs at most once, on one worker, however *)
(* pops and steals of different queues interleave.                         *)
THEOREM Refinement == Spec => ImplementsExecutor
<1> QED
  BY InitMapped, StepMapped, Invariance, PTL DEF Spec, ImplementsExecutor, E!Spec
=============================================================================
