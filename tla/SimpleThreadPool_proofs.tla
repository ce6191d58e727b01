---------------------- MODULE SimpleThreadPool_proofs ----------------------
(***************************************************************************)
(* SimpleThreadPool, for every finite set of workers, all submitters and   *)
(* every number of tasks: it implements an Executor that starts tasks in   *)
(* the order in which they were submitted.                                 *)
(***************************************************************************)
EXTENDS SimpleThreadPool, FiniteSetTheorems, TLAPS

USE PoolAssumption DEF Tasks, NoTask

-----------------------------------------------------------------------------
(* A task that was submitted is in one place: in the queue, in the hands   *)
(* of one worker, or finished.  The queue is sorted.                       *)
Queued == {tasks[i] : i \in DOMAIN tasks}

PlaceInv ==
    /\ Queued \subseteq 1..entered /\ finished \subseteq 1..entered
    /\ \A w \in Workers : task[w] # NoTask => task[w] \in 1..entered
    /\ \A i, j \in 1..Len(tasks) : i < j => tasks[i] < tasks[j]
    /\ Queued \cap finished = {}
    /\ \A w \in Workers : task[w] \notin Queued /\ task[w] \notin finished
    /\ \A v, w \in Workers : v # w /\ task[v] # NoTask => task[v] # task[w]
    /\ \A w \in Workers : task[w] # NoTask <=> at[w] \in {"found", "run"}

(* m_threadNum counts the workers that are not running a task.             *)
Running == {w \in Workers : at[w] = "run"}
IdleInv == idle = Cardinality(Workers) - Cardinality(Running)

Places == {"loop", "lock", "test", "doze", "wait", "take", "found", "run", "ended"}

Types ==
    /\ tasks \in Seq(Tasks)
    /\ stop \in BOOLEAN /\ joining \in BOOLEAN
    /\ holder \in Workers \cup {Nobody}
    /\ notify \in SUBSET Submitters
    /\ at \in [Workers -> Places]
    /\ task \in [Workers -> Tasks \cup {NoTask}]
    /\ entered \in 0..MaxTasks /\ finished \in SUBSET Tasks
    /\ missed \in SUBSET Workers

IInv == Types /\ PlaceInv /\ IdleInv

-----------------------------------------------------------------------------
LEMMA RunningFinite == IsFiniteSet(Running) /\ Cardinality(Running) \in 0..Cardinality(Workers)
<1>1. Running \in SUBSET Workers
  BY DEF Running
<1> QED
  BY <1>1, FS_Subset, FS_CardinalityType

(* The idle count is one of the type invariant's bounds.                   *)
LEMMA TypesAreOK == IInv => TypeOK
<1> SUFFICES ASSUME IInv PROVE TypeOK
  OBVIOUS
<1>1. idle \in 0..Cardinality(Workers)
  BY RunningFinite, FS_CardinalityType DEF IInv, IdleInv
<1> QED
  BY <1>1 DEF IInv, Types, TypeOK, Places

LEMMA InitIInv == Init => IInv
<1> SUFFICES ASSUME Init PROVE IInv
  OBVIOUS
<1>1. Types
  <2>1. tasks \in Seq(Tasks) /\ entered \in 0..MaxTasks /\ finished \in SUBSET Tasks
    BY DEF Init
  <2> QED
    BY <2>1 DEF Init, Types, Places
<1>2. PlaceInv
  BY DEF Init, PlaceInv, Queued
<1>3. IdleInv
  <2>1. Running = {}
    BY DEF Init, Running
  <2> QED
    BY <2>1, FS_EmptySet, FS_CardinalityType DEF Init, IdleInv
<1> QED
  BY <1>1, <1>2, <1>3 DEF IInv

-----------------------------------------------------------------------------
(* Submitting appends the newest task ...                                  *)
LEMMA SubmitPlaces ==
  ASSUME IInv, NEW t \in Submitters, Submit(t)
  PROVE  IInv' /\ Queued' = Queued \cup {entered + 1}
<1>1. /\ entered' = entered + 1 /\ entered' \in 1..MaxTasks
      /\ tasks' = Append(tasks, entered + 1)
      /\ UNCHANGED <<idle, at, task, finished>>
  BY DEF Submit, IInv, Types
<1>2. /\ tasks' \in Seq(Tasks) /\ Len(tasks') = Len(tasks) + 1 /\ Len(tasks) \in Nat
      /\ \A i \in 1..Len(tasks) : tasks'[i] = tasks[i]
      /\ tasks'[Len(tasks) + 1] = entered + 1
      /\ DOMAIN tasks = 1..Len(tasks) /\ DOMAIN tasks' = 1..(Len(tasks) + 1)
  BY <1>1 DEF IInv, Types
<1>3. Queued' = Queued \cup {entered + 1}
  BY <1>2 DEF Queued
<1>4. Types'
  BY <1>1, <1>2 DEF IInv, Types, Submit
<1>5. PlaceInv'
  <2>1. entered \in Nat /\ entered + 1 \notin Queued /\ entered + 1 \notin finished
    BY DEF IInv, PlaceInv, Types
  <2>2. \A i, j \in 1..Len(tasks') : i < j => tasks'[i] < tasks'[j]
    <3>1. \A i \in 1..Len(tasks) : tasks[i] \in 1..entered
      BY <1>2 DEF IInv, PlaceInv, Queued
    <3>2. \A i, j \in 1..Len(tasks) : i < j => tasks[i] < tasks[j]
      BY DEF IInv, PlaceInv
    <3> SUFFICES ASSUME NEW i \in 1..Len(tasks), NEW j \in 1..(Len(tasks) + 1), i < j
                 PROVE  tasks'[i] < tasks'[j]
      BY <1>2
    <3>3. CASE j = Len(tasks) + 1
      <4>1. tasks'[i] = tasks[i] /\ tasks'[j] = entered + 1 /\ tasks[i] \in 1..entered
        BY <1>2, <3>1, <3>3
      <4> QED
        BY <2>1, <4>1
    <3>4. CASE j # Len(tasks) + 1
      <4>1. j \in 1..Len(tasks) /\ tasks'[i] = tasks[i] /\ tasks'[j] = tasks[j]
        BY <1>2, <3>4
      <4> QED
        BY <3>2, <4>1
    <3> QED
      BY <3>3, <3>4
  <2>3. \A w \in Workers : task[w] # entered + 1
    BY <2>1 DEF IInv, PlaceInv
  <2> QED
    BY <1>1, <1>3, <2>1, <2>2, <2>3 DEF IInv, PlaceInv
<1>6. IdleInv'
  BY <1>1 DEF IInv, IdleInv, Running
<1> QED
  BY <1>3, <1>4, <1>5, <1>6 DEF IInv

(* ... and taking removes the oldest.                                      *)
LEMMA TakePlaces ==
  ASSUME IInv, NEW w \in Workers, Take(w)
  PROVE  /\ IInv'
         /\ task[w] = NoTask /\ task' = [task EXCEPT ![w] = Head(tasks)]
         /\ Head(tasks) \in Queued /\ \A j \in Queued : Head(tasks) <= j
         /\ Queued' = Queued \ {Head(tasks)}
<1> DEFINE k == Head(tasks)
<1>1. /\ at[w] = "take" /\ tasks # <<>> /\ tasks' = Tail(tasks)
      /\ task' = [task EXCEPT ![w] = k] /\ at' = [at EXCEPT ![w] = "found"]
      /\ UNCHANGED <<idle, entered, finished>>
  BY DEF Take, PopFront, Goto
<1>2. task[w] = NoTask
  BY <1>1 DEF IInv, PlaceInv
<1>3. /\ Len(tasks) \in Nat \ {0} /\ k = tasks[1] /\ k \in Tasks
      /\ tasks' \in Seq(Tasks) /\ Len(tasks') = Len(tasks) - 1
      /\ \A i \in 1..(Len(tasks) - 1) : tasks'[i] = tasks[i + 1]
      /\ DOMAIN tasks = 1..Len(tasks) /\ DOMAIN tasks' = 1..(Len(tasks) - 1)
      /\ \A i \in 1..Len(tasks) : tasks[i] \in Nat
  BY <1>1 DEF IInv, Types
<1>4. k \in Queued /\ \A i \in 2..Len(tasks) : k < tasks[i]
  <2>1. k \in Queued
    <3>1. 1 \in DOMAIN tasks
      BY <1>3
    <3> QED
      BY <1>3, <3>1 DEF Queued
  <2>2. \A i, j \in 1..Len(tasks) : i < j => tasks[i] < tasks[j]
    BY DEF IInv, PlaceInv
  <2>3. ASSUME NEW i \in 2..Len(tasks) PROVE k < tasks[i]
    <3>1. 1 \in 1..Len(tasks) /\ i \in 1..Len(tasks) /\ 1 < i
      BY <1>3
    <3> QED
      BY <1>3, <2>2, <3>1
  <2> QED
    BY <2>1, <2>3
<1>5. \A j \in Queued : k <= j
  <2> SUFFICES ASSUME NEW i \in 1..Len(tasks) PROVE k <= tasks[i]
    BY <1>3 DEF Queued
  <2>1. CASE i = 1
    BY <1>3, <2>1
  <2>2. CASE i # 1
    BY <1>3, <1>4, <2>2
  <2> QED
    BY <2>1, <2>2
<1>6. Queued' = Queued \ {k}
  <2>1. ASSUME NEW j \in Queued, j # k PROVE j \in Queued'
    <3>1. PICK i \in 2..Len(tasks) : j = tasks[i]
      BY <1>3, <2>1 DEF Queued
    <3>2. i - 1 \in 1..(Len(tasks) - 1) /\ tasks'[i - 1] = j
      BY <1>3, <3>1
    <3> QED
      BY <1>3, <3>2 DEF Queued
  <2>2. ASSUME NEW j \in Queued' PROVE j \in Queued \ {k}
    <3>1. PICK i \in 1..(Len(tasks) - 1) : j = tasks'[i]
      BY <1>3, <2>2 DEF Queued
    <3>2. i + 1 \in 2..Len(tasks) /\ j = tasks[i + 1]
      BY <1>3, <3>1
    <3>3. k < j /\ k \in Nat /\ j \in Nat
      BY <1>3, <1>4, <3>2
    <3>4. j \in Queued
      <4>1. i + 1 \in DOMAIN tasks
        BY <1>3, <3>2
      <4> QED
        BY <3>2, <4>1 DEF Queued
    <3> QED
      BY <3>3, <3>4
  <2> QED
    BY <2>1, <2>2
<1>7. Types'
  BY <1>1, <1>3 DEF IInv, Types, Take, Places
<1>8. PlaceInv'
  <2>1. k \in 1..entered /\ k # NoTask /\ k \notin finished
    BY <1>3, <1>4 DEF IInv, PlaceInv
  <2>2. \A v \in Workers \ {w} : task'[v] = task[v] /\ at'[v] = at[v] /\ task[v] # k
    BY <1>1, <1>4 DEF IInv, PlaceInv, Types
  <2>3. task'[w] = k /\ at'[w] = "found"
    BY <1>1 DEF IInv, Types
  <2>4. \A i, j \in 1..Len(tasks') : i < j => tasks'[i] < tasks'[j]
    <3>1. \A i, j \in 1..Len(tasks) : i < j => tasks[i] < tasks[j]
      BY DEF IInv, PlaceInv
    <3> SUFFICES ASSUME NEW i \in 1..(Len(tasks) - 1), NEW j \in 1..(Len(tasks) - 1), i < j
                 PROVE  tasks'[i] < tasks'[j]
      BY <1>3
    <3>2. i + 1 \in 1..Len(tasks) /\ j + 1 \in 1..Len(tasks) /\ i + 1 < j + 1
      BY <1>3
    <3> QED
      BY <1>3, <3>1, <3>2
  <2>5. Queued' \subseteq 1..entered' /\ finished' \subseteq 1..entered' /\ Queued' \cap finished' = {}
    BY <1>1, <1>6 DEF IInv, PlaceInv
  <2>6. \A v \in Workers : task'[v] # NoTask => task'[v] \in 1..entered'
    BY <1>1, <2>1, <2>2, <2>3 DEF IInv, PlaceInv
  <2>7. \A v \in Workers : task'[v] \notin Queued' /\ task'[v] \notin finished'
    BY <1>1, <1>6, <2>1, <2>2, <2>3 DEF IInv, PlaceInv
  <2>8. \A u, v \in Workers : u # v /\ task'[u] # NoTask => task'[u] # task'[v]
    BY <2>2, <2>3 DEF IInv, PlaceInv
  <2>9. \A v \in Workers : task'[v] # NoTask <=> at'[v] \in {"found", "run"}
    BY <2>1, <2>2, <2>3 DEF IInv, PlaceInv
  <2> QED
    BY <2>4, <2>5, <2>6, <2>7, <2>8, <2>9 DEF PlaceInv
<1>9. IdleInv'
  <2>1. Running' = Running
    BY <1>1 DEF Running, IInv, Types
  <2> QED
    BY <1>1, <2>1 DEF IInv, IdleInv
<1> QED
  BY <1>1, <1>2, <1>4, <1>5, <1>6, <1>7, <1>8, <1>9 DEF IInv

(* Starting a task changes the count and finishing it changes it back.     *)
LEMMA StartPlaces == ASSUME IInv, NEW w \in Workers, Start(w) PROVE IInv'
<1>1. /\ at[w] = "found" /\ at' = [at EXCEPT ![w] = "run"] /\ idle' = idle - 1
      /\ UNCHANGED <<tasks, stop, holder, notify, task, joining, entered, finished, missed>>
  BY DEF Start, Goto
<1>2. Types'
  BY <1>1 DEF IInv, Types, Places
<1>3. PlaceInv'
  <2>1. Queued' = Queued
    BY <1>1 DEF Queued
  <2> QED
    BY <1>1, <2>1 DEF IInv, PlaceInv, Types
<1>4. IdleInv'
  <2>1. Running' = Running \cup {w} /\ w \notin Running
    BY <1>1 DEF Running, IInv, Types
  <2>2. Cardinality(Running') = Cardinality(Running) + 1
    BY <2>1, RunningFinite, FS_AddElement
  <2> QED
    BY <1>1, <2>2, RunningFinite, FS_CardinalityType DEF IInv, IdleInv
<1> QED
  BY <1>2, <1>3, <1>4 DEF IInv

LEMMA RunPlaces == ASSUME IInv, NEW w \in Workers, Run(w) PROVE IInv' /\ Queued' = Queued
<1>1. /\ at[w] = "run" /\ at' = [at EXCEPT ![w] = "loop"] /\ idle' = idle + 1
      /\ task' = [task EXCEPT ![w] = NoTask] /\ finished' = finished \cup {task[w]}
      /\ UNCHANGED <<tasks, stop, holder, notify, joining, entered, missed>>
  BY DEF Run, Goto, IdleAgain
<1>2. task[w] \in 1..entered /\ task[w] \in Tasks
  BY <1>1 DEF IInv, PlaceInv, Types
<1>3. Types'
  BY <1>1, <1>2 DEF IInv, Types, Places
<1>4. Queued' = Queued
  BY <1>1 DEF Queued
<1>5. PlaceInv'
  <2>1. \A v \in Workers \ {w} : task'[v] = task[v] /\ at'[v] = at[v] /\ task[v] # task[w]
    BY <1>1, <1>2 DEF IInv, PlaceInv, Types
  <2>2. task'[w] = NoTask /\ at'[w] = "loop" /\ task[w] \notin Queued
    BY <1>1 DEF IInv, PlaceInv, Types
  <2>3. /\ Queued' \subseteq 1..entered' /\ finished' \subseteq 1..entered'
        /\ Queued' \cap finished' = {}
    BY <1>1, <1>2, <1>4, <2>2 DEF IInv, PlaceInv
  <2>4. \A v \in Workers :
          /\ task'[v] # NoTask => task'[v] \in 1..entered'
          /\ task'[v] \notin Queued' /\ task'[v] \notin finished'
          /\ task'[v] # NoTask <=> at'[v] \in {"found", "run"}
    <3>1. NoTask \notin Queued /\ NoTask \notin finished
      BY DEF IInv, PlaceInv
    <3> QED
      BY <1>1, <1>2, <1>4, <2>1, <2>2, <3>1 DEF IInv, PlaceInv
  <2>5. \A u, v \in Workers : u # v /\ task'[u] # NoTask => task'[u] # task'[v]
    BY <2>1, <2>2 DEF IInv, PlaceInv
  <2>6. \A i, j \in 1..Len(tasks') : i < j => tasks'[i] < tasks'[j]
    BY <1>1 DEF IInv, PlaceInv
  <2> QED
    BY <2>3, <2>4, <2>5, <2>6 DEF PlaceInv
<1>6. IdleInv'
  <2>1. Running' = Running \ {w} /\ w \in Running
    BY <1>1 DEF Running, IInv, Types
  <2>2. Cardinality(Running') = Cardinality(Running) - 1
    BY <2>1, RunningFinite, FS_RemoveElement
  <2> QED
    BY <1>1, <2>2, RunningFinite, FS_CardinalityType DEF IInv, IdleInv
<1> QED
  BY <1>3, <1>4, <1>5, <1>6 DEF IInv

(* Every other step moves workers between places where they have no task.  *)
LEMMA MovePlaces ==
  ASSUME IInv, UNCHANGED <<tasks, idle, task, entered, finished>>,
         stop' \in BOOLEAN, joining' \in BOOLEAN, holder' \in Workers \cup {Nobody},
         notify' \in SUBSET Submitters, missed' \in SUBSET Workers,
         at' \in [Workers -> Places],
         \A w \in Workers : \/ at'[w] = at[w]
                            \/ {at[w], at'[w]} \cap {"found", "run"} = {}
  PROVE  IInv' /\ Queued' = Queued
<1>1. Types'
  BY DEF IInv, Types
<1>2. Queued' = Queued
  BY DEF Queued
<1>3. PlaceInv'
  BY <1>2 DEF IInv, PlaceInv
<1>4. IdleInv'
  <2>1. Running' = Running
    BY DEF Running
  <2> QED
    BY <2>1 DEF IInv, IdleInv
<1> QED
  BY <1>1, <1>2, <1>3, <1>4 DEF IInv

(* Waking moves workers from "wait" to "lock".                             *)
LEMMA AwakeMoves ==
  ASSUME IInv, NEW W \in SUBSET Waiting, Awake(W)
  PROVE  /\ at' \in [Workers -> Places]
         /\ \A w \in Workers : \/ at'[w] = at[w]
                               \/ {at[w], at'[w]} \cap {"found", "run"} = {}
BY DEF Awake, Waiting, IInv, Types, Places

LEMMA OtherSteps ==
  ASSUME IInv,
         \/ \E t \in Submitters : Notify(t)
         \/ \E w \in Workers :
              LoopTest(w) \/ Lock(w) \/ Test(w) \/ Sleep(w) \/ WakeAlone(w) \/ NoneLeft(w)
         \/ SetStop \/ NotifyStop \/ UNCHANGED vars
  PROVE  IInv' /\ Queued' = Queued /\ UNCHANGED <<task, entered, finished>>
<1> USE DEF Goto
<1>0. Types
  BY DEF IInv
<1>1. ASSUME NEW t \in Submitters, Notify(t) PROVE IInv' /\ Queued' = Queued
  <2>1. \E W \in SUBSET Waiting : Awake(W)
    BY <1>1 DEF Notify, WakeOne
  <2> QED
    BY <1>0, <1>1, <2>1, AwakeMoves, MovePlaces DEF Types, Notify
<1>2. ASSUME NEW w \in Workers, LoopTest(w) PROVE IInv' /\ Queued' = Queued
  BY <1>0, <1>2, MovePlaces DEF Types, Places, LoopTest
<1>3. ASSUME NEW w \in Workers, Lock(w) PROVE IInv' /\ Queued' = Queued
  BY <1>0, <1>3, MovePlaces DEF Types, Places, Lock
<1>4. ASSUME NEW w \in Workers, Test(w) PROVE IInv' /\ Queued' = Queued
  BY <1>0, <1>4, MovePlaces DEF Types, Places, Test
<1>5. ASSUME NEW w \in Workers, Sleep(w) PROVE IInv' /\ Queued' = Queued
  BY <1>0, <1>5, MovePlaces DEF Types, Places, Sleep
<1>6. ASSUME NEW w \in Workers, WakeAlone(w) PROVE IInv' /\ Queued' = Queued
  <2>1. {w} \in SUBSET Waiting /\ Awake({w})
    BY <1>6 DEF WakeAlone
  <2> QED
    BY <1>0, <1>6, <2>1, AwakeMoves, MovePlaces DEF Types, WakeAlone
<1>7. ASSUME NEW w \in Workers, NoneLeft(w) PROVE IInv' /\ Queued' = Queued
  BY <1>0, <1>7, MovePlaces DEF Types, Places, NoneLeft
<1>8. CASE SetStop
  BY <1>0, <1>8, MovePlaces DEF Types, SetStop
<1>9. CASE NotifyStop
  <2>1. Waiting \in SUBSET Waiting /\ Awake(Waiting)
    BY <1>9 DEF NotifyStop, WakeAll
  <2> QED
    BY <1>0, <1>9, <2>1, AwakeMoves, MovePlaces DEF Types, NotifyStop
<1>10. CASE UNCHANGED vars
  BY <1>0, <1>10, MovePlaces DEF Types, vars
<1>11. UNCHANGED <<task, entered, finished>>
  BY DEF Notify, LoopTest, Lock, Test, Sleep, WakeAlone, NoneLeft, SetStop, NotifyStop, vars
<1> QED
  BY <1>1, <1>2, <1>3, <1>4, <1>5, <1>6, <1>7, <1>8, <1>9, <1>10, <1>11

LEMMA NextIInv == IInv /\ [Next]_vars => IInv'
BY SubmitPlaces, TakePlaces, StartPlaces, RunPlaces, OtherSteps DEF Next

-----------------------------------------------------------------------------
(* In every reachable state a task is in one place and m_threadNum counts  *)
(* the workers that are free.                                              *)
THEOREM Invariance == Spec => []IInv
<1> QED
  BY InitIInv, NextIInv, PTL DEF Spec

(* The type invariant, with the bounds of m_threadNum.                     *)
THEOREM TypeCorrect == Spec => []TypeOK
<1> QED
  BY TypesAreOK, Invariance, PTL

-----------------------------------------------------------------------------
(* Submit is Enter, Take is Begin with the oldest task, Run is Finish.     *)
LEMMA InitMapped == Init => E!Init
BY DEF Init, E!Init

LEMMA StepMapped == IInv /\ [Next]_vars => [E!Next]_(E!executorVars)
<1> SUFFICES ASSUME IInv, [Next]_vars PROVE E!Next \/ UNCHANGED E!executorVars
  OBVIOUS
<1> USE DEF Queued
<1>1. ASSUME NEW t \in Submitters, Submit(t) PROVE E!Next
  BY <1>1, SubmitPlaces DEF Submit, E!Next, E!Enter
<1>2. ASSUME NEW w \in Workers, Take(w) PROVE E!Next
  BY <1>2, TakePlaces DEF Take, E!Next, E!Begin
<1>3. ASSUME NEW w \in Workers, Run(w) PROVE E!Next
  <2>1. task[w] # NoTask /\ task[w] \notin finished
    BY <1>3 DEF Run, IInv, PlaceInv
  <2> QED
    BY <1>3, <2>1, RunPlaces DEF Run, E!Next, E!Finish
<1>4. ASSUME NEW w \in Workers, Start(w) PROVE UNCHANGED E!executorVars
  BY <1>4 DEF Start, E!executorVars
<1> QED
  BY <1>1, <1>2, <1>3, <1>4, OtherSteps DEF Next, E!executorVars

(* A task runs at most once, after it was submitted, and tasks start in    *)
(* the order of submission, for any number of workers and tasks.           *)
THEOREM Refinement == Spec => ImplementsExecutor
<1> QED
  BY InitMapped, StepMapped, Invariance, PTL DEF Spec, ImplementsExecutor, E!Spec
=============================================================================
