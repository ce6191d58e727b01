-------------------------- MODULE SimpleThreadPool --------------------------
(***************************************************************************)
(* NBRaft/simplethreadpool.{h,cpp}: one queue of tasks under a mutex and a *)
(* condition variable.  RpcClientStub runs asynchronous calls on it.       *)
(*                                                                         *)
(* stop stores m_stop and notifies without the mutex, so a worker that has *)
(* seen nothing to do and has not begun to wait yet misses it; such        *)
(* workers are remembered in missed.                                       *)
(*                                                                         *)
(* The pool is a singleton behind shared pointers: whoever submits holds   *)
(* one, so stop, which the destructor calls, never overlaps a submit.      *)
(***************************************************************************)
EXTENDS Integers, Sequences, FiniteSets

CONSTANTS Workers,     \* the threads of m_pool
          Submitters,  \* threads that call submit
          MaxTasks,    \* bound: tasks submitted in a behaviour
          Blocking,    \* the tasks that never finish
          Nobody       \* who holds a free mutex

ASSUME PoolAssumption ==
    /\ IsFiniteSet(Workers) /\ Cardinality(Workers) >= 2
    /\ MaxTasks \in Nat /\ Blocking \subseteq 1..MaxTasks
    /\ Nobody \notin Workers

Tasks  == 1..MaxTasks
NoTask == 0

VARIABLES
    tasks,     \* m_tasks
    stop,      \* m_stop
    idle,      \* m_threadNum
    holder,    \* the worker that holds m_cv_mt
    notify,    \* submitters between their push and notify_one
    at,        \* where each worker is: "loop", "lock", "test", "doze" (about
               \* to wait), "wait", "take", "found", "run" or "ended"
    task,      \* the task a worker has taken
    joining,   \* stop has notified everybody
    entered,   \* history: tasks pushed
    finished,  \* history: tasks that have run to their end
    missed     \* history: workers that missed the notification of stop

vars == <<tasks, stop, idle, holder, notify, at, task, joining, entered, finished, missed>>

Init ==
    /\ tasks = <<>> /\ stop = FALSE
    /\ idle = Cardinality(Workers)
    /\ holder = Nobody
    /\ notify = {}
    /\ at = [w \in Workers |-> "loop"]
    /\ task = [w \in Workers |-> NoTask]
    /\ joining = FALSE
    /\ entered = 0 /\ finished = {} /\ missed = {}

Goto(w, place) == at' = [at EXCEPT ![w] = place]

-----------------------------------------------------------------------------
(* submit: push under the mutex, notify one waiting worker after it.       *)
Submit(t) ==
    /\ t \notin notify
    /\ ~stop
    /\ holder = Nobody
    /\ entered < MaxTasks
    /\ entered' = entered + 1
    /\ tasks' = Append(tasks, entered + 1)
    /\ notify' = notify \cup {t}
    /\ UNCHANGED <<stop, idle, holder, at, task, joining, finished, missed>>

(* A worker that is woken locks the mutex and looks again.                 *)
Waiting    == {w \in Workers : at[w] = "wait"}
Awake(W)   == at' = [w \in Workers |-> IF w \in W THEN "lock" ELSE at[w]]
WakeNobody == Awake({})
WakeOne    == IF Waiting = {} THEN Awake({}) ELSE \E w \in Waiting : Awake({w})
WakeAll    == Awake(Waiting)

Notify(t) ==
    /\ t \in notify
    /\ WakeOne
    /\ notify' = notify \ {t}
    /\ UNCHANGED <<tasks, stop, idle, holder, task, joining, entered, finished, missed>>

-----------------------------------------------------------------------------
(* The loop of a worker, until m_stop.                                     *)
LoopTest(w) ==
    /\ at[w] = "loop"
    /\ Goto(w, IF stop THEN "ended" ELSE "lock")
    /\ UNCHANGED <<tasks, stop, idle, holder, notify, task, joining, entered, finished, missed>>

Lock(w) ==
    /\ at[w] = "lock"
    /\ holder = Nobody
    /\ holder' = w
    /\ Goto(w, "test")
    /\ UNCHANGED <<tasks, stop, idle, notify, task, joining, entered, finished, missed>>

(* The predicate of the wait.                                              *)
Test(w) ==
    /\ at[w] = "test"
    /\ Goto(w, IF stop \/ tasks # <<>> THEN "take" ELSE "doze")
    /\ UNCHANGED <<tasks, stop, idle, holder, notify, task, joining, entered, finished, missed>>

Sleep(w) ==
    /\ at[w] = "doze"
    /\ holder' = Nobody
    /\ Goto(w, "wait")
    /\ UNCHANGED <<tasks, stop, idle, notify, task, joining, entered, finished, missed>>

(* A wait may end without a notification.                                  *)
WakeAlone(w) ==
    /\ w \in Waiting
    /\ Awake({w})
    /\ UNCHANGED <<tasks, stop, idle, holder, notify, task, joining, entered, finished, missed>>

(* The oldest task is taken, also when m_stop is set; without one the      *)
(* worker ends.                                                            *)
LeaveIt(q)  == q
PopFront(q) == Tail(q)

Take(w) ==
    /\ at[w] = "take"
    /\ tasks # <<>>
    /\ task' = [task EXCEPT ![w] = Head(tasks)]
    /\ tasks' = PopFront(tasks)
    /\ holder' = Nobody
    /\ Goto(w, "found")
    /\ UNCHANGED <<stop, idle, notify, joining, entered, finished, missed>>

NoneLeft(w) ==
    /\ at[w] = "take"
    /\ tasks = <<>>
    /\ holder' = Nobody
    /\ Goto(w, "ended")
    /\ UNCHANGED <<tasks, stop, idle, notify, task, joining, entered, finished, missed>>

(* The task runs between the two changes of m_threadNum.                   *)
Start(w) ==
    /\ at[w] = "found"
    /\ idle' = idle - 1
    /\ Goto(w, "run")
    /\ UNCHANGED <<tasks, stop, holder, notify, task, joining, entered, finished, missed>>

IdleAgain == idle' = idle + 1

Run(w) ==
    /\ at[w] = "run"
    /\ task[w] \notin Blocking
    /\ finished' = finished \cup {task[w]}
    /\ task' = [task EXCEPT ![w] = NoTask]
    /\ IdleAgain
    /\ Goto(w, "loop")
    /\ UNCHANGED <<tasks, stop, holder, notify, joining, entered, missed>>

-----------------------------------------------------------------------------
(* stop, from the destructor: m_stop, then notify_all, then the joins.     *)
SetStop ==
    /\ ~stop
    /\ notify = {}
    /\ stop' = TRUE
    /\ UNCHANGED <<tasks, idle, holder, notify, at, task, joining, entered, finished, missed>>

NotifyStop ==
    /\ stop /\ ~joining
    /\ joining' = TRUE
    /\ WakeAll
    /\ missed' = {w \in Workers : at[w] = "doze"}
    /\ UNCHANGED <<tasks, stop, idle, holder, notify, task, entered, finished>>

-----------------------------------------------------------------------------
WorkerStep(w) ==
    \/ LoopTest(w) \/ Lock(w) \/ Test(w) \/ Sleep(w)
    \/ Take(w) \/ NoneLeft(w) \/ Start(w) \/ Run(w)

Next ==
    \/ \E t \in Submitters : Submit(t) \/ Notify(t)
    \/ \E w \in Workers :
         \/ LoopTest(w) \/ Lock(w) \/ Test(w) \/ Sleep(w) \/ WakeAlone(w)
         \/ Take(w) \/ NoneLeft(w) \/ Start(w) \/ Run(w)
    \/ SetStop \/ NotifyStop

Spec == Init /\ [][Next]_vars

(* Fairness: threads run, a worker that wants the mutex again and again    *)
(* gets it, tasks finish, except the Blocking ones.  No wait need end by   *)
(* itself, nobody need submit or stop.                                     *)
FairSpec ==
    /\ Spec
    /\ \A w \in Workers : WF_vars(WorkerStep(w)) /\ SF_vars(Lock(w))
    /\ \A t \in Submitters : WF_vars(Notify(t))
    /\ WF_vars(NotifyStop)

-----------------------------------------------------------------------------
(* Type invariant.                                                         *)
TypeOK ==
    /\ tasks \in Seq(Tasks)
    /\ stop \in BOOLEAN /\ joining \in BOOLEAN
    /\ idle \in 0..Cardinality(Workers)
    /\ holder \in Workers \cup {Nobody}
    /\ notify \in SUBSET Submitters
    /\ at \in [Workers -> {"loop", "lock", "test", "doze", "wait", "take", "found", "run", "ended"}]
    /\ task \in [Workers -> Tasks \cup {NoTask}]
    /\ entered \in 0..MaxTasks /\ finished \in SUBSET Tasks
    /\ missed \in SUBSET Workers

(* The pool is an Executor that starts tasks in the order they entered.    *)
E == INSTANCE Executor WITH
        InOrder <- TRUE,
        waiting <- {tasks[i] : i \in DOMAIN tasks},
        runs <- task
ImplementsExecutor == E!Spec

(* As long as one worker is free of blocking tasks, every task that was    *)
(* submitted runs: no notification is lost between two submits.            *)
NoTaskStuck ==
    \A k \in Tasks \ Blocking : (entered >= k) ~> (k \in finished \/ stop)

(* stop returns, except for workers in a blocking task, unless a worker    *)
(* was about to wait when stop notified.                                   *)
JoinsReturn ==
    stop ~> \A w \in Workers :
                at[w] = "ended" \/ task[w] \in Blocking \/ w \in missed
=============================================================================
