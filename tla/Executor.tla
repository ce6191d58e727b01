------------------------------ MODULE Executor ------------------------------
(***************************************************************************)
(* What a thread pool promises to those who submit tasks, as long as it is *)
(* not destroyed: a task runs at most once, on one of the workers, only    *)
(* after it was submitted, and a worker runs one task at a time.  Tasks    *)
(* are numbered in the order in which they enter the pool.                 *)
(***************************************************************************)
EXTENDS Integers

CONSTANTS Workers,   \* the threads of the pool
          MaxTasks,  \* how many tasks are ever submitted
          InOrder,   \* TRUE if tasks are started in the order they entered
          NoTask     \* what an idle worker runs

VARIABLES waiting,   \* the tasks nobody has started
          runs,      \* the task each worker is running
          entered,   \* how many tasks have entered
          finished   \* the tasks that have run to their end

executorVars == <<waiting, runs, entered, finished>>

Init ==
    /\ waiting = {}
    /\ runs = [w \in Workers |-> NoTask]
    /\ entered = 0
    /\ finished = {}

Enter ==
    /\ entered < MaxTasks
    /\ entered' = entered + 1
    /\ waiting' = waiting \cup {entered + 1}
    /\ UNCHANGED <<runs, finished>>

Begin(w) ==
    /\ runs[w] = NoTask
    /\ \E k \in waiting :
         /\ InOrder => \A j \in waiting : k <= j
         /\ waiting' = waiting \ {k}
         /\ runs' = [runs EXCEPT ![w] = k]
    /\ UNCHANGED <<entered, finished>>

Finish(w) ==
    /\ runs[w] # NoTask
    /\ runs[w] \notin finished
    /\ finished' = finished \cup {runs[w]}
    /\ runs' = [runs EXCEPT ![w] = NoTask]
    /\ UNCHANGED <<waiting, entered>>

Next == Enter \/ \E w \in Workers : Begin(w) \/ Finish(w)

Spec == Init /\ [][Next]_executorVars
=============================================================================
