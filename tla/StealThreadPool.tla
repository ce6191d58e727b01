-------------------------- MODULE StealThreadPool --------------------------
(***************************************************************************)
(* NBRaft/stealThreadPool.{h,cpp}: one ConcurrentQueue per worker; a       *)
(* worker takes the oldest task of its own queue, else it looks for the    *)
(* newest task of another, else it backs off.  RpcServer runs every        *)
(* request on this pool.                                                   *)
(*                                                                         *)
(* A queue is what module Deque promises: push, try_pop and try_steal are  *)
(* one step each.  Nobody waits on the condition variables here.           *)
(*                                                                         *)
(* The pool is a singleton behind shared pointers: whoever submits holds   *)
(* one, so the destructor never overlaps a submit.                         *)
(***************************************************************************)
EXTENDS Integers, Sequences, SequencesExt

CONSTANTS PoolSize,    \* workers and queues, numbered from 0
          Submitters,  \* threads that call submit
          MaxTasks,    \* bound: tasks submitted in a behaviour
          Blocking,    \* the tasks that never finish
          MaxFail,     \* m_maxFailCount
          MaxBackOff   \* m_maxBackOffTimeMilliSeconds

ASSUME PoolAssumption ==
    /\ PoolSize \in Nat \ {0}
    /\ MaxTasks \in Nat /\ Blocking \subseteq 1..MaxTasks
    /\ MaxFail \in Nat
    /\ MaxBackOff \in Nat \ {0}

Workers == 0..(PoolSize - 1)
Tasks   == 1..MaxTasks
NoTask  == 0

VARIABLES
    ques,      \* m_thread_work_ques
    index,     \* m_atm_index
    done,      \* m_done
    sub,       \* where each submitter is: "idle", "store" or "push"
    slot,      \* the index it has computed
    at,        \* where each worker is: "loop", "own", "scan", "found",
               \* "failed", "run", "pause" or "ended"
    scan,      \* the queue a stealing worker looks at next
    task,      \* the task a worker has taken
    fails,     \* fail_count, up to MaxFail + 1
    backoff,   \* backoff_time_ms
    entered,   \* history: tasks pushed
    finished   \* history: tasks that have run to their end

submit == <<index, sub, slot>>
worker == <<at, scan, task, fails, backoff>>
vars   == <<ques, done, submit, worker, entered, finished>>

Init ==
    /\ ques = [i \in Workers |-> <<>>]
    /\ index = 0 /\ done = FALSE
    /\ sub = [t \in Submitters |-> "idle"]
    /\ slot = [t \in Submitters |-> 0]
    /\ at = [w \in Workers |-> "loop"]
    /\ scan = [w \in Workers |-> 0]
    /\ task = [w \in Workers |-> NoTask]
    /\ fails = [w \in Workers |-> 0]
    /\ backoff = [w \in Workers |-> 1]
    /\ entered = 0 /\ finished = {}

Goto(w, place) == at' = [at EXCEPT ![w] = place]

-----------------------------------------------------------------------------
(* submit: load the index, store the next one, push to that queue.  Two    *)
(* submitters may compute the same index.                                  *)
NextSlot(i) == (i + 1) % PoolSize

(* The bound MaxTasks counts the tasks being submitted.                    *)
LoadIndex(t) ==
    /\ sub[t] = "idle" /\ ~done
    /\ entered + Cardinality({u \in Submitters : sub[u] # "idle"}) < MaxTasks
    /\ slot' = [slot EXCEPT ![t] = NextSlot(index)]
    /\ sub' = [sub EXCEPT ![t] = "store"]
    /\ UNCHANGED <<index, ques, done, worker, entered, finished>>

StoreIndex(t) ==
    /\ sub[t] = "store"
    /\ index' = slot[t]
    /\ sub' = [sub EXCEPT ![t] = "push"]
    /\ UNCHANGED <<slot, ques, done, worker, entered, finished>>

Push(t) ==
    /\ sub[t] = "push"
    /\ entered' = entered + 1
    /\ ques' = [ques EXCEPT ![slot[t]] = Append(@, entered + 1)]
    /\ sub' = [sub EXCEPT ![t] = "idle"]
    /\ UNCHANGED <<index, slot, done, worker, finished>>

-----------------------------------------------------------------------------
(* The loop of worker_thread, until m_done.                                *)
LoopEndsAfterTask(w) == done /\ fails[w] = 0
LoopEnds(w)          == done

LoopTest(w) ==
    /\ at[w] = "loop"
    /\ Goto(w, IF LoopEnds(w) THEN "ended" ELSE "own")
    /\ UNCHANGED <<ques, done, submit, scan, task, fails, backoff, entered, finished>>

(* try_pop of the worker's own queue.                                      *)
Take(w, i, k, rest) ==
    /\ ques' = [ques EXCEPT ![i] = rest]
    /\ task' = [task EXCEPT ![w] = k]
    /\ Goto(w, "found")
    /\ UNCHANGED <<done, submit, scan, fails, backoff, entered, finished>>

PopOwn(w) ==
    /\ at[w] = "own"
    /\ ques[w] # <<>>
    /\ Take(w, w, Head(ques[w]), Tail(ques[w]))

OwnEmpty(w) ==
    /\ at[w] = "own"
    /\ ques[w] = <<>>
    /\ scan' = [scan EXCEPT ![w] = 0]
    /\ Goto(w, "scan")
    /\ UNCHANGED <<ques, done, submit, task, fails, backoff, entered, finished>>

(* try_steal_from_others: the other queues in order, one try_steal each.   *)
LaterOthers(w) == {i \in Workers : i > w}
Others(w)      == Workers \ {w}

LeaveThere(q)  == q
StealNewest(q) == Front(q)

Steal(w) ==
    /\ at[w] = "scan"
    /\ scan[w] \in Others(w)
    /\ ques[scan[w]] # <<>>
    /\ Take(w, scan[w], Last(ques[scan[w]]), StealNewest(ques[scan[w]]))

ScanNext(w) ==
    /\ at[w] = "scan"
    /\ scan[w] \in Workers
    /\ scan[w] \in Others(w) => ques[scan[w]] = <<>>
    /\ scan' = [scan EXCEPT ![w] = @ + 1]
    /\ UNCHANGED <<ques, done, submit, at, task, fails, backoff, entered, finished>>

ScanEnds(w) ==
    /\ at[w] = "scan"
    /\ scan[w] = PoolSize
    /\ Goto(w, "failed")
    /\ UNCHANGED <<ques, done, submit, scan, task, fails, backoff, entered, finished>>

(* A task was found: the backoff starts over and the task runs.            *)
ResetBackOff(w) == backoff' = [backoff EXCEPT ![w] = 1]

Found(w) ==
    /\ at[w] = "found"
    /\ fails' = [fails EXCEPT ![w] = 0]
    /\ ResetBackOff(w)
    /\ Goto(w, "run")
    /\ UNCHANGED <<ques, done, submit, scan, task, entered, finished>>

Run(w) ==
    /\ at[w] = "run"
    /\ task[w] \notin Blocking
    /\ finished' = finished \cup {task[w]}
    /\ task' = [task EXCEPT ![w] = NoTask]
    /\ Goto(w, "loop")
    /\ UNCHANGED <<ques, done, submit, scan, fails, backoff, entered>>

(* None was found: up to MaxFail times in a row the worker only yields,    *)
(* then it sleeps longer and longer.                                       *)
Yield(w) ==
    /\ at[w] = "failed"
    /\ fails[w] + 1 <= MaxFail
    /\ fails' = [fails EXCEPT ![w] = @ + 1]
    /\ Goto(w, "loop")
    /\ UNCHANGED <<ques, done, submit, scan, task, backoff, entered, finished>>

BackOff(w) ==
    /\ at[w] = "failed"
    /\ fails[w] + 1 > MaxFail
    /\ fails' = [fails EXCEPT ![w] = MaxFail + 1]
    /\ Goto(w, "pause")
    /\ UNCHANGED <<ques, done, submit, scan, task, backoff, entered, finished>>

Wake(w) ==
    /\ at[w] = "pause"
    /\ backoff' = [backoff EXCEPT ![w] = IF @ * 2 < MaxBackOff THEN @ * 2 ELSE MaxBackOff]
    /\ Goto(w, "loop")
    /\ UNCHANGED <<ques, done, submit, scan, task, fails, entered, finished>>

(* The destructor: m_done, then the joins.  What is left in the queues is  *)
(* destroyed with them.                                                    *)
Destroy ==
    /\ ~done
    /\ \A t \in Submitters : sub[t] = "idle"
    /\ done' = TRUE
    /\ UNCHANGED <<ques, submit, worker, entered, finished>>

-----------------------------------------------------------------------------
WorkerStep(w) ==
    \/ LoopTest(w) \/ PopOwn(w) \/ OwnEmpty(w) \/ Steal(w) \/ ScanNext(w) \/ ScanEnds(w)
    \/ Found(w) \/ Run(w) \/ Yield(w) \/ BackOff(w) \/ Wake(w)

Next ==
    \/ \E t \in Submitters : LoadIndex(t) \/ StoreIndex(t) \/ Push(t)
    \/ \E w \in Workers :
         \/ LoopTest(w) \/ PopOwn(w) \/ OwnEmpty(w) \/ Steal(w) \/ ScanNext(w) \/ ScanEnds(w)
         \/ Found(w) \/ Run(w) \/ Yield(w) \/ BackOff(w) \/ Wake(w)
    \/ Destroy

Spec == Init /\ [][Next]_vars

(* Fairness: every worker thread runs, sleeps end and tasks finish, except *)
(* the Blocking ones.                                                      *)
FairSpec == Spec /\ \A w \in Workers : WF_vars(WorkerStep(w))

-----------------------------------------------------------------------------
(* Type invariant.                                                         *)
TypeOK ==
    /\ ques \in [Workers -> Seq(Tasks)]
    /\ index \in Workers /\ slot \in [Submitters -> Workers]
    /\ done \in BOOLEAN
    /\ sub \in [Submitters -> {"idle", "store", "push"}]
    /\ at \in [Workers -> {"loop", "own", "scan", "found", "failed", "run", "pause", "ended"}]
    /\ scan \in [Workers -> 0..PoolSize]
    /\ task \in [Workers -> Tasks \cup {NoTask}]
    /\ fails \in [Workers -> 0..(MaxFail + 1)]
    /\ backoff \in [Workers -> Nat]
    /\ entered \in 0..MaxTasks /\ finished \in SUBSET Tasks

(* The pool is an Executor: stealing neither loses nor doubles a task.     *)
E == INSTANCE Executor WITH
        InOrder <- FALSE,
        waiting <- UNION {ToSet(ques[i]) : i \in Workers},
        runs <- task
ImplementsExecutor == E!Spec

(* While one worker is free of blocking tasks, every other task runs, even *)
(* those queued behind a blocking one.                                     *)
NoTaskStuck ==
    \A k \in Tasks \ Blocking :
        (entered >= k) ~> (k \in finished \/ done)

(* The destructor's joins return, except for workers in a blocking task.   *)
JoinsReturn ==
    done ~> \A w \in Workers : at[w] = "ended" \/ task[w] \in Blocking
=============================================================================
