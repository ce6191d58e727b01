----------------------------- MODULE AsyncLogger -----------------------------
(***************************************************************************)
(* NBRaft/log.{h,cpp}: an AsyncLogger, whose lines a thread of its own     *)
(* takes from a ConcurrentQueue, and a Logger, whose lines are written by  *)
(* the thread that logs, with one FileLogAppender that both have in their  *)
(* list.  The queue is module ConcurrentQueue itself, step by step.        *)
(*                                                                         *)
(* Lists and levels are read without their mutexes.  A list is changed     *)
(* while no thread walks through it (else the code follows an iterator to  *)
(* an erased element), and the appender is in it at most once.  A line is  *)
(* a number; what the formatter makes of it is in module LogFormatter.     *)
(* Whoever logs holds a shared_ptr, so the destructor of the AsyncLogger   *)
(* starts when nobody logs any more.                                       *)
(***************************************************************************)
EXTENDS Integers, Sequences, SequencesExt

CONSTANTS AsyncUsers,  \* threads that log to the AsyncLogger
          SyncUsers,   \* threads that log to the Logger
          LogThread,   \* AsyncLogger::m_thread
          Owner,       \* the thread that destroys the AsyncLogger
          Nil,         \* no thread
          Levels,      \* the values of LogLevel::Level in use
          MaxLines,    \* bound: lines logged
          Times,       \* bound: the values of time(0)
          MaxTrouble   \* bound: calls of setLevel and delAppender, failures of the file

ASSUME LoggerAssumption ==
    /\ Nil \notin AsyncUsers \cup SyncUsers \cup {LogThread, Owner}
    /\ AsyncUsers \cap SyncUsers = {} /\ LogThread # Owner
    /\ {LogThread, Owner} \cap (AsyncUsers \cup SyncUsers) = {}
    /\ Levels \in SUBSET Nat /\ 300 \in Levels
    /\ MaxLines \in Nat /\ MaxTrouble \in Nat
    /\ Times \in SUBSET Nat /\ Times # {} /\ \A now \in Times : now > 3

Lines   == 1..MaxLines
NullPtr == 0  \* the nullptr the destructor pushes, and no line
Users   == AsyncUsers \cup SyncUsers
Writers == SyncUsers \cup {LogThread}
Threads == Users \cup {LogThread, Owner}
Loggers == {"async", "sync"}

VARIABLES
    live, head, tail, data, next, prev, count, bstop, headMutex, pc, op,
    pushes, holder, missed, stranded,  \* m_queue, see ConcurrentQueue
    pushed,    \* the line of each push
    at,        \* where each thread is
    cur,       \* the line it is busy with
    isExit,    \* AsyncLogger::m_isExit
    level,     \* m_level of the two loggers
    attached,  \* the loggers that have the appender in m_appenders
    stream,    \* m_filestream: "open", "closed", or "broken" by a failed write
    reopenError, lastTime,  \* of the appender
    file,      \* the lines in the file
    clock,     \* time(0)
    made,      \* history: how many lines have been created
    lvl, tm,   \* getLevel and getTime of each line
    trouble,   \* history: calls of setLevel and delAppender, failures of the file
    failedAt,  \* history: when the file last could not be opened
    dropped    \* history: the lines dropped because of m_reopenError

queue  == <<live, head, tail, data, next, prev, count, bstop, headMutex, pc, op,
            pushes, holder, missed, stranded>>
config == <<level, attached>>
events == <<made, lvl, tm>>
output == <<stream, reopenError, lastTime, file, failedAt, dropped>>
vars   == <<queue, pushed, at, cur, isExit, config, events, output, clock, trouble>>

QueueUsers == AsyncUsers \cup {LogThread, Owner}
QueueOps   == [t \in QueueUsers |-> IF t = LogThread THEN {"pop"} ELSE {"push"}]

Q == INSTANCE ConcurrentQueue WITH
        Threads <- QueueUsers, Ops <- QueueOps, MaxPush <- MaxLines + 1

Init ==
    /\ Q!Init
    /\ pushed = [j \in 1..(MaxLines + 1) |-> NullPtr]
    /\ at = [t \in Threads |-> IF t = LogThread THEN "test" ELSE "idle"]
    /\ cur = [t \in Threads |-> NullPtr]
    /\ isExit = FALSE
    /\ level = [g \in Loggers |-> 300]
    /\ attached = Loggers
    /\ stream = "open" /\ reopenError = FALSE /\ lastTime = 0
    /\ file = <<>>
    /\ clock \in Times /\ \A now \in Times : clock <= now
    /\ made = 0
    /\ lvl = [k \in Lines |-> 0] /\ tm = [k \in Lines |-> 0]
    /\ trouble = 0 /\ failedAt = 0 /\ dropped = {}

Goto(t, place) == at' = [at EXCEPT ![t] = place] /\ UNCHANGED cur
Leave(t, place) == at' = [at EXCEPT ![t] = place] /\ cur' = [cur EXCEPT ![t] = NullPtr]
LoggerOf(t)    == IF t \in SyncUsers THEN "sync" ELSE "async"

-----------------------------------------------------------------------------
(* LOG_LEVEL and ASYNC_LOG_LEVEL: unless the logger's level excludes it,   *)
(* make an event with the time; the wrapper logs it when it is destroyed.  *)
Create(t, l) ==
    /\ at[t] = "idle" /\ t \in Users
    /\ t \in AsyncUsers => at[Owner] = "idle"
    /\ made < MaxLines
    /\ level[LoggerOf(t)] >= l
    /\ made' = made + 1
    /\ lvl' = [lvl EXCEPT ![made + 1] = l]
    /\ tm' = [tm EXCEPT ![made + 1] = clock]
    /\ at' = [at EXCEPT ![t] = "log"] /\ cur' = [cur EXCEPT ![t] = made + 1]
    /\ UNCHANGED <<queue, pushed, isExit, config, output, clock, trouble>>

(* AsyncLogger::log, and the destructor's push: m_queue.push.              *)
PushLine(t) ==
    /\ at[t] = "log" /\ t \notin SyncUsers
    /\ Q!PushLink(t)
    /\ pushed' = [pushed EXCEPT ![pushes + 1] = cur[t]]
    /\ Leave(t, "push")
    /\ UNCHANGED <<isExit, config, events, output, clock, trouble>>

PushReturns(t) ==
    /\ at[t] = "push"
    /\ Q!PushNotify(t)
    /\ Goto(t, IF t = Owner THEN "join" ELSE "idle")
    /\ UNCHANGED <<pushed, isExit, config, events, output, clock, trouble>>

(* The destructor sets m_isExit, pushes a nullptr and joins m_thread.      *)
NothingToPush == "join"
AfterExitFlag == "log"

Destroy ==
    /\ at[Owner] = "idle" /\ ~isExit
    /\ \A t \in AsyncUsers : at[t] = "idle"
    /\ isExit' = TRUE
    /\ Goto(Owner, AfterExitFlag)
    /\ UNCHANGED <<queue, pushed, config, events, output, clock, trouble>>

Joined ==
    /\ at[Owner] = "join" /\ at[LogThread] = "ended"
    /\ Goto(Owner, "gone")
    /\ UNCHANGED <<queue, pushed, isExit, config, events, output, clock, trouble>>

-----------------------------------------------------------------------------
(* threadFunc: until m_isExit, wait for a line.                            *)
LoopTest ==
    /\ at[LogThread] = "test"
    /\ Goto(LogThread, IF isExit THEN "ended" ELSE "pop")
    /\ UNCHANGED <<queue, pushed, isExit, config, events, output, clock, trouble>>

Waits ==
    /\ at[LogThread] = "pop"
    /\ \/ Q!WaitLock(LogThread) \/ Q!WaitCheck(LogThread) \/ Q!WaitBlock(LogThread)
       \/ Q!WaitReacquire(LogThread) \/ Q!WaitStopped(LogThread)
    /\ UNCHANGED <<pushed, at, cur, isExit, config, events, output, clock, trouble>>

WakesAlone ==
    /\ Q!SpuriousWake(LogThread)
    /\ UNCHANGED <<pushed, at, cur, isExit, config, events, output, clock, trouble>>

Pops ==
    /\ Q!WaitPop(LogThread)
    /\ cur' = [cur EXCEPT ![LogThread] = pushed[data[head]]]
    /\ at' = [at EXCEPT ![LogThread] = "log"]
    /\ UNCHANGED <<pushed, isExit, config, events, output, clock, trouble>>

EndsOnNull ==
    /\ at[LogThread] = "log" /\ cur[LogThread] = NullPtr
    /\ isExit' = TRUE
    /\ Goto(LogThread, "ended")
    /\ UNCHANGED <<queue, pushed, config, events, output, clock, trouble>>

(* Logger::log and the loop of threadFunc: the level is compared once more *)
(* and each appender of the list gets the line.                            *)
Skips(t)  == Leave(t, IF t = LogThread THEN "test" ELSE "idle")
BelowLevel(t) == lvl[cur[t]] < level[LoggerOf(t)]
Passes(t)     == lvl[cur[t]] <= level[LoggerOf(t)]

Log(t) ==
    /\ at[t] = "log" /\ t \in Writers /\ cur[t] # NullPtr
    /\ IF Passes(t) /\ LoggerOf(t) \in attached THEN Goto(t, "due") ELSE Skips(t)
    /\ UNCHANGED <<queue, pushed, isExit, config, events, output, clock, trouble>>

-----------------------------------------------------------------------------
(* FileLogAppender::log: reopen the file when the line is three seconds    *)
(* younger than the one that last did so.                                  *)
DueLater(t) == tm[cur[t]] > lastTime + 3
Due(t)      == tm[cur[t]] >= lastTime + 3

TestDue(t) ==
    /\ at[t] = "due"
    /\ Goto(t, IF Due(t) THEN "reopen" ELSE "check")
    /\ UNCHANGED <<queue, pushed, isExit, config, events, output, clock, trouble>>

(* The file can be opened and written to, or not.                          *)
Happens(ok) ==
    IF ok THEN UNCHANGED trouble ELSE trouble < MaxTrouble /\ trouble' = trouble + 1

(* reopen closes the stream only if it is good; a broken one is still open *)
(* and cannot be opened again.                                             *)
Reopen(t, ok) ==
    /\ at[t] = "reopen"
    /\ Happens(ok)
    /\ IF ok /\ stream # "broken"
       THEN stream' = "open" /\ reopenError' = FALSE /\ UNCHANGED failedAt
       ELSE /\ stream' = IF stream = "broken" THEN "broken" ELSE "closed"
            /\ reopenError' = TRUE
            /\ failedAt' = clock
    /\ Goto(t, "stamp")
    /\ UNCHANGED <<queue, pushed, isExit, config, events, lastTime, file, dropped, clock>>

Stamp(t) ==
    /\ at[t] = "stamp"
    /\ lastTime' = tm[cur[t]]
    /\ Goto(t, "check")
    /\ UNCHANGED <<queue, pushed, isExit, config, events, stream, reopenError, file,
                   failedAt, dropped, clock, trouble>>

TestError(t) ==
    /\ at[t] = "check"
    /\ dropped' = IF reopenError THEN dropped \cup {cur[t]} ELSE dropped
    /\ IF reopenError THEN Skips(t) ELSE Goto(t, "write")
    /\ UNCHANGED <<queue, pushed, isExit, config, events, stream, reopenError, lastTime,
                   file, failedAt, clock, trouble>>

(* Write the line under the mutex; the stream may have failed meanwhile,   *)
(* or may fail now.                                                        *)
Write(t, ok) ==
    /\ at[t] = "write"
    /\ Happens(ok)
    /\ file' = IF stream = "open" /\ ok THEN Append(file, cur[t]) ELSE file
    /\ stream' = IF stream = "open" /\ ~ok THEN "broken" ELSE stream
    /\ Skips(t)
    /\ UNCHANGED <<queue, pushed, isExit, config, events, reopenError, lastTime, failedAt,
                   dropped, clock>>

-----------------------------------------------------------------------------
Walking(g) == \E t \in Writers : LoggerOf(t) = g /\ at[t] \notin {"idle", "test", "pop", "ended"}

SetLevel(g, l) ==
    /\ trouble < MaxTrouble /\ level[g] # l
    /\ level' = [level EXCEPT ![g] = l]
    /\ trouble' = trouble + 1
    /\ UNCHANGED <<queue, pushed, at, cur, isExit, attached, events, output, clock>>

AddAppender(g) ==
    /\ g \notin attached /\ ~Walking(g)
    /\ attached' = attached \cup {g}
    /\ UNCHANGED <<queue, pushed, at, cur, isExit, level, events, output, clock, trouble>>

(* delAppender, and clearAppenders of a list of one.                       *)
DelAppender(g) ==
    /\ trouble < MaxTrouble /\ g \in attached /\ ~Walking(g)
    /\ attached' = attached \ {g}
    /\ trouble' = trouble + 1
    /\ UNCHANGED <<queue, pushed, at, cur, isExit, level, events, output, clock>>

Tick(now) ==
    /\ now > clock
    /\ clock' = now
    /\ UNCHANGED <<queue, pushed, at, cur, isExit, config, events, output, trouble>>

-----------------------------------------------------------------------------
WriterStep(t) ==
    \/ Log(t) \/ TestDue(t) \/ Stamp(t) \/ TestError(t)
    \/ \E ok \in BOOLEAN : Reopen(t, ok) \/ Write(t, ok)

Next ==
    \/ \E t \in Users, l \in Levels : Create(t, l)
    \/ \E t \in Threads : PushLine(t) \/ PushReturns(t)
    \/ Destroy \/ Joined
    \/ LoopTest \/ Waits \/ WakesAlone \/ Pops \/ EndsOnNull
    \/ \E t \in Writers :
         \/ Log(t) \/ TestDue(t) \/ Stamp(t) \/ TestError(t)
         \/ \E ok \in BOOLEAN : Reopen(t, ok) \/ Write(t, ok)
    \/ \E g \in Loggers : AddAppender(g) \/ DelAppender(g) \/ \E l \in Levels : SetLevel(g, l)
    \/ \E now \in Times : Tick(now)

Spec == Init /\ [][Next]_vars

(* Fairness: a thread inside an operation of the logger goes on, and so    *)
(* does the log thread.  Nobody need log, and no file need ever open.      *)
ThreadStep(t) ==
    \/ PushLine(t) \/ PushReturns(t)
    \/ t = Owner /\ Joined
    \/ t = LogThread /\ (LoopTest \/ Waits \/ Pops \/ EndsOnNull)
    \/ t \in Writers /\ WriterStep(t)

FairSpec == Spec /\ \A t \in Threads : WF_vars(ThreadStep(t))

-----------------------------------------------------------------------------
(* Type invariant.                                                         *)
TypeOK ==
    /\ Q!TypeOK
    /\ pushed \in [1..(MaxLines + 1) -> Lines \cup {NullPtr}]
    /\ at \in [Threads -> {"idle", "log", "push", "join", "gone", "test", "pop", "ended",
                           "due", "reopen", "stamp", "check", "write"}]
    /\ cur \in [Threads -> Lines \cup {NullPtr}]
    /\ isExit \in BOOLEAN /\ reopenError \in BOOLEAN
    /\ level \in [Loggers -> Levels] /\ attached \in SUBSET Loggers
    /\ stream \in {"open", "closed", "broken"}
    /\ file \in Seq(Lines) /\ dropped \in SUBSET Lines
    /\ clock \in Times /\ lastTime \in Times \cup {0} /\ failedAt \in Times \cup {0}
    /\ made \in 0..MaxLines /\ lvl \in [Lines -> Levels \cup {0}] /\ tm \in [Lines -> Times \cup {0}]
    /\ trouble \in 0..MaxTrouble

(* A line is dropped only in the three seconds after the file could not be *)
(* opened: whichever thread reopens it and whichever of two threads stamps *)
(* m_lastTime last, a file that can be opened again is written to again.   *)
(* After a failed write this is not so: that stream is never closed.       *)
DropsAreFresh ==
    \A k \in dropped : failedAt # 0 /\ (tm[k] < failedAt + 3 \/ stream = "broken")

(* Every line logged ends up in the file, unless the file failed or a      *)
(* level or list was changed.  Only a line of the AsyncLogger can be left  *)
(* behind, and only in the queue: when the log thread has ended, or missed *)
(* the notification of a push.  What it has popped it writes, also while   *)
(* the logger is destroyed.                                                *)
LeftInQueue(k) ==
    /\ \E j \in Q!Items : pushed[j] = k
    /\ at[LogThread] = "ended" \/ missed # 0

Logged == \A k \in Lines : (made >= k) ~> (k \in Range(file) \/ LeftInQueue(k) \/ trouble > 0)

(* The destructor of the AsyncLogger returns, unless the log thread missed *)
(* the notification of a push, and then sleeps next to what was pushed.    *)
Overslept == missed # 0 /\ pc[LogThread] = "asleep" /\ Q!Items # {}
DestructorReturns == isExit ~> (at[Owner] = "gone" \/ Overslept)
=============================================================================
