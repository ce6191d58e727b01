--------------------------- MODULE Logging_proofs ---------------------------
(***************************************************************************)
(* The two parts of the log, for every value of their constants.           *)
(* AsyncLogger: the logger uses the queue by its rules, so that all that   *)
(* is proved of ConcurrentQueue holds of m_queue, and lines are dropped    *)
(* only right after the file could not be opened.  LogFormatter: the items *)
(* say what the pattern says.                                              *)
(***************************************************************************)
EXTENDS AsyncLogger, LogFormatter, SequenceTheorems, TLAPS

-----------------------------------------------------------------------------
(* AsyncLogger.                                                            *)

(* The queue with what is proved of it.                                    *)
QP == INSTANCE ConcurrentQueue_proofs WITH
        Threads <- QueueUsers, Ops <- QueueOps, MaxPush <- MaxLines + 1

(* Only the log thread is ever inside of a wait, and only where threadFunc *)
(* calls it; whoever is inside of the appender has a line.                 *)
AtInv ==
    /\ \A t \in SyncUsers \cup {LogThread} : at[t] # "push"
    /\ pc[LogThread] # "idle" => at[LogThread] = "pop"
    /\ \A t \in Threads : at[t] \in {"due", "reopen", "stamp", "check", "write"} => cur[t] \in Lines

(* Lines in anyone's hands, in the queue or dropped have been created.     *)
MadeInv ==
    /\ \A t \in Threads : cur[t] <= made
    /\ \A j \in 1..(MaxLines + 1) : pushed[j] <= made
    /\ \A k \in dropped : k <= made

(* No time is in the future.                                               *)
ClockInv ==
    /\ failedAt <= clock /\ lastTime <= clock
    /\ \A k \in Lines : tm[k] <= clock

(* As long as the file could not be opened, and unless a write to it       *)
(* failed, m_lastTime is not younger than that failure, whoever is about   *)
(* to stamp it, and no line that may be dropped is three seconds younger.  *)
ErrorInv ==
    /\ reopenError => failedAt # 0
    /\ reopenError /\ stream # "broken" =>
          /\ lastTime <= failedAt
          /\ \A t \in Threads :
                /\ at[t] = "stamp" => tm[cur[t]] <= failedAt
                /\ at[t] = "check" => tm[cur[t]] < failedAt + 3

FreshInv == ClockInv /\ ErrorInv /\ DropsAreFresh

IInv == TypeOK /\ QP!IInv /\ AtInv /\ MadeInv /\ FreshInv
-----------------------------------------------------------------------------
(* The logger's queue is the queue of ConcurrentQueue.                     *)
LEMMA QueueFits == QP!QueueAssumption
<1>1. QueueOps \in [QueueUsers -> SUBSET {"push", "pop", "timed", "try", "steal", "exit"}]
  BY DEF QueueOps
<1> QED
  BY <1>1, LoggerAssumption DEF QP!QueueAssumption, QP!OpNames, QueueUsers

LEMMA SameInit == Q!Init <=> QP!Init
BY DEF Q!Init, QP!Init, Q!Nodes, QP!Nodes, Q!Elems, QP!Elems, Q!NullPtr, QP!NullPtr,
       Q!NoData, QP!NoData

LEMMA SameTypes == QP!TypeOK <=> Q!TypeOK
BY DEF Q!TypeOK, QP!TypeOK, Q!Nodes, QP!Nodes, Q!Elems, QP!Elems, Q!NullPtr, QP!NullPtr,
       Q!NoData, QP!NoData, Q!PcNames, QP!PcNames

LEMMA SamePush ==
  ASSUME NEW t \in QueueUsers
  PROVE  /\ Q!PushLink(t) => QP!PushLink(t)
         /\ Q!PushNotify(t) => QP!PushNotify(t)
<1>1. Q!PushLink(t) => QP!PushLink(t)
  BY DEF Q!PushLink, QP!PushLink, Q!LinkPrev, QP!LinkPrev, Q!LinkNext, QP!LinkNext,
         Q!NullPtr, QP!NullPtr
<1>2. Q!PushNotify(t) => QP!PushNotify(t)
  BY DEF Q!PushNotify, QP!PushNotify, Q!NotifyOne, QP!NotifyOne, Q!Asleep, QP!Asleep,
         Q!Blocking, QP!Blocking, Q!chain, QP!chain
<1> QED
  BY <1>1, <1>2

LEMMA SameWait ==
  ASSUME NEW t \in QueueUsers
  PROVE  /\ Q!WaitLock(t) => QP!WaitLock(t)
         /\ Q!WaitCheck(t) => QP!WaitCheck(t)
         /\ Q!WaitBlock(t) => QP!WaitBlock(t)
         /\ Q!SpuriousWake(t) => QP!SpuriousWake(t)
         /\ Q!WaitReacquire(t) => QP!WaitReacquire(t)
         /\ Q!WaitStopped(t) => QP!WaitStopped(t)
         /\ Q!WaitPop(t) => QP!WaitPop(t)
<1> USE DEF Q!chain, QP!chain
<1>1. Q!WaitLock(t) => QP!WaitLock(t)
  BY DEF Q!WaitLock, QP!WaitLock
<1>2. Q!WaitCheck(t) => QP!WaitCheck(t)
  BY DEF Q!WaitCheck, QP!WaitCheck, Q!Ready, QP!Ready
<1>3. Q!WaitBlock(t) => QP!WaitBlock(t)
  BY DEF Q!WaitBlock, QP!WaitBlock
<1>4. Q!SpuriousWake(t) => QP!SpuriousWake(t)
  BY DEF Q!SpuriousWake, QP!SpuriousWake
<1>5. Q!WaitReacquire(t) => QP!WaitReacquire(t)
  BY DEF Q!WaitReacquire, QP!WaitReacquire
<1>6. Q!WaitStopped(t) => QP!WaitStopped(t)
  BY DEF Q!WaitStopped, QP!WaitStopped
<1>7. Q!WaitPop(t) => QP!WaitPop(t)
  BY DEF Q!WaitPop, QP!WaitPop, Q!UnlinkHead, QP!UnlinkHead
<1> QED
  BY <1>1, <1>2, <1>3, <1>4, <1>5, <1>6, <1>7

(* Every step of the logger is a step of the queue or leaves it alone.     *)
LEMMA StepIsQueueStep ==
  ASSUME AtInv, [Next]_vars
  PROVE  [QP!Next]_(QP!vars)
<1> USE DEF queue, QP!vars
<1>1. CASE UNCHANGED vars
  BY <1>1 DEF vars
<1>2. ASSUME NEW t \in Threads, PushLine(t) PROVE QP!Next
  <2>1. t \in QueueUsers /\ Q!PushLink(t)
    BY <1>2 DEF PushLine, Threads, Users, QueueUsers
  <2> QED
    BY <2>1, SamePush DEF QP!Next
<1>3. ASSUME NEW t \in Threads, PushReturns(t) PROVE QP!Next
  <2>1. t \in QueueUsers /\ Q!PushNotify(t)
    BY <1>3 DEF PushReturns, Threads, Users, QueueUsers, AtInv
  <2> QED
    BY <2>1, SamePush DEF QP!Next
<1>4. CASE Waits \/ WakesAlone \/ Pops
  <2>1. LogThread \in QueueUsers
    BY DEF QueueUsers
  <2> QED
    BY <1>4, <2>1, SameWait DEF Waits, WakesAlone, Pops, QP!Next
<1>5. CASE LoopTest \/ EndsOnNull \/ Destroy \/ Joined
  BY <1>5 DEF LoopTest, EndsOnNull, Destroy, Joined
<1>6. ASSUME NEW t \in Users, NEW l \in Levels, Create(t, l) PROVE UNCHANGED queue
  BY <1>6 DEF Create
<1>7. ASSUME NEW t \in Writers, WriterStep(t) PROVE UNCHANGED queue
  BY <1>7 DEF WriterStep, Log, TestDue, Stamp, TestError, Reopen, Write
<1>8. ASSUME NEW g \in Loggers, AddAppender(g) \/ DelAppender(g) \/ \E l \in Levels : SetLevel(g, l)
      PROVE  UNCHANGED queue
  BY <1>8 DEF AddAppender, DelAppender, SetLevel
<1>9. ASSUME NEW now \in Times, Tick(now) PROVE UNCHANGED queue
  BY <1>9 DEF Tick
<1> QED
  BY <1>1, <1>2, <1>3, <1>4, <1>5, <1>6, <1>7, <1>8, <1>9 DEF Next, WriterStep

LEMMA QueueInv == QP!IInv /\ AtInv /\ [Next]_vars => QP!IInv'
BY QueueFits, StepIsQueueStep, QP!NextIInv

-----------------------------------------------------------------------------
(* The log thread pops an element that was pushed.                         *)
LEMMA PopsPushed ==
  ASSUME TypeOK, QP!IInv, Pops
  PROVE  /\ cur' = [cur EXCEPT ![LogThread] = pushed[data[head]]]
         /\ data[head] \in 1..(MaxLines + 1)
<1>1. QP!WaitPop(LogThread) /\ LogThread \in QueueUsers
  BY SameWait DEF Pops, QueueUsers
<1>2. pc[LogThread] = "pop" /\ head # tail
  BY <1>1 DEF QP!WaitPop, QP!IInv, QP!TakeInv
<1>3. data[head] \in 1..pushes
  BY <1>2, QueueFits, QP!AfterHead
<1>4. pushes \in Nat /\ pushes <= MaxLines + 1
  BY DEF QP!IInv, QP!TypeOK
<1>5. data[head] \in 1..(MaxLines + 1)
  BY <1>3, <1>4, LoggerAssumption
<1> QED
  BY <1>5 DEF Pops, TypeOK

(* The variables of the logger alone stay in their types.                  *)
LEMMA UserTypes ==
  ASSUME TypeOK, Q!TypeOK',
         \/ \E t \in Users, l \in Levels : Create(t, l)
         \/ \E t \in Threads : PushLine(t) \/ PushReturns(t)
         \/ Destroy \/ Joined
  PROVE  TypeOK'
<1> USE LoggerAssumption DEF TypeOK, queue, config, events, output, Leave, Goto, Lines
<1>1. ASSUME NEW t \in Users, NEW l \in Levels, Create(t, l) PROVE TypeOK'
  <2>1. made + 1 \in Lines /\ t \in Threads
    BY <1>1 DEF Create, Threads
  <2> QED
    BY <1>1, <2>1 DEF Create
<1>2. ASSUME NEW t \in Threads, PushLine(t) PROVE TypeOK'
  BY <1>2 DEF PushLine
<1>3. ASSUME NEW t \in Threads, PushReturns(t) PROVE TypeOK'
  BY <1>3 DEF PushReturns
<1>4. CASE Destroy
  BY <1>4 DEF Destroy, AfterExitFlag
<1>5. CASE Joined
  BY <1>5 DEF Joined
<1> QED
  BY <1>1, <1>2, <1>3, <1>4, <1>5

LEMMA LogThreadTypes ==
  ASSUME TypeOK, QP!IInv, Q!TypeOK', LoopTest \/ Waits \/ WakesAlone \/ Pops \/ EndsOnNull
  PROVE  TypeOK'
<1> USE LoggerAssumption DEF TypeOK, config, events, output, Goto
<1>1. CASE LoopTest
  BY <1>1 DEF LoopTest
<1>2. CASE Waits
  BY <1>2 DEF Waits
<1>3. CASE WakesAlone
  BY <1>3 DEF WakesAlone
<1>4. CASE Pops
  <2>1. cur' \in [Threads -> Lines \cup {NullPtr}]
    BY <1>4, PopsPushed
  <2> QED
    BY <1>4, <2>1 DEF Pops
<1>5. CASE EndsOnNull
  BY <1>5 DEF EndsOnNull
<1> QED
  BY <1>1, <1>2, <1>3, <1>4, <1>5

LEMMA WriterTypes ==
  ASSUME TypeOK, AtInv, Q!TypeOK', NEW t \in Writers, WriterStep(t)
  PROVE  TypeOK'
<1> USE LoggerAssumption DEF TypeOK, config, events, output, Goto, Leave, Skips
<1>0. t \in Threads
  BY DEF Writers, Threads, Users
<1>1. CASE Log(t)
  BY <1>0, <1>1 DEF Log
<1>2. CASE TestDue(t)
  BY <1>0, <1>2 DEF TestDue
<1>3. CASE Stamp(t)
  BY <1>0, <1>3 DEF Stamp, AtInv
<1>4. CASE TestError(t)
  BY <1>0, <1>4 DEF TestError, AtInv
<1>5. ASSUME NEW ok \in BOOLEAN, Happens(ok) PROVE trouble' \in 0..MaxTrouble
  BY <1>5 DEF Happens
<1>6. ASSUME NEW ok \in BOOLEAN, Reopen(t, ok) PROVE TypeOK'
  <2>1. trouble' \in 0..MaxTrouble
    BY <1>5, <1>6 DEF Reopen
  <2> QED
    BY <1>0, <1>6, <2>1 DEF Reopen
<1>7. ASSUME NEW ok \in BOOLEAN, Write(t, ok) PROVE TypeOK'
  <2>1. trouble' \in 0..MaxTrouble
    BY <1>5, <1>7 DEF Write
  <2>2. file' \in Seq(Lines)
    BY <1>0, <1>7 DEF Write, AtInv
  <2> QED
    BY <1>0, <1>7, <2>1, <2>2 DEF Write
<1> QED
  BY <1>1, <1>2, <1>3, <1>4, <1>6, <1>7 DEF WriterStep

LEMMA ConfigTypes ==
  ASSUME TypeOK, Q!TypeOK',
         \/ \E g \in Loggers : AddAppender(g) \/ DelAppender(g) \/ \E l \in Levels : SetLevel(g, l)
         \/ \E now \in Times : Tick(now)
  PROVE  TypeOK'
<1> USE LoggerAssumption DEF TypeOK, config, events, output
<1>1. ASSUME NEW g \in Loggers, AddAppender(g) \/ DelAppender(g) PROVE TypeOK'
  <2>1. CASE AddAppender(g)
    BY <2>1 DEF AddAppender
  <2>2. CASE DelAppender(g)
    BY <2>2 DEF DelAppender
  <2> QED
    BY <1>1, <2>1, <2>2
<1>2. ASSUME NEW g \in Loggers, NEW l \in Levels, SetLevel(g, l) PROVE TypeOK'
  BY <1>2 DEF SetLevel
<1>3. ASSUME NEW now \in Times, Tick(now) PROVE TypeOK'
  BY <1>3 DEF Tick
<1> QED
  BY <1>1, <1>2, <1>3

LEMMA TypesKept == TypeOK /\ QP!IInv /\ AtInv /\ QP!IInv' /\ [Next]_vars => TypeOK'
<1> SUFFICES ASSUME TypeOK, QP!IInv, AtInv, QP!IInv', [Next]_vars PROVE TypeOK'
  OBVIOUS
<1>1. Q!TypeOK'
  <2>1. QP!TypeOK'
    BY DEF QP!IInv
  <2> QED
    BY <2>1, SameTypes, PTL
<1>2. CASE UNCHANGED vars
  BY <1>1, <1>2 DEF vars, queue, config, events, output, TypeOK
<1>3. CASE Next
  BY <1>1, <1>3, UserTypes, LogThreadTypes, WriterTypes, ConfigTypes DEF Next, WriterStep
<1> QED
  BY <1>2, <1>3

-----------------------------------------------------------------------------
(* A push of another thread wakes the log thread at most, and does not     *)
(* take it into a wait.                                                    *)
LEMMA PushLeavesLogThread ==
  ASSUME TypeOK, NEW t \in Threads \ {LogThread}, Q!PushLink(t) \/ Q!PushNotify(t)
  PROVE  pc'[LogThread] # "idle" => pc[LogThread] # "idle"
<1>1. pc \in [QueueUsers -> Q!PcNames] /\ LogThread \in QueueUsers
  BY DEF TypeOK, Q!TypeOK, QueueUsers
<1>2. CASE Q!PushLink(t)
  BY <1>1, <1>2 DEF Q!PushLink
<1>3. CASE Q!PushNotify(t)
  BY <1>1, <1>3 DEF Q!PushNotify, Q!NotifyOne, Q!Asleep
<1> QED
  BY <1>2, <1>3

LEMMA AtKept == TypeOK /\ QP!IInv /\ AtInv /\ [Next]_vars => AtInv'
<1> SUFFICES ASSUME TypeOK, QP!IInv, AtInv, [Next]_vars PROVE AtInv'
  OBVIOUS
<1>0. /\ at \in [Threads -> {"idle", "log", "push", "join", "gone", "test", "pop", "ended",
                             "due", "reopen", "stamp", "check", "write"}]
      /\ cur \in [Threads -> Lines \cup {NullPtr}]
      /\ LogThread \in Threads /\ Owner \in Threads \ {LogThread}
      /\ LogThread \notin Users /\ SyncUsers \subseteq Threads
  BY LoggerAssumption DEF TypeOK, Threads, Users
<1> DEFINE Busy == {"due", "reopen", "stamp", "check", "write"}
(* A thread that moves, while the queue stays as it is.                    *)
<1>1. ASSUME NEW t \in Threads, NEW q, pc' = pc, at' = [at EXCEPT ![t] = q],
             q = "push" => t \notin SyncUsers \cup {LogThread},
             t = LogThread /\ pc[t] # "idle" => q = "pop",
             \A u \in Threads \ {t} : cur'[u] = cur[u],
             q \in Busy => cur'[t] \in Lines
      PROVE  AtInv'
  BY <1>0, <1>1 DEF AtInv
<1>2. CASE UNCHANGED vars
  BY <1>2 DEF AtInv, vars, queue
<1>3. ASSUME NEW t \in Users, NEW l \in Levels, Create(t, l) PROVE AtInv'
  BY <1>0, <1>1, <1>3 DEF Create, queue, Threads
<1>4. ASSUME NEW t \in Threads, PushLine(t) \/ PushReturns(t) PROVE AtInv'
  <2>1. t \notin SyncUsers \cup {LogThread}
    <3>1. CASE PushLine(t)
      <4>1. "push" \in QueueOps[t] /\ t \in QueueUsers
        BY <3>1 DEF PushLine, Q!PushLink, Threads, Users, QueueUsers
      <4> QED
        BY <3>1, <4>1 DEF PushLine, QueueOps
    <3>2. CASE PushReturns(t)
      BY <3>2 DEF PushReturns, AtInv
    <3> QED
      BY <1>4, <3>1, <3>2
  <2>2. pc'[LogThread] # "idle" => pc[LogThread] # "idle"
    BY <1>4, <2>1, PushLeavesLogThread DEF PushLine, PushReturns
  <2>3. /\ at'[t] \notin Busy
        /\ \A u \in Threads \ {t} : at'[u] = at[u] /\ cur'[u] = cur[u]
    BY <1>0, <1>4 DEF PushLine, PushReturns, Leave, Goto
  <2> QED
    BY <1>0, <2>1, <2>2, <2>3 DEF AtInv
<1>5. CASE Destroy \/ Joined
  BY <1>0, <1>1, <1>5, LoggerAssumption DEF Destroy, AfterExitFlag, Joined, Goto, queue
<1>6. CASE LoopTest \/ EndsOnNull
  BY <1>0, <1>1, <1>6, LoggerAssumption DEF LoopTest, EndsOnNull, Goto, queue, AtInv
<1>7. CASE Waits \/ WakesAlone
  <2>1. UNCHANGED <<at, cur>> /\ at[LogThread] = "pop"
    BY <1>7 DEF Waits, WakesAlone, Q!SpuriousWake, AtInv
  <2> QED
    BY <2>1 DEF AtInv
<1>8. CASE Pops
  <2>1. pc'[LogThread] = "idle" /\ LogThread \in QueueUsers
    BY <1>8 DEF Pops, Q!WaitPop, TypeOK, Q!TypeOK, QueueUsers
  <2>2. at' = [at EXCEPT ![LogThread] = "log"] /\ \A u \in Threads \ {LogThread} : cur'[u] = cur[u]
    BY <1>0, <1>8 DEF Pops
  <2> QED
    BY <1>0, <2>1, <2>2 DEF AtInv
<1>9. ASSUME NEW t \in Writers, WriterStep(t) PROVE AtInv'
  <2>1. t \in Threads /\ (t = LogThread => pc[t] = "idle" \/ at[t] = "pop") /\ pc' = pc
    BY <1>9 DEF Writers, Threads, Users, AtInv, WriterStep, Log, TestDue, Stamp, TestError,
                Reopen, Write, queue
  <2>2. CASE Log(t)
    <3>1. CASE Passes(t) /\ LoggerOf(t) \in attached
      BY <1>0, <1>1, <2>1, <2>2, <3>1 DEF Log, Goto
    <3>2. CASE ~(Passes(t) /\ LoggerOf(t) \in attached)
      BY <1>0, <1>1, <2>1, <2>2, <3>2 DEF Log, Skips, Leave
    <3> QED
      BY <3>1, <3>2
  <2>3. CASE TestDue(t)
    BY <1>0, <1>1, <2>1, <2>3 DEF TestDue, Goto, AtInv
  <2>4. CASE Stamp(t)
    BY <1>0, <1>1, <2>1, <2>4 DEF Stamp, Goto, AtInv
  <2>5. CASE TestError(t)
    <3>1. CASE reopenError
      BY <1>0, <1>1, <2>1, <2>5, <3>1 DEF TestError, Skips, Leave
    <3>2. CASE ~reopenError
      BY <1>0, <1>1, <2>1, <2>5, <3>2 DEF TestError, Goto, AtInv
    <3> QED
      BY <3>1, <3>2
  <2>6. ASSUME NEW ok \in BOOLEAN, Reopen(t, ok) PROVE AtInv'
    BY <1>0, <1>1, <2>1, <2>6 DEF Reopen, Goto, AtInv
  <2>7. ASSUME NEW ok \in BOOLEAN, Write(t, ok) PROVE AtInv'
    BY <1>0, <1>1, <2>1, <2>7 DEF Write, Skips, Leave
  <2> QED
    BY <1>9, <2>2, <2>3, <2>4, <2>5, <2>6, <2>7 DEF WriterStep
<1>10. ASSUME NEW g \in Loggers, AddAppender(g) \/ DelAppender(g) \/ \E l \in Levels : SetLevel(g, l)
       PROVE  AtInv'
  BY <1>10 DEF AddAppender, DelAppender, SetLevel, queue, AtInv
<1>11. ASSUME NEW now \in Times, Tick(now) PROVE AtInv'
  BY <1>11 DEF Tick, queue, AtInv
<1> QED
  BY <1>2, <1>3, <1>4, <1>5, <1>6, <1>7, <1>8, <1>9, <1>10, <1>11 DEF Next, WriterStep

-----------------------------------------------------------------------------
LEMMA MadeKept == TypeOK /\ QP!IInv /\ AtInv /\ MadeInv /\ [Next]_vars => MadeInv'
<1> SUFFICES ASSUME TypeOK, QP!IInv, AtInv, MadeInv, [Next]_vars PROVE MadeInv'
  OBVIOUS
<1>0. /\ cur \in [Threads -> Lines \cup {NullPtr}] /\ Lines \cup {NullPtr} \subseteq Nat
      /\ made \in Nat /\ LogThread \in Threads
      /\ pushed \in [1..(MaxLines + 1) -> Lines \cup {NullPtr}]
  BY LoggerAssumption DEF TypeOK, Threads, Lines, NullPtr
<1>1. ASSUME UNCHANGED <<pushed, dropped, made>>, NEW t \in Threads,
             cur' = cur \/ cur' = [cur EXCEPT ![t] = NullPtr]
      PROVE  MadeInv'
  BY <1>0, <1>1 DEF MadeInv, NullPtr
<1>2. CASE UNCHANGED vars
  BY <1>0, <1>1, <1>2 DEF vars, events, output
<1>3. ASSUME NEW t \in Users, NEW l \in Levels, Create(t, l) PROVE MadeInv'
  <2>1. made' = made + 1 /\ \A u \in Threads : cur'[u] \in {cur[u], made + 1}
    BY <1>0, <1>3 DEF Create
  <2>2. \A k \in dropped : k \in Nat
    BY DEF TypeOK, Lines
  <2> QED
    BY <1>0, <1>3, <2>1, <2>2 DEF Create, MadeInv, output
<1>4. ASSUME NEW t \in Threads, PushLine(t) PROVE MadeInv'
  <2>1. \A j \in 1..(MaxLines + 1) : pushed'[j] \in {pushed[j], cur[t]}
    BY <1>0, <1>4 DEF PushLine
  <2>2. \A u \in Threads : cur'[u] \in {cur[u], NullPtr}
    BY <1>0, <1>4 DEF PushLine, Leave
  <2> QED
    BY <1>0, <1>4, <2>1, <2>2 DEF PushLine, MadeInv, events, output, NullPtr
<1>5. CASE \/ \E t \in Threads : PushReturns(t)
           \/ Destroy \/ Joined \/ LoopTest \/ Waits \/ WakesAlone \/ EndsOnNull
  BY <1>0, <1>1, <1>5 DEF PushReturns, Destroy, Joined, LoopTest, Waits, WakesAlone, EndsOnNull,
                          Goto, events, output
<1>6. CASE Pops
  BY <1>0, <1>6, PopsPushed DEF Pops, MadeInv, events, output
<1>7. ASSUME NEW t \in Writers, WriterStep(t) PROVE MadeInv'
  <2>0. t \in Threads
    BY DEF Writers, Threads, Users
  <2>1. CASE TestError(t)
    <3>1. \A k \in dropped' : k \in dropped \/ k = cur[t]
      BY <2>1 DEF TestError
    <3>2. \A u \in Threads : cur'[u] \in {cur[u], NullPtr}
      BY <1>0, <2>1 DEF TestError, Skips, Leave, Goto
    <3> QED
      BY <1>0, <2>0, <2>1, <3>1, <3>2 DEF TestError, MadeInv, events, NullPtr
  <2>2. CASE ~TestError(t)
    BY <1>0, <1>1, <1>7, <2>0, <2>2 DEF WriterStep, Log, TestDue, Stamp, Reopen, Write, Skips,
                                     Leave, Goto, events, output
  <2> QED
    BY <2>1, <2>2
<1>8. CASE \/ \E g \in Loggers : AddAppender(g) \/ DelAppender(g) \/ \E l \in Levels : SetLevel(g, l)
           \/ \E now \in Times : Tick(now)
  BY <1>0, <1>1, <1>8 DEF AddAppender, DelAppender, SetLevel, Tick, events, output
<1> QED
  BY <1>2, <1>3, <1>4, <1>5, <1>6, <1>7, <1>8 DEF Next, WriterStep

-----------------------------------------------------------------------------
(* Times, failures and what is dropped.  A step that changes no time and   *)
(* takes nobody to the stamp or behind the test for being due keeps it.    *)
LEMMA Calm ==
  ASSUME FreshInv, UNCHANGED <<reopenError, lastTime, failedAt, dropped, tm, clock>>,
         stream = "broken" => stream' = "broken",
         \A t \in Threads : at'[t] \in {"stamp", "check"} => at'[t] = at[t] /\ cur'[t] = cur[t]
  PROVE  FreshInv'
BY DEF FreshInv, ClockInv, ErrorInv, DropsAreFresh

LEMMA FreshKept == TypeOK /\ AtInv /\ MadeInv /\ FreshInv /\ [Next]_vars => FreshInv'
<1> SUFFICES ASSUME TypeOK, AtInv, MadeInv, FreshInv, [Next]_vars PROVE FreshInv'
  OBVIOUS
<1>0. /\ clock \in Nat /\ clock > 3 /\ lastTime \in Nat /\ failedAt \in Nat
      /\ \A k \in Lines : tm[k] \in Nat /\ k \in Nat
      /\ at \in [Threads -> {"idle", "log", "push", "join", "gone", "test", "pop", "ended",
                             "due", "reopen", "stamp", "check", "write"}]
      /\ cur \in [Threads -> Lines \cup {NullPtr}]
      /\ dropped \in SUBSET Lines /\ made \in Nat
      /\ LogThread \in Threads /\ Owner \in Threads /\ Users \subseteq Threads
      /\ Writers \subseteq Threads
  <2>1. /\ clock \in Nat /\ clock > 3 /\ lastTime \in Nat /\ failedAt \in Nat
        /\ \A k \in Lines : tm[k] \in Nat
    <3>1. Times \cup {0} \subseteq Nat /\ \A now \in Times : now > 3
      BY LoggerAssumption
    <3>2. /\ clock \in Times /\ lastTime \in Times \cup {0} /\ failedAt \in Times \cup {0}
          /\ tm \in [Lines -> Times \cup {0}]
      BY DEF TypeOK
    <3> QED
      BY <3>1, <3>2
  <2>2. dropped \in SUBSET Lines /\ made \in Nat /\ \A k \in Lines : k \in Nat
    BY LoggerAssumption DEF TypeOK, Lines
  <2>3. Writers \subseteq Threads /\ LogThread \in Threads /\ Owner \in Threads /\ Users \subseteq Threads
    BY DEF Threads, Users, Writers
  <2> QED
    BY <2>1, <2>2, <2>3 DEF TypeOK
<1>1. CASE UNCHANGED vars
  BY <1>1, Calm DEF vars, events, output
<1>2. ASSUME NEW t \in Users, NEW l \in Levels, Create(t, l) PROVE FreshInv'
  <2>1. /\ \A k \in Lines : tm'[k] = IF k = made + 1 THEN clock ELSE tm[k]
        /\ \A u \in Threads : at'[u] \in {"stamp", "check"} => at'[u] = at[u] /\ cur'[u] = cur[u]
        /\ UNCHANGED <<output, clock>>
    BY <1>0, <1>2 DEF Create, TypeOK
  <2>2. \A u \in Threads : at[u] \in {"stamp", "check"} => cur[u] \in Lines /\ cur[u] # made + 1
    BY <1>0 DEF AtInv, MadeInv
  <2>3. \A k \in dropped : k # made + 1 /\ k \in Lines
    BY <1>0 DEF MadeInv
  <2>4. ClockInv'
    BY <1>0, <2>1 DEF FreshInv, ClockInv, output
  <2>5. ErrorInv'
    BY <2>1, <2>2 DEF FreshInv, ErrorInv, output
  <2>6. DropsAreFresh'
    BY <2>1, <2>3 DEF FreshInv, DropsAreFresh, output
  <2> QED
    BY <2>4, <2>5, <2>6 DEF FreshInv
<1>3. ASSUME NEW t \in Threads, PushLine(t) \/ PushReturns(t) PROVE FreshInv'
  BY <1>0, <1>3, Calm DEF PushLine, PushReturns, Leave, Goto, events, output
<1>4. CASE Destroy \/ Joined \/ LoopTest \/ Waits \/ WakesAlone \/ Pops \/ EndsOnNull
  BY <1>0, <1>4, Calm DEF Destroy, AfterExitFlag, Joined, LoopTest, Waits, WakesAlone, Pops,
                          EndsOnNull, Goto, events, output
<1>5. ASSUME NEW g \in Loggers, AddAppender(g) \/ DelAppender(g) \/ \E l \in Levels : SetLevel(g, l)
      PROVE  FreshInv'
  BY <1>5, Calm DEF AddAppender, DelAppender, SetLevel, events, output
<1>6. ASSUME NEW now \in Times, Tick(now) PROVE FreshInv'
  <2>1. clock' > clock /\ clock' \in Nat /\ UNCHANGED <<at, cur, events, output>>
    BY <1>6, LoggerAssumption DEF Tick
  <2>2. ClockInv'
    BY <1>0, <2>1 DEF FreshInv, ClockInv, events, output
  <2> QED
    BY <2>1, <2>2 DEF FreshInv, ErrorInv, DropsAreFresh, events, output
<1>7. ASSUME NEW t \in Writers, Log(t) PROVE FreshInv'
  BY <1>0, <1>7, Calm DEF Log, Skips, Leave, Goto, events, output
<1>8. ASSUME NEW t \in Writers, TestDue(t) PROVE FreshInv'
  <2>1. CASE Due(t)
    BY <1>0, <1>8, <2>1, Calm DEF TestDue, Goto, events, output
  <2>2. CASE ~Due(t)
    <3>1. cur[t] \in Lines /\ tm[cur[t]] < lastTime + 3
      BY <1>0, <1>8, <2>2 DEF TestDue, Due, AtInv
    <3>2. /\ at' = [at EXCEPT ![t] = "check"]
          /\ UNCHANGED <<cur, clock, made, lvl, tm, stream, reopenError, lastTime, file, failedAt, dropped>>
      BY <1>8, <2>2 DEF TestDue, Goto, events, output
    <3>3. ErrorInv'
      BY <1>0, <3>1, <3>2 DEF FreshInv, ErrorInv
    <3> QED
      BY <3>2, <3>3 DEF FreshInv, ClockInv, DropsAreFresh
  <2> QED
    BY <2>1, <2>2
<1>9. ASSUME NEW t \in Writers, NEW ok \in BOOLEAN, Reopen(t, ok) PROVE FreshInv'
  <2>0. UNCHANGED <<cur, tm, clock, lastTime, dropped>> /\ at' = [at EXCEPT ![t] = "stamp"]
    BY <1>9 DEF Reopen, Goto, events
  <2>1. CASE ok /\ stream # "broken"
    BY <2>0, <1>9, <2>1 DEF Reopen, FreshInv, ClockInv, ErrorInv, DropsAreFresh
  <2>2. CASE ~(ok /\ stream # "broken")
    <3>1. reopenError' /\ failedAt' = clock /\ (stream = "broken" => stream' = "broken")
      BY <1>9, <2>2 DEF Reopen
    <3>2. ClockInv'
      BY <1>0, <2>0, <3>1 DEF FreshInv, ClockInv
    <3>3. \A u \in Threads : at'[u] \in {"stamp", "check"} => cur[u] \in Lines
      BY <1>0, <1>9, <2>0 DEF AtInv, Reopen
    <3>4. lastTime <= clock
      BY DEF FreshInv, ClockInv
    <3>5. ErrorInv'
      BY <1>0, <2>0, <3>1, <3>2, <3>3, <3>4 DEF ErrorInv, FreshInv, ClockInv
    <3>6. DropsAreFresh'
      BY <1>0, <2>0, <3>1 DEF FreshInv, ClockInv, DropsAreFresh
    <3> QED
      BY <3>2, <3>5, <3>6 DEF FreshInv
  <2> QED
    BY <2>1, <2>2
<1>10. ASSUME NEW t \in Writers, Stamp(t) PROVE FreshInv'
  <2>1. /\ UNCHANGED <<cur, tm, clock, stream, reopenError, failedAt, dropped>>
        /\ lastTime' = tm[cur[t]] /\ at[t] = "stamp" /\ at' = [at EXCEPT ![t] = "check"]
        /\ cur[t] \in Lines
    BY <1>0, <1>10 DEF Stamp, Goto, events, AtInv
  <2>2. ErrorInv'
    BY <1>0, <2>1 DEF FreshInv, ErrorInv
  <2> QED
    BY <2>1, <2>2 DEF FreshInv, ClockInv, DropsAreFresh
<1>11. ASSUME NEW t \in Writers, TestError(t) PROVE FreshInv'
  <2>1. /\ UNCHANGED <<tm, clock, stream, reopenError, lastTime, failedAt>>
        /\ at[t] = "check" /\ cur[t] \in Lines
        /\ \A u \in Threads : at'[u] \in {"stamp", "check"} => at'[u] = at[u] /\ cur'[u] = cur[u]
    BY <1>0, <1>11 DEF TestError, Skips, Leave, Goto, events, AtInv
  <2>2. CASE reopenError
    <3>1. dropped' = dropped \cup {cur[t]}
      BY <1>11, <2>2 DEF TestError
    <3>2. failedAt # 0 /\ (tm[cur[t]] < failedAt + 3 \/ stream = "broken")
      BY <1>0, <2>1, <2>2 DEF FreshInv, ErrorInv
    <3> QED
      BY <2>1, <3>1, <3>2 DEF FreshInv, ClockInv, ErrorInv, DropsAreFresh
  <2>3. CASE ~reopenError
    BY <1>11, <2>1, <2>3 DEF TestError, FreshInv, ClockInv, ErrorInv, DropsAreFresh
  <2> QED
    BY <2>2, <2>3
<1>12. ASSUME NEW t \in Writers, NEW ok \in BOOLEAN, Write(t, ok) PROVE FreshInv'
  <2>1. /\ UNCHANGED <<reopenError, lastTime, failedAt, dropped, tm, clock>>
        /\ stream = "broken" => stream' = "broken"
    BY <1>12 DEF Write, events
  <2>2. \A u \in Threads : at'[u] \in {"stamp", "check"} => at'[u] = at[u] /\ cur'[u] = cur[u]
    BY <1>0, <1>12 DEF Write, Skips, Leave
  <2> QED
    BY <2>1, <2>2, Calm
<1> QED
  BY <1>1, <1>2, <1>3, <1>4, <1>5, <1>6, <1>7, <1>8, <1>9, <1>10, <1>11, <1>12 DEF Next

-----------------------------------------------------------------------------
LEMMA InitIInv == Init => IInv
<1> SUFFICES ASSUME Init PROVE IInv
  OBVIOUS
<1>1. QP!IInv
  BY SameInit, QueueFits, QP!InitIInv DEF Init
<1>2. Q!TypeOK
  BY <1>1, SameTypes DEF QP!IInv
<1>3. TypeOK
  <2>1. /\ at \in [Threads -> {"idle", "log", "push", "join", "gone", "test", "pop", "ended",
                                "due", "reopen", "stamp", "check", "write"}]
        /\ cur \in [Threads -> Lines \cup {NullPtr}]
        /\ pushed \in [1..(MaxLines + 1) -> Lines \cup {NullPtr}]
    BY DEF Init
  <2>2. /\ lvl \in [Lines -> Levels \cup {0}] /\ tm \in [Lines -> Times \cup {0}]
        /\ level \in [Loggers -> Levels] /\ attached \in SUBSET Loggers
    BY LoggerAssumption DEF Init
  <2>3. /\ isExit \in BOOLEAN /\ reopenError \in BOOLEAN /\ stream \in {"open", "closed", "broken"}
        /\ dropped \in SUBSET Lines
        /\ clock \in Times /\ lastTime \in Times \cup {0} /\ failedAt \in Times \cup {0}
    BY DEF Init
  <2>4. made \in 0..MaxLines /\ trouble \in 0..MaxTrouble /\ file \in Seq(Lines)
    BY LoggerAssumption DEF Init
  <2> QED
    BY <1>2, <2>1, <2>2, <2>3, <2>4 DEF TypeOK
<1>4. AtInv
  BY LoggerAssumption DEF Init, Q!Init, AtInv, QueueUsers, Threads, Users
<1>5. MadeInv
  BY LoggerAssumption DEF Init, MadeInv, NullPtr
<1>6. FreshInv
  <2>1. clock \in Nat
    BY LoggerAssumption DEF Init
  <2> QED
    BY <2>1 DEF Init, FreshInv, ClockInv, ErrorInv, DropsAreFresh
<1> QED
  BY <1>1, <1>3, <1>4, <1>5, <1>6 DEF IInv

LEMMA NextIInv == IInv /\ [Next]_vars => IInv'
<1> SUFFICES ASSUME IInv, [Next]_vars PROVE IInv'
  OBVIOUS
<1>1. QP!IInv'
  BY QueueInv DEF IInv
<1>2. TypeOK'
  BY <1>1, TypesKept DEF IInv
<1>3. AtInv' /\ MadeInv' /\ FreshInv'
  BY AtKept, MadeKept, FreshKept DEF IInv
<1> QED
  BY <1>1, <1>2, <1>3 DEF IInv

(* The queue's invariant holds of the logger's queue, and the appender's   *)
(* times and flags stay related, whoever steps.                            *)
THEOREM Invariance == Spec => []IInv
BY InitIInv, NextIInv, PTL DEF Spec

(* The variables stay in their types; in particular what the log thread    *)
(* pops is always a line or the nullptr of the destructor.                 *)
THEOREM TypeCorrect == Spec => []TypeOK
<1>1. IInv => TypeOK
  BY DEF IInv
<1> QED
  BY <1>1, Invariance, PTL

(* A line is dropped only in the three seconds after the file could not be *)
(* opened, or after a failed write: however the two threads' tests, stamps *)
(* and reopens interleave in FileLogAppender::log.                         *)
THEOREM FreshDrops == Spec => []DropsAreFresh
<1>1. IInv => DropsAreFresh
  BY DEF IInv, FreshInv
<1> QED
  BY <1>1, Invariance, PTL

(* The log thread, the threads that log and the destructor use m_queue as  *)
(* ConcurrentQueue describes it, so it is a Deque here too: every line is  *)
(* handed to the log thread at most once and in the order of the pushes.   *)
THEOREM LoggerQueue == Spec => QP!Spec
<1>1. Init => QP!Init
  BY SameInit DEF Init
<1>2. IInv /\ [Next]_vars => [QP!Next]_(QP!vars)
  BY StepIsQueueStep DEF IInv
<1> QED
  BY <1>1, <1>2, Invariance, PTL DEF Spec, QP!Spec

(* The refinement proved of ConcurrentQueue holds of the logger's queue.   *)
THEOREM QueueIsDeque == Spec => QP!ImplementsDeque
BY LoggerQueue, QueueFits, QP!Refinement, PTL

(* While the log thread sleeps, each line in the queue has a push still to *)
(* notify or a notification that came between its test and its sleep.      *)
THEOREM QueueWakeups == Spec => []QP!WakeupsCoverItems
BY LoggerQueue, QueueFits, QP!WakeupsSuffice, PTL

-----------------------------------------------------------------------------
(* LogFormatter.                                                           *)

(* The place in the pattern where the next piece begins.                   *)
LastCut == cuts[Len(cuts)]

(* Between two iterations, tmp is what the pattern reads behind the last   *)
(* cut, or a % stands there.  The date at the end of the pattern leaves i  *)
(* behind it.                                                              *)
ScanInv ==
    stage = "scan" /\ ~error =>
        \/ parsing_string /\ Reads(pattern, tmp, LastCut, i)
        \/ parsing_string /\ tmp = <<>> /\ LastCut = Len(pattern) + 1 /\ i > Len(pattern)
        \/ ~parsing_string /\ tmp = <<>> /\ Reads(pattern, <<"%">>, LastCut, i)

(* Pieces stand in the pattern between their cuts; of dates this holds if  *)
(* there is one, which then owns the format.                               *)
PieceReads(string, v, from, to) ==
    /\ v[1] = 0 => Reads(string, v[2], from, to)
    /\ v[1] = 1 /\ v[2] # "d" => Reads(string, <<"%", v[2]>>, from, to)

DateReads(string, format, from, to) ==
    \/ format = <<>> /\ Reads(string, <<"%", "d">>, from, to)
    \/ Reads(string, <<"%", "d">> \o (<<"lb">> \o format \o <<"rb">>), from, to)

Dates == {j \in DOMAIN patterns : patterns[j] = <<1, "d">>}

PieceInv ==
    /\ Len(cuts) = Len(patterns) + 1 /\ cuts[1] = 1
    /\ ~error => \A j \in DOMAIN patterns : PieceReads(pattern, patterns[j], cuts[j], cuts[j + 1])
    /\ ~error /\ OneDate => \A j \in Dates : DateReads(pattern, dateformat, cuts[j], cuts[j + 1])
    /\ Dates = {} => dateformat = <<>>

StageInv ==
    /\ stage = "scan" /\ error => i > Len(pattern)
    /\ stage = "build" => ~error /\ AllRead
    /\ stage # "done" => items = <<>>

FormatterInv == FormatterTypeOK /\ ScanInv /\ PieceInv /\ StageInv /\ RoundTrip

-----------------------------------------------------------------------------
LEMMA ReadsOneMore ==
  ASSUME NEW string \in Seq(Chars), NEW text \in Seq(Chars), NEW from \in Nat \ {0}, NEW to \in Nat,
         Reads(string, text, from, to), to <= Len(string)
  PROVE  Reads(string, Append(text, string[to]), from, to + 1)
<1>1. /\ Len(Append(text, string[to])) = Len(text) + 1
      /\ \A k \in 1..Len(text) : Append(text, string[to])[k] = text[k]
      /\ Append(text, string[to])[Len(text) + 1] = string[to]
  OBVIOUS
<1> QED
  BY <1>1 DEF Reads

LEMMA ReadsTwo ==
  ASSUME NEW string \in Seq(Chars), NEW from \in Nat \ {0}, from + 1 <= Len(string)
  PROVE  Reads(string, <<string[from], string[from + 1]>>, from, from + 2)
<1> DEFINE text == <<string[from], string[from + 1]>>
<1>1. Len(text) = 2 /\ text[1] = string[from] /\ text[2] = string[from + 1]
  OBVIOUS
<1>2. \A k \in 1..Len(text) : string[from + k - 1] = text[k]
  <2> TAKE k \in 1..Len(text)
  <2>1. k = 1 \/ k = 2
    BY <1>1
  <2> HIDE DEF text
  <2> QED
    BY <2>1, <1>1
<1> QED
  BY <1>1, <1>2 DEF Reads

(* A date with a format in braces.                                         *)
DateText(format) == <<"%", "d">> \o (<<"lb">> \o format \o <<"rb">>)

LEMMA DateTextIs ==
  ASSUME NEW format \in Seq(Chars)
  PROVE  /\ DateText(format) \in Seq(Chars)
         /\ Len(DateText(format)) = Len(format) + 4
         /\ \A k \in 1..(Len(format) + 4) :
               DateText(format)[k] = CASE k = 1 -> "%"
                                       [] k = 2 -> "d"
                                       [] k = 3 -> "lb"
                                       [] k = Len(format) + 4 -> "rb"
                                       [] OTHER -> format[k - 3]
<1>1. PICK n \in Nat : n = Len(format)
  BY LenProperties
<1>2. /\ <<"%", "d">> \in Seq(Chars) /\ <<"lb">> \in Seq(Chars) /\ <<"rb">> \in Seq(Chars)
      /\ Len(<<"%", "d">>) = 2 /\ Len(<<"lb">>) = 1 /\ Len(<<"rb">>) = 1
  BY FormatterAssumption
<1> DEFINE open == <<"lb">> \o format
<1>3. /\ open \in Seq(Chars) /\ Len(open) = 1 + n
      /\ \A k \in 1..(1 + n) : open[k] = IF k <= 1 THEN "lb" ELSE format[k - 1]
  <2>1. \A k \in 1..(1 + n) : open[k] = IF k <= 1 THEN <<"lb">>[k] ELSE format[k - 1]
    BY <1>1, <1>2, ConcatProperties
  <2> QED
    BY <1>1, <1>2, <2>1, ConcatProperties
<1> DEFINE inner == open \o <<"rb">>
<1> HIDE DEF open
<1>4. /\ inner \in Seq(Chars) /\ Len(inner) = n + 2
      /\ \A k \in 1..(n + 2) : inner[k] = IF k <= 1 + n THEN open[k] ELSE "rb"
  <2>1. /\ inner \in Seq(Chars) /\ Len(inner) = (1 + n) + 1
        /\ \A k \in 1..((1 + n) + 1) : inner[k] = IF k <= 1 + n THEN open[k] ELSE <<"rb">>[k - (1 + n)]
    BY <1>2, <1>3, ConcatProperties
  <2>2. ASSUME NEW k \in 1..(n + 2), ~(k <= 1 + n) PROVE k - (1 + n) = 1
    BY <1>1, <2>2
  <2> QED
    BY <1>1, <2>1, <2>2
<1>5. DateText(format) = <<"%", "d">> \o inner
  BY DEF DateText, inner, open
<1> HIDE DEF inner
<1>6. /\ DateText(format) \in Seq(Chars) /\ Len(DateText(format)) = 2 + (n + 2)
      /\ \A k \in 1..(2 + (n + 2)) :
            DateText(format)[k] = IF k <= 2 THEN <<"%", "d">>[k] ELSE inner[k - 2]
  BY <1>2, <1>4, <1>5, ConcatProperties
<1>7. ASSUME NEW k \in 1..(n + 4)
      PROVE  DateText(format)[k] = CASE k = 1 -> "%"
                                     [] k = 2 -> "d"
                                     [] k = 3 -> "lb"
                                     [] k = n + 4 -> "rb"
                                     [] OTHER -> format[k - 3]
  <2>1. CASE k = 1 \/ k = 2
    <3>1. k \in 1..(2 + (n + 2)) /\ k <= 2
      BY <1>1, <2>1
    <3> QED
      BY <2>1, <3>1, <1>6
  <2>2. CASE k > 2
    <3>1. k - 2 \in 1..(n + 2) /\ k \in 1..(2 + (n + 2)) /\ ~(k <= 2)
      BY <1>1, <2>2
    <3>2. DateText(format)[k] = IF k - 2 <= 1 + n THEN open[k - 2] ELSE "rb"
      BY <3>1, <1>4, <1>6
    <3>3. CASE k = n + 4
      BY <3>2, <3>3, <2>2, <1>1
    <3>4. CASE k < n + 4
      <4>1. k - 2 \in 1..(1 + n) /\ k - 2 <= 1 + n /\ (k - 2) - 1 = k - 3
        BY <3>4, <2>2, <1>1
      <4>2. DateText(format)[k] = IF k - 2 <= 1 THEN "lb" ELSE format[k - 3]
        BY <4>1, <3>2, <1>3
      <4> QED
        BY <4>2, <3>4, <2>2, <1>1
    <3> QED
      BY <3>3, <3>4, <1>1
  <2> QED
    BY <2>1, <2>2, <1>1
<1> QED
  BY <1>1, <1>6, <1>7

LEMMA ReadsDate ==
  ASSUME NEW string \in Seq(Chars), NEW from \in Nat \ {0}, NEW c \in (from + 3)..Len(string),
         string[from] = "%", string[from + 1] = "d", string[from + 2] = "lb", string[c] = "rb"
  PROVE  Reads(string, DateText(SubSeq(string, from + 3, c - 1)), from, c + 1)
<1> DEFINE format == SubSeq(string, from + 3, c - 1)
<1>1. c \in Nat /\ c <= Len(string) /\ from + 3 <= c
  BY LenProperties
<1>2. \A k \in (from + 3)..(c - 1) : string[k] \in Chars
  BY <1>1, LenProperties
<1>3. /\ format \in Seq(Chars)
      /\ Len(format) = IF from + 3 <= c - 1 THEN (c - 1) - (from + 3) + 1 ELSE 0
      /\ \A k \in 1..((c - 1) - (from + 3) + 1) : format[k] = string[(from + 3) + k - 1]
  BY <1>1, <1>2, SubSeqProperties
<1>4. Len(format) = c - from - 3
  BY <1>1, <1>3
<1> HIDE DEF format
<1>5. Len(DateText(format)) = c - from + 1
  <2>1. Len(DateText(format)) = Len(format) + 4
    BY <1>3, DateTextIs
  <2> QED
    BY <2>1, <1>1, <1>4
<1>6. ASSUME NEW k \in 1..(c - from + 1) PROVE string[from + k - 1] = DateText(format)[k]
  <2>1. DateText(format)[k] = CASE k = 1 -> "%"
                                [] k = 2 -> "d"
                                [] k = 3 -> "lb"
                                [] k = Len(format) + 4 -> "rb"
                                [] OTHER -> format[k - 3]
    <3>1. k \in 1..(Len(format) + 4)
      BY <1>1, <1>4
    <3> QED
      BY <3>1, <1>3, DateTextIs
  <2>2. CASE k \in 1..3
    <3>1. k = 1 \/ k = 2 \/ k = 3
      BY <2>2
    <3>2. CASE k = 1
      <4>1. from + k - 1 = from
        BY <3>2
      <4> QED
        BY <2>1, <3>2, <4>1
    <3>3. CASE k = 2
      <4>1. from + k - 1 = from + 1
        BY <3>3
      <4> QED
        BY <2>1, <3>3, <4>1
    <3>4. CASE k = 3
      <4>1. from + k - 1 = from + 2
        BY <3>4
      <4> QED
        BY <2>1, <3>4, <4>1
    <3> QED
      BY <3>1, <3>2, <3>3, <3>4
  <2>3. CASE k \in 4..(c - from)
    <3>1. k - 3 \in 1..((c - 1) - (from + 3) + 1) /\ (from + 3) + (k - 3) - 1 = from + k - 1
      BY <2>3, <1>1
    <3>2. format[k - 3] = string[from + k - 1]
      BY <3>1, <1>3
    <3>3. k # 1 /\ k # 2 /\ k # 3 /\ k # Len(format) + 4
      BY <2>3, <1>1, <1>4
    <3> QED
      BY <2>1, <3>2, <3>3
  <2>4. CASE k = c - from + 1
    <3>1. from + k - 1 = c /\ k = Len(format) + 4 /\ k # 1 /\ k # 2 /\ k # 3
      BY <2>4, <1>1, <1>4
    <3> QED
      BY <2>1, <3>1
  <2> QED
    BY <2>2, <2>3, <2>4, <1>1
<1> QED
  BY <1>1, <1>5, <1>6 DEF Reads, format

-----------------------------------------------------------------------------
(* A step that adds a piece to patterns, and where it ends to cuts.        *)
Pieces == ({0} \X Seq(Chars)) \cup ({1} \X Chars)

AddsPiece(v, to) ==
    patterns' = Append(patterns, v) /\ cuts' = Append(cuts, to) /\ pattern' = pattern

LEMMA PieceAdded ==
  ASSUME FormatterTypeOK, PieceInv, ~error,
         NEW v \in Pieces, NEW to \in Nat \ {0}, AddsPiece(v, to),
         ~error' => PieceReads(pattern, v, LastCut, to),
         v # <<1, "d">> => dateformat' = dateformat,
         v = <<1, "d">> /\ ~error' /\ Dates = {} => DateReads(pattern, dateformat', LastCut, to)
  PROVE  PieceInv' /\ LastCut' = to
<1>1. PICK n \in Nat : n = Len(patterns) /\ Len(cuts) = n + 1 /\ DOMAIN patterns = 1..n
  BY LenProperties DEF FormatterTypeOK, PieceInv, Pieces
<1>2. /\ Len(patterns') = n + 1 /\ DOMAIN patterns' = 1..(n + 1) /\ patterns'[n + 1] = v
      /\ \A j \in 1..n : patterns'[j] = patterns[j]
  BY <1>1, AppendProperties, LenProperties DEF FormatterTypeOK, AddsPiece, Pieces
<1>3. /\ Len(cuts') = n + 2 /\ cuts'[n + 2] = to
      /\ \A j \in 1..(n + 1) : cuts'[j] = cuts[j]
  BY <1>1, AppendProperties DEF FormatterTypeOK, AddsPiece
<1>4. LastCut = cuts[n + 1] /\ cuts'[n + 1] = cuts[n + 1] /\ cuts'[1] = 1 /\ pattern' = pattern
  BY <1>1, <1>3 DEF LastCut, PieceInv, AddsPiece
<1>5. ASSUME NEW j \in 1..n
      PROVE  /\ patterns'[j] = patterns[j] /\ cuts'[j] = cuts[j] /\ cuts'[j + 1] = cuts[j + 1]
             /\ j \in 1..(n + 1) /\ j # n + 1
  BY <1>2, <1>3
<1>6. Len(cuts)' = Len(patterns)' + 1 /\ (cuts[1] = 1)'
  BY <1>2, <1>3, <1>4
<1>7. ASSUME ~error', NEW j \in 1..(n + 1)
      PROVE  PieceReads(pattern', patterns'[j], cuts'[j], cuts'[j + 1])
  <2>1. CASE j \in 1..n
    BY <2>1, <1>1, <1>4, <1>5 DEF PieceInv
  <2>2. CASE j = n + 1
    <3>1. j + 1 = n + 2
      BY <2>2
    <3> QED
      BY <2>2, <3>1, <1>7, <1>2, <1>3, <1>4
  <2> QED
    BY <2>1, <2>2
<1>8. ASSUME ~error', OneDate', NEW j \in 1..(n + 1), patterns'[j] = <<1, "d">>
      PROVE  DateReads(pattern', dateformat', cuts'[j], cuts'[j + 1])
  <2>1. \A h, k \in 1..(n + 1) : patterns'[h] = <<1, "d">> /\ patterns'[k] = <<1, "d">> => h = k
    BY <1>2, <1>8 DEF OneDate
  <2>2. CASE v = <<1, "d">>
    <3>1. Dates = {}
      <4>1. SUFFICES ASSUME NEW k \in 1..n, patterns[k] = <<1, "d">> PROVE FALSE
        BY <1>1 DEF Dates
      <4>2. n + 1 \in 1..(n + 1)
        OBVIOUS
      <4> QED
        BY <4>1, <4>2, <2>1, <2>2, <1>2, <1>5
    <3>2. j = n + 1 /\ j + 1 = n + 2
      <4>1. n + 1 \in 1..(n + 1)
        OBVIOUS
      <4> QED
        BY <4>1, <2>1, <2>2, <1>2, <1>8
    <3>3. DateReads(pattern, dateformat', LastCut, to)
      BY <3>1, <2>2, <1>8
    <3> QED
      BY <3>2, <3>3, <1>3, <1>4
  <2>3. CASE v # <<1, "d">>
    <3>1. j \in 1..n
      <4>1. j # n + 1
        BY <2>3, <1>2, <1>8
      <4> QED
        BY <4>1
    <3>2. OneDate
      BY <2>1, <1>1, <1>5 DEF OneDate
    <3>3. j \in Dates
      BY <3>1, <1>1, <1>5, <1>8 DEF Dates
    <3>4. DateReads(pattern, dateformat, cuts[j], cuts[j + 1])
      BY <3>2, <3>3 DEF PieceInv
    <3> QED
      BY <3>1, <3>4, <2>3, <1>4, <1>5
  <2> QED
    BY <2>2, <2>3
<1>9. ASSUME Dates' = {} PROVE dateformat' = <<>>
  <2>1. \A j \in 1..(n + 1) : patterns'[j] # <<1, "d">>
    BY <1>2, <1>9 DEF Dates
  <2>2. v # <<1, "d">>
    <3>1. n + 1 \in 1..(n + 1)
      OBVIOUS
    <3> QED
      BY <3>1, <2>1, <1>2
  <2>3. Dates = {}
    BY <2>1, <1>1, <1>5 DEF Dates
  <2> QED
    BY <2>2, <2>3 DEF PieceInv
<1>10. PieceInv'
  <2>1. \A j \in DOMAIN patterns' : j \in 1..(n + 1)
    BY <1>2
  <2>2. \A j \in Dates' : j \in 1..(n + 1) /\ patterns'[j] = <<1, "d">>
    BY <1>2 DEF Dates
  <2> QED
    BY <2>1, <2>2, <1>6, <1>7, <1>8, <1>9 DEF PieceInv
<1>11. LastCut' = to
  BY <1>3 DEF LastCut
<1> QED
  BY <1>10, <1>11

(* While there is something to scan, nothing has gone wrong.               *)
LEMMA LastType ==
  ASSUME FormatterTypeOK, PieceInv
  PROVE  LastCut \in Nat \ {0}
<1>1. Len(cuts) \in 1..Len(cuts)
  BY LenProperties DEF FormatterTypeOK, PieceInv
<1> QED
  BY <1>1, ElementOfSeq DEF FormatterTypeOK, LastCut

LEMMA BehindPercent ==
  ASSUME FormatterTypeOK, PieceInv, ScanInv, StageInv, Scanning, ~parsing_string
  PROVE  /\ ~error /\ tmp = <<>>
         /\ i = LastCut + 1 /\ i <= Len(pattern) /\ pattern[LastCut] = "%"
         /\ Len(pattern) \in Nat
<1>1. ~error
  BY LenProperties DEF Scanning, StageInv, FormatterTypeOK
<1>2. tmp = <<>> /\ Reads(pattern, <<"%">>, LastCut, i)
  BY <1>1 DEF ScanInv, Scanning
<1>3. Len(<<"%">>) = 1 /\ <<"%">>[1] = "%"
  OBVIOUS
<1>4. LastCut + 1 - 1 = LastCut /\ 1 \in 1..1
  BY LastType
<1>5. i = LastCut + 1 /\ pattern[LastCut] = "%"
  BY <1>2, <1>3, <1>4 DEF Reads
<1>6. Len(pattern) \in Nat
  BY LenProperties DEF FormatterTypeOK
<1> QED
  BY <1>1, <1>2, <1>5, <1>6 DEF Scanning

LEMMA InText ==
  ASSUME FormatterTypeOK, PieceInv, ScanInv, StageInv, Scanning, parsing_string
  PROVE  ~error /\ Reads(pattern, tmp, LastCut, i) /\ i <= Len(pattern) /\ pattern[i] \in Chars
<1>1. i \in 1..Len(pattern) /\ Len(pattern) \in Nat
  BY LenProperties DEF Scanning, FormatterTypeOK
<1>2. pattern[i] \in Chars
  BY <1>1, ElementOfSeq DEF FormatterTypeOK
<1> QED
  BY <1>1, <1>2 DEF Scanning, StageInv, ScanInv

-----------------------------------------------------------------------------
(* The steps of the loop.                                                  *)
LoopInv == FormatterTypeOK /\ ScanInv /\ PieceInv /\ StageInv

LEMMA EmptyText ==
  ASSUME FormatterTypeOK, PieceInv, NEW to, Reads(pattern, tmp, LastCut, to), tmp = <<>>
  PROVE  to = LastCut
<1>1. Len(tmp) = 0
  OBVIOUS
<1> QED
  BY <1>1, LastType DEF Reads

(* A text that is not empty becomes a piece.                               *)
LEMMA TextFlushed ==
  ASSUME FormatterTypeOK, PieceInv, ~error, ~error', Reads(pattern, tmp, LastCut, i),
         patterns' = Flushed, cuts' = TextCut, UNCHANGED <<pattern, dateformat>>
  PROVE  PieceInv' /\ LastCut' = i
<1>1. CASE tmp = <<>>
  <2>1. UNCHANGED <<patterns, cuts, pattern, dateformat>>
    BY <1>1 DEF Flushed, TextCut
  <2>2. PieceInv'
    BY <2>1 DEF PieceInv, OneDate, Dates
  <2>3. LastCut' = LastCut
    BY <2>1 DEF LastCut
  <2> QED
    BY <1>1, <2>2, <2>3, EmptyText
<1>2. CASE tmp # <<>>
  <2> DEFINE v == <<0, tmp>>
  <2>1. v \in Pieces /\ v # <<1, "d">> /\ v[1] = 0 /\ v[2] = tmp
    BY DEF FormatterTypeOK, Pieces
  <2>2. AddsPiece(v, i)
    BY <1>2 DEF Flushed, TextCut, AddsPiece
  <2>3. PieceReads(pattern, v, LastCut, i)
    BY <2>1 DEF PieceReads
  <2> HIDE DEF v
  <2>4. i \in Nat \ {0}
    BY DEF FormatterTypeOK
  <2> QED
    BY <2>1, <2>2, <2>3, <2>4, PieceAdded
<1> QED
  BY <1>1, <1>2

LEMMA FlushedTypes ==
  ASSUME FormatterTypeOK
  PROVE  Flushed \in Seq(Pieces) /\ TextCut \in Seq(Nat \ {0})
<1>1. <<0, tmp>> \in Pieces
  BY DEF FormatterTypeOK, Pieces
<1> QED
  BY <1>1, AppendProperties DEF FormatterTypeOK, Flushed, TextCut, Pieces

LEMMA PercentStep ==
  ASSUME LoopInv, Percent
  PROVE  LoopInv' /\ stage' = "scan"
<1> USE DEF LoopInv
<1>1. stage = "scan" /\ stage' = "scan" /\ pattern' = pattern /\ dateformat' = dateformat
      /\ error' = error /\ items' = items /\ i' = i + 1 /\ i \in Nat \ {0}
  BY DEF Percent, Scanning, FormatterTypeOK
<1>2. <<"%">> \in Seq(Chars) /\ Len(<<"%">>) = 1 /\ <<"%">>[1] = "%"
  BY FormatterAssumption
<1>3. i \in 1..Len(pattern) /\ Len(pattern) \in Nat /\ pattern[i] = "%"
  BY LenProperties DEF Percent, Scanning, FormatterTypeOK
<1>4. CASE parsing_string
  <2>1. ~error /\ Reads(pattern, tmp, LastCut, i)
    BY <1>4, InText DEF Percent
  <2>2. PieceInv' /\ LastCut' = i
    BY <1>1, <1>4, <2>1, TextFlushed DEF Percent
  <2>3. FormatterTypeOK'
    <3>1. tmp' = <<>> /\ patterns' = Flushed /\ cuts' = TextCut /\ parsing_string' = FALSE
      BY <1>4 DEF Percent
    <3>2. Flushed \in Seq(Pieces) /\ TextCut \in Seq(Nat \ {0}) /\ <<>> \in Seq(Chars)
      BY FlushedTypes
    <3>3. i + 1 \in Nat \ {0}
      BY <1>1
    <3> QED
      BY <1>1, <3>1, <3>2, <3>3 DEF FormatterTypeOK, Pieces
  <2>4. Reads(pattern', <<"%">>, LastCut', i')
    <3>1. \A k \in 1..1 : i + k - 1 = i /\ k = 1
      BY <1>1
    <3> QED
      BY <1>1, <1>2, <1>3, <2>2, <3>1 DEF Reads
  <2>5. ScanInv'
    BY <1>4, <2>4 DEF ScanInv, Percent
  <2>6. StageInv'
    BY <1>1, <2>1 DEF StageInv
  <2> QED
    BY <1>1, <2>2, <2>3, <2>5, <2>6
<1>5. CASE ~parsing_string
  <2>1. ~error /\ tmp = <<>> /\ i = LastCut + 1 /\ i <= Len(pattern) /\ pattern[LastCut] = "%"
    BY <1>5, BehindPercent DEF Percent
  <2> DEFINE v == <<1, "%">>
  <2>2. v \in Pieces /\ v # <<1, "d">> /\ v[1] = 1 /\ v[2] = "%"
    BY FormatterAssumption DEF Pieces
  <2>3. AddsPiece(v, i + 1)
    BY <1>5 DEF Percent, AddsPiece
  <2>4. Reads(pattern, <<"%", "%">>, LastCut, i + 1)
    <3>1. LastCut + 2 = i + 1
      BY <2>1, LastType
    <3>2. pattern \in Seq(Chars)
      BY DEF FormatterTypeOK
    <3> QED
      BY <2>1, <1>3, <3>1, <3>2, LastType, ReadsTwo
  <2>5. PieceReads(pattern, v, LastCut, i + 1)
    BY <2>2, <2>4 DEF PieceReads
  <2> HIDE DEF v
  <2>6. PieceInv' /\ LastCut' = i + 1
    BY <1>1, <2>1, <2>2, <2>3, <2>5, PieceAdded
  <2>7. FormatterTypeOK'
    <3>1. tmp' = tmp /\ patterns' = Append(patterns, v) /\ cuts' = Append(cuts, i + 1)
          /\ parsing_string' = TRUE
      BY <1>5, <2>3 DEF Percent, AddsPiece
    <3> QED
      BY <1>1, <2>2, <3>1, AppendProperties DEF FormatterTypeOK, Pieces
  <2>8. Reads(pattern', tmp', LastCut', i')
    <3>1. tmp' = <<>> /\ Len(<<>>) = 0
      BY <1>5, <2>1 DEF Percent
    <3> QED
      BY <1>1, <1>3, <2>6, <3>1 DEF Reads
  <2>9. ScanInv'
    BY <1>5, <2>8 DEF ScanInv, Percent
  <2>10. StageInv'
    BY <1>1, <2>1 DEF StageInv
  <2> QED
    BY <1>1, <2>6, <2>7, <2>9, <2>10
<1> QED
  BY <1>4, <1>5

LEMMA TextStep ==
  ASSUME LoopInv, Text
  PROVE  LoopInv' /\ stage' = "scan"
<1> USE DEF LoopInv
<1>1. /\ stage = "scan" /\ stage' = "scan" /\ i' = i + 1 /\ i \in Nat \ {0}
      /\ tmp' = Append(tmp, pattern[i]) /\ parsing_string
      /\ UNCHANGED <<pattern, parsing_string, patterns, dateformat, items, error, cuts>>
  BY DEF Text, Scanning, FormatterTypeOK
<1>2. ~error /\ Reads(pattern, tmp, LastCut, i) /\ i <= Len(pattern) /\ pattern[i] \in Chars
  BY InText DEF Text
<1>3. FormatterTypeOK'
  BY <1>1, <1>2, AppendProperties DEF FormatterTypeOK
<1>4. LastCut' = LastCut
  BY <1>1 DEF LastCut
<1>5. Reads(pattern', tmp', LastCut', i')
  <2>1. Reads(pattern, Append(tmp, pattern[i]), LastCut, i + 1)
    BY <1>1, <1>2, LastType, ReadsOneMore DEF FormatterTypeOK
  <2> QED
    BY <2>1, <1>1, <1>4
<1>6. ScanInv'
  BY <1>1, <1>5 DEF ScanInv
<1>7. PieceInv'
  BY <1>1 DEF PieceInv, OneDate, Dates
<1>8. StageInv'
  BY <1>1, <1>2 DEF StageInv
<1> QED
  BY <1>1, <1>3, <1>6, <1>7, <1>8

(* What the steps that take a letter have in common.                       *)
LEMMA LetterTaken ==
  ASSUME LoopInv, Letter, NEW to \in Nat \ {0}, TakeLetter(to),
         dateformat' \in Seq(Chars), i' \in Nat \ {0}, error' \in BOOLEAN,
         pattern[i] # "d" => dateformat' = dateformat /\ to = i + 1,
         pattern[i] = "d" /\ ~error' /\ Dates = {} => DateReads(pattern, dateformat', LastCut, to)
  PROVE  /\ FormatterTypeOK' /\ PieceInv' /\ LastCut' = to
         /\ UNCHANGED <<pattern, items, tmp, stage>> /\ stage = "scan" /\ tmp = <<>>
         /\ parsing_string' = TRUE
<1> USE DEF LoopInv
<1>1. /\ ~error /\ tmp = <<>>
      /\ i = LastCut + 1 /\ i <= Len(pattern) /\ pattern[LastCut] = "%"
      /\ Len(pattern) \in Nat /\ LastCut \in Nat \ {0}
  BY BehindPercent, LastType DEF Letter
<1>2. pattern \in Seq(Chars) /\ pattern[i] \in Chars
  BY <1>1, ElementOfSeq DEF FormatterTypeOK
<1> DEFINE v == <<1, pattern[i]>>
<1>3. v \in Pieces /\ v[1] = 1 /\ v[2] = pattern[i] /\ (v = <<1, "d">> <=> pattern[i] = "d")
  BY <1>2 DEF Pieces
<1>4. AddsPiece(v, to)
  BY DEF TakeLetter, AddsPiece
<1>5. PieceReads(pattern, v, LastCut, to)
  <2>1. Reads(pattern, <<pattern[LastCut], pattern[LastCut + 1]>>, LastCut, LastCut + 2)
    BY <1>1, <1>2, ReadsTwo
  <2>2. LastCut + 2 = i + 1
    BY <1>1
  <2> QED
    BY <2>1, <2>2, <1>1, <1>3 DEF PieceReads
<1> HIDE DEF v
<1>6. PieceInv' /\ LastCut' = to
  BY <1>1, <1>3, <1>4, <1>5, PieceAdded
<1>7. /\ UNCHANGED <<pattern, items, tmp, stage>> /\ stage = "scan"
      /\ parsing_string' = TRUE
  BY DEF TakeLetter, Letter, Scanning
<1>8. FormatterTypeOK'
  <2>1. patterns' \in Seq(Pieces) /\ cuts' \in Seq(Nat \ {0})
    BY <1>3, <1>4, AppendProperties DEF FormatterTypeOK, AddsPiece, Pieces
  <2> QED
    BY <1>7, <2>1 DEF FormatterTypeOK, Pieces
<1> QED
  BY <1>1, <1>6, <1>7, <1>8

(* Behind a letter nothing has been read yet.                              *)
LEMMA NothingRead ==
  ASSUME NEW string, NEW to \in Nat, to <= Len(string) + 1
  PROVE  Reads(string, <<>>, to, to)
BY DEF Reads

LEMMA PlainLetterStep ==
  ASSUME LoopInv, PlainLetter
  PROVE  LoopInv' /\ stage' = "scan"
<1> USE DEF LoopInv
<1>1. /\ Letter /\ TakeLetter(i + 1) /\ i' = i + 1
      /\ dateformat' = dateformat /\ error' = error
      /\ i \in Nat \ {0} /\ i + 1 \in Nat \ {0}
  BY DEF PlainLetter, FormatterTypeOK
<1>2. /\ ~error /\ i = LastCut + 1 /\ i <= Len(pattern) /\ pattern[LastCut] = "%"
      /\ Len(pattern) \in Nat /\ LastCut \in Nat \ {0} /\ pattern \in Seq(Chars)
  BY <1>1, BehindPercent, LastType DEF Letter, FormatterTypeOK
<1>3. ASSUME pattern[i] = "d", Dates = {} PROVE DateReads(pattern, dateformat', LastCut, i + 1)
  <2>1. Reads(pattern, <<pattern[LastCut], pattern[LastCut + 1]>>, LastCut, LastCut + 2)
    BY <1>2, ReadsTwo
  <2>2. LastCut + 2 = i + 1
    BY <1>2
  <2>3. dateformat' = <<>>
    BY <1>1, <1>3 DEF PieceInv
  <2> QED
    BY <2>1, <2>2, <2>3, <1>2, <1>3 DEF DateReads
<1>4. /\ FormatterTypeOK' /\ PieceInv' /\ LastCut' = i + 1
      /\ UNCHANGED <<pattern, items, tmp, stage>> /\ stage = "scan" /\ tmp = <<>>
      /\ parsing_string' = TRUE
  <2>1. dateformat' \in Seq(Chars) /\ i' \in Nat \ {0} /\ error' \in BOOLEAN
    BY <1>1 DEF FormatterTypeOK
  <2> QED
    BY <1>1, <1>3, <2>1, LetterTaken
<1>5. Reads(pattern', tmp', LastCut', i')
  <2>1. Reads(pattern, <<>>, i + 1, i + 1)
    BY <1>1, <1>2, NothingRead
  <2> QED
    BY <2>1, <1>1, <1>4
<1>6. ScanInv' /\ StageInv'
  BY <1>1, <1>2, <1>4, <1>5 DEF ScanInv, StageInv
<1> QED
  BY <1>4, <1>6

LEMMA DateAtEndStep ==
  ASSUME LoopInv, NEW stray \in Chars, DateAtEnd(stray)
  PROVE  LoopInv' /\ stage' = "scan"
<1> USE DEF LoopInv
<1>1. /\ Letter /\ TakeLetter(i + 1) /\ pattern[i] = "d" /\ i = Len(pattern)
      /\ dateformat' = dateformat /\ error' \in BOOLEAN
      /\ i \in Nat \ {0} /\ i + 1 \in Nat \ {0} /\ i' \in Nat \ {0} /\ i' > i + 1
  BY DEF DateAtEnd, FormatterTypeOK
<1>2. /\ i = LastCut + 1 /\ pattern[LastCut] = "%"
      /\ Len(pattern) \in Nat /\ LastCut \in Nat \ {0} /\ pattern \in Seq(Chars)
  BY <1>1, BehindPercent, LastType DEF Letter, FormatterTypeOK
<1>3. ASSUME Dates = {} PROVE DateReads(pattern, dateformat', LastCut, i + 1)
  <2>1. Reads(pattern, <<pattern[LastCut], pattern[LastCut + 1]>>, LastCut, LastCut + 2)
    <3>1. LastCut + 1 <= Len(pattern)
      BY <1>1, <1>2
    <3> QED
      BY <3>1, <1>2, ReadsTwo
  <2>2. LastCut + 2 = i + 1
    BY <1>2
  <2>3. dateformat' = <<>>
    BY <1>1, <1>3 DEF PieceInv
  <2> QED
    BY <2>1, <2>2, <2>3, <1>1, <1>2 DEF DateReads
<1>4. /\ FormatterTypeOK' /\ PieceInv' /\ LastCut' = i + 1
      /\ UNCHANGED <<pattern, items, tmp, stage>> /\ stage = "scan" /\ tmp = <<>>
      /\ parsing_string' = TRUE
  <2>1. dateformat' \in Seq(Chars)
    BY <1>1 DEF FormatterTypeOK
  <2> QED
    BY <1>1, <1>3, <2>1, LetterTaken
<1>5. LastCut' = Len(pattern') + 1 /\ i' > Len(pattern')
  BY <1>1, <1>4
<1>6. ScanInv' /\ StageInv'
  BY <1>4, <1>5 DEF ScanInv, StageInv
<1> QED
  BY <1>4, <1>6

LEMMA DateStep ==
  ASSUME LoopInv, Date
  PROVE  LoopInv' /\ stage' = "scan"
<1> USE DEF LoopInv
<1>1. /\ Letter /\ pattern[i] = "d" /\ i + 1 <= Len(pattern) /\ pattern[i + 1] = "lb"
      /\ i \in Nat \ {0} /\ Len(pattern) \in Nat /\ pattern \in Seq(Chars)
  BY LenProperties DEF Date, BraceFollows, FormatterTypeOK
<1>2. PICK c \in (i + 2)..(Len(pattern) + 1) :
          /\ Closes(c, i + 2)
          /\ dateformat' = dateformat \o SubSeq(pattern, i + 2, c - 1)
          /\ error' = (c = Len(pattern) + 1)
          /\ i' = IF error' THEN c ELSE c + 1
          /\ TakeLetter(c + 1)
  BY DEF Date
<1>3. /\ i = LastCut + 1 /\ pattern[LastCut] = "%" /\ LastCut \in Nat \ {0}
  BY <1>1, BehindPercent, LastType DEF Letter
<1>4. /\ c \in Nat \ {0} /\ c + 1 \in Nat \ {0} /\ i' \in Nat \ {0} /\ error' \in BOOLEAN
      /\ error' => i' > Len(pattern)
      /\ ~error' => c <= Len(pattern) /\ i' = c + 1
  <2>1. c \in Nat /\ c >= i + 2
    BY <1>1
  <2>2. c \in Nat \ {0} /\ c + 1 \in Nat \ {0}
    BY <2>1, <1>1
  <2>3. CASE c = Len(pattern) + 1
    <3>1. error' = TRUE /\ i' = c
      BY <2>3, <1>2
    <3>2. c > Len(pattern)
      BY <2>3, <1>1
    <3> QED
      BY <2>2, <3>1, <3>2
  <2>4. CASE c # Len(pattern) + 1
    <3>1. c <= Len(pattern)
      BY <2>2, <2>4, <1>1
    <3> QED
      BY <2>2, <2>4, <3>1, <1>2
  <2> QED
    BY <2>3, <2>4
<1> DEFINE format == SubSeq(pattern, i + 2, c - 1)
<1>5. format \in Seq(Chars) /\ dateformat' \in Seq(Chars)
  <2>1. \A k \in (i + 2)..(c - 1) : k \in 1..Len(pattern)
    BY <1>1, <1>2
  <2>2. \A k \in (i + 2)..(c - 1) : pattern[k] \in Chars
    BY <1>1, <2>1, ElementOfSeq
  <2>3. i + 2 \in Int /\ c - 1 \in Int
    BY <1>1, <1>4
  <2>4. format \in Seq(Chars)
    BY <2>2, <2>3, SubSeqProperties
  <2> HIDE DEF format
  <2>5. dateformat' = dateformat \o format
    BY <1>2 DEF format
  <2> QED
    BY <2>4, <2>5, ConcatProperties DEF FormatterTypeOK
<1>6. ASSUME ~error', Dates = {} PROVE DateReads(pattern, dateformat', LastCut, c + 1)
  <2>1. dateformat = <<>>
    BY <1>6 DEF PieceInv
  <2>2. dateformat' = format
    <3> HIDE DEF format
    <3>1. dateformat' = <<>> \o format
      BY <2>1, <1>2 DEF format
    <3> QED
      BY <3>1, <1>5, ConcatEmptySeq
  <2>3. c \in (LastCut + 3)..Len(pattern) /\ LastCut + 3 = i + 2 /\ LastCut + 2 = i + 1 /\ LastCut + 1 = i
    BY <1>2, <1>3, <1>4, <1>6, <1>1
  <2>4. pattern[c] = "rb"
    BY <1>2, <1>4, <1>6 DEF Closes
  <2>5. Reads(pattern, DateText(SubSeq(pattern, LastCut + 3, c - 1)), LastCut, c + 1)
    BY <2>3, <2>4, <1>1, <1>3, ReadsDate
  <2>6. Reads(pattern, DateText(dateformat'), LastCut, c + 1)
    BY <2>2, <2>3, <2>5
  <2> QED
    BY <2>6 DEF DateReads, DateText
<1>7. /\ FormatterTypeOK' /\ PieceInv' /\ LastCut' = c + 1
      /\ UNCHANGED <<pattern, items, tmp, stage>> /\ stage = "scan" /\ tmp = <<>>
      /\ parsing_string' = TRUE
  BY <1>1, <1>2, <1>4, <1>5, <1>6, LetterTaken
<1>8. ASSUME ~error' PROVE Reads(pattern', tmp', LastCut', i')
  <2>1. Reads(pattern, <<>>, c + 1, c + 1)
    BY <1>1, <1>4, <1>8, NothingRead
  <2> QED
    BY <2>1, <1>4, <1>7, <1>8
<1>9. ScanInv' /\ StageInv'
  BY <1>4, <1>7, <1>8 DEF ScanInv, StageInv
<1> QED
  BY <1>7, <1>9

-----------------------------------------------------------------------------
(* The end of the loop, and the items.                                     *)
LEMMA ScanEndsStep ==
  ASSUME LoopInv, RoundTrip, ScanEnds
  PROVE  LoopInv' /\ RoundTrip'
<1> USE DEF LoopInv
<1>1. /\ stage = "scan" /\ items = <<>> /\ i \in Nat \ {0} /\ Len(pattern) \in Nat
      /\ UNCHANGED <<pattern, i, parsing_string, tmp, dateformat, items, error>>
  BY LenProperties DEF ScanEnds, StageInv, FormatterTypeOK
<1>2. CASE error
  <2>1. stage' = "done" /\ UNCHANGED <<patterns, cuts>>
    BY <1>2 DEF ScanEnds
  <2>2. FormatterTypeOK'
    BY <1>1, <2>1 DEF FormatterTypeOK
  <2>3. ScanInv' /\ StageInv'
    BY <2>1 DEF ScanInv, StageInv
  <2>4. PieceInv'
    BY <1>1, <2>1 DEF PieceInv, OneDate, Dates
  <2>5. RoundTrip'
    <3>1. cuts'[1] = 1 /\ error' /\ Len(items') = 0
      BY <1>1, <1>2, <2>1 DEF PieceInv
    <3> QED
      BY <3>1 DEF RoundTrip
  <2> QED
    BY <2>2, <2>3, <2>4, <2>5
<1>3. CASE ~error
  <2>1. /\ stage' = "build" /\ patterns' = Flushed /\ cuts' = TextCut /\ i > Len(pattern)
        /\ ~error'
    BY <1>1, <1>3 DEF ScanEnds, LastText
  <2>2. LastCut \in Nat \ {0}
    BY LastType
  <2>3. CASE tmp = <<>>
    <3>1. UNCHANGED <<patterns, cuts>>
      BY <2>1, <2>3 DEF Flushed, TextCut
    <3>2. PieceInv' /\ LastCut' = LastCut
      BY <1>1, <3>1 DEF PieceInv, OneDate, Dates, LastCut
    <3>3. LastCut = Len(pattern) + 1 \/ (LastCut = Len(pattern) /\ pattern[LastCut] = "%")
      <4>1. CASE parsing_string /\ Reads(pattern, tmp, LastCut, i)
        <5>1. i = LastCut /\ i <= Len(pattern) + 1
          BY <4>1, <2>3, EmptyText DEF Reads
        <5>2. i = Len(pattern) + 1
          BY <5>1, <1>1, <2>1
        <5> QED
          BY <5>1, <5>2
      <4>2. CASE ~parsing_string /\ Reads(pattern, <<"%">>, LastCut, i)
        <5>1. Len(<<"%">>) = 1 /\ <<"%">>[1] = "%" /\ LastCut + 1 - 1 = LastCut /\ 1 \in 1..1
          BY <2>2
        <5>2. i = LastCut + 1 /\ i <= Len(pattern) + 1 /\ pattern[LastCut] = "%"
          BY <4>2, <5>1 DEF Reads
        <5> QED
          BY <5>2, <1>1, <2>1, <2>2
      <4>3. \/ parsing_string /\ Reads(pattern, tmp, LastCut, i)
            \/ LastCut = Len(pattern) + 1
            \/ ~parsing_string /\ Reads(pattern, <<"%">>, LastCut, i)
        BY <1>1, <1>3 DEF ScanInv
      <4> QED
        BY <4>1, <4>2, <4>3
    <3>4. AllRead'
      BY <3>2, <3>3, <1>1 DEF AllRead, LastCut
    <3>5. FormatterTypeOK'
      BY <1>1, <2>1, <3>1 DEF FormatterTypeOK
    <3> QED
      BY <3>2, <3>4, <3>5, <2>1, <1>1 DEF ScanInv, StageInv, RoundTrip
  <2>4. CASE tmp # <<>>
    <3>1. Reads(pattern, tmp, LastCut, i)
      BY <2>4, <1>1, <1>3 DEF ScanInv
    <3>2. PieceInv' /\ LastCut' = i
      BY <1>1, <1>3, <2>1, <3>1, TextFlushed
    <3>3. i = Len(pattern) + 1
      BY <1>1, <2>1, <3>1 DEF Reads
    <3>4. AllRead'
      BY <3>2, <3>3, <1>1 DEF AllRead, LastCut
    <3>5. FormatterTypeOK'
      BY <1>1, <2>1, FlushedTypes DEF FormatterTypeOK, Pieces
    <3> QED
      BY <3>2, <3>4, <3>5, <2>1, <1>1 DEF ScanInv, StageInv, RoundTrip
  <2> QED
    BY <2>3, <2>4
<1> QED
  BY <1>2, <1>3

LEMMA LetterNames ==
  ASSUME NEW c \in ItemLetters
  PROVE  /\ FormatItems[c] # "String" /\ LetterOf(FormatItems[c]) = c
         /\ c # "d" => FormatItems[c] # "DateTime"
<1>1. \A k \in ItemLetters : FormatItems[k] = FormatItems[c] => k = c
  BY DEF ItemLetters, FormatItems
<1>2. LetterOf(FormatItems[c]) = c
  BY <1>1 DEF LetterOf
<1> QED
  BY <1>2 DEF ItemLetters, FormatItems

(* What an item stands for is what its piece reads, if the braces of a     *)
(* date without a format are the ones that stand there.                    *)
LEMMA ItemReads ==
  ASSUME FormatterTypeOK, NEW v \in Pieces, ~Unknown(v),
         NEW from \in Nat \ {0}, NEW to \in Nat \ {0}, PieceReads(pattern, v, from, to),
         NEW braces \in {<<>>, <<"lb", "rb">>},
         v = <<1, "d">> =>
            IF dateformat = <<>> THEN Reads(pattern, <<"%", "d">> \o braces, from, to)
            ELSE Reads(pattern, DateText(dateformat), from, to)
  PROVE  Reads(pattern, Source(ItemOf(v), braces), from, to)
<1>1. CASE v[1] = 0
  <2>1. ItemOf(v).class = "String" /\ ItemOf(v).arg = v[2]
    BY <1>1 DEF ItemOf, Item
  <2>2. Source(ItemOf(v), braces) = v[2]
    BY <2>1 DEF Source
  <2> QED
    BY <1>1, <2>2 DEF PieceReads
<1>2. CASE v = <<1, "d">>
  <2>1. v[1] = 1 /\ v[2] = "d"
    BY <1>2
  <2>2. /\ ItemOf(v).class = "DateTime"
        /\ ItemOf(v).arg = IF dateformat = <<>> THEN <<"default">> ELSE dateformat
    BY <2>1 DEF ItemOf, DateTime, Item
  <2>3. CASE dateformat = <<>>
    <3>1. Source(ItemOf(v), braces) = <<"%", "d">> \o braces
      BY <2>2, <2>3 DEF Source
    <3> QED
      BY <1>2, <2>3, <3>1
  <2>4. CASE dateformat # <<>>
    <3>1. dateformat # <<"default">>
      <4>1. SUFFICES ASSUME dateformat = <<"default">> PROVE FALSE
        OBVIOUS
      <4>2. 1 \in 1..Len(dateformat) /\ dateformat[1] = "default"
        BY <4>1
      <4>3. dateformat[1] \in Chars
        BY <4>2, ElementOfSeq DEF FormatterTypeOK
      <4> QED
        BY <4>2, <4>3, FormatterAssumption
    <3>2. Source(ItemOf(v), braces) = DateText(dateformat)
      BY <2>2, <2>4, <3>1 DEF Source, DateText
    <3> QED
      BY <1>2, <2>4, <3>2
  <2> QED
    BY <2>3, <2>4
<1>3. CASE v[1] = 1 /\ v[2] # "d"
  <2>1. v[2] \in ItemLetters
    BY <1>3 DEF Unknown
  <2>2. ItemOf(v).class = FormatItems[v[2]]
    BY <1>3 DEF ItemOf, Item
  <2>3. /\ FormatItems[v[2]] # "String" /\ LetterOf(FormatItems[v[2]]) = v[2]
        /\ FormatItems[v[2]] # "DateTime"
    BY <1>3, <2>1, LetterNames
  <2>4. Source(ItemOf(v), braces) = <<"%", v[2]>>
    BY <2>2, <2>3 DEF Source
  <2> QED
    BY <1>3, <2>4 DEF PieceReads
<1>4. v[1] = 0 \/ v = <<1, "d">> \/ (v[1] = 1 /\ v[2] # "d")
  <2>1. CASE v \in {0} \X Seq(Chars)
    BY <2>1
  <2>2. CASE v \in {1} \X Chars
    <3>1. PICK c \in Chars : v = <<1, c>>
      BY <2>2
    <3> QED
      BY <3>1
  <2> QED
    BY <2>1, <2>2 DEF Pieces
<1> QED
  BY <1>1, <1>2, <1>3, <1>4

LEMMA BuildStep ==
  ASSUME LoopInv, Build
  PROVE  LoopInv' /\ RoundTrip'
<1> USE DEF LoopInv
<1>1. /\ stage = "build" /\ stage' = "done" /\ ~error /\ AllRead
      /\ UNCHANGED <<pattern, i, parsing_string, tmp, patterns, dateformat, cuts>>
  BY DEF Build, StageInv
<1>2. PICK n \in 0..Len(patterns) :
          /\ \A j \in 1..n : ~Unknown(patterns[j])
          /\ n < Len(patterns) => Unknown(patterns[n + 1])
          /\ items' = [j \in 1..n |-> ItemOf(patterns[j])]
          /\ error' = (n # Len(patterns))
  BY DEF Build
<1>3. /\ Len(patterns) \in Nat /\ DOMAIN patterns = 1..Len(patterns)
      /\ n \in Nat /\ n <= Len(patterns)
      /\ Len(cuts) = Len(patterns) + 1 /\ cuts[1] = 1
  BY <1>2, LenProperties DEF FormatterTypeOK, PieceInv
<1>4. ASSUME NEW j \in 1..n
      PROVE  /\ patterns[j] \in Pieces /\ ~Unknown(patterns[j]) /\ j \in DOMAIN patterns
             /\ cuts[j] \in Nat \ {0} /\ cuts[j + 1] \in Nat \ {0}
             /\ PieceReads(pattern, patterns[j], cuts[j], cuts[j + 1])
  <2>1. j \in 1..Len(patterns) /\ j \in 1..Len(cuts) /\ j + 1 \in 1..Len(cuts)
    BY <1>3
  <2>2. patterns[j] \in Pieces /\ cuts[j] \in Nat \ {0} /\ cuts[j + 1] \in Nat \ {0}
    BY <2>1, ElementOfSeq DEF FormatterTypeOK, Pieces
  <2> QED
    BY <2>1, <2>2, <1>1, <1>2, <1>3 DEF PieceInv
<1>5. items' \in Seq([class : {"String"} \cup {FormatItems[c] : c \in ItemLetters},
                      arg : Seq(Chars) \cup {<<"default">>}])
  <2> DEFINE Items == [class : {"String"} \cup {FormatItems[c] : c \in ItemLetters},
                       arg : Seq(Chars) \cup {<<"default">>}]
  <2>1. ASSUME NEW j \in 1..n PROVE ItemOf(patterns[j]) \in Items
    <3>1. PICK v \in Pieces : v = patterns[j] /\ ~Unknown(v)
      BY <1>4
    <3>2. CASE v[1] = 0
      <4>1. v[2] \in Seq(Chars)
        BY <3>2 DEF Pieces
      <4>2. ItemOf(v) = [class |-> "String", arg |-> v[2]]
        BY <3>2 DEF ItemOf, Item
      <4> QED
        BY <3>1, <4>1, <4>2
    <3>3. CASE v[1] = 1 /\ v[2] = "d"
      <4>1. ItemOf(v) = [class |-> "DateTime",
                         arg |-> IF dateformat = <<>> THEN <<"default">> ELSE dateformat]
        BY <3>3 DEF ItemOf, DateTime, Item
      <4>2. "d" \in ItemLetters /\ FormatItems["d"] = "DateTime"
        BY DEF ItemLetters, FormatItems
      <4> QED
        BY <3>1, <4>1, <4>2 DEF FormatterTypeOK
    <3>4. CASE v[1] = 1 /\ v[2] # "d"
      <4>1. v[2] \in ItemLetters
        BY <3>1, <3>4 DEF Unknown
      <4>2. ItemOf(v) = [class |-> FormatItems[v[2]], arg |-> <<>>]
        BY <3>4 DEF ItemOf, Item
      <4>3. <<>> \in Seq(Chars)
        OBVIOUS
      <4> QED
        BY <3>1, <4>1, <4>2, <4>3
    <3>5. v[1] = 0 \/ v[1] = 1
      BY DEF Pieces
    <3> QED
      BY <3>2, <3>3, <3>4, <3>5
  <2> HIDE DEF Items
  <2>2. [j \in 1..n |-> ItemOf(patterns[j])] \in [1..n -> Items]
    BY <2>1
  <2>3. [j \in 1..n |-> ItemOf(patterns[j])] \in Seq(Items)
    BY <2>2, <1>3
  <2> QED
    BY <2>3, <1>2 DEF Items
<1>6. error' \in BOOLEAN
  BY <1>2
<1>7. FormatterTypeOK'
  BY <1>1, <1>5, <1>6 DEF FormatterTypeOK
<1>8. ScanInv' /\ StageInv'
  BY <1>1 DEF ScanInv, StageInv
<1>9. PieceInv'
  BY <1>1 DEF PieceInv, OneDate, Dates
<1>10. Len(items') = n /\ \A j \in 1..n : items'[j] = ItemOf(patterns[j])
  <2>1. \A j \in 1..n : items'[j] = ItemOf(patterns[j])
    BY <1>2
  <2>2. DOMAIN items' = 1..n
    BY <1>2
  <2>3. DOMAIN items' = 1..Len(items') /\ Len(items') \in Nat
    BY <1>5, LenProperties
  <2>4. Len(items') = n
    BY <2>2, <2>3, <1>3
  <2> QED
    BY <2>1, <2>4
<1>11. ASSUME OneDate
       PROVE  \E braces \in {<<>>, <<"lb", "rb">>} :
                 \A j \in 1..n :
                     Reads(pattern, Source(ItemOf(patterns[j]), braces), cuts[j], cuts[j + 1])
  <2>1. \A j \in Dates : DateReads(pattern, dateformat, cuts[j], cuts[j + 1])
    BY <1>1, <1>11 DEF PieceInv
  <2>2. PICK braces \in {<<>>, <<"lb", "rb">>} :
            \A j \in Dates :
                IF dateformat = <<>>
                THEN Reads(pattern, <<"%", "d">> \o braces, cuts[j], cuts[j + 1])
                ELSE Reads(pattern, DateText(dateformat), cuts[j], cuts[j + 1])
    <3>1. CASE dateformat # <<>>
      <4>1. \A j \in Dates : Reads(pattern, DateText(dateformat), cuts[j], cuts[j + 1])
        BY <3>1, <2>1 DEF DateReads, DateText
      <4> QED
        BY <3>1, <4>1
    <3>2. CASE dateformat = <<>> /\ Dates = {}
      BY <3>2
    <3>3. CASE dateformat = <<>> /\ Dates # {}
      <4>1. PICK d \in Dates : TRUE
        BY <3>3
      <4>2. \A j \in Dates : j = d
        BY <1>11 DEF Dates, OneDate
      <4>3. CASE Reads(pattern, <<"%", "d">>, cuts[d], cuts[d + 1])
        <5>1. <<"%", "d">> \o <<>> = <<"%", "d">>
          OBVIOUS
        <5>2. \A j \in Dates : Reads(pattern, <<"%", "d">> \o <<>>, cuts[j], cuts[j + 1])
          BY <4>2, <4>3, <5>1
        <5> QED
          BY <3>3, <5>2
      <4>4. CASE Reads(pattern, <<"%", "d">> \o (<<"lb">> \o <<>> \o <<"rb">>), cuts[d], cuts[d + 1])
        <5>1. <<"lb">> \o <<>> \o <<"rb">> = <<"lb", "rb">>
          <6>1. /\ <<"lb">> \in Seq(Chars) /\ <<"rb">> \in Seq(Chars)
                /\ <<"lb", "rb">> \in Seq(Chars)
            BY FormatterAssumption
          <6>2. <<"lb">> \o <<>> = <<"lb">>
            BY <6>1, ConcatEmptySeq
          <6>3. /\ <<"lb">> \o <<"rb">> \in Seq(Chars)
                /\ Len(<<"lb">> \o <<"rb">>) = 1 + 1
                /\ \A k \in 1..(1 + 1) : (<<"lb">> \o <<"rb">>)[k] =
                      IF k <= 1 THEN <<"lb">>[k] ELSE <<"rb">>[k - 1]
            BY <6>1, ConcatProperties
          <6>4. <<"lb">> \o <<"rb">> = <<"lb", "rb">>
            <7>1. (<<"lb">> \o <<"rb">>)[1] = "lb" /\ (<<"lb">> \o <<"rb">>)[2] = "rb"
              BY <6>3
            <7>2. \A k \in 1..2 : (<<"lb">> \o <<"rb">>)[k] = <<"lb", "rb">>[k]
              BY <7>1
            <7>3. Len(<<"lb">> \o <<"rb">>) = 2 /\ Len(<<"lb", "rb">>) = 2
              BY <6>3
            <7> QED
              BY <6>1, <6>3, <7>2, <7>3, SeqEqual
          <6> QED
            BY <6>2, <6>4
        <5>2. \A j \in Dates : Reads(pattern, <<"%", "d">> \o <<"lb", "rb">>, cuts[j], cuts[j + 1])
          BY <4>2, <4>4, <5>1
        <5> QED
          BY <3>3, <5>2
      <4> QED
        BY <2>1, <3>3, <4>3, <4>4 DEF DateReads
    <3> QED
      BY <3>1, <3>2, <3>3
  <2>3. ASSUME NEW j \in 1..n
        PROVE  Reads(pattern, Source(ItemOf(patterns[j]), braces), cuts[j], cuts[j + 1])
    <3>1. patterns[j] = <<1, "d">> => j \in Dates
      BY <1>4 DEF Dates
    <3>2. patterns[j] = <<1, "d">> =>
             IF dateformat = <<>>
             THEN Reads(pattern, <<"%", "d">> \o braces, cuts[j], cuts[j + 1])
             ELSE Reads(pattern, DateText(dateformat), cuts[j], cuts[j + 1])
      BY <3>1, <2>2
    <3> QED
      BY <3>2, <1>4, ItemReads
  <2> QED
    BY <2>3
<1>12. ASSUME ~error' PROVE Len(cuts') = Len(items') + 1 /\ AllRead'
  <2>1. n = Len(patterns)
    BY <1>2, <1>12
  <2>2. Len(cuts') = Len(items') + 1
    BY <2>1, <1>1, <1>3, <1>10
  <2> QED
    BY <2>2, <1>1 DEF AllRead
<1>13. RoundTrip'
  <2>1. ASSUME OneDate'
        PROVE  \E braces \in {<<>>, <<"lb", "rb">>} :
                  \A j \in 1..Len(items') :
                      Reads(pattern', Source(items'[j], braces), cuts'[j], cuts'[j + 1])
    <3>1. OneDate
      BY <2>1, <1>1 DEF OneDate
    <3> QED
      BY <3>1, <1>1, <1>10, <1>11
  <2> QED
    BY <2>1, <1>1, <1>3, <1>12 DEF RoundTrip
<1> QED
  BY <1>7, <1>8, <1>9, <1>13

-----------------------------------------------------------------------------
LEMMA InitFormatterInv == FormatterInit => FormatterInv
<1> SUFFICES ASSUME FormatterInit PROVE FormatterInv
  OBVIOUS
<1>1. PICK n \in 0..MaxLen : pattern \in [1..n -> Chars]
  BY DEF FormatterInit
<1>2. n \in Nat /\ pattern \in Seq(Chars) /\ Len(pattern) = n
  BY <1>1, FormatterAssumption
<1>3. /\ tmp = <<>> /\ patterns = <<>> /\ dateformat = <<>> /\ items = <<>> /\ cuts = <<1>>
      /\ i = 1 /\ parsing_string = TRUE /\ error = FALSE /\ stage = "scan"
  BY DEF FormatterInit
<1>4. FormatterTypeOK
  <2>1. <<>> \in Seq(Chars) /\ <<1>> \in Seq(Nat \ {0})
    OBVIOUS
  <2>2. patterns \in Seq(({0} \X Seq(Chars)) \cup ({1} \X Chars))
    BY <1>3
  <2>3. items \in Seq([class : {"String"} \cup {FormatItems[c] : c \in ItemLetters},
                      arg : Seq(Chars) \cup {<<"default">>}])
    BY <1>3
  <2> QED
    <3>1. tmp \in Seq(Chars) /\ dateformat \in Seq(Chars) /\ cuts \in Seq(Nat \ {0})
      BY <1>3, <2>1
    <3>2. i \in Nat \ {0} /\ stage \in {"scan", "build", "done"}
      BY <1>3
    <3>3. parsing_string \in BOOLEAN /\ error \in BOOLEAN
      BY <1>3, Zenon
    <3> QED
      BY <1>2, <2>2, <2>3, <3>1, <3>2, <3>3 DEF FormatterTypeOK
<1>5. LastCut = 1
  BY <1>3 DEF LastCut
<1>6. ScanInv
  <2>1. Reads(pattern, <<>>, 1, 1)
    BY <1>2, NothingRead
  <2> QED
    BY <2>1, <1>3, <1>5 DEF ScanInv
<1>7. PieceInv
  <2>1. Len(patterns) = 0 /\ DOMAIN patterns = {} /\ Len(cuts) = 1 /\ cuts[1] = 1
    BY <1>3
  <2> QED
    BY <2>1, <1>3 DEF PieceInv, Dates
<1>8. StageInv /\ RoundTrip
  BY <1>3 DEF StageInv, RoundTrip
<1> QED
  BY <1>4, <1>6, <1>7, <1>8 DEF FormatterInv

LEMMA NextFormatterInv == FormatterInv /\ [FormatterNext]_formatterVars => FormatterInv'
<1> SUFFICES ASSUME FormatterInv, [FormatterNext]_formatterVars PROVE FormatterInv'
  OBVIOUS
<1>1. LoopInv /\ RoundTrip
  BY DEF FormatterInv, LoopInv
<1>2. ASSUME LoopInv', stage' = "scan" PROVE FormatterInv'
  BY <1>2 DEF FormatterInv, LoopInv, RoundTrip
<1>3. ASSUME LoopInv', RoundTrip' PROVE FormatterInv'
  BY <1>3 DEF FormatterInv, LoopInv
<1>4. CASE Percent
  BY <1>1, <1>2, <1>4, PercentStep
<1>5. CASE Text
  BY <1>1, <1>2, <1>5, TextStep
<1>6. CASE PlainLetter
  BY <1>1, <1>2, <1>6, PlainLetterStep
<1>7. CASE Date
  BY <1>1, <1>2, <1>7, DateStep
<1>8. CASE \E stray \in Chars : DateAtEnd(stray)
  BY <1>1, <1>2, <1>8, DateAtEndStep
<1>9. CASE ScanEnds
  BY <1>1, <1>3, <1>9, ScanEndsStep
<1>10. CASE Build
  BY <1>1, <1>3, <1>10, BuildStep
<1>11. CASE UNCHANGED formatterVars
  <2>1. LoopInv'
    BY <1>1, <1>11 DEF LoopInv, FormatterTypeOK, ScanInv, PieceInv, StageInv, LastCut, Dates,
                       OneDate, AllRead, formatterVars
  <2>2. RoundTrip'
    BY <1>1, <1>11 DEF RoundTrip, OneDate, AllRead, formatterVars
  <2> QED
    BY <2>1, <2>2, <1>3
<1> QED
  BY <1>4, <1>5, <1>6, <1>7, <1>8, <1>9, <1>10, <1>11 DEF FormatterNext

THEOREM FormatterInvariance == FormatterSpec => []FormatterInv
BY InitFormatterInv, NextFormatterInv, PTL DEF FormatterSpec

(* LogFormatter::init keeps its variables in their types, for any          *)
(* characters and patterns of any length.                                  *)
THEOREM FormatterTypeCorrect == FormatterSpec => []FormatterTypeOK
<1>1. FormatterInv => FormatterTypeOK
  BY DEF FormatterInv
<1> QED
  BY <1>1, FormatterInvariance, PTL

(* LogFormatter::init loses nothing of a pattern and moves nothing, for    *)
(* any characters and patterns of any length with at most one %d: with     *)
(* more (~OneDate) RoundTrip says nothing, as their formats are joined.    *)
THEOREM PatternRoundTrip == FormatterSpec => []RoundTrip
<1>1. FormatterInv => RoundTrip
  BY DEF FormatterInv
<1> QED
  BY <1>1, FormatterInvariance, PTL
=============================================================================
