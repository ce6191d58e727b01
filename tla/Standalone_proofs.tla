-------------------------- MODULE Standalone_proofs --------------------------
(***************************************************************************)
(* The two components that no other one uses, for every value of their     *)
(* constants.  RepeatingTimer: nothing but a misuse of a timer ends the    *)
(* program.  BehaviorTree: between two ticks and during one, the result of *)
(* a node is the one that the results of its children call for.            *)
(***************************************************************************)
EXTENDS BehaviorTree, RepeatingTimer, TLAPS

-----------------------------------------------------------------------------
(* RepeatingTimer.                                                         *)

IsInside(u, o, places) == on[u] = o /\ pc[u] \in places

(* How m_running, the std::thread and its loop go together, as long as the *)
(* timers are used as they should be.                                      *)
ThreadInv ==
    \A o \in Timers :
        /\ io[o] \notin {"none", "ended"} => joinable[o]
        /\ joinable[o] => callback[o] = "own"
        /\ joinable[o] => running[o] \/ \E u \in Users : IsInside(u, o, {"halt", "join"})
        /\ alive[o] = "no" => ~joinable[o]

(* What a user may rely on inside a function of a timer.                   *)
InsideInv ==
    \A u \in Users :
        /\ pc[u] # "idle" => alive[on[u]] = "yes"
        /\ pc[u] \in {"spawn", "arm"} => running[on[u]]
        /\ pc[u] = "spawn" => callback[on[u]] = "own" /\ ~joinable[on[u]]
        /\ pc[u] \in {"halt", "join"} => ~running[on[u]]
        /\ pc[u] \in {"assign", "destruct"} => then[u] # "idle" /\ ~joinable[on[u]]

(* Who starts or destroys a timer, or assigns to it, is alone in that.     *)
AloneInv ==
    \A u, v \in Users :
        u # v /\ pc[u] # "idle" /\ pc[v] # "idle" /\ on[u] = on[v] =>
            /\ then[u] = "idle"
            /\ ~(pc[u] = "spawn" /\ pc[v] = "spawn")

WellUsed == ThreadInv /\ InsideInv /\ AloneInv

TimerInv == TimerTypeOK /\ (aborted => misused) /\ (~misused => WellUsed)

-----------------------------------------------------------------------------
LEMMA InitTimerInv == TimerInit => TimerInv
<1> SUFFICES ASSUME TimerInit PROVE TimerInv
  OBVIOUS
<1>1. TimerTypeOK
  BY DEF TimerInit, TimerTypeOK
<1>2. ThreadInv
  BY DEF TimerInit, ThreadInv
<1>3. InsideInv /\ AloneInv
  BY DEF TimerInit, InsideInv, AloneInv
<1> QED
  BY <1>1, <1>2, <1>3 DEF TimerInit, TimerInv, WellUsed

(* The steps keep the types ...                                            *)
LEMMA StartTypes ==
  ASSUME TimerTypeOK, NEW o \in Timers, NEW u \in Users,
         \/ StartExchange(u, o)
         \/ \E k \in {"idle", "assign", "destruct"} : StopExchange(u, o, k)
         \/ \E p \in Timers : MoveConstruct(u, o, p)
  PROVE  TimerTypeOK'
<1> USE DEF TimerTypeOK, Goto, user, timer
<1>1. CASE StartExchange(u, o)
  <2>1. misused' \in BOOLEAN
    BY <1>1 DEF StartExchange
  <2>2. CASE running[o]
    BY <1>1, <2>1, <2>2 DEF StartExchange
  <2>3. CASE ~running[o]
    BY <1>1, <2>1, <2>3 DEF StartExchange
  <2> QED
    BY <2>2, <2>3
<1>2. ASSUME NEW k \in {"idle", "assign", "destruct"}, StopExchange(u, o, k) PROVE TimerTypeOK'
  <2>1. misused' \in BOOLEAN
    BY <1>2 DEF StopExchange
  <2>2. pc' \in [Users -> {"idle", "spawn", "arm", "halt", "join", "assign", "destruct"}]
    BY <1>2 DEF StopExchange
  <2> QED
    BY <1>2, <2>1, <2>2 DEF StopExchange
<1>3. ASSUME NEW p \in Timers, MoveConstruct(u, o, p) PROVE TimerTypeOK'
  <2>1. misused' \in BOOLEAN
    BY <1>3 DEF MoveConstruct, TakeFrom
  <2> QED
    BY <1>3, <2>1 DEF MoveConstruct, TakeFrom
<1> QED
  BY <1>1, <1>2, <1>3

LEMMA UserTypes ==
  ASSUME TimerTypeOK, NEW u \in Users, UserStep(u)
  PROVE  TimerTypeOK'
<1> USE DEF TimerTypeOK, Goto
<1>1. CASE Spawn(u)
  <2>1. CASE joinable[on[u]]
    BY <1>1, <2>1 DEF Spawn
  <2>2. CASE ~joinable[on[u]]
    BY <1>1, <2>2 DEF Spawn
  <2> QED
    BY <2>1, <2>2
<1>2. CASE Arm(u)
  BY <1>2 DEF Arm
<1>3. CASE Halt(u)
  BY <1>3 DEF Halt
<1>4. CASE Join(u)
  BY <1>4 DEF Join, Joins
<1>5. CASE Destruct(u)
  BY <1>5 DEF Destruct
<1>6. ASSUME NEW p \in Timers, Assign(u, p) PROVE TimerTypeOK'
  <2>1. misused' \in BOOLEAN
    BY <1>6 DEF Assign, TakeFrom
  <2> QED
    BY <1>6, <2>1 DEF Assign, TakeFrom
<1> QED
  BY <1>1, <1>2, <1>3, <1>4, <1>5, <1>6 DEF UserStep

LEMMA IoTypes ==
  ASSUME TimerTypeOK, NEW o \in Timers, Construct(o) \/ IoStep(o) \/ CallbackStops(o)
  PROVE  TimerTypeOK'
<1> USE DEF TimerTypeOK, At, IoGoto, user
<1>1. CASE Construct(o)
  BY <1>1 DEF Construct
<1>2. CASE Fires(o)
  BY <1>2 DEF Fires
<1>3. CASE RunEnds(o)
  BY <1>3 DEF RunEnds
<1>4. CASE Handle(o)
  BY <1>4 DEF Handle
<1>5. CASE CallbackReturns(o)
  BY <1>5 DEF CallbackReturns
<1>6. CASE CallbackStops(o)
  BY <1>6 DEF CallbackStops
<1>7. CASE Rearm(o)
  BY <1>7 DEF Rearm, WaitAgain
<1> QED
  BY <1>1, <1>2, <1>3, <1>4, <1>5, <1>6, <1>7 DEF IoStep

-----------------------------------------------------------------------------
(* ... and, short of a misuse, the rest of the invariant.  A timer without *)
(* a user inside of it has a thread only while it is running.              *)
LEMMA IdleTimer ==
  ASSUME TimerTypeOK, WellUsed, NEW o \in Timers, Free(o), joinable[o]
  PROVE  running[o]
BY DEF WellUsed, ThreadInv, IsInside, Free, Inside

LEMMA TakeFromUnused ==
  ASSUME TimerTypeOK, NEW o \in Timers, NEW p \in Timers, o # p, TakeFrom(o, p), ~misused'
  PROVE  /\ ~misused /\ ~running[p]
         /\ \A x \in Timers : /\ callback'[x] = IF x = p THEN "moved" ELSE IF x = o THEN callback[p] ELSE callback[x]
                              /\ running'[x] = IF x = o THEN FALSE ELSE running[x]
BY DEF TakeFrom, TimerTypeOK

LEMMA MoveConstructUnused ==
  ASSUME TimerTypeOK, WellUsed, ~aborted, ~misused',
         NEW o \in Timers, NEW u \in Users, NEW p \in Timers, MoveConstruct(u, o, p)
  PROVE  WellUsed' /\ ~aborted'
<1>1. /\ alive[p] = "yes" /\ alive[o] = "no" /\ o # p /\ Free(p) /\ TakeFrom(o, p)
      /\ alive' = [alive EXCEPT ![o] = "yes"]
      /\ UNCHANGED <<stopped, joinable, armed, io, pc, on, then, aborted>>
  BY DEF MoveConstruct, Calls, user
<1>2. /\ ~running[p]
      /\ \A x \in Timers : /\ callback'[x] = IF x = p THEN "moved" ELSE IF x = o THEN callback[p] ELSE callback[x]
                           /\ running'[x] = IF x = o THEN FALSE ELSE running[x]
  BY <1>1, TakeFromUnused
<1>3. ~joinable[p] /\ ~joinable[o] /\ \A v \in Users : pc[v] # "idle" => on[v] \notin {o, p}
  <2>1. ~joinable[p]
    BY <1>1, <1>2, IdleTimer
  <2>2. ~joinable[o] /\ \A v \in Users : pc[v] # "idle" => on[v] # o
    BY <1>1 DEF WellUsed, ThreadInv, InsideInv
  <2>3. \A v \in Users : pc[v] # "idle" => on[v] # p
    BY <1>1 DEF Free, Inside, TimerTypeOK
  <2> QED
    BY <2>1, <2>2, <2>3
<1>4. ThreadInv'
  <2> SUFFICES ASSUME NEW x \in Timers
               PROVE  /\ io[x] \notin {"none", "ended"} => joinable[x]
                      /\ joinable[x] => callback'[x] = "own"
                      /\ joinable[x] => running'[x] \/ \E v \in Users : IsInside(v, x, {"halt", "join"})'
                      /\ alive'[x] = "no" => ~joinable[x]
    BY <1>1 DEF ThreadInv
  <2>1. CASE x \in {o, p}
    BY <1>3, <2>1 DEF WellUsed, ThreadInv
  <2>2. CASE x \notin {o, p}
    <3>1. callback'[x] = callback[x] /\ running'[x] = running[x] /\ alive'[x] = alive[x]
      BY <1>1, <1>2, <2>2 DEF TimerTypeOK
    <3> QED
      BY <1>1, <3>1 DEF WellUsed, ThreadInv, IsInside
  <2> QED
    BY <2>1, <2>2
<1>5. InsideInv'
  <2> SUFFICES ASSUME NEW v \in Users, pc'[v] # "idle"
               PROVE  /\ alive'[on[v]] = "yes"
                      /\ pc[v] \in {"spawn", "arm"} => running'[on[v]]
                      /\ pc[v] = "spawn" => callback'[on[v]] = "own" /\ ~joinable[on[v]]
                      /\ pc[v] \in {"halt", "join"} => ~running'[on[v]]
                      /\ pc[v] \in {"assign", "destruct"} => then[v] # "idle" /\ ~joinable[on[v]]
                      /\ pc'[v] = pc[v]
    BY <1>1 DEF InsideInv
  <2>1. on[v] \in Timers \ {o, p} /\ pc'[v] = pc[v] /\ pc[v] # "idle"
    BY <1>1, <1>3 DEF TimerTypeOK
  <2>2. LET x == on[v]
        IN  callback'[x] = callback[x] /\ running'[x] = running[x] /\ alive'[x] = alive[x]
    BY <1>1, <1>2, <2>1 DEF TimerTypeOK
  <2> QED
    BY <2>1, <2>2 DEF WellUsed, InsideInv
<1>6. AloneInv'
  BY <1>1 DEF WellUsed, AloneInv
<1> QED
  BY <1>1, <1>4, <1>5, <1>6 DEF WellUsed

LEMMA StartUnused ==
  ASSUME TimerTypeOK, WellUsed, ~aborted, ~misused',
         NEW o \in Timers, NEW u \in Users, StartExchange(u, o)
  PROVE  WellUsed' /\ ~aborted'
<1>1. /\ pc[u] = "idle" /\ alive[o] = "yes" /\ ~Exclusive(o)
      /\ running' = [running EXCEPT ![o] = TRUE]
      /\ UNCHANGED <<alive, callback, stopped, joinable, armed, io, aborted>>
  BY DEF StartExchange, Calls
<1>2. CASE running[o]
  <2>1. running' = running /\ UNCHANGED <<pc, on, then>>
    BY <1>1, <1>2 DEF StartExchange, user, TimerTypeOK
  <2> QED
    BY <1>1, <2>1 DEF WellUsed, ThreadInv, InsideInv, AloneInv, IsInside
<1>3. CASE ~running[o]
  <2>1. /\ pc' = [pc EXCEPT ![u] = "spawn"] /\ on' = [on EXCEPT ![u] = o]
        /\ then' = [then EXCEPT ![u] = "idle"]
        /\ callback[o] = "own" /\ Inside(o, {"halt", "join"}) = {}
    BY <1>3 DEF StartExchange, Goto, TimerTypeOK
  <2>2. /\ pc'[u] = "spawn" /\ on'[u] = o /\ then'[u] = "idle"
        /\ \A v \in Users \ {u} : pc'[v] = pc[v] /\ on'[v] = on[v] /\ then'[v] = then[v]
        /\ running'[o] /\ \A x \in Timers \ {o} : running'[x] = running[x]
    BY <1>1, <2>1 DEF TimerTypeOK
  <2>3. ~joinable[o]
    BY <1>3, <2>1 DEF WellUsed, ThreadInv, IsInside, Inside
  <2>4. \A v \in Users : on[v] = o /\ pc[v] # "idle" =>
            then[v] = "idle" /\ pc[v] \notin {"spawn", "arm", "halt", "join"}
    BY <1>1, <1>3, <2>1 DEF Exclusive, Inside, WellUsed, InsideInv
  <2>5. ThreadInv'
    BY <1>1, <2>2, <2>3 DEF WellUsed, ThreadInv, IsInside
  <2>6. InsideInv'
    BY <1>1, <2>1, <2>2, <2>3, <2>4 DEF WellUsed, InsideInv, TimerTypeOK
  <2>7. AloneInv'
    BY <2>2, <2>4 DEF WellUsed, AloneInv
  <2> QED
    BY <1>1, <2>5, <2>6, <2>7 DEF WellUsed
<1> QED
  BY <1>2, <1>3

LEMMA StopUnused ==
  ASSUME TimerTypeOK, WellUsed, ~aborted, ~misused', NEW o \in Timers, NEW u \in Users,
         NEW k \in {"idle", "assign", "destruct"}, StopExchange(u, o, k)
  PROVE  WellUsed' /\ ~aborted'
<1> DEFINE place == IF running[o] THEN "halt" ELSE k
<1>1. /\ pc[u] = "idle" /\ alive[o] = "yes" /\ ~Exclusive(o)
      /\ k # "idle" => Free(o)
      /\ running' = [running EXCEPT ![o] = FALSE]
      /\ pc' = [pc EXCEPT ![u] = place]
      /\ on' = [on EXCEPT ![u] = o] /\ then' = [then EXCEPT ![u] = k]
      /\ running[o] => Inside(o, {"spawn", "arm"}) = {}
      /\ UNCHANGED <<alive, callback, stopped, joinable, armed, io, aborted>>
  BY DEF StopExchange, Calls, Goto
<1>2. /\ pc'[u] = place /\ on'[u] = o /\ then'[u] = k
      /\ \A v \in Users \ {u} : pc'[v] = pc[v] /\ on'[v] = on[v] /\ then'[v] = then[v]
      /\ ~running'[o] /\ \A x \in Timers \ {o} : running'[x] = running[x]
  BY <1>1 DEF TimerTypeOK
<1>3. \A v \in Users : on[v] = o => pc[v] \notin {"spawn", "arm"}
  BY <1>1 DEF Inside, WellUsed, InsideInv
<1>4. \A v \in Users : on[v] = o /\ pc[v] # "idle" => k = "idle" /\ then[v] = "idle"
  BY <1>1 DEF Free, Inside, Exclusive, TimerTypeOK
<1>5. place \in {"assign", "destruct"} => k = place /\ ~joinable[o]
  BY <1>1, IdleTimer
<1>6. ThreadInv'
  <2> SUFFICES ASSUME NEW x \in Timers, joinable[x]
               PROVE  running'[x] \/ \E v \in Users : IsInside(v, x, {"halt", "join"})'
    BY <1>1 DEF WellUsed, ThreadInv
  <2>1. running[x] \/ \E v \in Users : IsInside(v, x, {"halt", "join"})
    BY DEF WellUsed, ThreadInv
  <2> QED
    BY <1>1, <1>2, <2>1 DEF IsInside
<1>7. InsideInv'
  BY <1>1, <1>2, <1>3, <1>5 DEF WellUsed, InsideInv, TimerTypeOK
<1>8. AloneInv'
  BY <1>2, <1>4 DEF WellUsed, AloneInv
<1> QED
  BY <1>1, <1>6, <1>7, <1>8 DEF WellUsed

-----------------------------------------------------------------------------
(* A step of user u inside of timer o.                                     *)
LEMMA SpawnUnused ==
  ASSUME TimerTypeOK, WellUsed, ~aborted, ~misused', NEW u \in Users, Spawn(u)
  PROVE  WellUsed' /\ ~aborted'
<1> DEFINE o == on[u]
<1>1. ~joinable[o] /\ callback[o] = "own" /\ running[o] /\ alive[o] = "yes" /\ o \in Timers /\ pc[u] = "spawn"
  BY DEF Spawn, WellUsed, InsideInv, TimerTypeOK
<1>2. /\ joinable' = [joinable EXCEPT ![o] = TRUE] /\ io' = [io EXCEPT ![o] = "run"]
      /\ pc' = [pc EXCEPT ![u] = "arm"]
      /\ UNCHANGED <<alive, running, callback, stopped, armed, on, then, aborted>>
  BY <1>1 DEF Spawn, Goto
<1>3. /\ pc'[u] = "arm" /\ \A v \in Users \ {u} : pc'[v] = pc[v]
      /\ joinable'[o] /\ \A x \in Timers \ {o} : joinable'[x] = joinable[x] /\ io'[x] = io[x]
  BY <1>1, <1>2 DEF TimerTypeOK
<1>4. \A v \in Users \ {u} : on[v] = o /\ pc[v] # "idle" => then[v] = "idle" /\ pc[v] # "spawn"
  BY <1>1 DEF WellUsed, AloneInv
<1>5. ThreadInv'
  BY <1>1, <1>2, <1>3 DEF WellUsed, ThreadInv, IsInside, TimerTypeOK
<1>6. InsideInv'
  BY <1>1, <1>2, <1>3, <1>4 DEF WellUsed, InsideInv, TimerTypeOK
<1>7. AloneInv'
  BY <1>1, <1>2, <1>3 DEF WellUsed, AloneInv
<1> QED
  BY <1>2, <1>5, <1>6, <1>7 DEF WellUsed

LEMMA GoOnUnused ==
  ASSUME TimerTypeOK, WellUsed, ~aborted, NEW u \in Users, Arm(u) \/ Halt(u)
  PROVE  WellUsed' /\ ~aborted'
<1>1. /\ UNCHANGED <<alive, running, callback, joinable, io, on, then, aborted>>
      /\ \A v \in Users \ {u} : pc'[v] = pc[v]
      /\ \/ pc[u] = "arm" /\ pc'[u] = "idle"
         \/ pc[u] = "halt" /\ pc'[u] = "join"
  BY DEF Arm, Halt, Goto, TimerTypeOK
<1>2. ThreadInv'
  BY <1>1 DEF WellUsed, ThreadInv, IsInside
<1>3. InsideInv'
  BY <1>1 DEF WellUsed, InsideInv
<1>4. AloneInv'
  BY <1>1 DEF WellUsed, AloneInv
<1> QED
  BY <1>1, <1>2, <1>3, <1>4 DEF WellUsed

LEMMA JoinUnused ==
  ASSUME TimerTypeOK, WellUsed, ~aborted, NEW u \in Users, Join(u)
  PROVE  WellUsed' /\ ~aborted'
<1> DEFINE o == on[u]
<1>1. /\ pc[u] = "join" /\ o \in Timers /\ then[u] \in {"idle", "assign", "destruct"}
      /\ joinable[o] => io[o] = "ended"
      /\ joinable' = [joinable EXCEPT ![o] = FALSE] /\ pc' = [pc EXCEPT ![u] = then[u]]
      /\ UNCHANGED <<alive, running, callback, stopped, armed, io, on, then, aborted>>
  BY DEF Join, Joins, Goto, TimerTypeOK
<1>2. /\ pc'[u] = then[u] /\ \A v \in Users \ {u} : pc'[v] = pc[v]
      /\ ~joinable'[o] /\ \A x \in Timers \ {o} : joinable'[x] = joinable[x]
  BY <1>1 DEF TimerTypeOK
<1>3. ThreadInv'
  BY <1>1, <1>2 DEF WellUsed, ThreadInv, IsInside
<1>4. InsideInv'
  BY <1>1, <1>2 DEF WellUsed, InsideInv, TimerTypeOK
<1>5. AloneInv'
  BY <1>1, <1>2 DEF WellUsed, AloneInv
<1> QED
  BY <1>1, <1>3, <1>4, <1>5 DEF WellUsed

LEMMA DestructUnused ==
  ASSUME TimerTypeOK, WellUsed, ~aborted, NEW u \in Users, Destruct(u)
  PROVE  WellUsed' /\ ~aborted'
<1> DEFINE o == on[u]
<1>1. /\ pc[u] = "destruct" /\ o \in Timers /\ then[u] # "idle" /\ ~joinable[o]
      /\ alive' = [alive EXCEPT ![o] = "gone"] /\ aborted' = joinable[o]
      /\ pc' = [pc EXCEPT ![u] = "idle"]
      /\ UNCHANGED <<running, callback, stopped, joinable, armed, io, on, then>>
  BY DEF Destruct, Goto, TimerTypeOK, WellUsed, InsideInv
<1>2. /\ pc'[u] = "idle" /\ \A v \in Users \ {u} : pc'[v] = pc[v]
      /\ \A x \in Timers \ {o} : alive'[x] = alive[x]
  BY <1>1 DEF TimerTypeOK
<1>3. \A v \in Users \ {u} : pc[v] # "idle" => on[v] # o
  BY <1>1 DEF WellUsed, AloneInv
<1>4. ThreadInv'
  BY <1>1, <1>2 DEF WellUsed, ThreadInv, IsInside
<1>5. InsideInv'
  BY <1>1, <1>2, <1>3 DEF WellUsed, InsideInv, TimerTypeOK
<1>6. AloneInv'
  BY <1>1, <1>2 DEF WellUsed, AloneInv
<1> QED
  BY <1>1, <1>4, <1>5, <1>6 DEF WellUsed

LEMMA AssignUnused ==
  ASSUME TimerTypeOK, WellUsed, ~aborted, ~misused',
         NEW u \in Users, NEW p \in Timers, Assign(u, p)
  PROVE  WellUsed' /\ ~aborted'
<1> DEFINE o == on[u]
<1>1. /\ pc[u] = "assign" /\ o \in Timers /\ then[u] # "idle" /\ ~joinable[o]
      /\ o # p /\ alive[p] = "yes" /\ Free(p) /\ TakeFrom(o, p)
      /\ pc' = [pc EXCEPT ![u] = "idle"]
      /\ UNCHANGED <<alive, stopped, joinable, armed, io, on, then, aborted>>
  BY DEF Assign, Goto, TimerTypeOK, WellUsed, InsideInv
<1>2. /\ ~running[p]
      /\ \A x \in Timers : /\ callback'[x] = IF x = p THEN "moved" ELSE IF x = o THEN callback[p] ELSE callback[x]
                           /\ running'[x] = IF x = o THEN FALSE ELSE running[x]
  BY <1>1, TakeFromUnused
<1>3. pc'[u] = "idle" /\ \A v \in Users \ {u} : pc'[v] = pc[v]
  BY <1>1 DEF TimerTypeOK
<1>4. ~joinable[p] /\ \A v \in Users \ {u} : pc[v] # "idle" => on[v] \notin {o, p}
  <2>1. ~joinable[p]
    BY <1>1, <1>2, IdleTimer
  <2>2. \A v \in Users \ {u} : pc[v] # "idle" => on[v] # o
    BY <1>1 DEF WellUsed, AloneInv
  <2>3. \A v \in Users : pc[v] # "idle" => on[v] # p
    BY <1>1 DEF Free, Inside, TimerTypeOK
  <2> QED
    BY <2>1, <2>2, <2>3
<1>5. ThreadInv'
  <2> SUFFICES ASSUME NEW x \in Timers
               PROVE  /\ io[x] \notin {"none", "ended"} => joinable[x]
                      /\ joinable[x] => callback'[x] = "own"
                      /\ joinable[x] => running'[x] \/ \E v \in Users : IsInside(v, x, {"halt", "join"})'
                      /\ alive'[x] = "no" => ~joinable[x]
    BY <1>1 DEF ThreadInv
  <2>1. CASE x \in {o, p}
    BY <1>1, <1>4, <2>1 DEF WellUsed, ThreadInv
  <2>2. CASE x \notin {o, p}
    <3>1. callback'[x] = callback[x] /\ running'[x] = running[x] /\ alive'[x] = alive[x]
      BY <1>1, <1>2, <2>2 DEF TimerTypeOK
    <3> QED
      BY <1>1, <1>3, <3>1 DEF WellUsed, ThreadInv, IsInside
  <2> QED
    BY <2>1, <2>2
<1>6. InsideInv'
  <2> SUFFICES ASSUME NEW v \in Users, pc'[v] # "idle"
               PROVE  /\ alive'[on[v]] = "yes"
                      /\ pc[v] \in {"spawn", "arm"} => running'[on[v]]
                      /\ pc[v] = "spawn" => callback'[on[v]] = "own" /\ ~joinable[on[v]]
                      /\ pc[v] \in {"halt", "join"} => ~running'[on[v]]
                      /\ pc[v] \in {"assign", "destruct"} => then[v] # "idle" /\ ~joinable[on[v]]
                      /\ pc'[v] = pc[v]
    BY <1>1 DEF InsideInv
  <2>1. on[v] \in Timers \ {o, p} /\ pc'[v] = pc[v] /\ pc[v] # "idle"
    BY <1>1, <1>3, <1>4 DEF TimerTypeOK
  <2>2. LET x == on[v]
        IN  callback'[x] = callback[x] /\ running'[x] = running[x] /\ alive'[x] = alive[x]
    BY <1>1, <1>2, <2>1 DEF TimerTypeOK
  <2> QED
    BY <2>1, <2>2 DEF WellUsed, InsideInv
<1>7. AloneInv'
  BY <1>1, <1>3 DEF WellUsed, AloneInv
<1> QED
  BY <1>1, <1>5, <1>6, <1>7 DEF WellUsed

LEMMA IoUnused ==
  ASSUME TimerTypeOK, WellUsed, ~aborted, ~misused',
         NEW o \in Timers, Construct(o) \/ IoStep(o) \/ CallbackStops(o)
  PROVE  WellUsed' /\ ~aborted'
<1>1. CASE Construct(o)
  <2>1. /\ alive[o] = "no" /\ alive' = [alive EXCEPT ![o] = "yes"]
        /\ UNCHANGED <<running, callback, joinable, io, pc, on, then, aborted>>
    BY <1>1 DEF Construct, user
  <2>2. alive'[o] = "yes" /\ \A x \in Timers \ {o} : alive'[x] = alive[x]
    BY <2>1 DEF TimerTypeOK
  <2>3. ThreadInv' /\ AloneInv'
    BY <2>1, <2>2 DEF WellUsed, ThreadInv, AloneInv, IsInside
  <2>4. InsideInv'
    BY <2>1, <2>2 DEF WellUsed, InsideInv, TimerTypeOK
  <2> QED
    BY <2>1, <2>3, <2>4 DEF WellUsed
<1>2. CASE IoStep(o)
  <2>1. /\ UNCHANGED <<alive, running, callback, joinable, pc, on, then>>
        /\ io[o] \notin {"none", "ended"}
        /\ \A x \in Timers \ {o} : io'[x] = io[x]
    BY <1>2 DEF IoStep, Fires, RunEnds, Handle, CallbackReturns, Rearm, At, IoGoto, user, TimerTypeOK
  <2>2. joinable[o] /\ callback[o] = "own"
    BY <2>1 DEF WellUsed, ThreadInv
  <2>3. ~aborted'
    BY <1>2, <2>2 DEF IoStep, Fires, RunEnds, Handle, CallbackReturns, Rearm
  <2>4. ThreadInv'
    BY <2>1, <2>2 DEF WellUsed, ThreadInv, IsInside
  <2>5. InsideInv' /\ AloneInv'
    BY <2>1 DEF WellUsed, InsideInv, AloneInv
  <2> QED
    BY <2>3, <2>4, <2>5 DEF WellUsed
<1>3. CASE CallbackStops(o)
  BY <1>3 DEF CallbackStops
<1> QED
  BY <1>1, <1>2, <1>3

-----------------------------------------------------------------------------
(* A misuse is never forgotten.                                            *)
LEMMA MisuseStays ==
  ASSUME TimerTypeOK, TimerNext, misused
  PROVE  misused'
<1>1. ASSUME NEW u \in Users, NEW o \in Timers,
             \/ StartExchange(u, o) \/ \E p \in Timers : MoveConstruct(u, o, p)
             \/ \E k \in {"idle", "assign", "destruct"} : StopExchange(u, o, k)
      PROVE  misused'
  BY <1>1 DEF StartExchange, StopExchange, MoveConstruct, TakeFrom
<1>2. ASSUME NEW u \in Users, UserStep(u) PROVE misused'
  BY <1>2 DEF UserStep, Spawn, Arm, Halt, Join, Destruct, Assign, TakeFrom
<1>3. ASSUME NEW o \in Timers, Construct(o) \/ IoStep(o) \/ CallbackStops(o) PROVE misused'
  BY <1>3 DEF IoStep, Construct, Fires, RunEnds, Handle, CallbackReturns, CallbackStops, Rearm
<1> QED
  BY <1>1, <1>2, <1>3 DEF TimerNext, UserStep, IoStep

LEMMA NextTimerInv == TimerInv /\ [TimerNext]_timerVars => TimerInv'
<1> SUFFICES ASSUME TimerInv, [TimerNext]_timerVars PROVE TimerInv'
  OBVIOUS
<1>1. CASE UNCHANGED timerVars
  BY <1>1 DEF TimerInv, TimerTypeOK, WellUsed, ThreadInv, InsideInv, AloneInv, IsInside, timerVars, timer, user
<1>2. CASE TimerNext
  <2>1. TimerTypeOK'
    BY <1>2, StartTypes, UserTypes, IoTypes DEF TimerNext, UserStep, IoStep, TimerInv
  <2>2. ~misused' => WellUsed' /\ ~aborted'
    <3> SUFFICES ASSUME ~misused' PROVE WellUsed' /\ ~aborted'
      OBVIOUS
    <3>1. TimerTypeOK /\ WellUsed /\ ~aborted
      BY <1>2, MisuseStays DEF TimerInv
    <3> QED
      BY <1>2, <3>1, MoveConstructUnused, StartUnused, StopUnused, SpawnUnused, GoOnUnused, JoinUnused,
         DestructUnused, AssignUnused, IoUnused DEF TimerNext, IoStep
  <2> QED
    BY <2>1, <2>2 DEF TimerInv
<1> QED
  BY <1>1, <1>2

-----------------------------------------------------------------------------
(* m_running, the thread and the users of a timer agree until a misuse.    *)
THEOREM TimerInvariance == TimerSpec => []TimerInv
<1> QED
  BY InitTimerInv, NextTimerInv, PTL DEF TimerSpec

(* The type invariant.                                                     *)
THEOREM TimerTypeCorrect == TimerSpec => []TimerTypeOK
<1>1. TimerInv => TimerTypeOK
  BY DEF TimerInv
<1> QED
  BY <1>1, TimerInvariance, PTL

(* No std::thread is destroyed or assigned to while it is joinable, and no *)
(* callback that was moved away is called, by any number of threads that   *)
(* start, stop, move and destroy any number of timers without misuse.      *)
THEOREM Survival == TimerSpec => []Survives
<1>1. TimerInv => Survives
  BY DEF TimerInv, Survives
<1> QED
  BY <1>1, TimerInvariance, PTL

-----------------------------------------------------------------------------
(* BehaviorTree.                                                           *)

USE DEF End

Results == {"Success", "Failure", "Running"}
OnStack(n) == \E i \in DOMAIN calls : calls[i].node = n

(* Behaviors form a tree: children are younger than their parents, and     *)
(* each is at one place.  A behavior not added yet has its first values.   *)
TreeInv ==
    /\ \A n \in Nodes : \A i \in DOMAIN children[n] : n \in Added /\ n < children[n][i]
    /\ \A m, n \in Nodes : \A i \in DOMAIN children[m], j \in DOMAIN children[n] :
          children[m][i] = children[n][j] => m = n /\ i = j
    /\ \A n \in Added : IsDecorator(n) => Len(children[n]) <= 1
    /\ \A n \in Nodes \ Added : status[n] = "Invalid" /\ current[n] = End

(* What a node keeps between two calls of its tick.                        *)
KeptInv ==
    \A n \in Added :
        /\ Is(n, "Sequence") => current[n] \in Offspring(n) \cup {End}
        /\ Is(n, "ActiveSelector") => current[n] \in {End, First(n)}
        /\ Is(n, "Repeat") /\ status[n] = "Running" /\ ~OnStack(n) => Repeats(n)

(* The calls in progress lead from the root down, each to a child of the   *)
(* one before, and the child that has returned has a result.               *)
Stacked(q) ==
    /\ \A i \in DOMAIN q :
          /\ q[i].node \in Added
          /\ q[i].at \in Offspring(q[i].node) \cup {End}
          /\ IF i = Len(q) THEN q[i].node = 1 ELSE q[i].node = q[i + 1].at /\ q[i + 1].ticked
    /\ \A i, j \in DOMAIN q : i < j => q[j].node < q[i].node

StackInv ==
    /\ Stacked(calls)
    /\ calls # <<>> => \A n \in Added : IsDecorator(n) => children[n] # <<>>
    /\ calls # <<>> /\ calls[1].ticked => status[calls[1].at] \in Results

(* Where a loop is, and what it has found at the children before.          *)
Place(n, c) == IF c = End THEN Len(children[n]) + 1 ELSE Index(n, c)
Before(f) == 1..(Place(f.node, f.at) - 1)
Was(f, i) == status[children[f.node][i]]

Counted(f, number, result) ==
    /\ number < Place(f.node, f.at)
    /\ number = Place(f.node, f.at) - 1 <=> \A i \in Before(f) : Was(f, i) = result

LoopAgrees(f) ==
    /\ Is(f.node, "Sequence") =>
          /\ f.at = current[f.node]
          /\ f.node \notin touched => \A i \in Before(f) : Was(f, i) = "Success"
    /\ Is(f.node, "Selector") \/ Is(f.node, "ActiveSelector") =>
          \A i \in Before(f) : Was(f, i) = "Failure"
    /\ Is(f.node, "ActiveSelector") => f.prev \in {End, current[f.node]}
    /\ Is(f.node, "Parallel") =>
          /\ \A i \in Before(f) : Was(f, i) \in Results
          /\ Counted(f, f.good, "Success") /\ Counted(f, f.bad, "Failure")
          /\ kind[f.node].success = "RequireOne" => \A i \in Before(f) : Was(f, i) # "Success"
          /\ kind[f.node].failure = "RequireOne" => \A i \in Before(f) : Was(f, i) # "Failure"
    /\ IsDecorator(f.node) => f.at = First(f.node)
    /\ Is(f.node, "Repeat") =>
          Repeats(f.node) \/ (~f.ticked /\ (kind[f.node].limit = 0 \/ status[f.at] = "Success"))

LoopInv == \A f \in Range(calls) : LoopAgrees(f)

IInv == TypeOK /\ TreeInv /\ KeptInv /\ StackInv /\ LoopInv /\ StatusAgrees
-----------------------------------------------------------------------------
(* Kinds and sequences.                                                    *)
LEMMA KindFacts ==
  ASSUME TypeOK
  PROVE  /\ Added = 1..Len(kind) /\ Len(kind) \in Nat /\ Added \subseteq Nodes
         /\ \A n \in Added :
              /\ kind[n].type \in {"Action", "Sequence", "Selector", "ActiveSelector",
                                   "Parallel", "Inverter", "Repeat"}
              /\ Is(n, "Parallel") => kind[n].success \in Policies /\ kind[n].failure \in Policies
              /\ Is(n, "Repeat") => kind[n].limit \in Int
<1>1. Added = 1..Len(kind) /\ Len(kind) \in Nat /\ Added \subseteq Nodes
  <2>1. kind \in Seq(Kinds) /\ Len(kind) <= MaxNodes
    BY DEF TypeOK
  <2>2. Added = 1..Len(kind) /\ Len(kind) \in Nat
    BY <2>1 DEF Added
  <2>3. 1..Len(kind) \subseteq 1..MaxNodes
    BY <2>1, <2>2, TreeAssumption
  <2> QED
    BY <2>2, <2>3 DEF Nodes
<1>2. ASSUME NEW n \in Added PROVE kind[n] \in Kind
  BY <1>1, TreeAssumption DEF TypeOK
<1> QED
  BY <1>1, <1>2 DEF Kind, Is

LEMMA ConsSeq ==
  ASSUME NEW S, NEW q \in Seq(S), NEW e \in S
  PROVE  /\ <<e>> \o q \in Seq(S) /\ <<e>> \o q # <<>>
         /\ Len(q) \in Nat /\ Len(<<e>> \o q) = Len(q) + 1
         /\ DOMAIN (<<e>> \o q) = 1..(Len(q) + 1)
         /\ \A i \in 1..(Len(q) + 1) : (<<e>> \o q)[i] = IF i = 1 THEN e ELSE q[i - 1]
OBVIOUS

LEMMA AppendSeq ==
  ASSUME NEW S, NEW q \in Seq(S), NEW e \in S
  PROVE  /\ Append(q, e) \in Seq(S) /\ Append(q, e) # <<>>
         /\ Len(q) \in Nat /\ Len(Append(q, e)) = Len(q) + 1
         /\ DOMAIN Append(q, e) = 1..(Len(q) + 1)
         /\ \A i \in 1..(Len(q) + 1) : Append(q, e)[i] = IF i = Len(q) + 1 THEN e ELSE q[i]
OBVIOUS

LEMMA TailSeq ==
  ASSUME NEW S, NEW q \in Seq(S), q # <<>>
  PROVE  /\ Tail(q) \in Seq(S) /\ Len(q) \in Nat \ {0} /\ Len(Tail(q)) = Len(q) - 1
         /\ DOMAIN Tail(q) = 1..(Len(q) - 1) /\ DOMAIN q = 1..Len(q)
         /\ \A i \in 1..(Len(q) - 1) : Tail(q)[i] = q[i + 1]
         /\ Head(q) = q[1] /\ q[1] \in S
OBVIOUS

LEMMA ConcatSeq ==
  ASSUME NEW S, NEW p \in Seq(S), NEW q \in Seq(S)
  PROVE  /\ p \o q \in Seq(S) /\ Len(p \o q) = Len(p) + Len(q)
         /\ Len(p) \in Nat /\ Len(q) \in Nat /\ DOMAIN (p \o q) = 1..(Len(p) + Len(q))
         /\ \A i \in 1..(Len(p) + Len(q)) : (p \o q)[i] = IF i <= Len(p) THEN p[i] ELSE q[i - Len(p)]
OBVIOUS

LEMMA RemoveSeq ==
  ASSUME NEW S, NEW q \in Seq(S), NEW k \in DOMAIN q
  PROVE  /\ RemoveAt(q, k) \in Seq(S)
         /\ Len(q) \in Nat \ {0} /\ Len(RemoveAt(q, k)) = Len(q) - 1
         /\ DOMAIN RemoveAt(q, k) = 1..(Len(q) - 1) /\ DOMAIN q = 1..Len(q)
         /\ \A i \in 1..(Len(q) - 1) : RemoveAt(q, k)[i] = IF i < k THEN q[i] ELSE q[i + 1]
<1>1. k \in 1..Len(q) /\ Len(q) \in Nat /\ DOMAIN q = 1..Len(q)
  OBVIOUS
<1>2. SubSeq(q, 1, k - 1) \in Seq(S) /\ Len(SubSeq(q, 1, k - 1)) = k - 1
      /\ \A i \in 1..(k - 1) : SubSeq(q, 1, k - 1)[i] = q[i]
  BY <1>1
<1>3. SubSeq(q, k + 1, Len(q)) \in Seq(S) /\ Len(SubSeq(q, k + 1, Len(q))) = Len(q) - k
      /\ \A i \in 1..(Len(q) - k) : SubSeq(q, k + 1, Len(q))[i] = q[k + i]
  BY <1>1
<1>4. PICK p \in Seq(S), r \in Seq(S) : p = SubSeq(q, 1, k - 1) /\ r = SubSeq(q, k + 1, Len(q))
  BY <1>2, <1>3
<1>5. /\ p \o r \in Seq(S) /\ Len(p \o r) = Len(q) - 1 /\ DOMAIN (p \o r) = 1..(Len(q) - 1)
      /\ \A i \in 1..(Len(q) - 1) : (p \o r)[i] = IF i <= k - 1 THEN p[i] ELSE r[i - (k - 1)]
  <2>1. Len(p) = k - 1 /\ Len(r) = Len(q) - k
    BY <1>2, <1>3, <1>4
  <2>2. Len(p) + Len(r) = Len(q) - 1
    BY <1>1, <2>1
  <2>3. \A i \in 1..(Len(q) - 1) : (p \o r)[i] = IF i <= k - 1 THEN p[i] ELSE r[i - (k - 1)]
    <3>1. \A i \in 1..(Len(p) + Len(r)) : (p \o r)[i] = IF i <= Len(p) THEN p[i] ELSE r[i - Len(p)]
      BY ConcatSeq
    <3> QED
      BY <2>1, <2>2, <3>1
  <2>4. p \o r \in Seq(S) /\ Len(p \o r) = Len(q) - 1 /\ DOMAIN (p \o r) = 1..(Len(q) - 1)
    BY <2>2, ConcatSeq
  <2> QED
    BY <2>3, <2>4
<1>6. ASSUME NEW i \in 1..(Len(q) - 1) PROVE (p \o r)[i] = IF i < k THEN q[i] ELSE q[i + 1]
  <2>1. CASE i < k
    <3>1. i <= k - 1 /\ i \in 1..(k - 1)
      BY <1>1, <2>1
    <3> QED
      BY <1>2, <1>4, <1>5, <2>1, <3>1
  <2>2. CASE ~(i < k)
    <3>1. i - (k - 1) \in 1..(Len(q) - k) /\ k + (i - (k - 1)) = i + 1
      BY <1>1, <2>2
    <3>2. r[i - (k - 1)] = q[i + 1]
      BY <1>3, <1>4, <3>1
    <3>3. ~(i <= k - 1)
      BY <1>1, <2>2
    <3> QED
      BY <1>5, <2>2, <3>2, <3>3
  <2> QED
    BY <2>1, <2>2
<1>7. RemoveAt(q, k) = p \o r
  BY <1>4 DEF RemoveAt
<1>8. Len(q) \in Nat \ {0}
  BY <1>1
<1> QED
  BY <1>1, <1>5, <1>6, <1>7, <1>8

-----------------------------------------------------------------------------
(* The place of a child among its siblings.                                *)
LEMMA ChildFacts ==
  ASSUME TypeOK, TreeInv, NEW n \in Nodes
  PROVE  /\ children[n] \in Seq(Added) /\ Len(children[n]) \in Nat
         /\ DOMAIN children[n] = 1..Len(children[n])
         /\ children[n] = <<>> <=> Len(children[n]) = 0
         /\ Offspring(n) \subseteq Nodes
         /\ \A c \in Offspring(n) : c \in Added /\ n < c /\ n \in Added
         /\ \A j \in DOMAIN children[n] : children[n][j] # End /\ Place(n, children[n][j]) = j
<1>1. /\ children[n] \in Seq(Added) /\ Len(children[n]) \in Nat
      /\ DOMAIN children[n] = 1..Len(children[n])
      /\ children[n] = <<>> <=> Len(children[n]) = 0
  BY DEF TypeOK
<1>2. Added \subseteq Nodes
  BY KindFacts
<1>3. \A c \in Offspring(n) : c \in Added /\ n < c /\ n \in Added
  BY <1>1 DEF Offspring, TreeInv
<1>4. ASSUME NEW j \in DOMAIN children[n] PROVE children[n][j] # End /\ Place(n, children[n][j]) = j
  <2>1. children[n][j] \in Nodes
    BY <1>1, <1>2
  <2>2. children[n][j] # End
    BY <2>1 DEF Nodes
  <2>3. \A i \in DOMAIN children[n] : children[n][i] = children[n][j] => i = j
    BY DEF TreeInv
  <2> QED
    BY <2>2, <2>3 DEF Place, Index
<1> QED
  BY <1>1, <1>2, <1>3, <1>4

LEMMA FirstPlace ==
  ASSUME TypeOK, TreeInv, NEW n \in Nodes
  PROVE  /\ First(n) \in Offspring(n) \cup {End} /\ Place(n, First(n)) = 1
         /\ First(n) = End <=> children[n] = <<>>
<1>1. CASE children[n] = <<>>
  BY <1>1, ChildFacts DEF First, Place
<1>2. CASE children[n] # <<>>
  <2>1. 1 \in DOMAIN children[n] /\ First(n) = children[n][1]
    BY <1>2, ChildFacts DEF First
  <2> QED
    BY <1>2, <2>1, ChildFacts DEF Offspring
<1> QED
  BY <1>1, <1>2

LEMMA NextPlace ==
  ASSUME TypeOK, TreeInv, NEW n \in Nodes, NEW c \in Offspring(n)
  PROVE  /\ Next1(n, c) \in Offspring(n) \cup {End}
         /\ Place(n, c) \in DOMAIN children[n] /\ children[n][Place(n, c)] = c
         /\ Place(n, Next1(n, c)) = Place(n, c) + 1
<1>1. PICK j \in DOMAIN children[n] : children[n][j] = c
  BY DEF Offspring
<1>2. c # End /\ Place(n, c) = j /\ j \in 1..Len(children[n]) /\ Len(children[n]) \in Nat
  BY <1>1, ChildFacts
<1>3. Index(n, c) = j
  BY <1>2 DEF Place
<1>4. Next1(n, c) = IF j = Len(children[n]) THEN End ELSE children[n][j + 1]
  BY <1>3 DEF Next1
<1>5. CASE j = Len(children[n])
  BY <1>1, <1>2, <1>4, <1>5 DEF Place
<1>6. CASE j # Len(children[n])
  <2>1. j + 1 \in DOMAIN children[n]
    BY <1>2, <1>6, ChildFacts
  <2> QED
    BY <1>1, <1>2, <1>4, <1>6, <2>1, ChildFacts DEF Offspring
<1> QED
  BY <1>5, <1>6

(* A loop that is not at the end is at a place among the children.         *)
LEMMA LoopPlace ==
  ASSUME TypeOK, TreeInv, NEW n \in Nodes, NEW c \in Offspring(n) \cup {End}
  PROVE  /\ Place(n, c) \in 1..(Len(children[n]) + 1) /\ Len(children[n]) \in Nat
         /\ c = End <=> Place(n, c) = Len(children[n]) + 1
<1>1. CASE c = End
  BY <1>1, ChildFacts DEF Place
<1>2. CASE c \in Offspring(n)
  BY <1>2, NextPlace, ChildFacts, KindFacts DEF Nodes
<1> QED
  BY <1>1, <1>2

-----------------------------------------------------------------------------
(* The aborted nodes are running and below n, each under n or another one. *)
LEMMA AbortFacts ==
  ASSUME TypeOK, TreeInv, NEW n \in Nodes
  PROVE  /\ AbortedBy(n) \subseteq Aborts(n)
         /\ \A c \in Aborts(n) : /\ \E m \in {n} \cup Aborts(n) : c \in AbortedBy(m)
                                 /\ c \in Added /\ n < c /\ status[c] = "Running"
         /\ ~Is(n, "Parallel") => Aborts(n) = {}
<1> DEFINE Closed(S) == \A m \in {n} \cup S : AbortedBy(m) \subseteq S
<1>1. \A c : c \in Aborts(n) <=> c \in Nodes /\ \A S \in SUBSET Nodes : Closed(S) => c \in S
  BY DEF Aborts
<1>2. \A m \in Nodes : AbortedBy(m) \subseteq Nodes
  BY ChildFacts DEF AbortedBy
<1>3. \A m \in {n} \cup Aborts(n) : AbortedBy(m) \subseteq Aborts(n)
  <2> SUFFICES ASSUME NEW m \in {n} \cup Aborts(n), NEW c \in AbortedBy(m), NEW S \in SUBSET Nodes, Closed(S)
               PROVE  c \in S
    BY <1>1, <1>2
  <2>1. m \in {n} \cup S
    BY <1>1
  <2> QED
    BY <2>1
<1>4. \A c \in Aborts(n) : \E m \in {n} \cup Aborts(n) : c \in AbortedBy(m)
  <2> DEFINE S == {c \in Aborts(n) : \E m \in {n} \cup Aborts(n) : c \in AbortedBy(m)}
  <2>1. S \in SUBSET Nodes /\ S \subseteq Aborts(n)
    BY <1>1
  <2>2. Closed(S)
    BY <1>3, <2>1
  <2> QED
    BY <1>1, <2>1, <2>2
<1>5. \A c \in Aborts(n) : n < c
  <2> DEFINE S == {c \in Nodes : n < c}
  <2>1. ASSUME NEW m \in {n} \cup S, NEW c \in AbortedBy(m) PROVE c \in S
    <3>1. m \in Nodes /\ c \in Offspring(m) /\ c \in Nodes /\ m < c
      BY ChildFacts DEF AbortedBy
    <3> QED
      BY <3>1 DEF Nodes
  <2>2. S \in SUBSET Nodes /\ Closed(S)
    BY <2>1
  <2> QED
    BY <1>1, <2>2
<1>6. \A c \in Aborts(n) : c \in Added /\ status[c] = "Running"
  BY <1>1, <1>4, ChildFacts DEF AbortedBy
<1>7. ASSUME ~Is(n, "Parallel") PROVE Aborts(n) = {}
  <2>1. AbortedBy(n) = {}
    BY <1>7 DEF AbortedBy
  <2>2. Closed({})
    BY <2>1
  <2> QED
    BY <1>1, <2>2
<1> QED
  BY <1>3, <1>4, <1>5, <1>6, <1>7

-----------------------------------------------------------------------------
(* What is true of a node and of a loop stays true while nothing it says   *)
(* anything about changes.                                                 *)
LEMMA ResultStays ==
  ASSUME TypeOK, TreeInv, NEW n \in Nodes, ResultAgrees(n), kind'[n] = kind[n], children'[n] = children[n],
         Is(n, "Sequence") => current'[n] \in Offspring(n) \cup {End},
         Is(n, "Sequence") => current'[n] = current[n],
         status'[n] = status[n], \A c \in Offspring(n) : status'[c] = status[c]
  PROVE  ResultAgrees(n)'
<1>1. Offspring(n)' = Offspring(n)
  BY DEF Offspring
<1>2. \A s : (All(n, s)' <=> All(n, s)) /\ (Some(n, s)' <=> Some(n, s))
  BY <1>1 DEF All, Some
<1>3. \A i \in DOMAIN children[n] : status'[children'[n][i]] = status[children[n][i]]
  BY DEF Offspring
<1>4. \A t : Is(n, t)' <=> Is(n, t)
  BY DEF Is
<1>5. \A c \in Offspring(n) \cup {End} : \A s, b : StopsAt(n, c, s, b)' <=> StopsAt(n, c, s, b)
  <2> SUFFICES ASSUME NEW c \in Offspring(n) \cup {End}, NEW s, NEW b
               PROVE  StopsAt(n, c, s, b)' <=> StopsAt(n, c, s, b)
    OBVIOUS
  <2>1. \A i \in DOMAIN children[n] : \A j \in 1..(i - 1) :
          status[children[n][j]] = b <=> status'[children'[n][j]] = b
    BY <1>3, ChildFacts
  <2>2. CASE c = End
    BY <2>2 DEF StopsAt
  <2>3. CASE c # End
    BY <2>1, <2>3 DEF StopsAt
  <2> QED
    BY <2>2, <2>3
<1>6. Is(n, "Sequence") => SequenceAgrees(n)'
  BY <1>2, <1>5 DEF ResultAgrees, SequenceAgrees
<1>7. Is(n, "Selector") \/ Is(n, "ActiveSelector") => SelectorAgrees(n)'
  BY <1>1, <1>2, <1>5 DEF ResultAgrees, SelectorAgrees
<1>8. Is(n, "Parallel") => ParallelAgrees(n)'
  BY <1>1, <1>2 DEF ResultAgrees, ParallelAgrees
<1>9. Is(n, "Inverter") => InverterAgrees(n)'
  BY <1>2 DEF ResultAgrees, InverterAgrees
<1>10. Is(n, "Repeat") => RepeatAgrees(n)'
  BY <1>2 DEF ResultAgrees, RepeatAgrees, Unlimited
<1> QED
  BY <1>4, <1>6, <1>7, <1>8, <1>9, <1>10 DEF ResultAgrees

LEMMA LoopStays ==
  ASSUME TypeOK, TreeInv, NEW f \in Frame, f.node \in Added, LoopAgrees(f),
         UNCHANGED <<kind, children>>,
         current'[f.node] = current[f.node], counter'[f.node] = counter[f.node],
         f.node \in touched' <=> f.node \in touched,
         \A i \in Before(f) : status'[children[f.node][i]] = status[children[f.node][i]],
         f.ticked \/ status' = status
  PROVE  LoopAgrees(f)'
<1> DEFINE n == f.node
<1>1. \A t : Is(n, t)' <=> Is(n, t)
  BY DEF Is
<1>2. IsDecorator(n)' <=> IsDecorator(n)
  BY DEF IsDecorator, Is
<1>3. Place(n, f.at)' = Place(n, f.at)
  BY DEF Place, Index
<1>4. Before(f)' = Before(f) /\ \A i \in Before(f) : Was(f, i)' = Was(f, i)
  BY <1>3 DEF Before, Was
<1>5. First(n)' = First(n)
  BY DEF First
<1>6. Repeats(n)' <=> Repeats(n)
  BY DEF Repeats, Unlimited
<1>7. \A number, result : Counted(f, number, result) => Counted(f, number, result)'
  BY <1>3, <1>4 DEF Counted
<1>8. Is(n, "Sequence") => f.at = current'[n] /\ (n \notin touched' => \A i \in Before(f)' : Was(f, i)' = "Success")
  BY <1>4 DEF LoopAgrees
<1>9. Is(n, "Selector") \/ Is(n, "ActiveSelector") => \A i \in Before(f)' : Was(f, i)' = "Failure"
  BY <1>4 DEF LoopAgrees
<1>10. Is(n, "ActiveSelector") => f.prev \in {End, current'[n]}
  BY DEF LoopAgrees
<1>11. Is(n, "Parallel") =>
          /\ \A i \in Before(f)' : Was(f, i)' \in Results
          /\ Counted(f, f.good, "Success")' /\ Counted(f, f.bad, "Failure")'
          /\ kind'[n].success = "RequireOne" => \A i \in Before(f)' : Was(f, i)' # "Success"
          /\ kind'[n].failure = "RequireOne" => \A i \in Before(f)' : Was(f, i)' # "Failure"
  BY <1>4, <1>7 DEF LoopAgrees
<1>12. IsDecorator(n) => f.at = First(n)'
  BY <1>5 DEF LoopAgrees
<1>13. Is(n, "Repeat") =>
          Repeats(n)' \/ (~f.ticked /\ (kind'[n].limit = 0 \/ status'[f.at] = "Success"))
  BY <1>6 DEF LoopAgrees
<1> QED
  BY <1>1, <1>2, <1>8, <1>9, <1>10, <1>11, <1>12, <1>13 DEF LoopAgrees

-----------------------------------------------------------------------------
(* A step of a tick, which changes neither the nodes nor their children,   *)
(* and marks only behaviors that have been added.                          *)
LEMMA TreeStays ==
  ASSUME TypeOK, TreeInv, UNCHANGED <<kind, children>>,
         \A n \in Nodes \ Added : status'[n] = status[n] /\ current'[n] = current[n]
  PROVE  /\ TreeInv' /\ Added' = Added
         /\ \A n : Offspring(n)' = Offspring(n) /\ First(n)' = First(n)
         /\ \A n, t : Is(n, t)' <=> Is(n, t)
         /\ \A n : IsDecorator(n)' <=> IsDecorator(n)
         /\ \A n, c : Place(n, c)' = Place(n, c)
<1>1. Added' = Added
  BY DEF Added
<1>2. /\ \A n : Offspring(n)' = Offspring(n) /\ First(n)' = First(n)
      /\ \A n, t : Is(n, t)' <=> Is(n, t)
  BY DEF Offspring, First, Is
<1>4. /\ \A n : IsDecorator(n)' <=> IsDecorator(n)
      /\ \A n, c : Place(n, c)' = Place(n, c)
  BY DEF IsDecorator, Is, Place, Index
<1>3. TreeInv'
  BY <1>1, <1>2 DEF TreeInv, IsDecorator
<1> QED
  BY <1>1, <1>2, <1>3, <1>4

(* Nodes that are not called and whose children are left alone keep a      *)
(* result that agrees.                                                     *)
LEMMA OthersAgree ==
  ASSUME IInv, UNCHANGED <<kind, children>>, NEW n \in Added, n \notin touched, ~OnStack(n),
         status[n] \in Results, status'[n] = status[n], current'[n] = current[n],
         \A c \in Offspring(n) : status'[c] = status[c]
  PROVE  ResultAgrees(n)'
<1>1. n \in Nodes /\ ResultAgrees(n) /\ (Is(n, "Sequence") => current[n] \in Offspring(n) \cup {End})
  BY KindFacts DEF IInv, StatusAgrees, OnStack, Results, KeptInv
<1> QED
  BY <1>1, ResultStays DEF IInv

-----------------------------------------------------------------------------
(* A call of tick.                                                         *)
NewFrame(n) ==
    [node |-> n, at |-> IF Is(n, "Sequence") /\ ~Starts(n) THEN current[n] ELSE First(n),
     ticked |-> FALSE, good |-> 0, bad |-> 0,
     prev |-> IF Starts(n) THEN First(n) ELSE current[n], fresh |-> Starts(n)]

LEMMA NewFrameFacts ==
  ASSUME IInv, NEW n \in Added
  PROVE  /\ NewFrame(n) \in Frame /\ NewFrame(n).at \in Offspring(n) \cup {End}
         /\ First(n) \in Added \cup {End} /\ n \in Nodes
<1>1. n \in Nodes
  BY KindFacts DEF IInv
<1>2. First(n) \in Offspring(n) \cup {End} /\ Offspring(n) \subseteq Added /\ Offspring(n) \subseteq Nodes
  BY <1>1, FirstPlace, ChildFacts DEF IInv
<1>3. current[n] \in Nodes \cup {End} /\ (Is(n, "Sequence") => current[n] \in Offspring(n) \cup {End})
  BY <1>1, KindFacts DEF IInv, TypeOK, KeptInv
<1>4. NewFrame(n).at \in Offspring(n) \cup {End}
  BY <1>2, <1>3 DEF NewFrame
<1>5. NewFrame(n) \in Frame
  BY <1>1, <1>2, <1>3 DEF NewFrame, Frame, Starts
<1> QED
  BY <1>1, <1>2, <1>4, <1>5

(* A Sequence goes on where it was; all other loops begin at the front.    *)
LEMMA NewLoopAgrees ==
  ASSUME IInv, NEW n \in Added, ~OnStack(n), OnInitialize(n),
         UNCHANGED <<kind, children, status>>, NEW g, g = NewFrame(n)
  PROVE  LoopAgrees(g)'
<1>0. /\ n \in Nodes /\ g.node = n /\ g.ticked = FALSE /\ g.good = 0 /\ g.bad = 0
      /\ g.at = IF Is(n, "Sequence") /\ ~Starts(n) THEN current[n] ELSE First(n)
      /\ g.prev = IF Starts(n) THEN First(n) ELSE current[n]
  BY NewFrameFacts DEF NewFrame
<1>1. /\ current'[n] = (IF HasCurrent(n) /\ (Starts(n) \/ Is(n, "ActiveSelector")) THEN First(n) ELSE current[n])
      /\ counter'[n] = (IF Is(n, "Repeat") /\ Starts(n) THEN 0 ELSE counter[n])
      /\ touched' = IF Starts(n) THEN touched \ {n} ELSE touched
      /\ \A m \in Nodes \ {n} : current'[m] = current[m]
  BY <1>0 DEF OnInitialize, IInv, TypeOK
<1>2. /\ First(n)' = First(n) /\ (\A t : Is(n, t)' <=> Is(n, t)) /\ (IsDecorator(n)' <=> IsDecorator(n))
      /\ \A c : Place(n, c)' = Place(n, c)
  BY <1>1, TreeStays DEF IInv
<1>3. g.at = First(n) => Before(g)' = {}
  BY <1>0, <1>2, FirstPlace DEF Before, IInv
<1>4. Is(n, "Sequence") =>
         g.at = current'[n] /\ (n \notin touched' => \A i \in Before(g)' : Was(g, i)' = "Success")
  <2> SUFFICES ASSUME Is(n, "Sequence") PROVE g.at = current'[n] /\ (n \notin touched' => \A i \in Before(g)' : Was(g, i)' = "Success")
    OBVIOUS
  <2>1. CASE Starts(n)
    BY <1>0, <1>1, <1>3, <2>1 DEF HasCurrent
  <2>2. CASE ~Starts(n)
    <3>1. g.at = current[n] /\ current'[n] = current[n] /\ touched' = touched /\ status[n] = "Running"
      BY <1>0, <1>1, <2>2 DEF Starts, Is
    <3>2. ASSUME n \notin touched PROVE \A i \in Before(g)' : Was(g, i)' = "Success"
      <4>1. StopsAt(n, current[n], "Running", "Success")
        BY <3>1, <3>2 DEF IInv, StatusAgrees, OnStack, ResultAgrees, SequenceAgrees
      <4>2. PICK i \in DOMAIN children[n] :
              children[n][i] = current[n] /\ \A j \in 1..(i - 1) : status[children[n][j]] = "Success"
        BY <4>1 DEF StopsAt
      <4>3. Place(n, current[n]) = i
        BY <1>0, <4>2, ChildFacts DEF IInv
      <4>4. Before(g)' = 1..(i - 1)
        BY <1>0, <1>2, <3>1, <4>3 DEF Before
      <4> QED
        BY <1>0, <4>2, <4>4 DEF Was
    <3> QED
      BY <3>1, <3>2
  <2> QED
    BY <2>1, <2>2
<1>5. ~Is(n, "Sequence") => Before(g)' = {} /\ Place(n, g.at)' = 1
  BY <1>0, <1>2, <1>3, FirstPlace DEF IInv
<1>6. Is(n, "Selector") \/ Is(n, "ActiveSelector") => \A i \in Before(g)' : Was(g, i)' = "Failure"
  BY <1>5 DEF Is
<1>7. Is(n, "ActiveSelector") => g.prev \in {End, current'[n]}
  BY <1>0, <1>1 DEF IInv, KeptInv, HasCurrent
<1>8. Is(n, "Parallel") =>
          /\ \A i \in Before(g)' : Was(g, i)' \in Results
          /\ Counted(g, g.good, "Success")' /\ Counted(g, g.bad, "Failure")'
          /\ kind'[n].success = "RequireOne" => \A i \in Before(g)' : Was(g, i)' # "Success"
          /\ kind'[n].failure = "RequireOne" => \A i \in Before(g)' : Was(g, i)' # "Failure"
  BY <1>0, <1>5 DEF Counted, Is
<1>9. IsDecorator(n) => g.at = First(n)'
  BY <1>0, <1>2 DEF IsDecorator, Is
<1>10. Is(n, "Repeat") => Repeats(n)' \/ kind'[n].limit = 0
  <2> SUFFICES ASSUME Is(n, "Repeat") PROVE Repeats(n)' \/ kind'[n].limit = 0
    OBVIOUS
  <2>1. kind[n].limit \in Int
    BY KindFacts DEF IInv
  <2>2. CASE Starts(n)
    BY <1>1, <2>1, <2>2 DEF Repeats, Unlimited
  <2>3. CASE ~Starts(n)
    <3>1. Repeats(n) /\ counter'[n] = counter[n]
      BY <1>1, <2>3 DEF IInv, KeptInv, Starts
    <3> QED
      BY <3>1 DEF Repeats, Unlimited
  <2> QED
    BY <2>2, <2>3
<1> QED
  BY <1>0, <1>2, <1>4, <1>6, <1>7, <1>8, <1>9, <1>10 DEF LoopAgrees

LEMMA CallInv ==
  ASSUME IInv, NEW n \in Added, ~OnStack(n), NEW rest \in Seq(Frame), Call(n, rest),
         UNCHANGED <<kind, children, status, building, edits>>,
         \A m \in Added : IsDecorator(m) => children[m] # <<>>,
         Stacked(rest), IF rest = <<>> THEN n = 1 ELSE n = rest[1].at /\ rest[1].ticked,
         \A f \in Range(rest) : f.node < n /\ LoopAgrees(f),
         \A m \in Added \ {n} : OnStack(m) => \E f \in Range(rest) : f.node = m
  PROVE  IInv'
<1> DEFINE g == NewFrame(n)
<1>1. /\ g \in Frame /\ g.node = n /\ ~g.ticked /\ g.at \in Offspring(n) \cup {End}
      /\ First(n) \in Added \cup {End} /\ n \in Nodes
  BY NewFrameFacts DEF NewFrame
<1>2. calls' = <<g>> \o rest /\ OnInitialize(n)
  BY DEF Call, EnterUpdate, NewFrame
<1>3. /\ calls' \in Seq(Frame) /\ calls' # <<>> /\ Len(rest) \in Nat /\ Len(calls') = Len(rest) + 1
      /\ DOMAIN calls' = 1..(Len(rest) + 1) /\ DOMAIN rest = 1..Len(rest)
      /\ \A i \in 1..(Len(rest) + 1) : calls'[i] = IF i = 1 THEN g ELSE rest[i - 1]
      /\ rest = <<>> <=> Len(rest) = 0
  <2> HIDE DEF g
  <2> QED
    BY <1>1, <1>2, ConsSeq
<1>4. /\ current' \in [Nodes -> Added \cup {End}] /\ counter' \in [Nodes -> Nat] /\ touched' \subseteq touched
      /\ \A m \in Nodes \ {n} : current'[m] = current[m] /\ counter'[m] = counter[m]
      /\ current'[n] = IF HasCurrent(n) /\ (Starts(n) \/ Is(n, "ActiveSelector")) THEN First(n) ELSE current[n]
      /\ \A m \in touched : m # n => m \in touched'
  BY <1>1, <1>2 DEF OnInitialize, IInv, TypeOK
<1>5. /\ TreeInv' /\ Added' = Added
      /\ \A m : Offspring(m)' = Offspring(m) /\ First(m)' = First(m)
      /\ \A m, t : Is(m, t)' <=> Is(m, t)
      /\ \A m : IsDecorator(m)' <=> IsDecorator(m)
  BY <1>4, TreeStays DEF IInv
<1>6. TypeOK'
  BY <1>3, <1>4, <1>5 DEF IInv, TypeOK
<1>7. \A m \in Added : ~OnStack(m)' => m # n /\ ~OnStack(m)
  <2> SUFFICES ASSUME NEW m \in Added, m = n \/ OnStack(m) PROVE OnStack(m)'
    OBVIOUS
  <2>1. CASE m = n
    <3>1. 1 \in DOMAIN calls' /\ calls'[1].node = n
      BY <1>1, <1>3
    <3> QED
      BY <2>1, <3>1 DEF OnStack
  <2>2. ASSUME m # n PROVE OnStack(m)'
    <3>1. PICK i \in 1..Len(rest) : rest[i].node = m
      BY <1>3, <2>2 DEF Range
    <3>2. i + 1 \in DOMAIN calls' /\ calls'[i + 1] = rest[i]
      BY <1>3
    <3> QED
      BY <3>1, <3>2 DEF OnStack
  <2> QED
    BY <2>1, <2>2
<1>8. KeptInv'
  <2> SUFFICES ASSUME NEW m \in Added
               PROVE  /\ Is(m, "Sequence") => current'[m] \in Offspring(m) \cup {End}
                      /\ Is(m, "ActiveSelector") => current'[m] \in {End, First(m)}
                      /\ Is(m, "Repeat") /\ status'[m] = "Running" /\ ~OnStack(m)' => Repeats(m)'
    BY <1>5 DEF KeptInv
  <2>1. m \in Nodes
    BY KindFacts DEF IInv
  <2>2. First(n) \in Offspring(n) \cup {End}
    BY <1>1, FirstPlace DEF IInv
  <2>3. Is(m, "Repeat") /\ status'[m] = "Running" /\ ~OnStack(m)' => Repeats(m)'
    BY <1>4, <1>7, <2>1 DEF IInv, KeptInv, Repeats, Unlimited
  <2>4. current'[m] \in {current[m], First(m)}
    BY <1>4, <2>1
  <2> QED
    BY <1>1, <1>4, <2>1, <2>2, <2>3 DEF IInv, KeptInv
<1>9. StackInv'
  <2>1. \A i \in DOMAIN calls' :
          /\ calls'[i].node \in Added /\ calls'[i].at \in Offspring(calls'[i].node) \cup {End}
          /\ IF i = Len(calls') THEN calls'[i].node = 1
                                ELSE calls'[i].node = calls'[i + 1].at /\ calls'[i + 1].ticked
    <3> SUFFICES ASSUME NEW i \in 1..(Len(rest) + 1)
                 PROVE  /\ calls'[i].node \in Added /\ calls'[i].at \in Offspring(calls'[i].node) \cup {End}
                        /\ IF i = Len(rest) + 1 THEN calls'[i].node = 1
                           ELSE calls'[i].node = calls'[i + 1].at /\ calls'[i + 1].ticked
      BY <1>3
    <3>1. CASE i = 1
      <4>1. Len(rest) # 0 => calls'[2] = rest[1]
        BY <1>3
      <4> QED
        BY <1>1, <1>3, <3>1, <4>1
    <3>2. CASE i # 1
      <4>1. i - 1 \in DOMAIN rest /\ calls'[i] = rest[i - 1]
        BY <1>3, <3>2
      <4>2. i # Len(rest) + 1 => calls'[i + 1] = rest[(i - 1) + 1] /\ i - 1 # Len(rest)
        BY <1>3, <3>2
      <4>3. i = Len(rest) + 1 => i - 1 = Len(rest)
        BY <1>3
      <4>4. /\ rest[i - 1].node \in Added /\ rest[i - 1].at \in Offspring(rest[i - 1].node) \cup {End}
            /\ IF i - 1 = Len(rest) THEN rest[i - 1].node = 1
               ELSE rest[i - 1].node = rest[(i - 1) + 1].at /\ rest[(i - 1) + 1].ticked
        BY <4>1 DEF Stacked
      <4> QED
        BY <4>1, <4>2, <4>3, <4>4
    <3> QED
      BY <3>1, <3>2
  <2>2. \A i, j \in DOMAIN calls' : i < j => calls'[j].node < calls'[i].node
    <3> SUFFICES ASSUME NEW i \in 1..(Len(rest) + 1), NEW j \in 1..(Len(rest) + 1), i < j
                 PROVE  calls'[j].node < calls'[i].node
      BY <1>3
    <3>1. j - 1 \in DOMAIN rest /\ calls'[j] = rest[j - 1]
      BY <1>3
    <3>2. CASE i = 1
      <4>1. rest[j - 1] \in Range(rest)
        BY <3>1 DEF Range
      <4>2. calls'[i].node = n
        BY <1>1, <1>3, <3>2
      <4> QED
        BY <3>1, <4>1, <4>2
    <3>3. CASE i # 1
      <4>1. i - 1 \in DOMAIN rest /\ calls'[i] = rest[i - 1] /\ i - 1 < j - 1
        BY <1>3, <3>3
      <4> QED
        BY <3>1, <4>1 DEF Stacked
    <3> QED
      BY <3>2, <3>3
  <2>3. Stacked(calls)'
    BY <1>5, <2>1, <2>2 DEF Stacked
  <2>4. ~calls'[1].ticked
    BY <1>1, <1>3
  <2> QED
    BY <1>5, <2>3, <2>4 DEF StackInv
<1>10. LoopInv'
  <2> SUFFICES ASSUME NEW f \in Range(calls') PROVE LoopAgrees(f)'
    BY DEF LoopInv
  <2>1. PICK i \in 1..(Len(rest) + 1) : f = calls'[i]
    BY <1>3 DEF Range
  <2>2. CASE i = 1
    <3>1. f = NewFrame(n)
      BY <1>3, <2>1, <2>2
    <3> QED
      BY <1>2, <3>1, NewLoopAgrees
  <2>3. CASE i # 1
    <3>1. i - 1 \in DOMAIN rest /\ f = rest[i - 1]
      BY <1>3, <2>1, <2>3
    <3>2. f \in Range(rest) /\ f \in Frame /\ f.node \in Added
      BY <3>1 DEF Range, Stacked
    <3>3. f.node # n /\ f.node \in Nodes /\ LoopAgrees(f)
      BY <1>1, <3>2, KindFacts DEF Nodes, IInv
    <3> QED
      BY <1>4, <3>2, <3>3, LoopStays DEF IInv
  <2> QED
    BY <2>2, <2>3
<1>11. StatusAgrees'
  <2> SUFFICES ASSUME NEW m \in Added, m \notin touched', ~OnStack(m)', status'[m] \in Results
               PROVE  ResultAgrees(m)'
    BY <1>5 DEF StatusAgrees, OnStack, Results
  <2>1. m # n /\ ~OnStack(m) /\ m \notin touched /\ m \in Nodes
    BY <1>4, <1>7, KindFacts DEF IInv
  <2> QED
    BY <1>4, <2>1, OthersAgree
<1> QED
  BY <1>5, <1>6, <1>8, <1>9, <1>10, <1>11 DEF IInv

(* The tick of the tree calls the root, and a loop calls one of its        *)
(* node's children.                                                        *)
LEMMA TreeTickInv == ASSUME IInv, TreeTick PROVE IInv'
<1>1. /\ calls = <<>> /\ kind # <<>> /\ Call(1, <<>>)
      /\ \A n \in Added : IsDecorator(n) => children[n] # <<>>
      /\ UNCHANGED <<kind, children, status, building, edits>>
  BY DEF TreeTick, AtRest
<1>2. 1 \in Added /\ ~OnStack(1) /\ \A m : ~OnStack(m)
  BY <1>1, KindFacts DEF IInv, TypeOK, OnStack
<1>3. <<>> \in Seq(Frame) /\ Stacked(<<>>) /\ Range(<<>>) = {}
  BY DEF Stacked, Range
<1> QED
  BY <1>1, <1>2, <1>3, CallInv

LEMMA TopFacts ==
  ASSUME IInv, calls # <<>>, NEW f, f = Head(calls)
  PROVE  /\ f \in Frame /\ f = calls[1] /\ f \in Range(calls) /\ LoopAgrees(f)
         /\ f.node \in Added /\ f.node \in Nodes /\ f.at \in Offspring(f.node) \cup {End}
         /\ Tail(calls) \in Seq(Frame) /\ Len(calls) \in Nat \ {0}
         /\ Len(Tail(calls)) = Len(calls) - 1 /\ DOMAIN Tail(calls) = 1..(Len(calls) - 1)
         /\ DOMAIN calls = 1..Len(calls)
         /\ \A i \in 1..(Len(calls) - 1) : Tail(calls)[i] = calls[i + 1]
         /\ f.ticked => status[f.at] \in Results
<1>1. /\ f \in Frame /\ f = calls[1] /\ 1 \in DOMAIN calls
      /\ Tail(calls) \in Seq(Frame) /\ Len(calls) \in Nat \ {0}
      /\ Len(Tail(calls)) = Len(calls) - 1 /\ DOMAIN Tail(calls) = 1..(Len(calls) - 1)
      /\ DOMAIN calls = 1..Len(calls)
      /\ \A i \in 1..(Len(calls) - 1) : Tail(calls)[i] = calls[i + 1]
  BY TailSeq DEF IInv, TypeOK
<1>2. f \in Range(calls) /\ LoopAgrees(f)
  BY <1>1 DEF IInv, LoopInv, Range
<1>3. f.node \in Added /\ f.node \in Nodes /\ f.at \in Offspring(f.node) \cup {End}
  BY <1>1, KindFacts DEF IInv, StackInv, Stacked
<1> QED
  BY <1>1, <1>2, <1>3 DEF IInv, StackInv

LEMMA DescendInv == ASSUME IInv, Descend PROVE IInv'
<1>1. PICK f : f = Head(calls)
  OBVIOUS
<1>2. /\ calls # <<>> /\ TicksChild(f) /\ ~Is(f.node, "Action")
      /\ Call(f.at, <<[f EXCEPT !.ticked = TRUE]>> \o Tail(calls))
      /\ UNCHANGED <<kind, children, status, building, edits>>
  BY <1>1 DEF Descend, AtRest
<1>3. /\ f \in Frame /\ f = calls[1] /\ f \in Range(calls) /\ LoopAgrees(f)
      /\ f.node \in Added /\ f.node \in Nodes /\ f.at \in Offspring(f.node) \cup {End}
      /\ Tail(calls) \in Seq(Frame) /\ Len(calls) \in Nat \ {0}
      /\ Len(Tail(calls)) = Len(calls) - 1 /\ DOMAIN Tail(calls) = 1..(Len(calls) - 1)
      /\ DOMAIN calls = 1..Len(calls)
      /\ \A i \in 1..(Len(calls) - 1) : Tail(calls)[i] = calls[i + 1]
  BY <1>1, <1>2, TopFacts
<1>4. ~f.ticked /\ f.at \in Offspring(f.node) /\ f.at \in Added /\ f.node < f.at
  BY <1>2, <1>3, ChildFacts DEF TicksChild, IInv
<1>5. PICK g \in Frame : g = [f EXCEPT !.ticked = TRUE]
  BY <1>3 DEF Frame
<1>6. /\ g.node = f.node /\ g.at = f.at /\ g.ticked = TRUE /\ g.good = f.good /\ g.bad = f.bad
      /\ g.prev = f.prev
  BY <1>3, <1>5 DEF Frame
<1>7. PICK rest \in Seq(Frame) : rest = <<g>> \o Tail(calls)
  BY <1>3, ConsSeq
<1>8. /\ rest # <<>> /\ Len(rest) = Len(calls) /\ DOMAIN rest = 1..Len(calls)
      /\ \A i \in 1..Len(calls) : rest[i] = IF i = 1 THEN g ELSE calls[i]
  <2>1. \A i \in 1..Len(calls) : rest[i] = IF i = 1 THEN g ELSE Tail(calls)[i - 1]
    BY <1>3, <1>7, ConsSeq
  <2>2. \A i \in 1..Len(calls) : i # 1 => Tail(calls)[i - 1] = calls[i]
    BY <1>3
  <2>3. rest # <<>> /\ Len(rest) = Len(calls) /\ DOMAIN rest = 1..Len(calls)
    BY <1>3, <1>7, ConsSeq
  <2> QED
    BY <2>1, <2>2, <2>3
<1>9. LoopAgrees(g)
  <2>1. Is(f.node, "Repeat") => Repeats(f.node)
    BY <1>2 DEF TicksChild
  <2>2. Before(g) = Before(f) /\ (\A i : Was(g, i) <=> Was(f, i)) /\ Place(g.node, g.at) = Place(f.node, f.at)
    BY <1>6 DEF Before, Was
  <2>3. \A number, result : Counted(f, number, result) <=> Counted(g, number, result)
    BY <1>6 DEF Counted, Before, Was
  <2> QED
    BY <1>3, <1>6, <2>1, <2>3 DEF LoopAgrees, Before, Was
<1>10. \A i \in 1..Len(calls) : rest[i].node = calls[i].node /\ rest[i].at = calls[i].at
                                /\ (calls[i].ticked => rest[i].ticked)
  BY <1>3, <1>6, <1>8
<1>11. Stacked(rest)
  <2>1. Stacked(calls)
    BY DEF IInv, StackInv
  <2>2. Len(calls) \in Nat
    BY <1>3
  <2>3. ASSUME NEW i \in 1..Len(calls)
        PROVE  /\ rest[i].node \in Added /\ rest[i].at \in Offspring(rest[i].node) \cup {End}
               /\ IF i = Len(calls) THEN rest[i].node = 1
                                    ELSE rest[i].node = rest[i + 1].at /\ rest[i + 1].ticked
    <3>1. i # Len(calls) => i + 1 \in 1..Len(calls)
      BY <2>2
    <3>2. /\ calls[i].node \in Added /\ calls[i].at \in Offspring(calls[i].node) \cup {End}
          /\ IF i = Len(calls) THEN calls[i].node = 1
                               ELSE calls[i].node = calls[i + 1].at /\ calls[i + 1].ticked
      BY <1>3, <2>1 DEF Stacked
    <3>3. i # Len(calls) => rest[i + 1].at = calls[i + 1].at /\ (calls[i + 1].ticked => rest[i + 1].ticked)
      BY <1>10, <3>1
    <3> QED
      BY <1>10, <3>2, <3>3
  <2>4. \A i, j \in 1..Len(calls) : i < j => rest[j].node < rest[i].node
    BY <1>3, <1>10, <2>1 DEF Stacked
  <2> QED
    BY <1>8, <2>3, <2>4 DEF Stacked
<1>12. \A m : OnStack(m) <=> \E h \in Range(rest) : h.node = m
  BY <1>3, <1>8, <1>10 DEF OnStack, Range
<1>13. \A h \in Range(rest) : h.node < f.at /\ LoopAgrees(h)
  <2> SUFFICES ASSUME NEW i \in 1..Len(calls), NEW h, h = rest[i] PROVE h.node < f.at /\ LoopAgrees(h)
    BY <1>8 DEF Range
  <2>1. h.node = calls[i].node /\ (i # 1 => calls[i].node < f.node) /\ calls[i].node \in Nodes
    <3>1. h.node = calls[i].node /\ i \in DOMAIN calls /\ 1 \in DOMAIN calls /\ (i # 1 => 1 < i)
      BY <1>3, <1>10
    <3>2. calls[i].node \in Added /\ Added \subseteq Nodes
      BY <3>1, KindFacts DEF IInv, StackInv, Stacked
    <3>3. i # 1 => calls[i].node < f.node
      BY <1>3, <3>1 DEF IInv, StackInv, Stacked
    <3> QED
      BY <3>1, <3>2, <3>3
  <2>2. h.node < f.at
    BY <1>3, <1>4, <2>1, KindFacts DEF Nodes, IInv
  <2>3. LoopAgrees(h)
    BY <1>3, <1>8, <1>9 DEF IInv, LoopInv, Range
  <2> QED
    BY <2>2, <2>3
<1>14. ~OnStack(f.at)
  <2>1. f.at \in Nodes
    BY <1>4, KindFacts DEF IInv
  <2> QED
    BY <1>12, <1>13, <2>1 DEF Nodes
<1>15. \A m \in Added : IsDecorator(m) => children[m] # <<>>
  BY <1>2 DEF IInv, StackInv
<1>16. f.at = rest[1].at /\ rest[1].ticked
  BY <1>3, <1>6, <1>8
<1> QED
  BY <1>2, <1>4, <1>5, <1>7, <1>8, <1>11, <1>12, <1>13, <1>14, <1>15, <1>16, CallInv

-----------------------------------------------------------------------------
(* What a loop that has looked at a child returns.                         *)
LEMMA ResultIs ==
  ASSUME TypeOK, NEW f, f.node \in Added
  PROVE  /\ Is(f.node, "Sequence") => Result(f) = SequenceResult(f)
         /\ Is(f.node, "Selector") \/ Is(f.node, "ActiveSelector") => Result(f) = SelectorResult(f)
         /\ Is(f.node, "Parallel") => Result(f) = ParallelResult(f)
         /\ Is(f.node, "Inverter") => Result(f) = InverterResult(f)
         /\ Is(f.node, "Repeat") => Result(f) = RepeatResult(f)
BY DEF Result, Is

LEMMA AdvanceFacts ==
  ASSUME IInv, calls # <<>>, NEW f, f = Head(calls), ~Is(f.node, "Action"),
         ~TicksChild(f), Result(f) = "none"
  PROVE  /\ f.at \in Offspring(f.node) /\ ~Is(f.node, "Inverter")
         /\ Is(f.node, "Sequence") => status[f.at] = "Success"
         /\ Is(f.node, "Selector") \/ Is(f.node, "ActiveSelector") => status[f.at] = "Failure"
         /\ Is(f.node, "Parallel") =>
               /\ status[f.at] \in Results
               /\ ~(kind[f.node].success = "RequireOne" /\ status[f.at] = "Success")
               /\ ~(kind[f.node].failure = "RequireOne" /\ status[f.at] = "Failure")
         /\ Is(f.node, "Repeat") => status[f.at] = "Success" /\ f.ticked
<1>1. /\ f.node \in Added /\ f.node \in Nodes /\ f.at \in Offspring(f.node) \cup {End}
      /\ f.ticked => status[f.at] \in Results
      /\ LoopAgrees(f)
  BY TopFacts
<1>2. /\ f.at \in Offspring(f.node) => f.at # End /\ status[f.at] \in Statuses
      /\ IsDecorator(f.node) => f.at # End
  <2>1. IsDecorator(f.node) => f.at # End
    <3>1. IsDecorator(f.node) => children[f.node] # <<>> /\ f.at = First(f.node)
      BY <1>1 DEF IInv, StackInv, LoopAgrees
    <3> QED
      BY <1>1, <3>1, FirstPlace DEF IInv
  <2>2. f.at \in Offspring(f.node) => f.at \in Nodes
    BY <1>1, ChildFacts DEF IInv
  <2> QED
    BY <2>1, <2>2 DEF Nodes, IInv, TypeOK
<1>3. CASE Is(f.node, "Sequence")
  <2>1. f.at # End /\ status[f.at] = "Success"
    BY <1>1, <1>2, <1>3, ResultIs DEF IInv, SequenceResult, Statuses
  <2> QED
    BY <1>1, <1>3, <2>1 DEF Is
<1>4. CASE Is(f.node, "Selector") \/ Is(f.node, "ActiveSelector")
  <2>1. f.at # End /\ status[f.at] = "Failure"
    BY <1>1, <1>2, <1>4, ResultIs DEF IInv, SelectorResult, Statuses
  <2> QED
    BY <1>1, <1>4, <2>1 DEF Is
<1>5. CASE Is(f.node, "Parallel")
  <2>1. ParallelResult(f) = "none"
    BY <1>1, <1>5, ResultIs DEF IInv
  <2>2. f.at # End
    BY <2>1 DEF ParallelResult
  <2>3. /\ ~(kind[f.node].success = "RequireOne" /\ status[f.at] = "Success")
        /\ ~(kind[f.node].failure = "RequireOne" /\ status[f.at] = "Failure")
    BY <2>1, <2>2 DEF ParallelResult
  <2>4. f.ticked \/ Terminated(f.at)
    BY <1>5, <2>2 DEF TicksChild, Is
  <2>5. status[f.at] \in Results
    BY <1>1, <2>4 DEF Terminated, Results
  <2> QED
    BY <1>1, <1>5, <2>2, <2>3, <2>5 DEF Is
<1>6. CASE Is(f.node, "Inverter")
  BY <1>1, <1>6, ResultIs DEF IInv, InverterResult
<1>7. CASE Is(f.node, "Repeat")
  <2>1. RepeatResult(f) = "none" /\ f.at # End
    BY <1>1, <1>2, <1>7, ResultIs DEF IInv, IsDecorator
  <2>2. f.ticked /\ status[f.at] = "Success"
    BY <1>1, <1>2, <2>1 DEF RepeatResult, Results
  <2> QED
    BY <1>1, <1>7, <2>1, <2>2 DEF Is
<1> QED
  BY <1>1, <1>3, <1>4, <1>5, <1>6, <1>7, KindFacts DEF Is, IInv

(* One more child has been counted, or not.                                *)
LEMMA CountedNext ==
  ASSUME NEW p \in Nat, NEW w, NEW r, NEW k \in Nat, k < p,
         k = p - 1 <=> \A i \in 1..(p - 1) : w[i] = r,
         NEW d, d = IF w[p] = r THEN 1 ELSE 0
  PROVE  /\ k + d < p + 1 /\ k + d \in Nat
         /\ k + d = p <=> \A i \in 1..p : w[i] = r
<1>1. d \in {0, 1} /\ (d = 1 <=> w[p] = r) /\ p \in 1..p
  OBVIOUS
<1>2. (\A i \in 1..p : w[i] = r) <=> (\A i \in 1..(p - 1) : w[i] = r) /\ w[p] = r
  <2>1. \A i \in 1..p : i \in 1..(p - 1) \/ i = p
    OBVIOUS
  <2>2. 1..(p - 1) \subseteq 1..p
    OBVIOUS
  <2> QED
    BY <1>1, <2>1, <2>2
<1> QED
  BY <1>1, <1>2

LEMMA AdvancedLoop ==
  ASSUME IInv, calls # <<>>, NEW f, f = Head(calls), ~Is(f.node, "Action"),
         ~TicksChild(f), Result(f) = "none", UNCHANGED <<kind, children, status, touched>>,
         NEW c, c = IF Is(f.node, "Repeat") THEN f.at ELSE Next1(f.node, f.at),
         current' = IF Is(f.node, "Sequence") THEN [current EXCEPT ![f.node] = c] ELSE current,
         NEW g, g = [f EXCEPT !.at = c, !.ticked = FALSE, !.good = @ + Counts(f, "Success"),
                              !.bad = @ + Counts(f, "Failure")]
  PROVE  g \in Frame /\ c \in Offspring(f.node) \cup {End} /\ LoopAgrees(g)'
<1> DEFINE n == f.node
           p == Place(n, f.at)
<1>1. /\ f \in Frame /\ LoopAgrees(f) /\ n \in Added /\ n \in Nodes
      /\ f.at \in Offspring(n) /\ ~Is(n, "Inverter")
      /\ Is(n, "Sequence") => status[f.at] = "Success"
      /\ Is(n, "Selector") \/ Is(n, "ActiveSelector") => status[f.at] = "Failure"
      /\ Is(n, "Parallel") =>
            /\ status[f.at] \in Results
            /\ ~(kind[n].success = "RequireOne" /\ status[f.at] = "Success")
            /\ ~(kind[n].failure = "RequireOne" /\ status[f.at] = "Failure")
      /\ Is(n, "Repeat") => status[f.at] = "Success" /\ f.ticked
  BY TopFacts, AdvanceFacts
<1>2. /\ Next1(n, f.at) \in Offspring(n) \cup {End} /\ Place(n, Next1(n, f.at)) = p + 1
      /\ children[n][p] = f.at /\ p \in Nat \ {0}
  BY <1>1, NextPlace, ChildFacts DEF IInv
<1>3. c \in Offspring(n) \cup {End} /\ Offspring(n) \subseteq Nodes
  BY <1>1, <1>2, ChildFacts DEF IInv
<1>4. /\ g \in Frame /\ g.node = n /\ g.at = c /\ g.ticked = FALSE /\ g.prev = f.prev
      /\ g.good = f.good + Counts(f, "Success") /\ g.bad = f.bad + Counts(f, "Failure")
  <2>1. PICK x \in Nat, y \in Nat : x = f.good + Counts(f, "Success") /\ y = f.bad + Counts(f, "Failure")
    BY <1>1 DEF Counts, Frame
  <2>2. c \in Nodes \cup {End}
    BY <1>3
  <2>3. g = [f EXCEPT !.at = c, !.ticked = FALSE, !.good = x, !.bad = y]
    <3>1. f.good + Counts(f, "Success") = x /\ f.bad + Counts(f, "Failure") = y
      BY <2>1
    <3> QED
      BY <3>1
  <2> QED
    BY <1>1, <2>1, <2>2, <2>3 DEF Frame
<1>5. /\ \A t : Is(n, t)' <=> Is(n, t)
      /\ IsDecorator(n)' <=> IsDecorator(n)
      /\ First(n)' = First(n) /\ \A m, d : Place(m, d)' = Place(m, d)
  BY DEF Is, IsDecorator, First, Place, Index
<1>6. \A t : t # "Repeat" /\ Is(n, t) => Before(g)' = 1..p /\ Place(g.node, g.at)' = p + 1
  BY <1>2, <1>4, <1>5 DEF Before, Is
<1>7. /\ \A i : Was(g, i)' = Was(f, i)
      /\ Was(f, p) = status[f.at] /\ Before(f) = 1..(p - 1)
      /\ \A i \in 1..p : i \in Before(f) \/ i = p
  BY <1>2, <1>4 DEF Was, Before
<1>8. current'[n] = IF Is(n, "Sequence") THEN c ELSE current[n]
  BY <1>1 DEF IInv, TypeOK
<1>9. Is(n, "Sequence") => g.at = current'[n] /\ (n \notin touched' => \A i \in Before(g)' : Was(g, i)' = "Success")
  <2> SUFFICES ASSUME Is(n, "Sequence")
               PROVE  g.at = current'[n] /\ (n \notin touched' => \A i \in Before(g)' : Was(g, i)' = "Success")
    OBVIOUS
  <2>1. (n \notin touched => \A i \in Before(f) : Was(f, i) = "Success") /\ status[f.at] = "Success"
    BY <1>1 DEF LoopAgrees
  <2>2. Before(g)' = 1..p
    BY <1>6
  <2>3. g.at = current'[n]
    BY <1>4, <1>8
  <2>4. n \notin touched => \A i \in 1..p : Was(f, i) = "Success"
    BY <1>7, <2>1
  <2> QED
    BY <1>7, <2>2, <2>3, <2>4
<1>10. Is(n, "Selector") \/ Is(n, "ActiveSelector") => \A i \in Before(g)' : Was(g, i)' = "Failure"
  <2> SUFFICES ASSUME Is(n, "Selector") \/ Is(n, "ActiveSelector")
               PROVE  \A i \in Before(g)' : Was(g, i)' = "Failure"
    OBVIOUS
  <2>1. (\A i \in Before(f) : Was(f, i) = "Failure") /\ status[f.at] = "Failure"
    BY <1>1 DEF LoopAgrees
  <2>2. Before(g)' = 1..p
    BY <1>6
  <2> QED
    BY <1>7, <2>1, <2>2
<1>11. Is(n, "ActiveSelector") => g.prev \in {End, current'[n]}
  BY <1>1, <1>4, <1>8 DEF LoopAgrees, Is
<1>12. ASSUME NEW r, NEW k \in Nat, Counted(f, k, r), Is(n, "Parallel"), NEW x, x = k + Counts(f, r)
       PROVE  Counted(g, x, r)'
  <2>1. PICK w : w = [i \in 1..p |-> Was(f, i)]
    OBVIOUS
  <2>2. Counts(f, r) = IF w[p] = r THEN 1 ELSE 0
    <3>1. p \in 1..p /\ w[p] = status[f.at]
      BY <1>2, <1>7, <2>1
    <3> QED
      BY <1>12, <3>1 DEF Counts
  <2>3. k < p /\ (k = p - 1 <=> \A i \in 1..(p - 1) : w[i] = r)
    <3>1. \A i \in 1..(p - 1) : w[i] = Was(f, i)
      BY <1>2, <2>1
    <3> QED
      BY <1>7, <1>12, <3>1 DEF Counted
  <2>4. x < p + 1 /\ (x = p <=> \A i \in 1..p : w[i] = r)
    BY <1>2, <1>12, <2>2, <2>3, CountedNext
  <2>5. Before(g)' = 1..p /\ Place(g.node, g.at)' = p + 1
    BY <1>6, <1>12
  <2>6. x < Place(g.node, g.at)' /\ (x = Place(g.node, g.at)' - 1 <=> \A i \in Before(g)' : Was(g, i)' = r)
    BY <1>2, <1>7, <2>1, <2>4, <2>5
  <2> QED
    BY <2>6 DEF Counted
<1>13. Is(n, "Parallel") =>
          /\ \A i \in Before(g)' : Was(g, i)' \in Results
          /\ Counted(g, g.good, "Success")' /\ Counted(g, g.bad, "Failure")'
          /\ kind'[n].success = "RequireOne" => \A i \in Before(g)' : Was(g, i)' # "Success"
          /\ kind'[n].failure = "RequireOne" => \A i \in Before(g)' : Was(g, i)' # "Failure"
  <2> SUFFICES ASSUME Is(n, "Parallel")
      PROVE  /\ \A i \in Before(g)' : Was(g, i)' \in Results
             /\ Counted(g, g.good, "Success")' /\ Counted(g, g.bad, "Failure")'
             /\ kind'[n].success = "RequireOne" => \A i \in Before(g)' : Was(g, i)' # "Success"
             /\ kind'[n].failure = "RequireOne" => \A i \in Before(g)' : Was(g, i)' # "Failure"
    OBVIOUS
  <2>1. f.good \in Nat /\ f.bad \in Nat /\ Counted(f, f.good, "Success") /\ Counted(f, f.bad, "Failure")
    BY <1>1 DEF LoopAgrees, Frame
  <2>2. Counted(g, g.good, "Success")' /\ Counted(g, g.bad, "Failure")'
    BY <1>4, <1>12, <2>1
  <2>3. /\ \A i \in Before(f) : Was(f, i) \in Results
        /\ kind[n].success = "RequireOne" => \A i \in Before(f) : Was(f, i) # "Success"
        /\ kind[n].failure = "RequireOne" => \A i \in Before(f) : Was(f, i) # "Failure"
        /\ status[f.at] \in Results
        /\ ~(kind[n].success = "RequireOne" /\ status[f.at] = "Success")
        /\ ~(kind[n].failure = "RequireOne" /\ status[f.at] = "Failure")
    BY <1>1 DEF LoopAgrees
  <2>4. Before(g)' = 1..p
    BY <1>6
  <2>5. \A i \in Before(g)' : Was(g, i)' = Was(f, i) /\ (i \in Before(f) \/ Was(f, i) = status[f.at])
    BY <1>7, <2>4
  <2>6. \A i \in Before(g)' : Was(g, i)' \in Results
    BY <2>3, <2>5
  <2>7. kind'[n].success = "RequireOne" => \A i \in Before(g)' : Was(g, i)' # "Success"
    BY <2>3, <2>5
  <2>8. kind'[n].failure = "RequireOne" => \A i \in Before(g)' : Was(g, i)' # "Failure"
    BY <2>3, <2>5
  <2> QED
    BY <2>2, <2>6, <2>7, <2>8
<1>14. IsDecorator(n) => g.at = First(n)'
  BY <1>1, <1>4, <1>5 DEF LoopAgrees, IsDecorator
<1>15. Is(n, "Repeat") => status'[g.at] = "Success"
  BY <1>1, <1>4
<1> QED
  BY <1>3, <1>4, <1>5, <1>9, <1>10, <1>11, <1>13, <1>14, <1>15 DEF LoopAgrees

LEMMA AdvanceInv == ASSUME IInv, Advance PROVE IInv'
<1>1. PICK f : f = Head(calls)
  OBVIOUS
<1>2. PICK c : c = IF Is(f.node, "Repeat") THEN f.at ELSE Next1(f.node, f.at)
  OBVIOUS
<1>3. PICK g : g = [f EXCEPT !.at = c, !.ticked = FALSE, !.good = @ + Counts(f, "Success"),
                             !.bad = @ + Counts(f, "Failure")]
  OBVIOUS
<1>4. /\ calls # <<>> /\ ~Is(f.node, "Action") /\ ~TicksChild(f) /\ Result(f) = "none"
      /\ calls' = <<g>> \o Tail(calls)
      /\ current' = IF Is(f.node, "Sequence") THEN [current EXCEPT ![f.node] = c] ELSE current
      /\ counter' = IF Is(f.node, "Repeat") THEN [counter EXCEPT ![f.node] = Round(f.node, @)] ELSE counter
      /\ UNCHANGED <<kind, children, status, building, edits, touched>>
  BY <1>1, <1>2, <1>3 DEF Advance, AtRest
<1>5. /\ f \in Frame /\ f = calls[1] /\ f \in Range(calls) /\ LoopAgrees(f)
      /\ f.node \in Added /\ f.node \in Nodes /\ f.at \in Offspring(f.node) \cup {End}
      /\ Tail(calls) \in Seq(Frame) /\ Len(calls) \in Nat \ {0}
      /\ Len(Tail(calls)) = Len(calls) - 1 /\ DOMAIN Tail(calls) = 1..(Len(calls) - 1)
      /\ DOMAIN calls = 1..Len(calls)
      /\ \A i \in 1..(Len(calls) - 1) : Tail(calls)[i] = calls[i + 1]
  BY <1>1, <1>4, TopFacts
<1>6. g \in Frame /\ c \in Offspring(f.node) \cup {End} /\ LoopAgrees(g)'
  BY <1>1, <1>2, <1>3, <1>4, AdvancedLoop
<1>7. g.node = f.node /\ g.at = c /\ g.ticked = FALSE
  BY <1>3, <1>5 DEF Frame
<1>8. /\ calls' \in Seq(Frame) /\ calls' # <<>> /\ Len(calls') = Len(calls) /\ DOMAIN calls' = 1..Len(calls)
      /\ calls'[1] = g /\ \A i \in 1..Len(calls) : i # 1 => calls'[i] = calls[i]
  <2>1. /\ calls' \in Seq(Frame) /\ calls' # <<>> /\ Len(calls') = Len(Tail(calls)) + 1
        /\ DOMAIN calls' = 1..(Len(Tail(calls)) + 1)
        /\ \A i \in 1..(Len(Tail(calls)) + 1) : calls'[i] = IF i = 1 THEN g ELSE Tail(calls)[i - 1]
    BY <1>4, <1>5, <1>6, ConsSeq
  <2>2. Len(Tail(calls)) + 1 = Len(calls)
    BY <1>5
  <2>3. \A i \in 1..Len(calls) : i # 1 => Tail(calls)[i - 1] = calls[i]
    BY <1>5
  <2>4. 1 \in 1..Len(calls)
    BY <1>5
  <2> QED
    BY <2>1, <2>2, <2>3, <2>4
<1>9. /\ c \in Added \cup {End} /\ Added \subseteq Nodes
      /\ Is(f.node, "Repeat") => kind[f.node].limit \in Int
  BY <1>5, <1>6, ChildFacts, KindFacts DEF IInv
<1>10. /\ current' \in [Nodes -> Added \cup {End}] /\ counter' \in [Nodes -> Nat]
       /\ \A m \in Nodes : m # f.node => current'[m] = current[m] /\ counter'[m] = counter[m]
       /\ current'[f.node] = IF Is(f.node, "Sequence") THEN c ELSE current[f.node]
  <2>1. current' \in [Nodes -> Added \cup {End}]
    BY <1>4, <1>9 DEF IInv, TypeOK
  <2>2. Round(f.node, counter[f.node]) \in Nat
    BY <1>5 DEF Round, IInv, TypeOK
  <2>3. counter' \in [Nodes -> Nat]
    BY <1>4, <2>2 DEF IInv, TypeOK
  <2>4. current'[f.node] = IF Is(f.node, "Sequence") THEN c ELSE current[f.node]
    BY <1>4, <1>5 DEF IInv, TypeOK
  <2>5. \A m \in Nodes : m # f.node => current'[m] = current[m] /\ counter'[m] = counter[m]
    BY <1>4 DEF IInv, TypeOK
  <2> QED
    BY <2>1, <2>3, <2>4, <2>5
<1>11. /\ TreeInv' /\ Added' = Added
       /\ \A m : Offspring(m)' = Offspring(m) /\ First(m)' = First(m)
       /\ \A m, t : Is(m, t)' <=> Is(m, t)
       /\ \A m : IsDecorator(m)' <=> IsDecorator(m)
  BY <1>4, <1>5, <1>10, TreeStays DEF IInv
<1>12. TypeOK'
  BY <1>4, <1>8, <1>10, <1>11 DEF IInv, TypeOK
<1>13. \A m : OnStack(m)' <=> OnStack(m)
  <2>1. \A i \in 1..Len(calls) : calls'[i].node = calls[i].node
    BY <1>5, <1>7, <1>8
  <2> QED
    BY <1>5, <1>8, <2>1 DEF OnStack
<1>14. OnStack(f.node)
  BY <1>5 DEF OnStack
<1>15. KeptInv'
  <2> SUFFICES ASSUME NEW m \in Added
               PROVE  /\ Is(m, "Sequence") => current'[m] \in Offspring(m) \cup {End}
                      /\ Is(m, "ActiveSelector") => current'[m] \in {End, First(m)}
                      /\ Is(m, "Repeat") /\ status'[m] = "Running" /\ ~OnStack(m)' => Repeats(m)'
    BY <1>11 DEF KeptInv
  <2>1. CASE m = f.node
    BY <1>6, <1>10, <1>13, <1>14, <2>1 DEF IInv, KeptInv, Is
  <2>2. CASE m # f.node
    BY <1>4, <1>9, <1>10, <1>13, <2>2 DEF IInv, KeptInv, Repeats, Unlimited
  <2> QED
    BY <2>1, <2>2
<1>16. StackInv'
  <2>1. \A i \in 1..Len(calls) : calls'[i].node = calls[i].node
    BY <1>5, <1>7, <1>8
  <2>2. ASSUME NEW i \in 1..Len(calls)
        PROVE  /\ calls'[i].node \in Added /\ calls'[i].at \in Offspring(calls'[i].node) \cup {End}
               /\ IF i = Len(calls) THEN calls'[i].node = 1
                                    ELSE calls'[i].node = calls'[i + 1].at /\ calls'[i + 1].ticked
    <3>0. Len(calls) \in Nat
      BY <1>5
    <3>9. i # Len(calls) => i + 1 \in 1..Len(calls) /\ i + 1 # 1
      BY <3>0
    <3>1. i # Len(calls) => i + 1 \in 1..Len(calls) /\ calls'[i + 1] = calls[i + 1]
      BY <1>8, <3>9
    <3>2. /\ calls[i].node \in Added /\ calls[i].at \in Offspring(calls[i].node) \cup {End}
          /\ IF i = Len(calls) THEN calls[i].node = 1
                               ELSE calls[i].node = calls[i + 1].at /\ calls[i + 1].ticked
      BY <1>5 DEF IInv, StackInv, Stacked
    <3>3. calls'[i].at \in Offspring(calls'[i].node) \cup {End}
      BY <1>6, <1>7, <1>8, <3>2
    <3> QED
      BY <2>1, <3>1, <3>2, <3>3
  <2>3. \A i, j \in 1..Len(calls) : i < j => calls'[j].node < calls'[i].node
    BY <1>5, <2>1 DEF IInv, StackInv, Stacked
  <2>4. Stacked(calls)'
    BY <1>8, <1>11, <2>2, <2>3 DEF Stacked
  <2>5. \A m \in Added : IsDecorator(m)' => children'[m] # <<>>
    BY <1>4, <1>11 DEF IInv, StackInv
  <2> QED
    BY <1>7, <1>8, <1>11, <2>4, <2>5 DEF StackInv
<1>17. LoopInv'
  <2> SUFFICES ASSUME NEW i \in 1..Len(calls), NEW h, h = calls'[i] PROVE LoopAgrees(h)'
    BY <1>8 DEF LoopInv, Range
  <2>1. CASE i = 1
    BY <1>6, <1>8, <2>1
  <2>2. CASE i # 1
    <3>1. h = calls[i] /\ i \in DOMAIN calls /\ 1 \in DOMAIN calls /\ 1 < i
      BY <1>5, <1>8, <2>2
    <3>2. h \in Frame /\ h \in Range(calls)
      BY <3>1 DEF IInv, TypeOK, Range
    <3>3. h.node \in Added /\ h.node < f.node
      BY <1>5, <3>1 DEF IInv, StackInv, Stacked
    <3>4. LoopAgrees(h)
      BY <3>2 DEF IInv, LoopInv
    <3>5. h.node \in Nodes /\ f.node \in Nodes
      BY <1>5, <1>9, <3>3
    <3>6. h.node # f.node
      BY <3>3, <3>5 DEF Nodes
    <3> QED
      BY <1>4, <1>10, <3>2, <3>3, <3>4, <3>5, <3>6, LoopStays DEF IInv
  <2> QED
    BY <2>1, <2>2
<1>18. StatusAgrees'
  <2> SUFFICES ASSUME NEW m \in Added, m \notin touched', ~OnStack(m)', status'[m] \in Results
               PROVE  ResultAgrees(m)'
    BY <1>11 DEF StatusAgrees, OnStack, Results
  <2>1. m # f.node /\ ~OnStack(m) /\ m \notin touched /\ m \in Nodes
    BY <1>4, <1>9, <1>13, <1>14
  <2> QED
    BY <1>4, <1>10, <2>1, OthersAgree
<1> QED
  BY <1>11, <1>12, <1>15, <1>16, <1>17, <1>18 DEF IInv

-----------------------------------------------------------------------------
(* A return: the node gets its result, and the running children of a       *)
(* Parallel, with theirs, are aborted.                                     *)
LEMMA OneParent ==
  ASSUME TreeInv, NEW m \in Nodes, NEW n \in Nodes, NEW c \in Offspring(m), c \in Offspring(n)
  PROVE  m = n
<1>1. PICK i \in DOMAIN children[m], j \in DOMAIN children[n] : children[m][i] = c /\ children[n][j] = c
  BY DEF Offspring
<1> QED
  BY <1>1 DEF TreeInv

LEMMA ReturnedStatus ==
  ASSUME IInv, calls # <<>>, NEW f, f = Head(calls), NEW s \in Results, Return(f, s)
  PROVE  /\ status' \in [Nodes -> Statuses] /\ status'[f.node] = s
         /\ \A m \in Nodes \ {f.node} : status'[m] \in {status[m], "Aborted"}
         /\ \A m \in Nodes \ Added : status'[m] = status[m]
         /\ \A m \in Nodes \ {f.node} : (m < f.node \/ status'[m] \in Results) =>
               \A c \in Offspring(m) \ {f.node} : status'[c] = status[c]
         /\ \A c \in Offspring(f.node) :
               status'[c] = IF s # "Running" /\ Is(f.node, "Parallel") /\ status[c] = "Running"
                            THEN "Aborted" ELSE status[c]
<1>1. f.node \in Added /\ f.node \in Nodes /\ LoopAgrees(f)
  BY TopFacts
<1>2. SwitchedFrom(f) = {}
  BY <1>1 DEF SwitchedFrom, LoopAgrees
<1>3. PICK out : out = IF s = "Running" THEN {} ELSE Aborts(f.node)
  OBVIOUS
<1>4. status' = [m \in Nodes |-> IF m = f.node THEN s ELSE IF m \in out THEN "Aborted" ELSE status[m]]
  BY <1>2, <1>3 DEF Return
<1>5. /\ \A c \in out : /\ c \in Added /\ f.node < c /\ status[c] = "Running"
                        /\ \E m \in {f.node} \cup out : m \in Nodes /\ c \in Offspring(m)
      /\ s # "Running" => AbortedBy(f.node) \subseteq out
      /\ ~Is(f.node, "Parallel") => out = {}
  <2>1. /\ AbortedBy(f.node) \subseteq Aborts(f.node)
        /\ \A c \in Aborts(f.node) : /\ \E m \in {f.node} \cup Aborts(f.node) : c \in AbortedBy(m)
                                     /\ c \in Added /\ f.node < c /\ status[c] = "Running"
        /\ ~Is(f.node, "Parallel") => Aborts(f.node) = {}
    BY <1>1, AbortFacts DEF IInv
  <2>2. \A m : AbortedBy(m) \subseteq Offspring(m)
    BY DEF AbortedBy
  <2>3. Aborts(f.node) \subseteq Nodes
    BY DEF Aborts
  <2> QED
    BY <1>1, <1>3, <2>1, <2>2, <2>3
<1>6. status' \in [Nodes -> Statuses] /\ status'[f.node] = s
  <2>1. s \in Statuses /\ "Aborted" \in Statuses /\ status \in [Nodes -> Statuses]
    BY DEF Results, Statuses, IInv, TypeOK
  <2> QED
    BY <1>1, <1>4, <2>1
<1>7. \A m \in Nodes \ {f.node} : status'[m] = IF m \in out THEN "Aborted" ELSE status[m]
  BY <1>4
<1>8. \A m \in Nodes \ Added : status'[m] = status[m]
  BY <1>1, <1>5, <1>7
<1>9. ASSUME NEW m \in Nodes \ {f.node}, m < f.node \/ status'[m] \in Results,
             NEW c \in Offspring(m) \ {f.node}
      PROVE  status'[c] = status[c]
  <2>1. m \notin out
    <3>1. CASE m < f.node
      BY <1>1, <1>5, <3>1 DEF Nodes
    <3>2. CASE status'[m] \in Results
      BY <1>7, <3>2 DEF Results
    <3> QED
      BY <1>9, <3>1, <3>2
  <2>2. c \notin out
    <3> SUFFICES ASSUME c \in out PROVE FALSE
      OBVIOUS
    <3>1. PICK p \in {f.node} \cup out : p \in Nodes /\ c \in Offspring(p)
      BY <1>5
    <3>2. p = m
      BY <3>1, OneParent DEF IInv
    <3> QED
      BY <2>1, <3>2
  <2>3. c \in Nodes \ {f.node}
    BY ChildFacts DEF IInv
  <2> QED
    BY <1>7, <2>2, <2>3
<1>10. ASSUME NEW c \in Offspring(f.node)
       PROVE  status'[c] = IF s # "Running" /\ Is(f.node, "Parallel") /\ status[c] = "Running"
                           THEN "Aborted" ELSE status[c]
  <2>1. c \in Nodes \ {f.node}
    <3>1. c \in Nodes /\ f.node < c
      BY <1>1, ChildFacts DEF IInv
    <3> QED
      BY <1>1, <3>1 DEF Nodes
  <2>2. s # "Running" /\ Is(f.node, "Parallel") /\ status[c] = "Running" => c \in out
    BY <1>1, <1>5 DEF AbortedBy
  <2>3. c \in out => s # "Running" /\ Is(f.node, "Parallel") /\ status[c] = "Running"
    BY <1>3, <1>5
  <2> QED
    BY <1>7, <2>1, <2>2, <2>3
<1> QED
  BY <1>6, <1>7, <1>8, <1>9, <1>10

LEMMA ReturnInv ==
  ASSUME IInv, calls # <<>>, NEW f, f = Head(calls), NEW s \in Results, Return(f, s),
         f.node \notin touched => ResultAgrees(f.node)',
         Is(f.node, "Repeat") /\ s = "Running" => Repeats(f.node)
  PROVE  IInv'
<1> DEFINE n == f.node
<1>1. /\ f \in Frame /\ f = calls[1] /\ n \in Added /\ n \in Nodes
      /\ Tail(calls) \in Seq(Frame) /\ Len(calls) \in Nat \ {0}
      /\ Len(Tail(calls)) = Len(calls) - 1 /\ DOMAIN Tail(calls) = 1..(Len(calls) - 1)
      /\ DOMAIN calls = 1..Len(calls)
      /\ \A i \in 1..(Len(calls) - 1) : Tail(calls)[i] = calls[i + 1]
  BY TopFacts
<1>2. calls' = Tail(calls) /\ UNCHANGED <<kind, children, current, counter, building, edits, touched>>
  BY DEF Return
<1>3. /\ status' \in [Nodes -> Statuses] /\ status'[n] = s
      /\ \A m \in Nodes \ {n} : status'[m] \in {status[m], "Aborted"}
      /\ \A m \in Nodes \ Added : status'[m] = status[m]
      /\ \A m \in Nodes \ {n} : (m < n \/ status'[m] \in Results) =>
            \A c \in Offspring(m) \ {n} : status'[c] = status[c]
  BY ReturnedStatus
<1>4. /\ TreeInv' /\ Added' = Added
      /\ \A m : Offspring(m)' = Offspring(m) /\ First(m)' = First(m)
      /\ \A m, t : Is(m, t)' <=> Is(m, t)
      /\ \A m : IsDecorator(m)' <=> IsDecorator(m)
  BY <1>2, <1>3, TreeStays DEF IInv
<1>5. Added \subseteq Nodes /\ Len(calls) \in Nat
  BY <1>1, KindFacts DEF IInv
<1>6. TypeOK'
  BY <1>1, <1>2, <1>3, <1>4 DEF IInv, TypeOK
<1>7. \A i \in 1..Len(calls) :
         /\ calls[i].node \in Added /\ calls[i].at \in Offspring(calls[i].node) \cup {End}
         /\ IF i = Len(calls) THEN calls[i].node = 1
                              ELSE calls[i].node = calls[i + 1].at /\ calls[i + 1].ticked
  BY <1>1 DEF IInv, StackInv, Stacked
<1>8. \A i, j \in 1..Len(calls) : i < j => calls[j].node < calls[i].node
  BY <1>1 DEF IInv, StackInv, Stacked
<1>9. \A m : OnStack(m) => m = n \/ OnStack(m)'
  <2> SUFFICES ASSUME NEW m, NEW i \in 1..Len(calls), calls[i].node = m, m # n PROVE OnStack(m)'
    BY <1>1 DEF OnStack
  <2>1. i - 1 \in 1..(Len(calls) - 1) /\ (i - 1) + 1 = i
    BY <1>1, <1>5
  <2>2. i - 1 \in DOMAIN calls' /\ calls'[i - 1].node = m
    BY <1>1, <1>2, <2>1
  <2> QED
    BY <2>2 DEF OnStack
<1>10. KeptInv'
  <2> SUFFICES ASSUME NEW m \in Added
               PROVE  /\ Is(m, "Sequence") => current'[m] \in Offspring(m) \cup {End}
                      /\ Is(m, "ActiveSelector") => current'[m] \in {End, First(m)}
                      /\ Is(m, "Repeat") /\ status'[m] = "Running" /\ ~OnStack(m)' => Repeats(m)'
    BY <1>4 DEF KeptInv
  <2>1. Repeats(m)' <=> Repeats(m)
    BY <1>2 DEF Repeats, Unlimited
  <2>2. CASE m = n
    BY <1>2, <1>3, <2>1, <2>2 DEF IInv, KeptInv
  <2>3. CASE m # n
    <3>1. status'[m] = "Running" => status[m] = "Running"
      BY <1>3, <1>5, <2>3
    <3> QED
      BY <1>2, <1>9, <2>1, <2>3, <3>1 DEF IInv, KeptInv
  <2> QED
    BY <2>2, <2>3
<1>11. StackInv'
  <2>1. ASSUME NEW i \in 1..(Len(calls) - 1)
        PROVE  /\ calls'[i].node \in Added /\ calls'[i].at \in Offspring(calls'[i].node) \cup {End}
               /\ IF i = Len(calls) - 1 THEN calls'[i].node = 1
                                        ELSE calls'[i].node = calls'[i + 1].at /\ calls'[i + 1].ticked
    <3>1. i + 1 \in 1..Len(calls) /\ (i + 1 = Len(calls) <=> i = Len(calls) - 1)
          /\ (i # Len(calls) - 1 => i + 1 \in 1..(Len(calls) - 1))
      BY <1>5
    <3>2. calls'[i] = calls[i + 1] /\ (i # Len(calls) - 1 => calls'[i + 1] = calls[(i + 1) + 1])
      BY <1>1, <1>2, <3>1
    <3> QED
      BY <1>7, <3>1, <3>2
  <2>2. ASSUME NEW i \in 1..(Len(calls) - 1), NEW j \in 1..(Len(calls) - 1), i < j
        PROVE  calls'[j].node < calls'[i].node
    <3>1. i + 1 \in 1..Len(calls) /\ j + 1 \in 1..Len(calls) /\ i + 1 < j + 1
      BY <1>5, <2>2
    <3>2. calls'[i] = calls[i + 1] /\ calls'[j] = calls[j + 1]
      BY <1>1, <1>2
    <3> QED
      BY <1>8, <3>1, <3>2
  <2>3. Len(calls') = Len(calls) - 1 /\ DOMAIN calls' = 1..(Len(calls) - 1)
    BY <1>1, <1>2
  <2>4. Stacked(calls)'
    BY <1>4, <2>1, <2>2, <2>3 DEF Stacked
  <2>5. calls' # <<>> => status'[calls'[1].at] \in Results
    <3> SUFFICES ASSUME calls' # <<>> PROVE status'[calls'[1].at] \in Results
      OBVIOUS
    <3>1. Len(calls') # 0
      BY <1>1, <1>2
    <3>2. 1 \in 1..(Len(calls) - 1) /\ 1 # Len(calls) /\ 1 \in 1..Len(calls)
      BY <1>5, <2>3, <3>1
    <3>3. calls'[1] = calls[1 + 1] /\ calls[1].node = calls[1 + 1].at
      BY <1>1, <1>2, <1>7, <3>2
    <3> QED
      BY <1>1, <1>3, <3>3
  <2>6. calls' # <<>> => calls # <<>> /\ \A m \in Added : IsDecorator(m)' => children'[m] # <<>>
    BY <1>2, <1>4 DEF IInv, StackInv
  <2> QED
    BY <1>4, <2>4, <2>5, <2>6 DEF StackInv
<1>12. Len(calls) # 1 => 2 \in 1..Len(calls) /\ n = calls[2].at /\ n \in Offspring(calls[2].node)
  <2> SUFFICES ASSUME Len(calls) # 1
               PROVE  2 \in 1..Len(calls) /\ n = calls[2].at /\ n \in Offspring(calls[2].node)
    OBVIOUS
  <2>1. 1 \in 1..Len(calls) /\ 1 # Len(calls) /\ 2 \in 1..Len(calls) /\ 1 + 1 = 2
    BY <1>1
  <2>2. n = calls[1 + 1].at
    BY <1>1, <1>7, <2>1
  <2>3. n # End
    BY <1>1 DEF Nodes
  <2> QED
    BY <1>7, <2>1, <2>2, <2>3
<1>13. LoopInv'
  <2> SUFFICES ASSUME NEW k \in 1..(Len(calls) - 1), NEW h, h = calls'[k] PROVE LoopAgrees(h)'
    BY <1>1, <1>2 DEF LoopInv, Range
  <2>1. k \in 1..Len(calls) /\ k # Len(calls) /\ k + 1 \in 1..Len(calls) /\ 1 < k + 1 /\ 1 \in 1..Len(calls)
    BY <1>5
  <2>2. h = calls[k + 1]
    BY <1>1, <1>2
  <2>3. h \in Frame /\ h.node \in Added /\ h.ticked /\ h.node < n /\ LoopAgrees(h)
    <3>1. h.node \in Added /\ h.ticked
      BY <1>7, <2>1, <2>2
    <3>2. h.node < n
      BY <1>1, <1>8, <2>1, <2>2
    <3>3. h \in Frame /\ h \in Range(calls)
      <4>1. k + 1 \in DOMAIN calls /\ h = calls[k + 1] /\ calls \in Seq(Frame)
        BY <1>1, <2>1, <2>2 DEF IInv, TypeOK
      <4> QED
        BY <4>1 DEF Range
    <3> QED
      BY <3>1, <3>2, <3>3 DEF IInv, LoopInv
  <2>4. h.node \in Nodes \ {n} /\ h.at \in Offspring(h.node) \cup {End}
    <3>1. h.node \in Nodes
      BY <1>5, <2>3
    <3>2. h.node # n
      BY <1>1, <2>3, <3>1 DEF Nodes
    <3> QED
      BY <1>7, <2>1, <2>2, <3>1, <3>2
  <2>5. ASSUME NEW i \in Before(h) PROVE status'[children[h.node][i]] = status[children[h.node][i]]
    <3>1. i \in 1..(Place(h.node, h.at) - 1) /\ Place(h.node, h.at) \in 1..(Len(children[h.node]) + 1)
          /\ Len(children[h.node]) \in Nat
      BY <2>4, <2>5, LoopPlace DEF Before, IInv
    <3>2. i \in 1..Len(children[h.node]) /\ i # Place(h.node, h.at)
      BY <3>1
    <3>3. i \in DOMAIN children[h.node] /\ children[h.node][i] \in Offspring(h.node)
          /\ Place(h.node, children[h.node][i]) = i
      BY <2>4, <3>2, ChildFacts DEF IInv, Offspring
    <3>4. children[h.node][i] # n
      <4> SUFFICES ASSUME children[h.node][i] = n PROVE FALSE
        OBVIOUS
      <4>1. n \in Offspring(h.node) /\ Place(h.node, n) = i
        BY <3>3
      <4>2. Len(calls) # 1
        <5>1. k \in 1..Len(calls) /\ k # Len(calls)
          BY <2>1
        <5> QED
          BY <5>1
      <4>3. calls[2].node \in Nodes /\ 2 \in 1..Len(calls) /\ n = calls[2].at /\ n \in Offspring(calls[2].node)
        BY <1>5, <1>7, <1>12, <4>2
      <4>4. h.node = calls[2].node
        BY <2>4, <4>1, <4>3, OneParent DEF IInv
      <4>5. k + 1 = 2
        <5>1. ~(2 < k + 1)
          <6>1. 2 < k + 1 => h.node < calls[2].node
            BY <1>8, <2>1, <2>2, <4>3
          <6> QED
            BY <4>3, <4>4, <6>1 DEF Nodes
        <5> QED
          BY <1>5, <5>1
      <4> QED
        BY <2>2, <3>2, <4>1, <4>3, <4>5
    <3> QED
      BY <1>3, <2>3, <2>4, <3>3, <3>4
  <2>6. f.node \in touched' <=> f.node \in touched
    BY <1>2
  <2> QED
    BY <1>2, <2>3, <2>5, LoopStays DEF IInv
<1>14. StatusAgrees'
  <2> SUFFICES ASSUME NEW m \in Added, m \notin touched', ~OnStack(m)', status'[m] \in Results
               PROVE  ResultAgrees(m)'
    BY <1>4 DEF StatusAgrees, OnStack, Results
  <2>1. CASE m = n
    BY <1>2, <2>1
  <2>2. CASE m # n
    <3>1. m \in Nodes \ {n} /\ ~OnStack(m) /\ m \notin touched /\ status'[m] = status[m]
      BY <1>2, <1>3, <1>5, <1>9, <2>2 DEF Results
    <3>2. n \notin Offspring(m)
      <4> SUFFICES ASSUME n \in Offspring(m) PROVE FALSE
        OBVIOUS
      <4>1. CASE Len(calls) = 1
        <5>1. n = 1 /\ m < n
          BY <1>1, <1>7, <3>1, <4>1, ChildFacts DEF IInv
        <5> QED
          BY <3>1, <5>1 DEF Nodes
      <4>2. CASE Len(calls) # 1
        <5>1. 2 \in 1..Len(calls) /\ calls[2].node \in Nodes /\ n \in Offspring(calls[2].node)
          BY <1>5, <1>7, <1>12, <4>2
        <5>2. m = calls[2].node
          BY <3>1, <5>1, OneParent DEF IInv
        <5> QED
          <6>1. 1 \in DOMAIN calls' /\ calls'[1] = calls[2]
            <7>1. 1 \in 1..(Len(calls) - 1) /\ 1 + 1 = 2
              BY <1>5, <5>1
            <7> QED
              BY <1>1, <1>2, <7>1
          <6> QED
            BY <5>2, <6>1 DEF OnStack
      <4> QED
        BY <4>1, <4>2
    <3>3. \A c \in Offspring(m) : status'[c] = status[c]
      BY <1>3, <3>1, <3>2
    <3> QED
      BY <1>2, <3>1, <3>3, OthersAgree
  <2> QED
    BY <2>1, <2>2
<1> QED
  BY <1>4, <1>6, <1>10, <1>11, <1>13, <1>14 DEF IInv

-----------------------------------------------------------------------------
(* The result of a loop is the one that the children call for.             *)
LEMMA LeaveFacts ==
  ASSUME IInv, calls # <<>>, NEW f, f = Head(calls), ~Is(f.node, "Action"), ~TicksChild(f)
  PROVE  /\ f.node \in Added /\ f.node \in Nodes /\ LoopAgrees(f) /\ f \in Frame
         /\ f.at \in Offspring(f.node) \cup {End}
         /\ f.ticked => status[f.at] \in Results
         /\ IsDecorator(f.node) => f.at # End /\ Offspring(f.node) = {f.at}
         /\ f.at # End => \/ f.ticked
                          \/ Is(f.node, "Parallel") /\ Terminated(f.at)
                          \/ Is(f.node, "Repeat") /\ ~Repeats(f.node)
         /\ f.at = End => Before(f) = DOMAIN children[f.node]
         /\ Place(f.node, f.at) \in 1..(Len(children[f.node]) + 1) /\ Len(children[f.node]) \in Nat
         /\ f.at # End => Place(f.node, f.at) \in DOMAIN children[f.node]
                          /\ children[f.node][Place(f.node, f.at)] = f.at
<1> DEFINE n == f.node
<1>1. /\ n \in Added /\ n \in Nodes /\ LoopAgrees(f) /\ f \in Frame
      /\ f.at \in Offspring(n) \cup {End}
      /\ f.ticked => status[f.at] \in Results
  BY TopFacts
<1>2. ASSUME IsDecorator(n) PROVE f.at # End /\ Offspring(n) = {f.at}
  <2>1. f.at = First(n) /\ children[n] # <<>> /\ Len(children[n]) <= 1
    BY <1>1, <1>2 DEF LoopAgrees, IInv, StackInv, TreeInv
  <2>2. f.at # End
    BY <1>1, <2>1, FirstPlace DEF IInv
  <2>3. DOMAIN children[n] = {1} /\ f.at = children[n][1]
    <3>1. Len(children[n]) \in Nat /\ Len(children[n]) # 0 /\ DOMAIN children[n] = 1..Len(children[n])
      BY <1>1, <2>1, ChildFacts DEF IInv
    <3>2. DOMAIN children[n] = {1}
      BY <2>1, <3>1
    <3> QED
      BY <2>1, <3>2 DEF First
  <2> QED
    BY <2>2, <2>3 DEF Offspring
<1>3. f.at # End => \/ f.ticked
                    \/ Is(n, "Parallel") /\ Terminated(f.at)
                    \/ Is(n, "Repeat") /\ ~Repeats(n)
  BY DEF TicksChild
<1>4. f.at = End => Before(f) = DOMAIN children[n]
  BY <1>1, ChildFacts DEF Before, Place, IInv
<1>5. f.at # End => Place(n, f.at) \in DOMAIN children[n] /\ children[n][Place(n, f.at)] = f.at
  BY <1>1, NextPlace DEF IInv
<1>6. Place(n, f.at) \in 1..(Len(children[n]) + 1) /\ Len(children[n]) \in Nat
  BY <1>1, LoopPlace DEF IInv
<1> QED
  BY <1>1, <1>2, <1>3, <1>4, <1>5, <1>6

LEMMA ReturnedParallel ==
  ASSUME IInv, calls # <<>>, NEW f, f = Head(calls), Is(f.node, "Parallel"), ~TicksChild(f),
         NEW s, s = Result(f), s # "none", Return(f, s)
  PROVE  s \in Results /\ ParallelAgrees(f.node)'
<1> DEFINE n == f.node
<1>1. /\ n \in Added /\ n \in Nodes /\ LoopAgrees(f) /\ f \in Frame
      /\ f.at \in Offspring(n) \cup {End}
      /\ f.ticked => status[f.at] \in Results
      /\ f.at = End => Before(f) = DOMAIN children[n]
      /\ Place(n, f.at) \in 1..(Len(children[n]) + 1) /\ Len(children[n]) \in Nat
  BY LeaveFacts DEF Is
<1>2. s = ParallelResult(f)
  BY <1>1, ResultIs DEF IInv
<1>3. s \in Results
  BY <1>2 DEF ParallelResult, Results
<1>4. /\ status'[n] = s
      /\ \A c \in Offspring(n) :
           status'[c] = IF s # "Running" /\ status[c] = "Running" THEN "Aborted" ELSE status[c]
      /\ children' = children /\ kind' = kind /\ Offspring(n)' = Offspring(n)
  <2>1. children' = children /\ kind' = kind
    BY DEF Return
  <2>2. Offspring(n)' = Offspring(n)
    BY <2>1 DEF Offspring
  <2> QED
    BY <1>3, <2>1, <2>2, ReturnedStatus
<1>5. /\ \A x : All(n, x)' <=> \A c \in Offspring(n) : status'[c] = x
      /\ \A x : Some(n, x)' <=> \E c \in Offspring(n) : status'[c] = x
      /\ \A x : All(n, x) <=> \A c \in Offspring(n) : status[c] = x
      /\ \A x : Some(n, x) <=> \E c \in Offspring(n) : status[c] = x
  BY <1>4 DEF All, Some
<1>6. s # "Running" => ~Some(n, "Running")' /\ \A x \in {"Success", "Failure"} : (All(n, x) => All(n, x)') /\ (Some(n, x) => Some(n, x)')
  BY <1>4, <1>5
<1>7. s = "Running" => \A x : (All(n, x)' <=> All(n, x)) /\ (Some(n, x)' <=> Some(n, x))
  BY <1>4, <1>5
<1>8. /\ \A i \in Before(f) : Was(f, i) \in Results
      /\ Counted(f, f.good, "Success") /\ Counted(f, f.bad, "Failure")
      /\ kind[n].success = "RequireOne" => \A i \in Before(f) : Was(f, i) # "Success"
      /\ kind[n].failure = "RequireOne" => \A i \in Before(f) : Was(f, i) # "Failure"
      /\ kind[n].success \in Policies /\ kind[n].failure \in Policies
  BY <1>1, KindFacts DEF LoopAgrees, IInv
<1>9. ASSUME f.at = End
      PROVE  /\ \A c \in Offspring(n) : \E i \in Before(f) : Was(f, i) = status[c]
             /\ \A i \in Before(f) : \E c \in Offspring(n) : Was(f, i) = status[c]
             /\ f.good = Len(children[n]) <=> All(n, "Success")
             /\ f.bad = Len(children[n]) <=> All(n, "Failure")
  <2>1. /\ \A c \in Offspring(n) : \E i \in Before(f) : Was(f, i) = status[c]
        /\ \A i \in Before(f) : \E c \in Offspring(n) : Was(f, i) = status[c]
    BY <1>1, <1>9 DEF Was, Offspring
  <2>2. Place(n, f.at) - 1 = Len(children[n])
    BY <1>1, <1>9 DEF Place
  <2>3. \A x : (\A i \in Before(f) : Was(f, i) = x) <=> All(n, x)
    BY <1>5, <2>1
  <2> QED
    BY <1>8, <2>1, <2>2, <2>3 DEF Counted
<1>10. CASE s = "Success"
  <2>1. IF kind[n].success = "RequireOne" THEN Some(n, "Success") ELSE All(n, "Success")
    <3>1. CASE f.at = End
      BY <1>2, <1>9, <1>10, <3>1 DEF ParallelResult
    <3>2. CASE f.at # End
      <4>1. kind[n].success = "RequireOne" /\ status[f.at] = "Success"
        BY <1>2, <1>10, <3>2 DEF ParallelResult
      <4> QED
        BY <1>1, <1>5, <3>2, <4>1
    <3> QED
      BY <3>1, <3>2
  <2> QED
    BY <1>3, <1>4, <1>6, <1>10, <2>1 DEF ParallelAgrees
<1>11. CASE s = "Failure"
  <2>1. IF kind[n].failure = "RequireOne" THEN Some(n, "Failure") ELSE All(n, "Failure")
    <3>1. CASE f.at = End
      <4>1. kind[n].failure = "RequireAll" /\ f.bad = Len(children[n])
        BY <1>2, <1>11, <3>1 DEF ParallelResult
      <4> QED
        BY <1>9, <3>1, <4>1
    <3>2. CASE f.at # End
      <4>1. kind[n].failure = "RequireOne" /\ status[f.at] = "Failure"
        BY <1>2, <1>11, <3>2 DEF ParallelResult
      <4> QED
        BY <1>1, <1>5, <3>2, <4>1
    <3> QED
      BY <3>1, <3>2
  <2> QED
    BY <1>3, <1>4, <1>6, <1>11, <2>1 DEF ParallelAgrees
<1>12. CASE s = "Running"
  <2>1. /\ f.at = End
        /\ ~(kind[n].failure = "RequireAll" /\ f.bad = Len(children[n]))
        /\ ~(kind[n].success = "RequireAll" /\ f.good = Len(children[n]))
    BY <1>2, <1>12 DEF ParallelResult
  <2>2. /\ ~(kind[n].failure = "RequireAll" /\ All(n, "Failure"))
        /\ ~(kind[n].success = "RequireAll" /\ All(n, "Success"))
        /\ \A c \in Offspring(n) : status[c] \in Results
        /\ Some(n, "Success") => kind[n].success = "RequireAll"
        /\ Some(n, "Failure") => kind[n].failure = "RequireAll"
    <3>1. Some(n, "Success") => kind[n].success # "RequireOne"
      BY <1>5, <1>8, <1>9, <2>1
    <3>2. Some(n, "Failure") => kind[n].failure # "RequireOne"
      BY <1>5, <1>8, <1>9, <2>1
    <3>3. \A c \in Offspring(n) : status[c] \in Results
      BY <1>8, <1>9, <2>1
    <3> QED
      BY <1>8, <1>9, <2>1, <3>1, <3>2, <3>3 DEF Policies
  <2>3. \/ Some(n, "Running")
        \/ Some(n, "Success") /\ Some(n, "Failure")
        \/ Offspring(n) = {} /\ kind[n].success = "RequireOne" /\ kind[n].failure = "RequireOne"
    <3>1. CASE Offspring(n) = {}
      BY <1>5, <1>8, <2>2, <3>1 DEF Policies
    <3>2. CASE Offspring(n) # {} /\ ~Some(n, "Running")
      <4>1. All(n, "Success") \/ Some(n, "Failure")
        BY <1>5, <2>2, <3>2 DEF Results
      <4>2. All(n, "Failure") \/ Some(n, "Success")
        BY <1>5, <2>2, <3>2 DEF Results
      <4>3. (All(n, "Success") => Some(n, "Success")) /\ (All(n, "Failure") => Some(n, "Failure"))
        BY <1>5, <3>2
      <4> QED
        BY <2>2, <4>1, <4>2, <4>3
    <3> QED
      BY <3>1, <3>2
  <2>4. (\A x : Some(n, x)' <=> Some(n, x)) /\ status'[n] = "Running"
    BY <1>3, <1>4, <1>7, <1>12
  <2> QED
    BY <1>3, <1>4, <2>2, <2>3, <2>4 DEF ParallelAgrees
<1> QED
  BY <1>3, <1>10, <1>11, <1>12 DEF Results

LEMMA ReturnedOther ==
  ASSUME IInv, calls # <<>>, NEW f, f = Head(calls), ~Is(f.node, "Action"), ~Is(f.node, "Parallel"),
         ~TicksChild(f), NEW s, s = Result(f), s # "none", Return(f, s)
  PROVE  /\ s \in Results /\ (f.node \notin touched => ResultAgrees(f.node)')
         /\ Is(f.node, "Repeat") /\ s = "Running" => Repeats(f.node)
<1> DEFINE n == f.node
<1>1. /\ n \in Added /\ n \in Nodes /\ LoopAgrees(f) /\ f \in Frame
      /\ f.at \in Offspring(n) \cup {End}
      /\ f.ticked => status[f.at] \in Results
      /\ IsDecorator(n) => f.at # End /\ Offspring(n) = {f.at}
      /\ f.at # End => f.ticked \/ (Is(n, "Repeat") /\ ~Repeats(n))
      /\ f.at = End => Before(f) = DOMAIN children[n]
      /\ f.at # End => Place(n, f.at) \in DOMAIN children[n] /\ children[n][Place(n, f.at)] = f.at
  BY LeaveFacts
<1>2. /\ Is(n, "Sequence") => s = SequenceResult(f)
      /\ Is(n, "Selector") \/ Is(n, "ActiveSelector") => s = SelectorResult(f)
      /\ Is(n, "Inverter") => s = InverterResult(f)
      /\ Is(n, "Repeat") => s = RepeatResult(f)
  BY <1>1, ResultIs DEF IInv
<1>3. /\ Is(n, "Sequence") \/ Is(n, "Selector") \/ Is(n, "ActiveSelector") \/ IsDecorator(n)
      /\ Is(n, "Sequence") => ~Is(n, "Selector") /\ ~Is(n, "ActiveSelector") /\ ~Is(n, "Inverter") /\ ~Is(n, "Repeat")
      /\ Is(n, "Selector") \/ Is(n, "ActiveSelector") => ~Is(n, "Inverter") /\ ~Is(n, "Repeat")
      /\ Is(n, "Inverter") => ~Is(n, "Repeat")
  BY <1>1, KindFacts DEF IInv, Is, IsDecorator
<1>4. s \in Results
  <2>1. CASE Is(n, "Sequence")
    BY <1>1, <1>2, <1>3, <2>1 DEF SequenceResult, Results
  <2>2. CASE Is(n, "Selector") \/ Is(n, "ActiveSelector")
    BY <1>1, <1>2, <1>3, <2>2 DEF SelectorResult, Results
  <2>3. CASE IsDecorator(n)
    BY <1>1, <1>2, <1>3, <2>3 DEF IsDecorator, InverterResult, RepeatResult, Results
  <2> QED
    BY <1>3, <2>1, <2>2, <2>3
<1>5. /\ children' = children /\ kind' = kind /\ Offspring(n)' = Offspring(n) /\ current'[n] = current[n]
      /\ \A t : Is(n, t)' <=> Is(n, t)
      /\ status'[n] = s /\ \A c \in Offspring(n) : status'[c] = status[c]
  <2>1. children' = children /\ kind' = kind /\ current' = current
    BY DEF Return
  <2>2. Offspring(n)' = Offspring(n) /\ \A t : Is(n, t)' <=> Is(n, t)
    BY <2>1 DEF Offspring, Is
  <2> QED
    BY <1>4, <2>1, <2>2, ReturnedStatus
<1>6. /\ \A x : All(n, x)' <=> \A c \in Offspring(n) : status[c] = x
      /\ \A i \in DOMAIN children[n] : status'[children[n][i]] = Was(f, i)
      /\ \A c \in Offspring(n) : \E i \in DOMAIN children[n] : status[c] = Was(f, i)
  BY <1>5 DEF All, Was, Offspring
<1>7. ASSUME NEW x, \A i \in Before(f) : Was(f, i) = x, f.at # End, status[f.at] = s
      PROVE  StopsAt(n, f.at, s, x)'
  <2>1. PICK p \in DOMAIN children[n] : p = Place(n, f.at) /\ children[n][p] = f.at
    BY <1>1, <1>7
  <2>2. \A j \in 1..(p - 1) : j \in DOMAIN children[n] /\ Was(f, j) = x
    BY <1>1, <1>7, <2>1, ChildFacts DEF Before, IInv
  <2>3. \A j \in 1..(p - 1) : status'[children'[n][j]] = x
    BY <1>5, <1>6, <2>2
  <2>4. status'[f.at] = s /\ children'[n][p] = f.at /\ p \in DOMAIN children'[n]
    BY <1>1, <1>5, <1>7, <2>1
  <2> QED
    BY <1>7, <2>3, <2>4 DEF StopsAt
<1>8. CASE Is(n, "Sequence")
  <2> SUFFICES ASSUME n \notin touched PROVE SequenceAgrees(n)'
    BY <1>3, <1>4, <1>5, <1>8 DEF ResultAgrees
  <2>1. f.at = current[n] /\ \A i \in Before(f) : Was(f, i) = "Success"
    BY <1>1, <1>8 DEF LoopAgrees
  <2>2. CASE f.at = End
    <3>1. s = "Success"
      BY <1>2, <1>8, <2>2 DEF SequenceResult
    <3>2. All(n, "Success")'
      BY <1>1, <1>6, <2>1, <2>2
    <3> QED
      BY <1>5, <3>1, <3>2 DEF SequenceAgrees
  <2>3. CASE f.at # End
    <3>1. status[f.at] # "Success" /\ s = status[f.at]
      BY <1>1, <1>2, <1>8, <2>3 DEF SequenceResult
    <3>2. StopsAt(n, f.at, s, "Success")'
      BY <1>7, <2>1, <2>3, <3>1
    <3> QED
      BY <1>5, <2>1, <3>1, <3>2 DEF SequenceAgrees
  <2> QED
    BY <2>2, <2>3
<1>9. CASE Is(n, "Selector") \/ Is(n, "ActiveSelector")
  <2> SUFFICES SelectorAgrees(n)'
    BY <1>3, <1>4, <1>5, <1>9 DEF ResultAgrees
  <2>1. \A i \in Before(f) : Was(f, i) = "Failure"
    BY <1>1, <1>9 DEF LoopAgrees
  <2>2. CASE f.at = End
    <3>1. s = "Failure"
      BY <1>2, <1>9, <2>2 DEF SelectorResult
    <3>2. All(n, "Failure")'
      BY <1>1, <1>6, <2>1, <2>2
    <3> QED
      BY <1>5, <3>1, <3>2 DEF SelectorAgrees
  <2>3. CASE f.at # End
    <3>1. status[f.at] # "Failure" /\ s = status[f.at]
      BY <1>1, <1>2, <1>9, <2>3 DEF SelectorResult
    <3>2. StopsAt(n, f.at, s, "Failure")'
      BY <1>7, <2>1, <2>3, <3>1
    <3>3. f.at \in Offspring(n)'
      BY <1>1, <1>5, <2>3
    <3> QED
      BY <1>5, <3>1, <3>2, <3>3 DEF SelectorAgrees
  <2> QED
    BY <2>2, <2>3
<1>10. CASE Is(n, "Inverter")
  <2> SUFFICES InverterAgrees(n)'
    BY <1>3, <1>4, <1>5, <1>10 DEF ResultAgrees
  <2>1. Offspring(n) = {f.at} /\ status[f.at] \in Results /\ s = InverterResult(f)
    BY <1>1, <1>2, <1>3, <1>10 DEF IsDecorator
  <2>2. \A x : All(n, x)' <=> status[f.at] = x
    BY <1>6, <2>1
  <2> QED
    BY <1>5, <2>1, <2>2 DEF InverterAgrees, InverterResult, Results
<1>11. CASE Is(n, "Repeat")
  <2>1. Offspring(n) = {f.at} /\ s = RepeatResult(f)
    BY <1>1, <1>2, <1>11 DEF IsDecorator
  <2>2. \A x : All(n, x)' <=> status[f.at] = x
    BY <1>6, <2>1
  <2>3. CASE f.ticked
    <3>1. status[f.at] \in {"Running", "Failure"} /\ s = status[f.at]
      BY <2>1, <2>3 DEF RepeatResult
    <3>2. Repeats(n)
      BY <1>1, <1>11, <2>3 DEF LoopAgrees
    <3>3. RepeatAgrees(n)'
      BY <1>5, <2>2, <3>1 DEF RepeatAgrees
    <3> QED
      BY <1>3, <1>4, <1>5, <1>11, <3>2, <3>3 DEF ResultAgrees
  <2>4. CASE ~f.ticked
    <3>1. ~Repeats(n) /\ (kind[n].limit = 0 \/ status[f.at] = "Success") /\ s = "Success"
      BY <1>1, <1>11, <2>1, <2>4 DEF LoopAgrees, IsDecorator, RepeatResult
    <3>2. ~Unlimited(n)' /\ kind'[n].limit = kind[n].limit
      BY <1>5, <3>1 DEF Repeats, Unlimited
    <3>3. RepeatAgrees(n)'
      BY <1>5, <2>2, <3>1, <3>2 DEF RepeatAgrees
    <3> QED
      BY <1>3, <1>4, <1>5, <1>11, <3>1, <3>3 DEF ResultAgrees
  <2> QED
    BY <2>3, <2>4
<1> QED
  BY <1>3, <1>4, <1>8, <1>9, <1>10, <1>11 DEF IsDecorator

LEMMA LeaveInv == ASSUME IInv, Leave PROVE IInv'
<1>1. PICK f : f = Head(calls)
  OBVIOUS
<1>2. PICK s : s = Result(f)
  OBVIOUS
<1>3. calls # <<>> /\ ~Is(f.node, "Action") /\ ~TicksChild(f) /\ s # "none" /\ Return(f, s)
  BY <1>1, <1>2 DEF Leave, AtRest
<1>4. CASE Is(f.node, "Parallel")
  <2>1. s \in Results /\ ParallelAgrees(f.node)'
    BY <1>1, <1>2, <1>3, <1>4, ReturnedParallel
  <2>2. kind' = kind
    BY <1>3 DEF Return
  <2>3. ResultAgrees(f.node)'
    BY <1>4, <2>1, <2>2 DEF ResultAgrees, Is
  <2> QED
    BY <1>1, <1>3, <1>4, <2>1, <2>3, ReturnInv DEF Is
<1>5. CASE ~Is(f.node, "Parallel")
  BY <1>1, <1>2, <1>3, <1>5, ReturnedOther, ReturnInv
<1> QED
  BY <1>4, <1>5

LEMMA ActInv == ASSUME IInv, NEW s \in Results, Act(s) PROVE IInv'
<1>1. PICK f : f = Head(calls)
  OBVIOUS
<1>2. calls # <<>> /\ Is(f.node, "Action") /\ Return(f, s)
  BY <1>1 DEF Act, AtRest
<1>3. kind' = kind
  BY <1>2 DEF Return
<1>4. ResultAgrees(f.node)'
  BY <1>2, <1>3 DEF ResultAgrees, Is
<1> QED
  BY <1>1, <1>2, <1>4, ReturnInv DEF Is

-----------------------------------------------------------------------------
(* Changes of the tree between two ticks: P are the nodes whose children   *)
(* change, all of them touched when the tree has been ticked.              *)
LEMMA EditedInv ==
  ASSUME IInv, calls = <<>>, calls' = <<>>, NEW P \in SUBSET Added,
         kind' \in Seq(Kinds), Len(kind') <= MaxNodes, Added \subseteq Added',
         \A m \in Added : kind'[m] = kind[m],
         children' \in [Nodes -> Seq(Added')], \A m \in Nodes \ P : children'[m] = children[m],
         status' \in [Nodes -> Statuses], \A m \in Nodes : status'[m] \in {status[m], "Invalid"},
         current' \in [Nodes -> Added' \cup {End}], \A m \in Nodes \ P : current'[m] = current[m],
         counter' = counter, building' \in Seq(Added'), edits' \in 0..MaxEdits,
         touched \subseteq touched', touched' \subseteq Added', Ticked => P \subseteq touched',
         \A m \in Nodes \ touched' : \A c \in Offspring(m) : status'[c] = status[c],
         TreeInv', KeptInv'
  PROVE  IInv'
<1>1. TypeOK'
  BY DEF IInv, TypeOK
<1>2. StackInv' /\ LoopInv'
  BY DEF StackInv, Stacked, LoopInv, Range
<1>3. ASSUME NEW m \in Added', m \notin touched', status'[m] \in Results
      PROVE  ResultAgrees(m)'
  <2>1. m \in Nodes
    BY <1>1, TreeAssumption DEF TypeOK, Added, Nodes
  <2>2. status[m] \in Results /\ status[m] # "Invalid" /\ status'[m] = status[m]
    BY <1>3, <2>1 DEF Results
  <2>3. m \in Added /\ m \notin touched
    BY <1>3, <2>1, <2>2 DEF IInv, TreeInv
  <2>4. m \notin P
    BY <1>3, <2>2, <2>3 DEF Ticked
  <2>5. ResultAgrees(m)
    BY <2>2, <2>3 DEF IInv, StatusAgrees, Results
  <2>6. Is(m, "Sequence") => current'[m] \in Offspring(m) \cup {End}
    BY <2>1, <2>3, <2>4 DEF IInv, KeptInv
  <2> QED
    BY <1>3, <2>1, <2>2, <2>3, <2>4, <2>5, <2>6, ResultStays DEF IInv
<1>4. StatusAgrees'
  BY <1>3 DEF StatusAgrees, Results
<1> QED
  BY <1>1, <1>2, <1>4 DEF IInv

LEMMA EditFacts ==
  ASSUME TypeOK, NEW n \in Added, Edit(n)
  PROVE  /\ edits' \in 0..MaxEdits /\ touched \subseteq touched' /\ touched' \subseteq Added
         /\ Ticked => n \in touched'
<1>1. CASE Ticked
  BY <1>1, TreeAssumption DEF Edit, TypeOK
<1>2. CASE ~Ticked
  BY <1>2 DEF Edit, TypeOK
<1> QED
  BY <1>1, <1>2

(* A behavior n is added, as a child of p or of nobody: then p has the     *)
(* children it had, or p is the decorator whose only child is replaced.    *)
Extends(p, n) ==
    /\ \A i \in DOMAIN children'[p] : children'[p][i] \in Offspring(p) \cup {n}
    /\ \A i, j \in DOMAIN children'[p] : children'[p][i] = children'[p][j] => i = j
    /\ IsDecorator(p) => Len(children'[p]) <= 1
    /\ ~IsDecorator(p) => Offspring(p) \subseteq Offspring(p)'
    /\ Is(p, "ActiveSelector") => First(p) \in {End, First(p)'}

LEMMA GrownInv ==
  ASSUME IInv, AtRest, NEW k \in Kinds, NEW n, n = Len(kind) + 1, n <= MaxNodes,
         kind' = Append(kind, k), UNCHANGED <<status, current, counter, calls>>,
         building' \in Seq(Added \cup {n}),
         edits' \in 0..MaxEdits, touched \subseteq touched', touched' \subseteq Added,
         NEW P \in SUBSET Added, Ticked => P \subseteq touched',
         children' \in [Nodes -> Seq(Added \cup {n})],
         \A m \in Nodes \ P : children'[m] = children[m],
         \A p \in P : Extends(p, n), \A p, m \in P : p = m
  PROVE  IInv'
<1>1. /\ kind' \in Seq(Kinds) /\ Len(kind') = n /\ Added' = Added \cup {n} /\ n \in Nodes /\ n \notin Added
      /\ \A m \in Added : kind'[m] = kind[m] /\ m < n
      /\ Added \subseteq Nodes
  <2>1. Added = 1..Len(kind) /\ Len(kind) \in Nat /\ kind \in Seq(Kinds) /\ Added \subseteq Nodes
    BY KindFacts DEF IInv, TypeOK
  <2>2. /\ Append(kind, k) \in Seq(Kinds) /\ Len(Append(kind, k)) = Len(kind) + 1
        /\ DOMAIN Append(kind, k) = 1..(Len(kind) + 1)
        /\ \A i \in 1..(Len(kind) + 1) : Append(kind, k)[i] = IF i = Len(kind) + 1 THEN k ELSE kind[i]
    BY <2>1, AppendSeq
  <2>3. Added' = 1..(Len(kind) + 1)
    BY <2>2 DEF Added
  <2>4. \A m \in Added : m < n /\ m \in 1..(Len(kind) + 1) /\ m # Len(kind) + 1
    BY <2>1
  <2>5. 1..(Len(kind) + 1) = 1..Len(kind) \cup {n} /\ n \in Nodes /\ n \notin 1..Len(kind)
    BY <2>1, TreeAssumption DEF Nodes
  <2> QED
    BY <2>1, <2>2, <2>3, <2>4, <2>5
<1>2. /\ \A t : \A m \in Added : Is(m, t)' <=> Is(m, t)
      /\ \A m \in Added : IsDecorator(m)' <=> IsDecorator(m)
  BY <1>1 DEF Is, IsDecorator
<1>3. \A m \in Nodes : \A i \in DOMAIN children[m] : children[m][i] \in Added /\ children[m][i] # n
  BY <1>1, ChildFacts DEF IInv, Offspring
<1>4. \A m \in Nodes : \A i \in DOMAIN children'[m] :
         children'[m][i] \in Offspring(m) \/ (m \in P /\ children'[m][i] = n)
  BY DEF Offspring, Extends
<1>5. \A m \in Nodes : \A i, j \in DOMAIN children'[m] : children'[m][i] = children'[m][j] => i = j
  <2> SUFFICES ASSUME NEW m \in Nodes, NEW i \in DOMAIN children'[m], NEW j \in DOMAIN children'[m],
                      children'[m][i] = children'[m][j]
               PROVE  i = j
    OBVIOUS
  <2>1. CASE m \in P
    BY <2>1 DEF Extends
  <2>2. CASE m \notin P
    BY <2>2 DEF IInv, TreeInv
  <2> QED
    BY <2>1, <2>2
<1>6. TreeInv'
  <2>1. ASSUME NEW m \in Nodes, NEW i \in DOMAIN children'[m]
        PROVE  m \in Added' /\ m < children'[m][i]
    <3>1. CASE children'[m][i] \in Offspring(m)
      BY <1>1, <3>1, ChildFacts DEF IInv
    <3>2. CASE m \in P /\ children'[m][i] = n
      BY <1>1, <3>2
    <3> QED
      BY <1>4, <3>1, <3>2
  <2>2. ASSUME NEW m \in Nodes, NEW l \in Nodes, NEW i \in DOMAIN children'[m], NEW j \in DOMAIN children'[l],
               children'[m][i] = children'[l][j]
        PROVE  m = l /\ i = j
    <3>1. m = l
      <4>1. CASE children'[m][i] = n
        <5>1. n \notin Offspring(m) /\ n \notin Offspring(l)
          BY <1>3 DEF Offspring
        <5>2. m \in P
          BY <1>4, <4>1, <5>1
        <5>3. children'[l][j] = n
          BY <2>2, <4>1
        <5>4. l \in P
          BY <1>4, <5>1, <5>3
        <5> QED
          BY <5>2, <5>4
      <4>2. CASE children'[m][i] # n
        <5>1. children'[m][i] \in Offspring(m) /\ children'[m][i] \in Offspring(l)
          BY <1>4, <2>2, <4>2
        <5> QED
          BY <5>1, OneParent DEF IInv
      <4> QED
        BY <4>1, <4>2
    <3> QED
      BY <1>5, <2>2, <3>1
  <2>3. ASSUME NEW m \in Added', IsDecorator(m)' PROVE Len(children'[m]) <= 1
    <3>1. CASE m \in P
      BY <1>2, <2>3, <3>1 DEF Extends
    <3>2. CASE m \in Added /\ m \notin P
      BY <1>1, <1>2, <2>3, <3>2 DEF IInv, TreeInv
    <3>3. CASE m = n
      <4>1. children'[n] = children[n] /\ Len(children[n]) \in Nat /\ DOMAIN children[n] = 1..Len(children[n])
        BY <1>1, ChildFacts DEF IInv
      <4>2. \A i \in 1..Len(children[n]) : FALSE
        BY <1>1, <4>1 DEF IInv, TreeInv
      <4>3. Len(children[n]) = 0
        BY <4>1, <4>2
      <4> QED
        BY <3>3, <4>1, <4>3
    <3> QED
      BY <1>1, <3>1, <3>2, <3>3
  <2>4. \A m \in Nodes \ Added' : status'[m] = "Invalid" /\ current'[m] = End
    BY <1>1 DEF IInv, TreeInv
  <2> QED
    BY <2>1, <2>2, <2>3, <2>4 DEF TreeInv
<1>7. KeptInv'
  <2> SUFFICES ASSUME NEW m \in Added'
               PROVE  /\ Is(m, "Sequence")' => current[m] \in Offspring(m)' \cup {End}
                      /\ Is(m, "ActiveSelector")' => current[m] \in {End, First(m)'}
                      /\ Is(m, "Repeat")' /\ status[m] = "Running" /\ ~OnStack(m)' => Repeats(m)'
    BY DEF KeptInv
  <2>1. CASE m = n
    <3>1. status[n] = "Invalid" /\ current[n] = End
      BY <1>1 DEF IInv, TreeInv
    <3> QED
      BY <2>1, <3>1
  <2>2. CASE m \in Added
    <3>1. Repeats(m)' <=> Repeats(m)
      BY <1>1, <2>2 DEF Repeats, Unlimited
    <3>2. ~OnStack(m) /\ m \in Nodes
      BY <1>1, <2>2 DEF AtRest, OnStack
    <3>3. m \notin P => Offspring(m)' = Offspring(m) /\ First(m)' = First(m)
      BY <3>2 DEF Offspring, First
    <3>4. Is(m, "Sequence") => current[m] \in Offspring(m)' \cup {End}
      <4>1. Is(m, "Sequence") => ~IsDecorator(m)
        BY DEF IsDecorator, Is
      <4> QED
        BY <2>2, <3>3, <4>1 DEF IInv, KeptInv, Extends
    <3>5. Is(m, "ActiveSelector") => current[m] \in {End, First(m)'}
      BY <2>2, <3>3 DEF IInv, KeptInv, Extends
    <3> QED
      BY <1>2, <2>2, <3>1, <3>2, <3>4, <3>5 DEF IInv, KeptInv
  <2> QED
    BY <1>1, <2>1, <2>2
<1>8. current \in [Nodes -> Added' \cup {End}] /\ status \in [Nodes -> Statuses]
  BY <1>1 DEF IInv, TypeOK
<1>9. calls = <<>> /\ calls' = <<>>
  BY DEF AtRest
<1> QED
  BY <1>1, <1>6, <1>7, <1>8, <1>9, EditedInv

LEMMA AddChildFacts ==
  ASSUME IInv, NEW p \in Added, NEW n, n \notin Added, AddChild(p, n)
  PROVE  /\ children' \in [Nodes -> Seq(Added \cup {n})]
         /\ \A m \in Nodes \ {p} : children'[m] = children[m]
         /\ Extends(p, n)
<1>1. PICK q : q = IF Is(p, "Action") THEN children[p] ELSE IF IsDecorator(p) THEN <<n>> ELSE Append(children[p], n)
  OBVIOUS
<1>2. p \in Nodes
  BY KindFacts DEF IInv
<1>3. /\ children[p] \in Seq(Added) /\ children[p] \in Seq(Added \cup {n})
      /\ Len(children[p]) \in Nat /\ DOMAIN children[p] = 1..Len(children[p])
      /\ \A i, j \in DOMAIN children[p] : children[p][i] = children[p][j] => i = j
      /\ \A i \in DOMAIN children[p] : children[p][i] \in Added
  BY <1>2 DEF IInv, TypeOK, TreeInv
<1>4. /\ q \in Seq(Added \cup {n})
      /\ \A i \in DOMAIN q : q[i] \in Offspring(p) \cup {n}
      /\ \A i, j \in DOMAIN q : q[i] = q[j] => i = j
      /\ IsDecorator(p) => Len(q) <= 1
      /\ ~IsDecorator(p) => \A i \in DOMAIN children[p] : i \in DOMAIN q /\ q[i] = children[p][i]
      /\ children[p] # <<>> => q # <<>>
  <2>1. CASE Is(p, "Action")
    BY <1>1, <1>3, <2>1 DEF Offspring, IsDecorator, Is
  <2>2. CASE ~Is(p, "Action") /\ IsDecorator(p)
    BY <1>1, <2>2
  <2>3. CASE ~Is(p, "Action") /\ ~IsDecorator(p)
    <3>1. /\ q \in Seq(Added \cup {n}) /\ q # <<>> /\ DOMAIN q = 1..(Len(children[p]) + 1)
          /\ \A i \in 1..(Len(children[p]) + 1) : q[i] = IF i = Len(children[p]) + 1 THEN n ELSE children[p][i]
      <4>1. q = Append(children[p], n) /\ n \in Added \cup {n}
        BY <1>1, <2>3
      <4> QED
        BY <1>3, <4>1, AppendSeq
    <3>2. \A i \in DOMAIN q : (i \in DOMAIN children[p] /\ q[i] = children[p][i]) \/ (i = Len(children[p]) + 1 /\ q[i] = n)
      BY <1>3, <3>1
    <3>3. \A i \in DOMAIN children[p] : i \in DOMAIN q /\ q[i] = children[p][i]
      BY <1>3, <3>1
    <3>4. \A i \in DOMAIN q : q[i] \in Offspring(p) \cup {n}
      BY <3>2 DEF Offspring
    <3>5. ASSUME NEW i \in DOMAIN q, NEW j \in DOMAIN q, q[i] = q[j] PROVE i = j
      <4>1. (q[i] = n => i = Len(children[p]) + 1) /\ (q[j] = n => j = Len(children[p]) + 1)
        BY <1>3, <3>2
      <4> QED
        BY <1>3, <3>2, <3>5, <4>1
    <3> QED
      BY <2>3, <3>1, <3>3, <3>4, <3>5
  <2> QED
    BY <2>1, <2>2, <2>3
<1>5. /\ children' = [children EXCEPT ![p] = q] /\ children \in [Nodes -> Seq(Added)]
      /\ Seq(Added) \subseteq Seq(Added \cup {n})
  BY <1>1, <1>2 DEF AddChild, IInv, TypeOK
<1>6. /\ children' \in [Nodes -> Seq(Added \cup {n})] /\ children'[p] = q
      /\ \A m \in Nodes \ {p} : children'[m] = children[m]
  BY <1>2, <1>4, <1>5
<1>7. ~IsDecorator(p) => Offspring(p) \subseteq Offspring(p)'
  <2> SUFFICES ASSUME ~IsDecorator(p), NEW i \in DOMAIN children[p] PROVE children[p][i] \in Offspring(p)'
    BY DEF Offspring
  <2>1. i \in DOMAIN children'[p] /\ children'[p][i] = children[p][i]
    BY <1>4, <1>6
  <2> QED
    BY <2>1 DEF Offspring
<1>8. Is(p, "ActiveSelector") => First(p) \in {End, First(p)'}
  <2> SUFFICES ASSUME Is(p, "ActiveSelector"), children[p] # <<>> PROVE First(p) = First(p)'
    BY DEF First
  <2>1. ~IsDecorator(p) /\ 1 \in DOMAIN children[p]
    BY <1>3 DEF IsDecorator, Is
  <2>2. q[1] = children[p][1] /\ q # <<>>
    BY <1>4, <2>1
  <2> QED
    BY <1>3, <1>4, <1>6, <2>2 DEF First
<1> QED
  BY <1>4, <1>6, <1>7, <1>8 DEF Extends

LEMMA AddBehaviorInv == ASSUME IInv, NEW k \in Kinds, AddBehavior(k) PROVE IInv'
<1>1. PICK n : n = Len(kind) + 1
  OBVIOUS
<1>2. /\ AtRest /\ n <= MaxNodes /\ kind' = Append(kind, k)
      /\ building' = (IF k.type = "Action" THEN building ELSE <<n>> \o building)
      /\ \/ n = 1 /\ UNCHANGED <<children, edits, touched>>
         \/ building # <<>> /\ AddChild(Head(building), n) /\ Edit(Head(building))
      /\ UNCHANGED <<status, current, counter, calls>>
  BY <1>1 DEF AddBehavior
<1>3. building \in Seq(Added) /\ building \in Seq(Added \cup {n}) /\ n \in Added \cup {n}
  BY DEF IInv, TypeOK
<1>4. building' \in Seq(Added \cup {n})
  <2>1. <<n>> \o building \in Seq(Added \cup {n})
    BY <1>3, ConsSeq
  <2> QED
    BY <1>2, <1>3, <2>1
<1>5. n \notin Added
  BY <1>1, KindFacts DEF IInv
<1>6. CASE n = 1 /\ UNCHANGED <<children, edits, touched>>
  <2>1. PICK P \in SUBSET Added : P = {}
    OBVIOUS
  <2>2. children' \in [Nodes -> Seq(Added \cup {n})]
    BY <1>6 DEF IInv, TypeOK
  <2>3. edits' \in 0..MaxEdits /\ touched \subseteq touched' /\ touched' \subseteq Added
    BY <1>6 DEF IInv, TypeOK
  <2>4. /\ \A m \in Nodes \ P : children'[m] = children[m]
        /\ \A x : x \notin P
    BY <1>6, <2>1
  <2> QED
    BY <1>1, <1>2, <1>4, <2>1, <2>2, <2>3, <2>4, GrownInv
<1>7. CASE building # <<>> /\ AddChild(Head(building), n) /\ Edit(Head(building))
  <2>1. PICK p \in Added : p = Head(building)
    BY <1>3, <1>7
  <2>2. PICK P \in SUBSET Added : P = {p}
    OBVIOUS
  <2>3. edits' \in 0..MaxEdits /\ touched \subseteq touched' /\ touched' \subseteq Added /\ (Ticked => p \in touched')
    BY <1>7, <2>1, EditFacts DEF IInv
  <2>4. AddChild(p, n)
    BY <1>7, <2>1
  <2>5. /\ children' \in [Nodes -> Seq(Added \cup {n})]
        /\ \A m \in Nodes \ {p} : children'[m] = children[m]
        /\ Extends(p, n)
    BY <1>5, <2>4, AddChildFacts
  <2>6. \A x \in P : Extends(x, n)
    BY <2>2, <2>5
  <2>7. (\A x, m \in P : x = m) /\ (Ticked => P \subseteq touched')
    BY <2>2, <2>3
  <2>8. \A m \in Nodes \ P : children'[m] = children[m]
    BY <2>2, <2>5
  <2> QED
    BY <1>1, <1>2, <1>4, <2>3, <2>5, <2>6, <2>7, <2>8, GrownInv
<1> QED
  BY <1>2, <1>6, <1>7

LEMMA AddPartInv == ASSUME IInv, NEW p \in Added, NEW inFront \in BOOLEAN, AddPart(p, inFront) PROVE IInv'
<1>1. PICK n : n = Len(kind) + 1
  OBVIOUS
<1>2. PICK k \in Kinds : k = [type |-> "Action"]
  BY DEF AddPart
<1>3. PICK q : q = IF inFront THEN <<n>> \o children[p] ELSE Append(children[p], n)
  OBVIOUS
<1>4. /\ AtRest /\ n <= MaxNodes /\ kind' = Append(kind, k) /\ (Is(p, "Sequence") \/ Is(p, "Parallel"))
      /\ children' = [children EXCEPT ![p] = q] /\ Edit(p)
      /\ UNCHANGED <<status, current, counter, building, calls>>
  BY <1>1, <1>2, <1>3 DEF AddPart
<1>5. /\ n \notin Added /\ p \in Nodes /\ n \in Added \cup {n}
      /\ ~IsDecorator(p) /\ ~Is(p, "ActiveSelector")
  BY <1>1, <1>4, KindFacts DEF IInv, IsDecorator, Is
<1>6. /\ children[p] \in Seq(Added) /\ children[p] \in Seq(Added \cup {n})
      /\ Len(children[p]) \in Nat /\ DOMAIN children[p] = 1..Len(children[p])
      /\ \A i, j \in DOMAIN children[p] : children[p][i] = children[p][j] => i = j
      /\ \A i \in DOMAIN children[p] : children[p][i] \in Added
  BY <1>5 DEF IInv, TypeOK, TreeInv
<1>7. PICK d \in {0, 1}, e \in 1..(Len(children[p]) + 1) :
         /\ q \in Seq(Added \cup {n}) /\ DOMAIN q = 1..(Len(children[p]) + 1)
         /\ \A i \in DOMAIN q : (i = e /\ q[i] = n) \/ (i # e /\ i - d \in DOMAIN children[p] /\ q[i] = children[p][i - d])
         /\ \A i \in DOMAIN children[p] : i + d \in DOMAIN q /\ q[i + d] = children[p][i]
  <2>1. CASE inFront
    <3>1. /\ q \in Seq(Added \cup {n}) /\ DOMAIN q = 1..(Len(children[p]) + 1)
          /\ \A i \in 1..(Len(children[p]) + 1) : q[i] = IF i = 1 THEN n ELSE children[p][i - 1]
      BY <1>3, <1>5, <1>6, <2>1, ConsSeq
    <3>2. 1 \in 1..(Len(children[p]) + 1) /\ \A i \in DOMAIN q : i # 1 => i - 1 \in DOMAIN children[p]
      BY <1>6, <3>1
    <3>3. \A i \in DOMAIN children[p] : i + 1 \in DOMAIN q /\ i + 1 # 1 /\ (i + 1) - 1 = i
      BY <1>6, <3>1
    <3> QED
      BY <3>1, <3>2, <3>3
  <2>2. CASE ~inFront
    <3>1. /\ q \in Seq(Added \cup {n}) /\ DOMAIN q = 1..(Len(children[p]) + 1)
          /\ \A i \in 1..(Len(children[p]) + 1) : q[i] = IF i = Len(children[p]) + 1 THEN n ELSE children[p][i]
      BY <1>3, <1>5, <1>6, <2>2, AppendSeq
    <3>2. /\ Len(children[p]) + 1 \in 1..(Len(children[p]) + 1)
          /\ \A i \in DOMAIN q : i # Len(children[p]) + 1 => i - 0 \in DOMAIN children[p] /\ i - 0 = i
      BY <1>6, <3>1
    <3>3. \A i \in DOMAIN children[p] : i + 0 \in DOMAIN q /\ i + 0 # Len(children[p]) + 1 /\ i + 0 = i
      BY <1>6, <3>1
    <3> QED
      BY <3>1, <3>2, <3>3
  <2> QED
    BY <2>1, <2>2
<1>8. /\ children' \in [Nodes -> Seq(Added \cup {n})] /\ children'[p] = q
      /\ \A m \in Nodes \ {p} : children'[m] = children[m]
  <2>1. children \in [Nodes -> Seq(Added)] /\ Seq(Added) \subseteq Seq(Added \cup {n})
    BY DEF IInv, TypeOK
  <2> QED
    BY <1>4, <1>5, <1>7, <2>1
<1>9. Extends(p, n)
  <2>1. \A i \in DOMAIN q : q[i] \in Offspring(p) \cup {n}
    BY <1>7 DEF Offspring
  <2>2. ASSUME NEW i \in DOMAIN q, NEW j \in DOMAIN q, q[i] = q[j] PROVE i = j
    <3>1. CASE i = e \/ j = e
      <4>1. \A l \in DOMAIN children[p] : children[p][l] # n
        BY <1>5, <1>6
      <4> QED
        BY <1>7, <2>2, <3>1, <4>1
    <3>2. CASE i # e /\ j # e
      <4>1. i - d \in DOMAIN children[p] /\ j - d \in DOMAIN children[p] /\ children[p][i - d] = children[p][j - d]
        BY <1>7, <2>2, <3>2
      <4>2. i - d = j - d /\ i \in Int /\ j \in Int
        BY <1>6, <1>7, <4>1
      <4> QED
        BY <4>2
    <3> QED
      BY <3>1, <3>2
  <2>3. Offspring(p) \subseteq Offspring(p)'
    <3> SUFFICES ASSUME NEW i \in DOMAIN children[p] PROVE children[p][i] \in Offspring(p)'
      BY DEF Offspring
    <3>1. i + d \in DOMAIN children'[p] /\ children'[p][i + d] = children[p][i]
      BY <1>7, <1>8
    <3> QED
      BY <3>1 DEF Offspring
  <2> QED
    BY <1>5, <1>8, <2>1, <2>2, <2>3 DEF Extends
<1>10. PICK P \in SUBSET Added : P = {p}
  OBVIOUS
<1>11. /\ edits' \in 0..MaxEdits /\ touched \subseteq touched' /\ touched' \subseteq Added
       /\ Ticked => P \subseteq touched'
  BY <1>4, <1>10, EditFacts DEF IInv
<1>12. building' \in Seq(Added \cup {n})
  BY <1>4 DEF IInv, TypeOK
<1>13. (\A x \in P : Extends(x, n)) /\ (\A x, m \in P : x = m) /\ \A m \in Nodes \ P : children'[m] = children[m]
  BY <1>8, <1>9, <1>10
<1> QED
  BY <1>1, <1>4, <1>8, <1>11, <1>12, <1>13, GrownInv

LEMMA RemoveChildInv == ASSUME IInv, NEW p \in Added, NEW c \in Nodes, RemoveChild(p, c) PROVE IInv'
<1>1. PICK k \in DOMAIN children[p] : children[p][k] = c /\ children' = [children EXCEPT ![p] = RemoveAt(@, k)]
  BY DEF RemoveChild
<1>2. /\ AtRest /\ ~IsDecorator(p) /\ Edit(p)
      /\ current' = [current EXCEPT ![p] = IF @ = c THEN End ELSE @]
      /\ UNCHANGED <<kind, status, counter, building, calls>>
  BY DEF RemoveChild
<1>3. p \in Nodes /\ Added' = Added /\ Added \subseteq Nodes
  BY <1>2, KindFacts DEF IInv, Added
<1>4. PICK q : q = RemoveAt(children[p], k)
  OBVIOUS
<1>5. /\ q \in Seq(Added) /\ Len(children[p]) \in Nat \ {0} /\ DOMAIN q = 1..(Len(children[p]) - 1)
      /\ DOMAIN children[p] = 1..Len(children[p])
      /\ \A i \in 1..(Len(children[p]) - 1) : q[i] = IF i < k THEN children[p][i] ELSE children[p][i + 1]
  <2>1. children[p] \in Seq(Added)
    BY <1>3 DEF IInv, TypeOK
  <2> QED
    BY <1>4, <2>1, RemoveSeq
<1>6. /\ children' \in [Nodes -> Seq(Added)] /\ children'[p] = q
      /\ \A m \in Nodes \ {p} : children'[m] = children[m]
  <2>1. children' = [children EXCEPT ![p] = q]
    BY <1>1, <1>4
  <2> QED
    BY <1>3, <1>5, <2>1 DEF IInv, TypeOK
<1>7. /\ \A i \in DOMAIN q : \E j \in DOMAIN children[p] : j = (IF i < k THEN i ELSE i + 1) /\ q[i] = children[p][j]
      /\ \A j \in DOMAIN children[p] : j # k => \E i \in DOMAIN q : q[i] = children[p][j]
  <2>1. \A i \in DOMAIN q : i \in DOMAIN children[p] /\ i + 1 \in DOMAIN children[p]
    BY <1>5
  <2>2. ASSUME NEW j \in DOMAIN children[p], j # k PROVE \E i \in DOMAIN q : q[i] = children[p][j]
    <3>1. CASE j < k
      <4>1. j \in 1..(Len(children[p]) - 1)
        BY <1>5, <3>1
      <4> QED
        BY <1>5, <3>1, <4>1
    <3>2. CASE ~(j < k)
      <4>1. j - 1 \in 1..(Len(children[p]) - 1) /\ ~(j - 1 < k) /\ (j - 1) + 1 = j
        BY <1>5, <2>2, <3>2
      <4> QED
        BY <1>5, <4>1
    <3> QED
      BY <3>1, <3>2
  <2> QED
    BY <1>5, <2>1, <2>2
<1>8. \A m \in Nodes : \A i \in DOMAIN children'[m] : \E j \in DOMAIN children[m] :
         /\ children'[m][i] = children[m][j]
         /\ j = IF m = p /\ ~(i < k) THEN i + 1 ELSE i
  BY <1>6, <1>7
<1>9. \A m \in Nodes : \A i \in DOMAIN children'[m] : i \in Int
  BY <1>6
<1>10. TreeInv'
  <2>1. \A m \in Nodes : \A i \in DOMAIN children'[m] : m \in Added' /\ m < children'[m][i]
    BY <1>3, <1>8 DEF IInv, TreeInv
  <2>2. ASSUME NEW m \in Nodes, NEW n \in Nodes, NEW i \in DOMAIN children'[m], NEW j \in DOMAIN children'[n],
               children'[m][i] = children'[n][j]
        PROVE  m = n /\ i = j
    <3>1. PICK x \in DOMAIN children[m] : children'[m][i] = children[m][x] /\ x = IF m = p /\ ~(i < k) THEN i + 1 ELSE i
      BY <1>8
    <3>2. PICK y \in DOMAIN children[n] : children'[n][j] = children[n][y] /\ y = IF n = p /\ ~(j < k) THEN j + 1 ELSE j
      BY <1>8
    <3>3. children[m][x] = children[n][y]
      BY <2>2, <3>1, <3>2
    <3>4. m = n /\ x = y
      BY <3>3 DEF IInv, TreeInv
    <3>5. i \in Int /\ j \in Int /\ k \in Int
      BY <1>5, <1>9
    <3> QED
      BY <3>1, <3>2, <3>4, <3>5
  <2>3. ASSUME NEW n \in Added, IsDecorator(n)' PROVE Len(children'[n]) <= 1
    <3>1. IsDecorator(n)
      BY <1>2, <2>3 DEF IsDecorator, Is
    <3>2. n # p /\ n \in Nodes
      BY <1>2, <1>3, <3>1
    <3> QED
      BY <1>6, <3>1, <3>2 DEF IInv, TreeInv
  <2>4. \A m \in Nodes \ Added' : status'[m] = "Invalid" /\ current'[m] = End
    BY <1>2, <1>3 DEF IInv, TreeInv, TypeOK
  <2> QED
    BY <1>3, <2>1, <2>2, <2>3, <2>4 DEF TreeInv
<1>11. /\ current' \in [Nodes -> Added \cup {End}] /\ \A m \in Nodes \ {p} : current'[m] = current[m]
       /\ current'[p] = IF current[p] = c THEN End ELSE current[p]
  BY <1>2, <1>3 DEF IInv, TypeOK
<1>12. KeptInv'
  <2> SUFFICES ASSUME NEW m \in Added
               PROVE  /\ Is(m, "Sequence") => current'[m] \in Offspring(m)' \cup {End}
                      /\ Is(m, "ActiveSelector") => current'[m] \in {End, First(m)'}
                      /\ Is(m, "Repeat") /\ status[m] = "Running" => Repeats(m)'
    BY <1>2, <1>3 DEF KeptInv, Is
  <2>1. Repeats(m)' <=> Repeats(m)
    BY <1>2 DEF Repeats, Unlimited
  <2>2. ~OnStack(m) /\ m \in Nodes
    BY <1>2, <1>3 DEF AtRest, OnStack
  <2>3. CASE m # p
    BY <1>6, <1>11, <2>1, <2>2, <2>3 DEF IInv, KeptInv, Offspring, First
  <2>4. CASE m = p
    <3>1. Is(p, "Sequence") => current'[p] \in Offspring(p)' \cup {End}
      <4> SUFFICES ASSUME current[p] # c, current[p] \in Offspring(p) PROVE current[p] \in Offspring(p)'
        BY <1>11, <2>4 DEF IInv, KeptInv
      <4>1. PICK j \in DOMAIN children[p] : children[p][j] = current[p]
        BY DEF Offspring
      <4>2. PICK i \in DOMAIN q : q[i] = current[p]
        BY <1>1, <1>7, <4>1
      <4> QED
        BY <1>6, <4>2 DEF Offspring
    <3>2. Is(p, "ActiveSelector") => current'[p] \in {End, First(p)'}
      <4> SUFFICES ASSUME current[p] # c, current[p] = First(p) PROVE First(p)' = First(p)
        BY <1>11, <2>4 DEF IInv, KeptInv
      <4>1. First(p) = children[p][1] /\ 1 \in DOMAIN children[p] /\ k # 1
        BY <1>1, <1>5 DEF First
      <4>2. 1 < k /\ 1 \in 1..(Len(children[p]) - 1)
        BY <1>5, <4>1
      <4>3. q # <<>> /\ Head(q) = q[1] /\ q[1] = children[p][1]
        BY <1>5, <4>2
      <4> QED
        BY <1>6, <4>1, <4>3 DEF First
    <3>3. ~Is(p, "Repeat")
      BY <1>2 DEF IsDecorator
    <3> QED
      BY <2>4, <3>1, <3>2, <3>3
  <2> QED
    BY <2>3, <2>4
<1>13. PICK P \in SUBSET Added : P = {p}
  OBVIOUS
<1>14. /\ edits' \in 0..MaxEdits /\ touched \subseteq touched' /\ touched' \subseteq Added
       /\ Ticked => P \subseteq touched'
  BY <1>2, <1>13, EditFacts DEF IInv
<1>15. /\ \A m \in Nodes \ P : children'[m] = children[m] /\ current'[m] = current[m]
  BY <1>6, <1>11, <1>13
<1>16. /\ kind' \in Seq(Kinds) /\ Len(kind') <= MaxNodes /\ status \in [Nodes -> Statuses] /\ building' \in Seq(Added)
       /\ calls = <<>> /\ calls' = <<>>
  BY <1>2 DEF IInv, TypeOK, AtRest
<1> QED
  BY <1>2, <1>3, <1>6, <1>10, <1>11, <1>12, <1>14, <1>15, <1>16, EditedInv

LEMMA ResetInv == ASSUME IInv, NEW n \in Added, Reset(n) PROVE IInv'
<1>1. /\ calls = <<>> /\ calls' = <<>> /\ edits < MaxEdits /\ edits' = edits + 1
      /\ status' = [status EXCEPT ![n] = "Invalid"]
      /\ touched' = touched \cup {n} \cup {p \in Added : n \in Offspring(p)}
      /\ UNCHANGED <<kind, children, current, counter, building>>
  BY DEF Reset, AtRest
<1>2. Added' = Added /\ Added \subseteq Nodes
  BY <1>1, KindFacts DEF IInv, Added
<1>3. /\ status' \in [Nodes -> Statuses] /\ status'[n] = "Invalid"
      /\ \A m \in Nodes : m # n => status'[m] = status[m]
  BY <1>1, <1>2 DEF IInv, TypeOK, Statuses
<1>4. TreeInv'
  BY <1>1, <1>2, <1>3, TreeStays DEF IInv
<1>5. KeptInv'
  <2> SUFFICES ASSUME NEW m \in Added
               PROVE  /\ Is(m, "Sequence") => current[m] \in Offspring(m) \cup {End}
                      /\ Is(m, "ActiveSelector") => current[m] \in {End, First(m)}
                      /\ Is(m, "Repeat") /\ status'[m] = "Running" => Repeats(m)
    BY <1>1, <1>2 DEF KeptInv, Is, Offspring, First, Repeats, Unlimited
  <2>1. ~OnStack(m) /\ m \in Nodes
    BY <1>1, <1>2 DEF OnStack
  <2>2. status'[m] = "Running" => status[m] = "Running"
    BY <1>3, <2>1
  <2> QED
    BY <2>1, <2>2 DEF IInv, KeptInv
<1>6. ASSUME NEW m \in Nodes \ touched', NEW c \in Offspring(m) PROVE status'[c] = status[c]
  <2>1. m \in Added /\ c \in Nodes
    BY ChildFacts DEF IInv
  <2>2. c # n
    BY <1>1, <1>6, <2>1
  <2> QED
    BY <1>3, <2>1, <2>2
<1>7. /\ kind' \in Seq(Kinds) /\ Len(kind') <= MaxNodes /\ building' \in Seq(Added)
      /\ children' \in [Nodes -> Seq(Added)] /\ current' \in [Nodes -> Added \cup {End}]
      /\ edits' \in 0..MaxEdits /\ touched \subseteq touched' /\ touched' \subseteq Added
  BY <1>1, TreeAssumption DEF IInv, TypeOK
<1>8. \A m \in Nodes : status'[m] \in {status[m], "Invalid"}
  BY <1>3
<1>9. PICK P \in SUBSET Added : P = {}
  OBVIOUS
<1> QED
  BY <1>1, <1>2, <1>3, <1>4, <1>5, <1>6, <1>7, <1>8, <1>9, EditedInv

(* Back, EndBuild and a stutter.                                           *)
LEMMA SameInv ==
  ASSUME IInv, UNCHANGED <<kind, children, status, current, counter, calls, edits, touched>>,
         building' \in Seq(Added)
  PROVE  IInv'
<1>1. TypeOK'
  BY DEF IInv, TypeOK, Added
<1>2. /\ TreeInv' /\ Added' = Added
      /\ \A n : Offspring(n)' = Offspring(n) /\ First(n)' = First(n)
      /\ \A n, t : Is(n, t)' <=> Is(n, t)
      /\ \A n : IsDecorator(n)' <=> IsDecorator(n)
  BY TreeStays DEF IInv
<1>3. KeptInv'
  BY <1>2 DEF IInv, KeptInv, OnStack, Repeats, Unlimited
<1>4. StackInv'
  BY <1>2 DEF IInv, StackInv, Stacked
<1>5. ASSUME NEW f \in Range(calls) PROVE LoopAgrees(f)'
  <2>1. f \in Frame /\ f.node \in Added /\ LoopAgrees(f)
    BY DEF IInv, TypeOK, StackInv, Stacked, LoopInv, Range
  <2>2. /\ current'[f.node] = current[f.node] /\ counter'[f.node] = counter[f.node]
        /\ f.node \in touched' <=> f.node \in touched
        /\ \A i \in Before(f) : status'[children[f.node][i]] = status[children[f.node][i]]
    OBVIOUS
  <2> QED
    BY <2>1, <2>2, LoopStays DEF IInv
<1>6. LoopInv'
  BY <1>5 DEF LoopInv, Range
<1>7. StatusAgrees'
  <2> SUFFICES ASSUME NEW m \in Added, m \notin touched, ~OnStack(m), status[m] \in Results
               PROVE  ResultAgrees(m)'
    BY <1>2 DEF StatusAgrees, OnStack, Results
  <2>1. /\ status'[m] = status[m] /\ current'[m] = current[m]
        /\ \A c \in Offspring(m) : status'[c] = status[c]
    OBVIOUS
  <2> QED
    BY <2>1, OthersAgree
<1> QED
  BY <1>1, <1>2, <1>3, <1>4, <1>6, <1>7 DEF IInv

-----------------------------------------------------------------------------
LEMMA InitIInv == Init => IInv
<1> SUFFICES ASSUME Init PROVE IInv
  OBVIOUS
<1>1. Added = {} /\ kind = <<>> /\ calls = <<>> /\ \A n \in Nodes : children[n] = <<>>
  BY DEF Init, Added
<1>2. TypeOK
  BY <1>1, TreeAssumption DEF Init, TypeOK, Statuses
<1>3. TreeInv /\ KeptInv
  BY <1>1 DEF Init, TreeInv, KeptInv
<1>4. StackInv /\ LoopInv /\ StatusAgrees
  BY <1>1 DEF StackInv, Stacked, LoopInv, Range, StatusAgrees
<1> QED
  BY <1>2, <1>3, <1>4 DEF IInv

LEMMA NextIInv == IInv /\ [Next]_vars => IInv'
<1> SUFFICES ASSUME IInv, [Next]_vars PROVE IInv'
  OBVIOUS
<1>1. building \in Seq(Added)
  BY DEF IInv, TypeOK
<1>2. ASSUME NEW k \in Kinds, AddBehavior(k) PROVE IInv'
  BY <1>2, AddBehaviorInv
<1>3. CASE Back
  <2>1. building' \in Seq(Added)
    BY <1>1, <1>3 DEF Back
  <2> QED
    BY <1>3, <2>1, SameInv DEF Back
<1>4. CASE EndBuild
  <2>1. building' \in Seq(Added)
    <3>1. Len(building) \in DOMAIN building
      BY <1>1, <1>4 DEF EndBuild
    <3>2. building[Len(building)] \in Added
      BY <1>1, <3>1
    <3> QED
      BY <1>4, <3>2 DEF EndBuild
  <2> QED
    BY <1>4, <2>1, SameInv DEF EndBuild
<1>5. ASSUME NEW p \in Added, AddCondition(p) \/ AddAction(p) PROVE IInv'
  BY <1>5, AddPartInv DEF AddCondition, AddAction
<1>6. ASSUME NEW p \in Added, Reset(p) PROVE IInv'
  BY <1>6, ResetInv
<1>7. ASSUME NEW p \in Added, NEW c \in Nodes, RemoveChild(p, c) PROVE IInv'
  BY <1>7, RemoveChildInv
<1>8. CASE TreeTick
  BY <1>8, TreeTickInv
<1>9. CASE Descend
  BY <1>9, DescendInv
<1>10. CASE Advance
  BY <1>10, AdvanceInv
<1>11. CASE Leave
  BY <1>11, LeaveInv
<1>12. ASSUME NEW s \in {"Success", "Failure", "Running"}, Act(s) PROVE IInv'
  BY <1>12, ActInv DEF Results
<1>13. CASE UNCHANGED vars
  BY <1>1, <1>13, SameInv DEF vars
<1> QED
  BY <1>2, <1>3, <1>4, <1>5, <1>6, <1>7, <1>8, <1>9, <1>10, <1>11, <1>12, <1>13 DEF Next

(* What holds of every tree that is built, edited and ticked, in the       *)
(* middle of a tick as well: BehaviorTree.cpp.                             *)
THEOREM Invariance == Spec => []IInv
<1>1. Init => IInv
  BY InitIInv
<1>2. IInv /\ [Next]_vars => IInv'
  BY NextIInv
<1> QED
  BY <1>1, <1>2, PTL DEF Spec

(* The variables of the tree have their types.                             *)
THEOREM TypeCorrect == Spec => []TypeOK
<1>1. IInv => TypeOK
  BY DEF IInv
<1> QED
  BY <1>1, Invariance, PTL

(* The result of a node is the one its children's results call for, from   *)
(* the end of its tick until it is called again: onUpdate and onTerminate  *)
(* of every composite and decorator.                                       *)
THEOREM StatusAgreement == Spec => []StatusAgrees
<1>1. IInv => StatusAgrees
  BY DEF IInv
<1> QED
  BY <1>1, Invariance, PTL

(* The behaviors form a tree: a child is younger than its parent, has one  *)
(* parent and one place, and a decorator has at most one child; the calls  *)
(* in progress lead from the root down along it, so that no node is in the *)
(* middle of two calls.                                                    *)
THEOREM CallsLeadDown == Spec => [](TreeInv /\ StackInv)
<1>1. IInv => TreeInv /\ StackInv
  BY DEF IInv
<1> QED
  BY <1>1, Invariance, PTL
=============================================================================
