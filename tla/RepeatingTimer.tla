--------------------------- MODULE RepeatingTimer ---------------------------
(***************************************************************************)
(* NBRaft/raftrepeattimer.h: timers that call a function again and again,  *)
(* each with an io_context and a thread of its own.                        *)
(*                                                                         *)
(* Threads start, stop, move and destroy timers; the callback may stop the *)
(* timer it runs on.  A timer is moved or destroyed while no other thread  *)
(* is inside one of its functions.  An exception that leaves a thread, and *)
(* a joinable std::thread that is destroyed or assigned to, end the        *)
(* program.                                                                *)
(***************************************************************************)
EXTENDS Integers, FiniteSets

CONSTANTS Timers,  \* the timer objects
          Users    \* the threads that use them

VARIABLES
    alive,    \* the objects that exist: "no", "yes" or "gone"
    running,  \* m_running
    callback, \* m_callback: "own", or "moved" away
    stopped,  \* m_ioc has been stopped
    joinable, \* m_timer_thread is joinable
    armed,    \* m_timer has a wait outstanding
    io,       \* the timer's thread: "none", "run", "handler", "call", "rearm" or "ended"
    pc,       \* where each user is
    on,       \* the timer it is inside of
    then,     \* what it does after stop: "idle", "assign" or "destruct"
    aborted,  \* std::terminate was called
    misused   \* history: a timer stopped itself, was moved while it was running,
              \* one without a function was started, or start and stop of one timer overlapped

timer == <<alive, running, callback, stopped, joinable, armed, io>>
user  == <<pc, on, then>>
timerVars  == <<timer, user, aborted, misused>>

TimerInit ==
    /\ alive = [o \in Timers |-> "no"]
    /\ running = [o \in Timers |-> FALSE]
    /\ callback = [o \in Timers |-> "own"]
    /\ stopped = [o \in Timers |-> FALSE]
    /\ joinable = [o \in Timers |-> FALSE]
    /\ armed = [o \in Timers |-> FALSE]
    /\ io = [o \in Timers |-> "none"]
    /\ pc = [u \in Users |-> "idle"]
    /\ on \in [Users -> Timers]
    /\ then = [u \in Users |-> "idle"]
    /\ aborted = FALSE /\ misused = FALSE

Inside(o, places) == {u \in Users : on[u] = o /\ pc[u] \in places}
Free(o)           == Inside(o, {"spawn", "arm", "halt", "join", "assign", "destruct"}) = {}
Goto(u, place)    == pc' = [pc EXCEPT ![u] = place]
Exclusive(o)      == \E u \in Users : on[u] = o /\ pc[u] # "idle" /\ then[u] # "idle"
Calls(u, o)       == ~aborted /\ pc[u] = "idle" /\ alive[o] = "yes" /\ ~Exclusive(o)

-----------------------------------------------------------------------------
(* The constructor, also by make_repeating_timer.                          *)
Construct(o) ==
    /\ ~aborted /\ alive[o] = "no"
    /\ alive' = [alive EXCEPT ![o] = "yes"]
    /\ UNCHANGED <<running, callback, stopped, joinable, armed, io, user, aborted, misused>>

(* Moving takes the function and copies m_running; start, which is called  *)
(* if it is set, then finds it set and returns.                            *)
TakeFrom(o, p) ==
    /\ callback' = [callback EXCEPT ![o] = callback[p], ![p] = "moved"]
    /\ running' = [running EXCEPT ![o] = running[p]]
    /\ misused' = (misused \/ running[p])

MoveConstruct(u, o, p) ==
    /\ Calls(u, p) /\ alive[o] = "no" /\ Free(p)
    /\ alive' = [alive EXCEPT ![o] = "yes"]
    /\ TakeFrom(o, p)
    /\ UNCHANGED <<stopped, joinable, armed, io, user, aborted>>

(* start: m_running, the thread, the first wait.                           *)
StartExchange(u, o) ==
    /\ Calls(u, o)
    /\ running' = [running EXCEPT ![o] = TRUE]
    /\ IF running[o] THEN UNCHANGED user
       ELSE /\ Goto(u, "spawn")
            /\ on' = [on EXCEPT ![u] = o] /\ then' = [then EXCEPT ![u] = "idle"]
    /\ misused' = (\/ misused
                   \/ ~running[o] /\ (callback[o] = "moved" \/ Inside(o, {"halt", "join"}) # {}))
    /\ UNCHANGED <<alive, callback, stopped, joinable, armed, io, aborted>>

Spawn(u) ==
    /\ ~aborted /\ pc[u] = "spawn"
    /\ IF joinable[on[u]]
       THEN aborted' = TRUE /\ UNCHANGED <<joinable, io>>
       ELSE /\ joinable' = [joinable EXCEPT ![on[u]] = TRUE]
            /\ io' = [io EXCEPT ![on[u]] = "run"]
            /\ UNCHANGED aborted
    /\ Goto(u, "arm")
    /\ UNCHANGED <<alive, running, callback, stopped, armed, on, then, misused>>

Arm(u) ==
    /\ ~aborted /\ pc[u] = "arm"
    /\ armed' = [armed EXCEPT ![on[u]] = TRUE]
    /\ Goto(u, "idle")
    /\ UNCHANGED <<alive, running, callback, stopped, joinable, io, on, then, aborted, misused>>

(* stop: m_running, the io_context, the join.  The destructor and the move *)
(* assignment begin with it.                                               *)
StopExchange(u, o, k) ==
    /\ Calls(u, o)
    /\ k \in {"assign", "destruct"} => Free(o)
    /\ running' = [running EXCEPT ![o] = FALSE]
    /\ Goto(u, IF running[o] THEN "halt" ELSE k)
    /\ on' = [on EXCEPT ![u] = o] /\ then' = [then EXCEPT ![u] = k]
    /\ misused' = (misused \/ (running[o] /\ Inside(o, {"spawn", "arm"}) # {}))
    /\ UNCHANGED <<alive, callback, stopped, joinable, armed, io, aborted>>

Halt(u) ==
    /\ ~aborted /\ pc[u] = "halt"
    /\ stopped' = [stopped EXCEPT ![on[u]] = TRUE]
    /\ Goto(u, "join")
    /\ UNCHANGED <<alive, running, callback, joinable, armed, io, on, then, aborted, misused>>

NeverJoins(o) == UNCHANGED joinable
Joins(o) ==
    /\ joinable[o] => io[o] = "ended"
    /\ joinable' = [joinable EXCEPT ![o] = FALSE]

Join(u) ==
    /\ ~aborted /\ pc[u] = "join"
    /\ Joins(on[u])
    /\ Goto(u, then[u])
    /\ UNCHANGED <<alive, running, callback, stopped, armed, io, on, then, aborted, misused>>

Assign(u, p) ==
    /\ ~aborted /\ pc[u] = "assign"
    /\ p # on[u] /\ alive[p] = "yes" /\ Free(p)
    /\ TakeFrom(on[u], p)
    /\ Goto(u, "idle")
    /\ UNCHANGED <<alive, stopped, joinable, armed, io, on, then, aborted>>

Destruct(u) ==
    /\ ~aborted /\ pc[u] = "destruct"
    /\ alive' = [alive EXCEPT ![on[u]] = "gone"]
    /\ aborted' = joinable[on[u]]
    /\ Goto(u, "idle")
    /\ UNCHANGED <<running, callback, stopped, joinable, armed, io, on, then, misused>>

-----------------------------------------------------------------------------
(* The timer's thread: run, until the io_context is stopped; it is never   *)
(* restarted, so that a second run returns at once.                        *)
At(o, place)   == ~aborted /\ io[o] = place
IoGoto(o, place) == io' = [io EXCEPT ![o] = place]

Fires(o) ==
    /\ At(o, "run") /\ ~stopped[o] /\ armed[o]
    /\ armed' = [armed EXCEPT ![o] = FALSE]
    /\ IoGoto(o, "handler")
    /\ UNCHANGED <<alive, running, callback, stopped, joinable, user, aborted, misused>>

RunEnds(o) ==
    /\ At(o, "run") /\ stopped[o]
    /\ IoGoto(o, "ended")
    /\ UNCHANGED <<alive, running, callback, stopped, joinable, armed, user, aborted, misused>>

(* handle_timer: unless it was stopped, call the function and wait again.  *)
Handle(o) ==
    /\ At(o, "handler")
    /\ IoGoto(o, IF running[o] THEN "call" ELSE "run")
    /\ UNCHANGED <<alive, running, callback, stopped, joinable, armed, user, aborted, misused>>

(* The function returns; one that was moved away may also throw.           *)
CallbackReturns(o) ==
    /\ At(o, "call")
    /\ aborted' \in {FALSE, callback[o] = "moved"}
    /\ IoGoto(o, "rearm")
    /\ UNCHANGED <<alive, running, callback, stopped, joinable, armed, user, misused>>

(* The function stops its own timer: the thread would join itself.         *)
CallbackStops(o) ==
    /\ At(o, "call") /\ running[o]
    /\ running' = [running EXCEPT ![o] = FALSE]
    /\ stopped' = [stopped EXCEPT ![o] = TRUE]
    /\ aborted' = TRUE /\ misused' = TRUE
    /\ UNCHANGED <<alive, callback, joinable, armed, io, user>>

WaitsOnce(o)  == UNCHANGED armed
WaitAgain(o)  == armed' = [armed EXCEPT ![o] = TRUE]

Rearm(o) ==
    /\ At(o, "rearm")
    /\ WaitAgain(o)
    /\ IoGoto(o, "run")
    /\ UNCHANGED <<alive, running, callback, stopped, joinable, user, aborted, misused>>

-----------------------------------------------------------------------------
UserStep(u) ==
    \/ Spawn(u) \/ Arm(u) \/ Halt(u) \/ Join(u) \/ Destruct(u)
    \/ \E p \in Timers : Assign(u, p)

IoStep(o) == Fires(o) \/ RunEnds(o) \/ Handle(o) \/ CallbackReturns(o) \/ Rearm(o)

TimerNext ==
    \/ \E o \in Timers : Construct(o)
    \/ \E u \in Users, o \in Timers :
         \/ StartExchange(u, o)
         \/ \E k \in {"idle", "assign", "destruct"} : StopExchange(u, o, k)
         \/ \E p \in Timers : MoveConstruct(u, o, p)
    \/ \E u \in Users :
         \/ Spawn(u) \/ Arm(u) \/ Halt(u) \/ Join(u) \/ Destruct(u)
         \/ \E p \in Timers : Assign(u, p)
    \/ \E o \in Timers :
         \/ Fires(o) \/ RunEnds(o) \/ Handle(o) \/ CallbackReturns(o) \/ CallbackStops(o)
         \/ Rearm(o)

TimerSpec == TimerInit /\ [][TimerNext]_timerVars

(* Fairness: a thread inside a function of a timer goes on, waits expire   *)
(* and callbacks return.  Nobody need start or stop a timer.               *)
FairTimerSpec ==
    /\ TimerSpec
    /\ \A u \in Users : WF_timerVars(UserStep(u))
    /\ \A o \in Timers : WF_timerVars(IoStep(o))

-----------------------------------------------------------------------------
(* Type invariant.                                                         *)
TimerTypeOK ==
    /\ alive \in [Timers -> {"no", "yes", "gone"}]
    /\ running \in [Timers -> BOOLEAN] /\ stopped \in [Timers -> BOOLEAN]
    /\ callback \in [Timers -> {"own", "moved"}]
    /\ joinable \in [Timers -> BOOLEAN] /\ armed \in [Timers -> BOOLEAN]
    /\ io \in [Timers -> {"none", "run", "handler", "call", "rearm", "ended"}]
    /\ pc \in [Users -> {"idle", "spawn", "arm", "halt", "join", "assign", "destruct"}]
    /\ on \in [Users -> Timers] /\ then \in [Users -> {"idle", "assign", "destruct"}]
    /\ aborted \in BOOLEAN /\ misused \in BOOLEAN

(* Starting, stopping and destroying timers, by any threads and whatever   *)
(* the callback is doing, never ends the program, unless a callback stops  *)
(* its own timer, a running timer is moved, one whose function was moved   *)
(* away is started, or start and stop of one timer overlap.                *)
Survives == aborted => misused

(* A started timer calls its function again and again until it is stopped. *)
(* This is not promised of a timer that is started again after a stop, as  *)
(* its io_context stays stopped, nor of one that a running timer was moved *)
(* to, as it has no thread.                                                *)
Ticks ==
    \A o \in Timers :
        (alive[o] = "yes" /\ running[o] /\ joinable[o] /\ ~stopped[o])
            ~> (io[o] = "call" \/ ~running[o] \/ stopped[o] \/ aborted)
=============================================================================
