------------------------------- MODULE Server -------------------------------
(***************************************************************************)
(* The server side of the network layer: BaseServer with its listening     *)
(* thread, ConnectionAcceptor, SessionManager and IOServicePool.           *)
(*                                                                         *)
(* Every accepted connection is a session whose handlers run on the thread *)
(* of one io_context of the pool, while the listening thread registers it. *)
(* SessionManager has no lock: each of its accesses to m_sessions is a     *)
(* step here, as if the hash table survived concurrent accesses.           *)
(*                                                                         *)
(* A session is reduced to its socket, its outstanding operations and the  *)
(* way it closes; module Session has the rest.                             *)
(***************************************************************************)
EXTENDS Integers, FiniteSets

CONSTANTS MaxSessions,  \* SessionManager::m_maxSessions
          PoolSize,     \* IOServicePool: how many io_contexts and threads
          MaxConn,      \* bound: sessions created in a behaviour
          Main,         \* the thread that calls start, and stop afterwards
          Other         \* a thread that calls stop at any time

ASSUME ServerAssumption ==
    /\ MaxSessions \in Nat
    /\ PoolSize \in Nat \ {0}
    /\ MaxConn \in Nat \ {0}
    /\ Main # Other

Sessions == 1..MaxConn
None     == 0
Contexts == 0..(PoolSize - 1)
Threads  == {Main, Other}
OpNames  == {"read", "write"}

VARIABLES
    pc,         \* where Main and Other are
    running,    \* BaseServer::m_running
    iocStopped, \* m_ioc is stopped
    joinable,   \* m_listenThread has not been joined
    listen,     \* the listening thread
    cur,        \* the session it is handling
    armed,      \* the session async_accept was given
    made,       \* how many sessions have been created
    nextCtx,    \* IOServicePool::m_nextIOContext
    ctx,        \* the io_context of each session
    sockets,    \* the sessions whose socket is open
    peer,       \* the clients: "away", "here" or "gone"
    ops,        \* the outstanding operations of each session
    registered, \* SessionManager::m_sessions
    io,         \* each io thread: "idle", "erase", "shut" or "ended"
    closing,    \* the session each io thread is closing
    exiting,    \* the program ends and destroys the pool
    early       \* history: sessions closed before they were registered

main       == <<pc, running, iocStopped, joinable>>
accept     == <<listen, cur, armed, made, nextCtx, ctx>>
sessions   == <<sockets, peer, ops, registered, early>>
pool       == <<io, closing, exiting>>
serverVars == <<main, accept, sessions, pool>>

ServerInit ==
    /\ pc = [t \in Threads |-> "idle"]
    /\ running = FALSE /\ iocStopped = FALSE /\ joinable = FALSE
    /\ listen = "none" /\ cur = None /\ armed = None
    /\ made = 0 /\ nextCtx = 0
    /\ ctx = [s \in Sessions |-> 0]
    /\ sockets = {} /\ registered = {} /\ early = {}
    /\ peer = [s \in Sessions |-> "away"]
    /\ ops = [s \in Sessions |-> {}]
    /\ io = [c \in Contexts |-> "idle"]
    /\ closing = [c \in Contexts |-> None]
    /\ exiting = FALSE

-----------------------------------------------------------------------------
(* startAccept: a new session on the next io_context waits for a client.   *)
NextIndex == IF nextCtx + 1 = PoolSize THEN 0 ELSE nextCtx + 1

StartAccept ==
    IF made < MaxConn
    THEN /\ made' = made + 1
         /\ armed' = made + 1
         /\ ctx' = [ctx EXCEPT ![made + 1] = nextCtx]
         /\ nextCtx' = NextIndex
    ELSE armed' = None /\ UNCHANGED <<made, ctx, nextCtx>>

(* start: arm the acceptor, create the listening thread and join it.       *)
Start ==
    /\ pc[Main] = "idle"
    /\ StartAccept
    /\ listen' = "begin"
    /\ joinable' = TRUE
    /\ pc' = [pc EXCEPT ![Main] = "startjoin"]
    /\ UNCHANGED <<running, iocStopped, cur, sessions, pool>>

(* stop does nothing unless the listening thread has set m_running.        *)
MayStop(t) == ~exiting /\ pc[t] = IF t = Main THEN "returned" ELSE "idle"

StopEarly(t) ==
    /\ MayStop(t)
    /\ ~running
    /\ pc' = [pc EXCEPT ![t] = "done"]
    /\ UNCHANGED <<running, iocStopped, joinable, accept, sessions, pool>>

Stop(t) ==
    /\ MayStop(t)
    /\ running
    /\ iocStopped' = TRUE
    /\ pc' = [pc EXCEPT ![t] = "stopjoin"]
    /\ UNCHANGED <<running, joinable, accept, sessions, pool>>

(* The join in start and the join in stop.  A thread object that two       *)
(* threads join at once, or that has been joined, makes join throw; start  *)
(* catches that, stop does not.                                            *)
StartReturns ==
    /\ pc[Main] = "startjoin"
    /\ listen = "ended" /\ joinable
    /\ joinable' = FALSE
    /\ pc' = [pc EXCEPT ![Main] = "returned"]
    /\ UNCHANGED <<running, iocStopped, accept, sessions, pool>>

StopReturns(t) ==
    /\ pc[t] = "stopjoin"
    /\ listen = "ended" /\ joinable
    /\ joinable' = FALSE
    /\ running' = FALSE
    /\ pc' = [pc EXCEPT ![t] = "done"]
    /\ UNCHANGED <<iocStopped, accept, sessions, pool>>

JoinThrows(t) ==
    /\ pc[t] \in {"startjoin", "stopjoin"}
    /\ ~joinable \/ \E u \in Threads \ {t} : pc[u] \in {"startjoin", "stopjoin"}
    /\ pc' = [pc EXCEPT ![t] = IF pc[t] = "startjoin" THEN "returned" ELSE "threw"]
    /\ UNCHANGED <<running, iocStopped, joinable, accept, sessions, pool>>

-----------------------------------------------------------------------------
(* The listening thread.                                                   *)
ListenBegin ==
    /\ listen = "begin"
    /\ running' = TRUE
    /\ listen' = "loop"
    /\ UNCHANGED <<pc, iocStopped, joinable, cur, armed, made, nextCtx, ctx, sessions, pool>>

LoopEndsWhenNotRunning == iocStopped /\ ~running
LoopEnds               == iocStopped

ListenEnd ==
    /\ listen = "loop"
    /\ LoopEnds
    /\ listen' = "ended"
    /\ UNCHANGED <<main, cur, armed, made, nextCtx, ctx, sessions, pool>>

(* SIGINT or SIGTERM.                                                      *)
Signal ==
    /\ listen = "loop" /\ ~iocStopped
    /\ running' = FALSE
    /\ iocStopped' = TRUE
    /\ UNCHANGED <<pc, joinable, accept, sessions, pool>>

(* handleAccept: start the session's first read ...                        *)
Accept ==
    /\ listen = "loop" /\ ~iocStopped
    /\ armed # None
    /\ cur' = armed /\ armed' = None
    /\ sockets' = sockets \cup {armed}
    /\ peer' = [peer EXCEPT ![armed] = "here"]
    /\ ops' = [ops EXCEPT ![armed] = {"read"}]
    /\ listen' = "check"
    /\ UNCHANGED <<main, made, nextCtx, ctx, registered, early, pool>>

(* ... then onConnected looks for room ...                                 *)
RoomForOneMore == Cardinality(registered) <= MaxSessions
Room           == Cardinality(registered) < MaxSessions

CheckRoom ==
    /\ listen = "check"
    /\ Room
    /\ listen' = "insert"
    /\ UNCHANGED <<main, cur, armed, made, nextCtx, ctx, sessions, pool>>

(* ... finds none and closes the session ...                               *)
Refuse ==
    /\ listen = "check"
    /\ ~Room
    /\ registered' = registered \ {cur}
    /\ sockets' = sockets \ {cur}
    /\ listen' = "rearm"
    /\ UNCHANGED <<main, cur, armed, made, nextCtx, ctx, peer, ops, early, pool>>

(* ... or inserts it ...                                                   *)
Insert ==
    /\ listen = "insert"
    /\ registered' = registered \cup {cur}
    /\ listen' = "rearm"
    /\ UNCHANGED <<main, cur, armed, made, nextCtx, ctx, sockets, peer, ops, early, pool>>

(* ... and the acceptor waits for the next client.                         *)
Rearm ==
    /\ listen = "rearm"
    /\ StartAccept
    /\ cur' = None
    /\ listen' = "loop"
    /\ UNCHANGED <<main, sessions, pool>>

(* handleAccept with an error: close a session that has no connection.     *)
AcceptFails ==
    /\ listen = "loop" /\ ~iocStopped
    /\ armed # None
    /\ StartAccept
    /\ UNCHANGED <<main, listen, cur, sessions, pool>>

-----------------------------------------------------------------------------
(* A client goes away.                                                     *)
PeerLeaves(s) ==
    /\ peer[s] = "here"
    /\ peer' = [peer EXCEPT ![s] = "gone"]
    /\ UNCHANGED <<main, accept, sockets, ops, registered, early, pool>>

(* A pool worker answers a request: a write is outstanding.                *)
Answer(s) ==
    /\ s \in sockets
    /\ ops' = [ops EXCEPT ![s] = @ \cup {"write"}]
    /\ UNCHANGED <<main, accept, sockets, peer, registered, early, pool>>

WriteDone(s) ==
    /\ "write" \in ops[s] /\ s \in sockets
    /\ io[ctx[s]] = "idle"
    /\ ops' = [ops EXCEPT ![s] = @ \ {"write"}]
    /\ UNCHANGED <<main, accept, sockets, peer, registered, early, pool>>

(* The handler of operation o closes the session: because the operation    *)
(* failed, or, if it is a read, because of what was read.                  *)
BeginClose(s, o) ==
    /\ o \in ops[s]
    /\ io[ctx[s]] = "idle"
    /\ ops' = [ops EXCEPT ![s] = @ \ {o}]
    /\ io' = [io EXCEPT ![ctx[s]] = "erase"]
    /\ closing' = [closing EXCEPT ![ctx[s]] = s]
    /\ UNCHANGED <<main, accept, sockets, peer, registered, early, exiting>>

WritesOnlyFail(s, o) == o = "write"
Failed(s, o)         == s \notin sockets \/ peer[s] = "gone"

OpFails(s, o)  == Failed(s, o) /\ BeginClose(s, o)
ReadCloses(s)  == s \in sockets /\ BeginClose(s, "read")

(* close: onClosed takes the session out of the table, then the socket is  *)
(* closed.                                                                 *)
NotErased(s) == registered
Erased(s)    == registered \ {s}

Erase(c) ==
    /\ io[c] = "erase"
    /\ LET s == closing[c]
       IN  /\ registered' = Erased(s)
           /\ early' = IF s = cur /\ listen \in {"check", "insert"}
                       THEN early \cup {s} ELSE early
    /\ io' = [io EXCEPT ![c] = "shut"]
    /\ UNCHANGED <<main, accept, sockets, peer, ops, closing, exiting>>

Shut(c) ==
    /\ io[c] = "shut"
    /\ sockets' = sockets \ {closing[c]}
    /\ io' = [io EXCEPT ![c] = "idle"]
    /\ closing' = [closing EXCEPT ![c] = None]
    /\ UNCHANGED <<main, accept, peer, ops, registered, early, exiting>>

-----------------------------------------------------------------------------
(* The program ends: the pool drops its work objects and joins its         *)
(* threads, each of which ends when it has nothing outstanding.            *)
Exit ==
    /\ pc[Main] = "done" /\ pc[Other] \in {"idle", "done"}
    /\ listen \in {"none", "ended"}
    /\ ~exiting
    /\ exiting' = TRUE
    /\ UNCHANGED <<main, accept, sessions, io, closing>>

WorkKept(c)  == FALSE
IoIdle(c)    == \A s \in Sessions : ctx[s] = c => ops[s] = {}

IoEnds(c) ==
    /\ exiting
    /\ io[c] = "idle"
    /\ IoIdle(c)
    /\ io' = [io EXCEPT ![c] = "ended"]
    /\ UNCHANGED <<main, accept, sessions, closing, exiting>>

-----------------------------------------------------------------------------
Listen == ListenBegin \/ ListenEnd \/ CheckRoom \/ Refuse \/ Insert \/ Rearm

MainStep == StartReturns \/ \E t \in Threads : StopReturns(t) \/ (~joinable /\ JoinThrows(t))

IoStep(c) ==
    \/ Erase(c) \/ Shut(c) \/ IoEnds(c)
    \/ \E s \in Sessions, o \in OpNames : ctx[s] = c /\ OpFails(s, o)

ServerNext ==
    \/ Start \/ StartReturns
    \/ \E t \in Threads : StopEarly(t) \/ Stop(t) \/ StopReturns(t) \/ JoinThrows(t)
    \/ ListenBegin \/ ListenEnd \/ Signal
    \/ Accept \/ CheckRoom \/ Refuse \/ Insert \/ Rearm \/ AcceptFails
    \/ \E s \in Sessions : PeerLeaves(s) \/ Answer(s) \/ WriteDone(s) \/ ReadCloses(s)
    \/ \E s \in Sessions, o \in OpNames : OpFails(s, o)
    \/ \E c \in Contexts : Erase(c) \/ Shut(c) \/ IoEnds(c)
    \/ Exit

ServerSpec == ServerInit /\ [][ServerNext]_serverVars

(* Fairness: the listening thread, the io threads and the joins go on.     *)
(* Nothing is assumed of the clients, of signals or of calls to stop.      *)
FairServerSpec ==
    /\ ServerSpec
    /\ WF_serverVars(Listen) /\ WF_serverVars(MainStep)
    /\ \A c \in Contexts : WF_serverVars(IoStep(c))

-----------------------------------------------------------------------------
(* Type invariant.                                                         *)
ServerTypeOK ==
    /\ pc \in [Threads -> {"idle", "startjoin", "returned", "stopjoin", "done", "threw"}]
    /\ running \in BOOLEAN /\ iocStopped \in BOOLEAN /\ joinable \in BOOLEAN
    /\ listen \in {"none", "begin", "loop", "check", "insert", "rearm", "ended"}
    /\ cur \in Sessions \cup {None} /\ armed \in Sessions \cup {None}
    /\ made \in 0..MaxConn
    /\ nextCtx \in Contexts /\ ctx \in [Sessions -> Contexts]
    /\ sockets \in SUBSET Sessions /\ registered \in SUBSET Sessions
    /\ early \in SUBSET Sessions
    /\ peer \in [Sessions -> {"away", "here", "gone"}]
    /\ ops \in [Sessions -> SUBSET OpNames]
    /\ io \in [Contexts -> {"idle", "erase", "shut", "ended"}]
    /\ closing \in [Contexts -> Sessions \cup {None}]
    /\ exiting \in BOOLEAN

(* The table never holds more than m_maxSessions sessions, although it is  *)
(* measured in one step and grows in another.                              *)
Capacity == Cardinality(registered) <= MaxSessions

(* A session that occupies a slot has an open socket, unless it was closed *)
(* between its first read and its registration: such a session stays.      *)
SlotInv == \A s \in registered : s \in sockets \/ s \in early

(* The slot of a client that has gone becomes free.                        *)
SlotFreed ==
    \A s \in Sessions :
        (s \in registered /\ peer[s] = "gone") ~> (s \notin registered \/ s \in early)

(* Once stop (or a signal) has taken effect the listening thread ends, and *)
(* nobody is left waiting for it, even if two threads join it.             *)
Stops ==
    iocStopped ~> (listen = "ended" /\ \A t \in Threads : pc[t] \notin {"startjoin", "stopjoin"})

(* The program ends unless a client stays connected.                       *)
Exits ==
    exiting ~> (\/ \A c \in Contexts : io[c] = "ended"
                \/ \E s \in sockets : peer[s] = "here")
=============================================================================
