----------------------------- MODULE RpcClient -----------------------------
(***************************************************************************)
(* NBRaft/rpcclient.{h,cpp} with the stubs of rpcclientstub.cpp that call  *)
(* it and the connection of baseclient.cpp below it: one client object.    *)
(*                                                                         *)
(* Calls are numbered in the order they are begun.  A call number also     *)
(* names the CallRecord the call creates and the response the server makes *)
(* for it, so that a response in the wrong record is visible; on the wire  *)
(* there is only the call's id.                                            *)
(*                                                                         *)
(* The callers are the threads inside rpcReturnCall and the workers of     *)
(* SimpleThreadPool that run the body of asyncRpcReturnCall.  A call       *)
(* registers, sleeps for the whole timeout and then looks at its record.   *)
(* The io thread runs onDataReady, and with it the user's callback, while  *)
(* it holds m_mutex.  RpcClientOnceStub uses a client of its own for one   *)
(* call: connect, call, sleep, disconnect, look.                           *)
(*                                                                         *)
(* The server is the environment: it answers a request at most once, in    *)
(* any order, and the wire may lose messages (a full send queue, a dropped *)
(* connection, a response the client cannot parse).                        *)
(***************************************************************************)
EXTENDS Integers, FiniteSets

CONSTANTS Callers,   \* threads that call rpcReturnCall
          Workers,   \* threads of SimpleThreadPool
          Control,   \* the thread that connects and disconnects
          Ids,       \* ids the callers choose for their calls
          MaxCalls   \* bound: calls begun in a behaviour

ASSUME ClientAssumption ==
    /\ MaxCalls \in Nat \ {0}
    /\ Control \notin Callers \cup Workers
    /\ Callers \cap Workers = {}

Calls   == 1..MaxCalls
None    == 0                       \* no call, no record, no response
Users   == Callers \cup Workers    \* the threads that make calls
Threads == Users \cup {Control}

VARIABLES
    usage,      \* which stub uses the client: "stub" or "once"
    connected,  \* RpcClientStub::m_connected
    running,    \* BaseClient::m_running
    stopped,    \* m_ioc is stopped; nothing ever restarts it
    link,       \* the socket: "none", "up", "down" (the peer is gone) or
                \* "closed" (by the session)
    records,    \* m_callRecords: the record under each id
    resp,       \* CallRecord::response of each record
    io,         \* the io thread: "none", "idle", "got", "callback", "ended"
    ioReply,    \* the response it is handling
    ioRecord,   \* the record whose callback it is running
    jobs,       \* calls submitted to the pool that no worker has taken
    requests,   \* requests the server has not handled
    replies,    \* responses the client has not read
    pc,         \* where each thread is
    cur,        \* the call a thread is making
    rec,        \* the record getReturnCallRecord gave it
    begun,      \* how many calls have begun
    id,         \* the id the callers choose for each call
    outcome,    \* how each call ended
    ran,        \* history: how often the callback of each call has been run
    clearedIds, \* history: ids in use when clearCallRecords was called
    joined      \* history: disconnect has joined the io thread

conn  == <<connected, running, stopped, link, joined>>
table == <<records, clearedIds>>
ioVars == <<io, ioReply, ioRecord>>
wire  == <<requests, replies>>
calls == <<jobs, begun, id>>
vars  == <<usage, conn, table, resp, ioVars, wire, pc, cur, rec, calls,
           outcome, ran>>

Init ==
    /\ usage \in {"stub", "once"}
    /\ connected = FALSE /\ running = FALSE /\ stopped = FALSE
    /\ link = "none"
    /\ records = [i \in Ids |-> None]
    /\ resp = [c \in Calls |-> None]
    /\ io = "none" /\ ioReply = None /\ ioRecord = None
    /\ jobs = {} /\ requests = {} /\ replies = {}
    /\ pc = [t \in Threads |-> "idle"]
    /\ cur = [t \in Threads |-> None]
    /\ rec = [t \in Threads |-> None]
    /\ begun = 0
    /\ id \in [Calls -> Ids]
    /\ outcome = [c \in Calls |-> "none"]
    /\ ran = [c \in Calls |-> 0]
    /\ clearedIds = {}
    /\ joined = FALSE

Goto(t, place) == pc' = [pc EXCEPT ![t] = place]

(* m_mutex: the io thread keeps it while a callback runs; what the callers *)
(* do under it is one step.                                                *)
MutexIgnored == TRUE
MutexFree    == io # "callback"

-----------------------------------------------------------------------------
(* The connection.  Connecting a socket that has been connected and not    *)
(* closed is an error (disconnect does not close it); so is a server that  *)
(* is not there: nothing changes then.  On a stopped io_context the new io *)
(* thread ends at once.                                                    *)
StartedIo == IF stopped THEN "ended" ELSE "idle"

Connect(t) ==
    /\ pc[t] = "idle"
    /\ IF usage = "stub" THEN t = Control ELSE t \in Callers /\ begun = 0
    /\ ~connected
    /\ link \in {"none", "closed"}
    /\ link' = "up"
    /\ running' = TRUE
    /\ connected' = TRUE
    /\ io' = StartedIo
    /\ UNCHANGED <<usage, stopped, joined, table, resp, ioReply, ioRecord,
                   wire, pc, cur, rec, calls, outcome, ran>>

(* disconnect, first half: m_running, then m_ioc.stop().  With m_running   *)
(* false the whole function only resets m_connected.                       *)
Stop(t) ==
    /\ pc[t] = "stop"
    /\ running' = FALSE
    /\ stopped' = (stopped \/ running)
    /\ Goto(t, IF running THEN "join" ELSE "joined")
    /\ UNCHANGED <<usage, connected, link, joined, table, resp, ioVars,
                   wire, cur, rec, calls, outcome, ran>>

(* The join: the io thread finishes the handler it is in, then it ends.    *)
JoinNothing == UNCHANGED io
JoinIo      == io \in {"idle", "ended"} /\ io' = "ended"

Join(t) ==
    /\ pc[t] = "join"
    /\ JoinIo
    /\ joined' = TRUE
    /\ Goto(t, "joined")
    /\ UNCHANGED <<usage, connected, running, stopped, link, table, resp,
                   ioReply, ioRecord, wire, cur, rec, calls, outcome, ran>>

(* The rest of disconnect.  A Once call now reads its record.              *)
Joined(t) ==
    /\ pc[t] = "joined"
    /\ connected' = FALSE
    /\ Goto(t, IF t = Control THEN "idle" ELSE "fetch")
    /\ UNCHANGED <<usage, running, stopped, link, joined, table, resp,
                   ioVars, wire, cur, rec, calls, outcome, ran>>

Disconnect ==
    /\ usage = "stub"
    /\ pc[Control] = "idle"
    /\ connected
    /\ Goto(Control, "stop")
    /\ UNCHANGED <<usage, conn, table, resp, ioVars, wire, cur, rec, calls,
                   outcome, ran>>

(* The peer goes away; what is on the wire may or may not arrive.          *)
PeerDrop ==
    /\ link = "up"
    /\ link' = "down"
    /\ requests' = {}
    /\ replies' \in SUBSET replies
    /\ UNCHANGED <<usage, connected, running, stopped, joined, table, resp,
                   ioVars, pc, cur, rec, calls, outcome, ran>>

(* The read fails, the session closes the socket, and the io thread has    *)
(* nothing left to wait for: m_ioc.run() returns.  Nobody is told.         *)
IoSeesDrop ==
    /\ io = "idle" /\ ~stopped
    /\ link = "down" /\ replies = {}
    /\ io' = "ended"
    /\ stopped' = TRUE
    /\ link' = "closed"
    /\ UNCHANGED <<usage, connected, running, joined, table, resp,
                   ioReply, ioRecord, wire, pc, cur, rec, calls, outcome, ran>>

-----------------------------------------------------------------------------
(* A call begins: the stub looks at m_connected.  An asynchronous one goes *)
(* to the pool.  (Without a connection both return an empty record.)       *)
NewCall ==
    /\ connected
    /\ begun < IF usage = "stub" THEN MaxCalls ELSE 1
    /\ begun' = begun + 1
    /\ outcome' = [outcome EXCEPT ![begun + 1] = "pending"]
    /\ UNCHANGED <<usage, conn, table, resp, ioVars, wire, rec, id, ran>>

BeginCall(t) ==
    /\ t \in Callers
    /\ pc[t] = "idle"
    /\ NewCall
    /\ cur' = [cur EXCEPT ![t] = begun + 1]
    /\ Goto(t, "register")
    /\ UNCHANGED jobs

SubmitCall(t) ==
    /\ t \in Callers
    /\ pc[t] = "idle"
    /\ NewCall
    /\ jobs' = jobs \cup {begun + 1}
    /\ UNCHANGED <<pc, cur>>

TakeJob(t) ==
    /\ t \in Workers
    /\ pc[t] = "idle"
    /\ \E c \in jobs : jobs' = jobs \ {c} /\ cur' = [cur EXCEPT ![t] = c]
    /\ Goto(t, "register")
    /\ UNCHANGED <<usage, conn, table, resp, ioVars, wire, rec, begun, id, outcome, ran>>

(* The call returns.                                                       *)
Return(t, how) ==
    /\ outcome' = [outcome EXCEPT ![cur[t]] = how]
    /\ cur' = [cur EXCEPT ![t] = None]
    /\ rec' = [rec EXCEPT ![t] = None]
    /\ Goto(t, "idle")

(* callReturnProcedure: an id in use is refused.                           *)
IdUnchecked(i) == TRUE
IdFree(i)      == records[i] = None

Refuse(t) ==
    /\ pc[t] = "register"
    /\ MutexFree
    /\ ~IdFree(id[cur[t]])
    /\ Return(t, "refused")
    /\ UNCHANGED <<usage, conn, table, resp, ioVars, wire, calls, ran>>

(* Otherwise record, then send; send does nothing when m_running is false, *)
(* and the session may drop what it is given.                              *)
Register(t) ==
    /\ pc[t] = "register"
    /\ MutexFree
    /\ IdFree(id[cur[t]])
    /\ records' = [records EXCEPT ![id[cur[t]]] = cur[t]]
    /\ \/ running /\ link = "up" /\ requests' = requests \cup {cur[t]}
       \/ UNCHANGED requests
    /\ Goto(t, "sleep")
    /\ UNCHANGED <<usage, conn, clearedIds, resp, ioVars, replies, cur, rec, calls,
                   outcome, ran>>

(* The timeout is over.  A Once call disconnects before it looks.          *)
Wake(t) ==
    /\ pc[t] = "sleep"
    /\ Goto(t, IF usage = "once" THEN "stop" ELSE "fetch")
    /\ UNCHANGED <<usage, conn, table, resp, ioVars, wire, cur, rec, calls, outcome, ran>>

(* getReturnCallRecord: what is under the id, or a new empty record.  A    *)
(* Once call returns it as it is.                                          *)
Fetch(t) ==
    /\ usage = "stub"
    /\ pc[t] = "fetch"
    /\ MutexFree
    /\ rec' = [rec EXCEPT ![t] = records[id[cur[t]]]]
    /\ Goto(t, "check")
    /\ UNCHANGED <<usage, conn, table, resp, ioVars, wire, cur, calls, outcome, ran>>

FetchOnce(t) ==
    /\ usage = "once"
    /\ pc[t] = "fetch"
    /\ MutexFree
    /\ Return(t, "looked")
    /\ UNCHANGED <<usage, conn, table, resp, ioVars, wire, calls, ran>>

(* isError and isDone are read without the mutex.  A record that has no    *)
(* response yet stays in the table.                                        *)
SomeRecord(t)  == rec[t] # None
HasResponse(t) == rec[t] # None /\ resp[rec[t]] # None

SeeDone(t) ==
    /\ pc[t] = "check"
    /\ HasResponse(t)
    /\ Goto(t, "remove")
    /\ UNCHANGED <<usage, conn, table, resp, ioVars, wire, cur, rec, calls, outcome, ran>>

GiveUp(t) ==
    /\ pc[t] = "check"
    /\ ~HasResponse(t)
    /\ Return(t, "timeout")
    /\ UNCHANGED <<usage, conn, table, resp, ioVars, wire, calls, ran>>

Remove(t) ==
    /\ pc[t] = "remove"
    /\ MutexFree
    /\ records' = [records EXCEPT ![id[cur[t]]] = None]
    /\ Return(t, "done")
    /\ UNCHANGED <<usage, conn, clearedIds, resp, ioVars, wire, calls, ran>>

(* clearCallRecords.                                                       *)
Clear ==
    /\ usage = "stub"
    /\ MutexFree
    /\ clearedIds' = clearedIds \cup {i \in Ids : records[i] # None}
    /\ records' = [i \in Ids |-> None]
    /\ UNCHANGED <<usage, conn, resp, ioVars, wire, pc, cur, rec, calls, outcome, ran>>

-----------------------------------------------------------------------------
(* The server handles a request; its answer may never arrive.              *)
Answer ==
    /\ link = "up"
    /\ \E c \in requests :
         /\ requests' = requests \ {c}
         /\ replies' \in {replies, replies \cup {c}}
    /\ UNCHANGED <<usage, conn, table, resp, ioVars, pc, cur, rec, calls, outcome, ran>>

(* The io thread reads a response and enters onDataReady ...               *)
IoRead ==
    /\ io = "idle" /\ ~stopped
    /\ \E c \in replies :
         /\ replies' = replies \ {c}
         /\ ioReply' = c
    /\ io' = "got"
    /\ UNCHANGED <<usage, conn, table, resp, ioRecord, requests, pc, cur, rec, calls,
                   outcome, ran>>

(* ... drops it when no record has its id ...                              *)
FindUnchecked(i) == TRUE
Found(i)         == records[i] # None

IoDrop ==
    /\ io = "got"
    /\ ~Found(id[ioReply])
    /\ io' = "idle" /\ ioReply' = None /\ ioRecord' = None
    /\ UNCHANGED <<usage, conn, table, resp, wire, pc, cur, rec, calls, outcome, ran>>

(* ... or stores it in the record and runs the callback, mutex held ...    *)
IoStore ==
    /\ io = "got"
    /\ Found(id[ioReply])
    /\ LET r == records[id[ioReply]]
       IN  /\ resp' = [resp EXCEPT ![r] = ioReply]
           /\ ioRecord' = r
           /\ ran' = [ran EXCEPT ![r] = @ + 1]
    /\ io' = "callback"
    /\ UNCHANGED <<usage, conn, table, ioReply, wire, pc, cur, rec, calls, outcome>>

(* ... until the callback returns.                                         *)
NeverReturns == FALSE
CallbackOver == io = "callback"

IoDone ==
    /\ CallbackOver
    /\ io' = "idle" /\ ioReply' = None /\ ioRecord' = None
    /\ UNCHANGED <<usage, conn, table, resp, wire, pc, cur, rec, calls, outcome, ran>>

-----------------------------------------------------------------------------
Step(t) ==
    \/ Stop(t) \/ Join(t) \/ Joined(t)
    \/ Wake(t) \/ SeeDone(t) \/ GiveUp(t)

Locked(t) == Refuse(t) \/ Register(t) \/ Fetch(t) \/ FetchOnce(t) \/ Remove(t)

IoStep == IoDrop \/ IoStore \/ IoDone

Next ==
    \/ \E t \in Threads : Connect(t) \/ Stop(t) \/ Join(t) \/ Joined(t)
    \/ \E t \in Users : BeginCall(t) \/ SubmitCall(t)
    \/ \E t \in Users : TakeJob(t) \/ Refuse(t) \/ Register(t) \/ Wake(t)
                          \/ Fetch(t) \/ FetchOnce(t)
                          \/ SeeDone(t) \/ GiveUp(t) \/ Remove(t)
    \/ Disconnect \/ PeerDrop \/ Clear \/ Answer
    \/ IoSeesDrop \/ IoRead \/ IoDrop \/ IoStore \/ IoDone

Spec == Init /\ [][Next]_vars

(***************************************************************************)
(* Fairness: threads run, sleeps end, callbacks return, workers take jobs, *)
(* and whoever wants the mutex gets it in the end.  Nothing is assumed of  *)
(* the server or of the wire.                                              *)
(***************************************************************************)
FairSpec ==
    /\ Spec
    /\ WF_vars(IoStep)
    /\ \A t \in Threads : WF_vars(Step(t))
    /\ \A t \in Users : WF_vars(TakeJob(t)) /\ SF_vars(Locked(t))

-----------------------------------------------------------------------------
PcNames == {"idle", "register", "sleep", "fetch", "check", "remove", "stop",
            "join", "joined"}

(* Type invariant, in three parts.                                         *)
NetTypes ==
    /\ usage \in {"stub", "once"}
    /\ connected \in BOOLEAN /\ running \in BOOLEAN /\ stopped \in BOOLEAN
    /\ joined \in BOOLEAN
    /\ link \in {"none", "up", "down", "closed"}
    /\ io \in {"none", "idle", "got", "callback", "ended"}
    /\ ioReply \in Calls \cup {None} /\ ioRecord \in Calls \cup {None}
    /\ io \in {"got", "callback"} => ioReply \in Calls
    /\ io = "callback" => ioRecord \in Calls
    /\ requests \in SUBSET Calls /\ replies \in SUBSET Calls

TableTypes ==
    /\ records \in [Ids -> Calls \cup {None}]
    /\ resp \in [Calls -> Calls \cup {None}]
    /\ ran \in [Calls -> Nat]
    /\ id \in [Calls -> Ids]
    /\ clearedIds \in SUBSET Ids

CallTypes ==
    /\ jobs \in SUBSET Calls
    /\ pc \in [Threads -> PcNames]
    /\ cur \in [Threads -> Calls \cup {None}]
    /\ \A t \in Users : pc[t] # "idle" => cur[t] \in Calls
    /\ rec \in [Threads -> Calls \cup {None}]
    /\ begun \in 0..MaxCalls
    /\ outcome \in [Calls -> {"none", "pending", "refused", "timeout", "done", "looked"}]

TypeOK == NetTypes /\ TableTypes /\ CallTypes

(* A response reaches the record of the call it answers and no other, and  *)
(* a callback runs at most once, although on the wire there is only the id *)
(* and callers reuse ids: the record of a call that timed out stays in the *)
(* table, so that its id is refused while the answer may still come.  Only *)
(* clearCallRecords with a call outstanding breaks this for that id.       *)
Own(c) ==
    /\ resp[c] \in {None, c}
    /\ ran[c] = IF resp[c] = None THEN 0 ELSE 1

ResponseMatchesCall == \A c \in Calls : id[c] \notin clearedIds => Own(c)

(* A call that found its response and removed its record returns after its *)
(* callback has finished, though it tests the record without the mutex.    *)
DoneAfterCallback ==
    \A c \in Calls :
        outcome[c] = "done" /\ id[c] \notin clearedIds =>
            ran[c] = 1 /\ ~(io = "callback" /\ ioRecord = c)

(* Once disconnect has returned no record changes and no callback runs any *)
(* more, even after another connect, so what a Once call returned is final.*)
QuietAfterDisconnect == [][joined => UNCHANGED <<resp, ran>>]_vars

(* Every call returns, also those submitted to a pool whose workers sleep  *)
(* through the timeouts of other calls.                                    *)
EveryCallReturns == \A c \in Calls : (outcome[c] = "pending") ~> (outcome[c] # "pending")

(* disconnect returns, also when it meets a callback.                      *)
DisconnectReturns == (pc[Control] # "idle") ~> (pc[Control] = "idle")
=============================================================================
