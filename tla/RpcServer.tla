----------------------------- MODULE RpcServer -----------------------------
(***************************************************************************)
(* NBRaft/rpcserver.{h,cpp} with rpcservice, rpcprocedure and the stub of  *)
(* rpcserverstub.cpp: procedures are registered, the server runs, an io    *)
(* thread parses what a session has read and submits it to the             *)
(* StealThreadPool, a worker validates it and calls the procedure, and     *)
(* what the procedure passes to done goes back on the same session.        *)
(*                                                                         *)
(* What a thrown exception does depends on the thread.  onDataReady        *)
(* catches RpcException and sends its text; any other leaves it, and the   *)
(* session that called it closes (Session::handleBodyRead); in a worker    *)
(* the exception ends in the future of the task, which nobody keeps.       *)
(*                                                                         *)
(* Sessions are those of Session: messages arrive in order, and send on a  *)
(* closed one does nothing.  The pool is Executor: submitted tasks start   *)
(* once, in any order.  Requests are numbered; the number is also the term *)
(* in their parameters and comes back in the result, so that answers that  *)
(* were mixed up can be told apart.                                        *)
(***************************************************************************)
EXTENDS RaftMessages, Sequences, FiniteSets

CONSTANTS Clients,   \* one session each
          Methods,   \* names that may be registered
          MaxCalls,  \* bound: messages sent by clients
          Texts,     \* Texts[n]: what message n may be
          ParamsOf   \* ParamsOf[m]: the parameter types m is registered with

Calls == 1..MaxCalls

ASSUME RpcServerAssumption ==
    /\ MaxCalls \in Nat
    /\ DOMAIN Texts = Calls /\ DOMAIN ParamsOf = Methods
    /\ \A n \in Calls : \A x \in Texts[n] : x.form \in {"json", "value", "text"}

(* The term in the parameters of a request is its number.                  *)
ASSUME Numbered ==
    \A n \in Calls : \A x \in Texts[n] :
        IsRequest(x) => "term" \in DOMAIN x.value.params /\ x.value.params.term.number = n

VARIABLES
    running,   \* the server has been started
    returns,   \* m_procedureReturn: the methods registered
    notifies,  \* m_procedureNotfiy
    sent,      \* the messages sent so far: what, and by whom
    inbox,     \* numbers of the messages each session has not handled
    tasks,     \* numbers of the requests submitted to the pool
    busy,      \* numbers of the requests whose procedure has not called done
    outbox,    \* what has been sent on each session
    open,      \* whether each session is open
    fate,      \* history: what became of each message
    ran        \* history: how often a procedure was called for it

vars == <<running, returns, notifies, sent, inbox, tasks, busy, outbox, open, fate, ran>>

Init ==
    /\ running = FALSE
    /\ returns = {} /\ notifies = {}
    /\ sent = <<>>
    /\ inbox = [c \in Clients |-> <<>>]
    /\ tasks = {} /\ busy = {}
    /\ outbox = [c \in Clients |-> <<>>]
    /\ open = [c \in Clients |-> TRUE]
    /\ fate = [n \in Calls |-> "none"]
    /\ ran = [n \in Calls |-> 0]

Request(n) == sent[n].text.value
Sender(n)  == sent[n].client
Settle(n, what) == fate' = [fate EXCEPT ![n] = what]

-----------------------------------------------------------------------------
(* registReturn and registNotify come before run: the two maps have no     *)
(* lock.  A name may be in both maps, but only once in each (assert).      *)
RegistReturn(m) ==
    /\ ~running
    /\ m \notin returns
    /\ returns' = returns \cup {m}
    /\ UNCHANGED <<running, notifies, sent, inbox, tasks, busy, outbox, open, fate, ran>>

RegistNotify(m) ==
    /\ ~running
    /\ m \notin notifies
    /\ notifies' = notifies \cup {m}
    /\ UNCHANGED <<running, returns, sent, inbox, tasks, busy, outbox, open, fate, ran>>

Run ==
    /\ ~running
    /\ running' = TRUE
    /\ UNCHANGED <<returns, notifies, sent, inbox, tasks, busy, outbox, open, fate, ran>>

-----------------------------------------------------------------------------
(* The clients, and connections that are lost.                             *)
Send(c, x) ==
    /\ running /\ open[c]
    /\ Len(sent) < MaxCalls /\ x \in Texts[Len(sent) + 1]
    /\ sent' = Append(sent, [client |-> c, text |-> x])
    /\ inbox' = [inbox EXCEPT ![c] = Append(@, Len(sent) + 1)]
    /\ UNCHANGED <<running, returns, notifies, tasks, busy, outbox, open, fate, ran>>

CloseSession(c) ==
    /\ open' = [open EXCEPT ![c] = FALSE]
    /\ inbox' = [inbox EXCEPT ![c] = <<>>]

Close(c) ==
    /\ open[c]
    /\ CloseSession(c)
    /\ UNCHANGED <<running, returns, notifies, sent, tasks, busy, outbox, fate, ran>>

-----------------------------------------------------------------------------
(* Session::send, for a message of this server.                            *)
SendOn(c, message) ==
    outbox' = [outbox EXCEPT ![c] = IF open[c] THEN Append(@, message) ELSE @]

(* onDataReady, in the session's io thread.                                *)
Reject(c, n) ==
    /\ SendOn(c, Text(CreateFromInt(ToInt("ParseError"))))
    /\ Settle(n, "refused")
    /\ UNCHANGED tasks

DispatchCalls(n) ==
    /\ tasks' = IF IsReturnCall(Request(n)) THEN tasks \cup {n} ELSE tasks
    /\ UNCHANGED <<outbox, fate>>

Dispatch(n) ==
    /\ IsReturnCall(Request(n)) \/ IsNotification(Request(n))
    /\ tasks' = tasks \cup {n}
    /\ UNCHANGED <<outbox, fate>>

Parsed(c, n) ==
    /\ ~ParseThrows(sent[n].text)
    /\ IF IsRequest(sent[n].text) THEN Dispatch(n) ELSE Reject(c, n)
    /\ inbox' = [inbox EXCEPT ![c] = Tail(@)]
    /\ UNCHANGED open

(* What the session had still to read is lost with it.                     *)
NotParsed(c, n) ==
    /\ ParseThrows(sent[n].text)
    /\ CloseSession(c)
    /\ Settle(n, "closed")
    /\ UNCHANGED <<tasks, outbox>>

OnDataReady(c) ==
    /\ inbox[c] # <<>>
    /\ Parsed(c, Head(inbox[c])) \/ NotParsed(c, Head(inbox[c]))
    /\ UNCHANGED <<running, returns, notifies, sent, busy, ran>>

-----------------------------------------------------------------------------
(* The tasks.  callProcedureReturn and callProcedureNotify look the method *)
(* up in their own map and validate the parameters.                        *)
Procedures(n) == IF IsReturnCall(Request(n)) THEN returns ELSE notifies

Valid(n) ==
    LET m == GetMethod(Request(n))
    IN  m \in Procedures(n) /\ ValidateGeneric(ParamsOf[m], Request(n))

(* MethodNotFound or InvalidParams: nothing is sent.                       *)
Throw(n) ==
    /\ n \in tasks /\ ~Valid(n)
    /\ tasks' = tasks \ {n}
    /\ Settle(n, "dropped")
    /\ UNCHANGED <<running, returns, notifies, sent, inbox, busy, outbox, open, ran>>

CallReturn(n) ==
    /\ n \in tasks /\ IsReturnCall(Request(n)) /\ Valid(n)
    /\ tasks' = tasks \ {n}
    /\ busy' = busy \cup {n}
    /\ ran' = [ran EXCEPT ![n] = @ + 1]
    /\ UNCHANGED <<running, returns, notifies, sent, inbox, outbox, open, fate>>

CallNotify(n) ==
    /\ n \in tasks /\ IsNotification(Request(n)) /\ Valid(n)
    /\ tasks' = tasks \ {n}
    /\ ran' = [ran EXCEPT ![n] = @ + 1]
    /\ Settle(n, "notified")
    /\ UNCHANGED <<running, returns, notifies, sent, inbox, busy, outbox, open>>

(* The procedure reads its arguments and passes a response for its request *)
(* to done, once; or it throws.                                            *)
VoteReply(r) ==
    LET args == FromJson(RequestVoteArgs, r.params)
    IN  ToJson(RequestVoteReply, [Default(RequestVoteReply) EXCEPT !.term = args.term])

EntriesReply(r) ==
    LET args == FromJson(AppendEntriesArgs, r.params)
    IN  ToJson(AppendEntriesReply, [Default(AppendEntriesReply) EXCEPT !.term = args.term])

Reply(r) == IF ParamsOf[GetMethod(r)] = AppendEntriesArgsMap THEN EntriesReply(r) ELSE VoteReply(r)

LastSender(n) == sent[Len(sent)].client
ReplyTo(n)    == Sender(n)

Done(n) ==
    /\ n \in busy
    /\ busy' = busy \ {n}
    /\ SendOn(ReplyTo(n), Document(CreateResponseFromRequest(Request(n), Reply(Request(n)))))
    /\ Settle(n, IF open[Sender(n)] THEN "answered" ELSE "lost")
    /\ UNCHANGED <<running, returns, notifies, sent, inbox, tasks, open, ran>>

Fail(n) ==
    /\ n \in busy
    /\ busy' = busy \ {n}
    /\ Settle(n, "failed")
    /\ UNCHANGED <<running, returns, notifies, sent, inbox, tasks, outbox, open, ran>>

-----------------------------------------------------------------------------
Next ==
    \/ \E m \in Methods : RegistReturn(m) \/ RegistNotify(m)
    \/ Run
    \/ \E c \in Clients : Close(c) \/ OnDataReady(c) \/ \E n \in Calls : \E x \in Texts[n] : Send(c, x)
    \/ \E n \in Calls : Throw(n) \/ CallReturn(n) \/ CallNotify(n) \/ Done(n) \/ Fail(n)

Spec == Init /\ [][Next]_vars

(* Fairness: the io threads and the workers run as long as there is a      *)
(* message to handle or a task to work on, and a procedure that is called  *)
(* calls done or throws.  No client need send or stay.                     *)
FairSpec ==
    /\ Spec
    /\ WF_vars(\E c \in Clients : OnDataReady(c))
    /\ WF_vars(\E n \in Calls : Throw(n) \/ CallReturn(n) \/ CallNotify(n) \/ Done(n) \/ Fail(n))

-----------------------------------------------------------------------------
(* Type invariant.                                                         *)
Fates == {"none", "refused", "closed", "dropped", "notified", "answered", "lost", "failed"}

TypeOK ==
    /\ running \in BOOLEAN
    /\ returns \subseteq Methods /\ notifies \subseteq Methods
    /\ Len(sent) <= MaxCalls
    /\ \A n \in DOMAIN sent : Sender(n) \in Clients /\ sent[n].text \in Texts[n]
    /\ inbox \in [Clients -> Seq(DOMAIN sent)]
    /\ tasks \subseteq DOMAIN sent /\ busy \subseteq DOMAIN sent
    /\ open \in [Clients -> BOOLEAN]
    /\ fate \in [Calls -> Fates] /\ ran \in [Calls -> 0..1]

(* Every answer is the answer to one request: what a client accepts as a   *)
(* response carries the id and the result of a call this very client made, *)
(* whose procedure ran once, and no call is answered twice.  No            *)
(* notification is answered, and the text sent for an error is never taken *)
(* for a response.                                                         *)
Answers(c, i, n) ==
    LET s == outbox[c][i].value
    IN  s.id = GetId(Request(n)) /\ s.result.term.number = Request(n).params.term.number

AnswersMatch ==
    \A c \in Clients :
        /\ \A i \in DOMAIN outbox[c] :
             IF IsResponse(outbox[c][i])
             THEN \E n \in DOMAIN sent :
                    /\ Sender(n) = c /\ fate[n] = "answered" /\ ran[n] = 1
                    /\ IsReturnCall(Request(n)) /\ Answers(c, i, n)
                    /\ \A j \in DOMAIN outbox[c] :
                         (IsResponse(outbox[c][j]) /\ Answers(c, j, n)) => i = j
             ELSE \E n \in DOMAIN sent : Sender(n) = c /\ fate[n] = "refused"
        /\ Len(outbox[c]) =
             Cardinality({n \in DOMAIN sent : Sender(n) = c /\ fate[n] \in {"answered", "refused"}})

(* What a message leads to, from its content and the procedures alone.     *)
WellFormed(r) == \A m \in DOMAIN RequestTypes : m \in DOMAIN r.type /\ r.type[m] = RequestTypes[m]

WellTyped(r) ==
    LET types == ParamsOf[r.method]
    IN  DOMAIN r.params \subseteq {k \in DOMAIN types : k \in DOMAIN r.params => r.params[k].type = types[k]}

NoObject(x) == x.form = "text" \/ (x.form = "value" /\ x.type = "nullValue")

FatesOf(n) ==
    IF NoObject(sent[n].text) THEN {"refused"}
    ELSE IF sent[n].text.form = "value" THEN {"closed"}
    ELSE IF ~WellFormed(Request(n)) THEN {"refused"}
    ELSE LET r == Request(n)
         IN  IF "id" \in DOMAIN r.type
             THEN IF r.method \in returns /\ WellTyped(r) THEN {"answered", "lost", "failed"} ELSE {"dropped"}
             ELSE IF r.method \in notifies /\ WellTyped(r) THEN {"notified"} ELSE {"dropped"}

(* A message has the fate its content calls for, whatever else is being    *)
(* handled: a call for an unknown method or with a parameter of a wrong    *)
(* type, and a notification whose request was made with an id, is dropped  *)
(* without a word to the caller; a parameter that is missing is no reason. *)
(* Only text and documents that are no request are refused with an error:  *)
(* an array or a number ends the session.                                  *)
FateFits == \A n \in Calls : fate[n] # "none" => fate[n] \in FatesOf(n)

(* Every message comes to its end, also while other procedures take their  *)
(* time, unless its session closes before it is read.                      *)
Settled ==
    \A n \in Calls :
        (n \in DOMAIN sent) ~> (fate[n] # "none" \/ (n \in DOMAIN sent /\ ~open[Sender(n)]))
=============================================================================
