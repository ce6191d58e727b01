------------------------------ MODULE Session ------------------------------
(***************************************************************************)
(* NBRaft/session.cpp and packet.cpp: two Session objects at the ends of   *)
(* one connection, and the messages that go from one to the other.  The    *)
(* other direction is the same code with the ends exchanged; only the      *)
(* closing of either end is shared by both.                                *)
(*                                                                         *)
(* send may be called by any thread and is one step (m_sendMutex); the     *)
(* handlers of an end run one at a time on its io thread.  A write that    *)
(* has been started, one that has completed and its handler are three      *)
(* things: the handler runs some time after the completion.                *)
(***************************************************************************)
EXTENDS Integers, Sequences, FiniteSets

CONSTANTS Messages,       \* the messages that may be sent, each once
          Length,         \* Length[m]: the length given to send
          MaxPending,     \* MAX_SESSION_SEND_QUEUE_PENDING_SIZE
          PacketMaxSize,  \* Packet::PACKET_MAX_SIZE
          SizeLimit,      \* 2^16: Packet::SizeType is an unsigned short
          Nil             \* no message

ASSUME SessionAssumption ==
    /\ Length \in [Messages -> Nat]
    /\ MaxPending \in Nat \ {0}
    /\ SizeLimit \in Nat \ {0}
    /\ PacketMaxSize \in Nat
    /\ Nil \notin Messages

VARIABLES
    open,       \* is the socket of each end open
    sendQueue,  \* m_sendQueue of the sending end
    writing,    \* messages given to async_write that has not completed
    completed,  \* completions whose handler has not run: <<message, ok>>
    net,        \* packets written and not read
    reading,    \* what the receiving end has asked for: "head" or "body"
    bodyOf,     \* m_recvPacket: the message whose body is being read
    calls,      \* messages send has been called with
    accepted,   \* history: messages put in the queue, in order
    delivered   \* history: messages given to onDataReady, with their size

sender == <<sendQueue, writing, completed>>
reader == <<reading, bodyOf>>
vars   == <<open, sender, net, reader, calls, accepted, delivered>>

Ends == {"sender", "receiver"}

Init ==
    /\ open = [e \in Ends |-> TRUE]
    /\ sendQueue = <<>> /\ writing = {} /\ completed = {}
    /\ net = <<>>
    /\ reading = "head" /\ bodyOf = Nil
    /\ calls = {} /\ accepted = <<>> /\ delivered = <<>>

(* async_write of the packet at the front of a queue.                      *)
StartNothing(q) == UNCHANGED writing
StartWrite(q)   == writing' = writing \cup {Head(q)}

-----------------------------------------------------------------------------
(* send with a full queue: the message is dropped and nobody is told.      *)
BoundIgnored == FALSE
QueueFull    == Len(sendQueue) >= MaxPending

SendDropped(m) ==
    /\ m \notin calls
    /\ QueueFull
    /\ calls' = calls \cup {m}
    /\ UNCHANGED <<open, sender, net, reader, accepted, delivered>>

(* send: only the first message of a queue starts a write; the handler of  *)
(* each write starts the next.                                             *)
AlwaysStarts == TRUE
NonePending  == sendQueue = <<>>

Send(m) ==
    /\ m \notin calls
    /\ ~QueueFull
    /\ calls' = calls \cup {m}
    /\ sendQueue' = Append(sendQueue, m)
    /\ accepted' = Append(accepted, m)
    /\ IF NonePending THEN writing' = writing \cup {m} ELSE UNCHANGED writing
    /\ UNCHANGED <<open, completed, net, reader, delivered>>

(* A started write goes out while the socket is open, or fails when either *)
(* end is closed.                                                          *)
WriteOk(m) ==
    /\ m \in writing
    /\ open["sender"]
    /\ writing' = writing \ {m}
    /\ completed' = completed \cup {<<m, TRUE>>}
    /\ net' = IF open["receiver"] THEN Append(net, m) ELSE net
    /\ UNCHANGED <<open, sendQueue, reader, calls, accepted, delivered>>

WriteFails(m) ==
    /\ m \in writing
    /\ ~open["sender"] \/ ~open["receiver"]
    /\ writing' = writing \ {m}
    /\ completed' = completed \cup {<<m, FALSE>>}
    /\ UNCHANGED <<open, sendQueue, net, reader, calls, accepted, delivered>>

(* handleWrite after success: pop, and write the next one.                 *)
WriteHandled(m) ==
    /\ <<m, TRUE>> \in completed
    /\ completed' = completed \ {<<m, TRUE>>}
    /\ sendQueue' = Tail(sendQueue)
    /\ IF sendQueue' # <<>> THEN StartWrite(sendQueue') ELSE UNCHANGED writing
    /\ UNCHANGED <<open, net, reader, calls, accepted, delivered>>

(* close: the socket.  What it had sent may still arrive, or only some;    *)
(* what was sent to it is lost.                                            *)
CloseEnd(e) ==
    /\ open' = [open EXCEPT ![e] = FALSE]
    /\ IF e = "sender"
       THEN \E n \in 0..Len(net) : net' = SubSeq(net, 1, n)
       ELSE net' = <<>>

(* handleWrite after a failure: close.  The queue keeps its packets.       *)
WriteErrorHandled(m) ==
    /\ <<m, FALSE>> \in completed
    /\ completed' = completed \ {<<m, FALSE>>}
    /\ CloseEnd("sender")
    /\ UNCHANGED <<sendQueue, writing, reader, calls, accepted, delivered>>

-----------------------------------------------------------------------------
(* handleHeadRead: the size in the header is the length modulo 2^16.       *)
Size(m) == Length[m] % SizeLimit

HeadRead ==
    /\ open["receiver"] /\ reading = "head" /\ net # <<>>
    /\ Size(Head(net)) <= PacketMaxSize
    /\ reading' = "body"
    /\ bodyOf' = Head(net)
    /\ UNCHANGED <<open, sender, net, calls, accepted, delivered>>

HeadTooLarge ==
    /\ open["receiver"] /\ reading = "head" /\ net # <<>>
    /\ Size(Head(net)) > PacketMaxSize
    /\ CloseEnd("receiver")
    /\ UNCHANGED <<sender, reader, calls, accepted, delivered>>

(* handleBodyRead: a copy goes to the handlers, then the next header.      *)
StaleBody(m) == [msg |-> IF delivered = <<>> THEN m ELSE delivered[1].msg, size |-> Size(m)]
CopyOf(m)    == [msg |-> m, size |-> Size(m)]

BodyRead ==
    /\ open["receiver"] /\ reading = "body" /\ net # <<>>
    /\ delivered' = Append(delivered, CopyOf(bodyOf))
    /\ net' = Tail(net)
    /\ reading' = "head" /\ bodyOf' = Nil
    /\ UNCHANGED <<open, sender, calls, accepted>>

(* A handler throws: the session closes.                                   *)
HandlerThrows ==
    /\ open["receiver"] /\ reading = "body" /\ net # <<>>
    /\ delivered' = Append(delivered, CopyOf(bodyOf))
    /\ CloseEnd("receiver")
    /\ UNCHANGED <<sender, reader, calls, accepted>>

(* What an end that ignores a failed read would do.                        *)
KeepReading(e) == FALSE

(* The pending read of an end fails when the other end is gone.            *)
ReadError(e) ==
    /\ open[e]
    /\ \E f \in Ends \ {e} : ~open[f]
    /\ e = "receiver" => net = <<>>
    /\ CloseEnd(e)
    /\ UNCHANGED <<sender, reader, calls, accepted, delivered>>

(* Either program closes its end for reasons of its own.                   *)
LocalClose(e) ==
    /\ open[e]
    /\ CloseEnd(e)
    /\ UNCHANGED <<sender, reader, calls, accepted, delivered>>

-----------------------------------------------------------------------------
Io ==
    \/ \E m \in Messages :
         WriteOk(m) \/ WriteFails(m) \/ WriteHandled(m) \/ WriteErrorHandled(m)
    \/ \E e \in Ends : ReadError(e)

Receive == HeadRead \/ HeadTooLarge \/ BodyRead \/ HandlerThrows

Next ==
    \/ \E m \in Messages :
         SendDropped(m) \/ Send(m) \/ WriteOk(m) \/ WriteFails(m)
         \/ WriteHandled(m) \/ WriteErrorHandled(m)
    \/ HeadRead \/ HeadTooLarge \/ BodyRead \/ HandlerThrows
    \/ \E e \in Ends : ReadError(e) \/ LocalClose(e)

Spec == Init /\ [][Next]_vars

(* Fairness: the io threads of both ends run.                              *)
FairSpec == Spec /\ WF_vars(Io) /\ WF_vars(Receive)

-----------------------------------------------------------------------------
(* Type invariant.                                                         *)
TypeOK ==
    /\ open \in [Ends -> BOOLEAN]
    /\ sendQueue \in Seq(Messages) /\ Len(sendQueue) <= MaxPending
    /\ writing \in SUBSET Messages
    /\ completed \in SUBSET (Messages \X BOOLEAN)
    /\ net \in Seq(Messages)
    /\ reading \in {"head", "body"}
    /\ bodyOf \in Messages \cup {Nil}
    /\ calls \in SUBSET Messages
    /\ accepted \in Seq(Messages)
    /\ delivered \in Seq([msg : Messages, size : Nat])

(* At most one write is outstanding and it is that of the packet at the    *)
(* front of the queue, which owns the buffer; and a queue of an open       *)
(* session that is not empty has a write outstanding, so it moves on.      *)
WriteChain ==
    LET outstanding == writing \cup {c[1] : c \in completed}
    IN  /\ outstanding \subseteq (IF sendQueue = <<>> THEN {} ELSE {Head(sendQueue)})
        /\ open["sender"] /\ sendQueue # <<>> => outstanding # {}

(* The connection is a Channel.                                            *)
Ch == INSTANCE Channel
ImplementsChannel == Ch!Spec

(* What send accepts arrives unless one of the ends is closed.             *)
Arrives ==
    \A m \in Messages :
        (\E i \in DOMAIN accepted : accepted[i] = m)
            ~> (\/ \E i \in DOMAIN delivered : delivered[i].msg = m
                \/ ~open["sender"] \/ ~open["receiver"])

(* When one end is closed the other end closes too.                        *)
BothClose == (\E e \in Ends : ~open[e]) ~> (\A e \in Ends : ~open[e])
=============================================================================
