------------------------- MODULE Connections_proofs -------------------------
(***************************************************************************)
(* The two halves of the network layer, for every value of their constants.*)
(* Session: one write is outstanding at a time, and each direction of a    *)
(* connection is a Channel.  Server: the session table keeps to its size,  *)
(* and a session in it is open unless it was closed before it was          *)
(* registered.                                                             *)
(***************************************************************************)
EXTENDS Session, Server, FiniteSetTheorems, TLAPS

USE SessionAssumption

-----------------------------------------------------------------------------
(* The write of a message was started, has succeeded or has failed.        *)
Ok(m)   == <<m, TRUE>> \in completed
Bad(m)  == <<m, FALSE>> \in completed
Busy(m) == m \in writing \/ Ok(m) \/ Bad(m)

(* WriteChain, and each write has one outcome.                             *)
ChainInv ==
    /\ \A m \in Messages : Busy(m) => sendQueue # <<>> /\ m = sendQueue[1]
    /\ open["sender"] /\ sendQueue # <<>> => Busy(sendQueue[1])
    /\ \A m \in Messages : ~(Ok(m) /\ Bad(m)) /\ (m \in writing => ~Ok(m) /\ ~Bad(m))

(* What send accepted was given to it; the queue is the end of it.         *)
Sent == Len(accepted) - Len(sendQueue)

QueueInv ==
    /\ \A i \in 1..Len(accepted) : accepted[i] \in calls
    /\ Sent >= 0
    /\ \A i \in 1..Len(sendQueue) : sendQueue[i] = accepted[Sent + i]

(* What is on its way to an open receiver comes next in the order of       *)
(* acceptance, and the next packet to be written follows that.             *)
Written == \E m \in Messages : Ok(m)

NetInv ==
    open["receiver"] =>
        /\ Len(delivered) + Len(net) <= Len(accepted)
        /\ \A i \in 1..Len(net) : net[i] = accepted[Len(delivered) + i]
        /\ open["sender"] => Len(delivered) + Len(net) = Sent + (IF Written THEN 1 ELSE 0)

(* The message whose body is read is that of the header that was read; it  *)
(* is on its way unless the sender closed and it was lost.                 *)
BodyInv ==
    /\ reading = "body" => bodyOf \in Messages
    /\ open["sender"] /\ open["receiver"] /\ reading = "body" => net # <<>>
    /\ open["receiver"] /\ reading = "body" /\ net # <<>> => bodyOf = net[1]

IInv == TypeOK /\ ChainInv /\ QueueInv /\ NetInv /\ BodyInv

-----------------------------------------------------------------------------
(* Sequences.                                                              *)
LEMMA AppendSeq ==
  ASSUME NEW S, NEW q \in Seq(S), NEW e \in S
  PROVE  /\ Append(q, e) \in Seq(S) /\ Append(q, e) # <<>>
         /\ Len(Append(q, e)) = Len(q) + 1 /\ Len(q) \in Nat
         /\ \A i \in 1..Len(q) : Append(q, e)[i] = q[i]
         /\ Append(q, e)[Len(q) + 1] = e
OBVIOUS

LEMMA TailSeq ==
  ASSUME NEW S, NEW q \in Seq(S), q # <<>>
  PROVE  /\ Tail(q) \in Seq(S) /\ Len(q) \in Nat \ {0} /\ Len(Tail(q)) = Len(q) - 1
         /\ \A i \in 1..(Len(q) - 1) : Tail(q)[i] = q[i + 1]
         /\ Head(q) = q[1] /\ q[1] \in S
OBVIOUS

LEMMA PrefixSeq ==
  ASSUME NEW S, NEW q \in Seq(S), NEW n \in 0..Len(q)
  PROVE  /\ SubSeq(q, 1, n) \in Seq(S) /\ Len(SubSeq(q, 1, n)) = n
         /\ \A i \in 1..n : SubSeq(q, 1, n)[i] = q[i]
OBVIOUS

LEMMA SizeIsANumber == \A m \in Messages : Size(m) \in Nat
BY DEF Size

LEMMA ChainIsWriteChain == ASSUME TypeOK, ChainInv PROVE WriteChain
<1> DEFINE outstanding == writing \cup {c[1] : c \in completed}
<1>1. \A m \in outstanding : m \in Messages /\ Busy(m)
  <2>1. ASSUME NEW c \in completed PROVE c[1] \in Messages /\ Busy(c[1])
    <3>1. PICK m \in Messages, b \in BOOLEAN : c = <<m, b>>
      BY DEF TypeOK
    <3>2. c[1] = m /\ (b = TRUE \/ b = FALSE)
      BY <3>1
    <3> QED
      BY <3>1, <3>2 DEF Busy, Ok, Bad
  <2> QED
    BY <2>1 DEF TypeOK, Busy
<1>2. \A m \in Messages : Busy(m) => m \in outstanding
  <2> SUFFICES ASSUME NEW m \in Messages, Busy(m) PROVE m \in outstanding
    OBVIOUS
  <2>1. CASE m \in writing
    BY <2>1
  <2>2. ASSUME NEW b \in BOOLEAN, <<m, b>> \in completed PROVE m \in outstanding
    <3>1. <<m, b>>[1] = m
      OBVIOUS
    <3> QED
      BY <2>2, <3>1
  <2> QED
    BY <2>1, <2>2 DEF Busy, Ok, Bad
<1>3. sendQueue # <<>> => Head(sendQueue) = sendQueue[1] /\ sendQueue[1] \in Messages
  BY DEF TypeOK
<1>4. outstanding \subseteq (IF sendQueue = <<>> THEN {} ELSE {Head(sendQueue)})
  BY <1>1, <1>3 DEF ChainInv
<1>5. open["sender"] /\ sendQueue # <<>> => outstanding # {}
  BY <1>2, <1>3 DEF ChainInv
<1> QED
  BY <1>4, <1>5 DEF WriteChain

LEMMA InitIInv == Init => IInv
<1> SUFFICES ASSUME Init PROVE IInv
  OBVIOUS
<1>1. TypeOK
  BY DEF Init, TypeOK
<1>2. ChainInv /\ QueueInv /\ BodyInv
  BY DEF Init, ChainInv, Busy, Ok, Bad, QueueInv, Sent, BodyInv
<1>3. NetInv
  BY DEF Init, NetInv, Sent, Written, Ok
<1> QED
  BY <1>1, <1>2, <1>3 DEF IInv

-----------------------------------------------------------------------------
(* Sending.                                                                *)
LEMMA SendInv == ASSUME IInv, NEW m \in Messages, Send(m) PROVE IInv'
<1>1. /\ m \notin calls /\ Len(sendQueue) < MaxPending /\ calls' = calls \cup {m}
      /\ sendQueue' = Append(sendQueue, m) /\ accepted' = Append(accepted, m)
      /\ writing' = IF sendQueue = <<>> THEN writing \cup {m} ELSE writing
      /\ UNCHANGED <<open, completed, net, reader, delivered>>
  BY DEF Send, QueueFull, NonePending, IInv, TypeOK
<1>2. /\ sendQueue' \in Seq(Messages) /\ sendQueue' # <<>>
      /\ Len(sendQueue) \in Nat /\ Len(sendQueue') = Len(sendQueue) + 1
      /\ \A i \in 1..Len(sendQueue) : sendQueue'[i] = sendQueue[i]
      /\ sendQueue'[Len(sendQueue) + 1] = m
  <2>1. sendQueue \in Seq(Messages)
    BY DEF IInv, TypeOK
  <2> QED
    BY <1>1, <2>1, AppendSeq
<1>3. /\ accepted' \in Seq(Messages)
      /\ Len(accepted) \in Nat /\ Len(accepted') = Len(accepted) + 1
      /\ \A i \in 1..Len(accepted) : accepted'[i] = accepted[i]
      /\ accepted'[Len(accepted) + 1] = m
  <2>1. accepted \in Seq(Messages)
    BY DEF IInv, TypeOK
  <2> QED
    BY <1>1, <2>1, AppendSeq
<1>4. TypeOK'
  BY <1>1, <1>2, <1>3 DEF IInv, TypeOK, reader
<1>5. ChainInv'
  <2>1. \A l \in Messages : (Ok(l)' <=> Ok(l)) /\ (Bad(l)' <=> Bad(l))
    BY <1>1 DEF Ok, Bad
  <2>2. CASE sendQueue = <<>>
    <3>1. sendQueue'[1] = m /\ writing' = writing \cup {m}
      BY <1>1, <1>2, <2>2
    <3>2. \A l \in Messages : ~Busy(l)
      BY <2>2 DEF IInv, ChainInv
    <3> QED
      BY <1>1, <1>2, <2>1, <3>1, <3>2 DEF ChainInv, Busy
  <2>3. CASE sendQueue # <<>>
    <3>1. Len(sendQueue) # 0
      BY <2>3 DEF IInv, TypeOK
    <3>2. sendQueue'[1] = sendQueue[1] /\ writing' = writing
      BY <1>1, <1>2, <2>3, <3>1
    <3>3. \A l : Busy(l)' <=> Busy(l)
      BY <1>1, <3>2 DEF Busy, Ok, Bad
    <3> QED
      BY <1>1, <1>2, <2>1, <2>3, <3>2, <3>3 DEF IInv, ChainInv
  <2> QED
    BY <2>2, <2>3
<1>6. Sent' = Sent
  BY <1>2, <1>3 DEF Sent
<1>7. QueueInv'
  <2>1. ASSUME NEW i \in 1..Len(accepted') PROVE accepted'[i] \in calls'
    BY <1>1, <1>3 DEF IInv, QueueInv
  <2>2. ASSUME NEW i \in 1..Len(sendQueue') PROVE sendQueue'[i] = accepted'[Sent + i]
    <3>1. CASE i = Len(sendQueue) + 1
      BY <1>2, <1>3, <3>1 DEF Sent
    <3>2. CASE i # Len(sendQueue) + 1
      <4>1. i \in 1..Len(sendQueue) /\ Sent + i \in 1..Len(accepted)
        BY <1>2, <1>3, <3>2 DEF IInv, QueueInv, Sent
      <4> QED
        BY <1>2, <1>3, <4>1 DEF IInv, QueueInv
    <3> QED
      BY <3>1, <3>2
  <2> QED
    BY <1>6, <2>1, <2>2 DEF IInv, QueueInv
<1>8. NetInv'
  <2>1. Written' <=> Written
    BY <1>1 DEF Written, Ok
  <2> SUFFICES ASSUME open["receiver"]
               PROVE  /\ Len(delivered) + Len(net) <= Len(accepted')
                      /\ \A i \in 1..Len(net) : net[i] = accepted'[Len(delivered) + i]
                      /\ open["sender"] => Len(delivered) + Len(net) = Sent' + (IF Written' THEN 1 ELSE 0)
    BY <1>1 DEF NetInv
  <2>2. Len(delivered) \in Nat /\ Len(net) \in Nat /\ Len(delivered) + Len(net) <= Len(accepted)
    BY DEF IInv, TypeOK, NetInv
  <2>3. \A i \in 1..Len(net) : Len(delivered) + i \in 1..Len(accepted)
    BY <1>3, <2>2
  <2> QED
    BY <1>3, <1>6, <2>1, <2>2, <2>3 DEF IInv, NetInv
<1>9. BodyInv'
  BY <1>1 DEF IInv, BodyInv, reader
<1> QED
  BY <1>4, <1>5, <1>7, <1>8, <1>9 DEF IInv

-----------------------------------------------------------------------------
(* The writes: m is at the front of the queue ...                          *)
LEMMA Front ==
  ASSUME IInv, NEW m \in Messages, Busy(m)
  PROVE  /\ m = sendQueue[1] /\ Head(sendQueue) = m /\ Len(sendQueue) \in Nat \ {0} /\ sendQueue # <<>>
         /\ Sent \in Nat /\ Sent + 1 \in 1..Len(accepted) /\ accepted[Sent + 1] = m
         /\ \A l \in Messages : Busy(l) => l = m
<1>1. m = sendQueue[1] /\ sendQueue # <<>> /\ \A l \in Messages : Busy(l) => l = m
  BY DEF IInv, ChainInv
<1>2. Head(sendQueue) = m /\ Len(sendQueue) \in Nat \ {0} /\ Len(accepted) \in Nat
  BY <1>1, TailSeq DEF IInv, TypeOK
<1>3. Sent \in Nat /\ Sent + 1 \in 1..Len(accepted)
  BY <1>2 DEF IInv, QueueInv, Sent
<1>4. accepted[Sent + 1] = sendQueue[1]
  BY <1>2 DEF IInv, QueueInv
<1> QED
  BY <1>1, <1>2, <1>3, <1>4

(* ... and is moved from the socket to the peer ...                        *)
LEMMA WriteOkInv == ASSUME IInv, NEW m \in Messages, WriteOk(m) PROVE IInv'
<1>1. /\ m \in writing /\ open["sender"]
      /\ writing' = writing \ {m} /\ completed' = completed \cup {<<m, TRUE>>}
      /\ net' = IF open["receiver"] THEN Append(net, m) ELSE net
      /\ UNCHANGED <<open, sendQueue, reader, calls, accepted, delivered>>
  BY DEF WriteOk
<1>2. Busy(m) /\ \A l \in Messages : ~Ok(l) /\ ~Bad(l)
  <2>1. Busy(m) /\ ~Ok(m) /\ ~Bad(m)
    BY <1>1 DEF Busy, IInv, ChainInv
  <2> QED
    BY <2>1, Front DEF Busy
<1>3. \A l \in Messages : (Ok(l)' <=> l = m) /\ ~Bad(l)' /\ l \notin writing'
  <2>1. \A l \in Messages : l \in writing => l = m
    BY <1>2, Front DEF Busy
  <2> QED
    BY <1>1, <1>2, <2>1 DEF Ok, Bad
<1>4. TypeOK'
  <2>1. net' \in Seq(Messages)
    BY <1>1, AppendSeq DEF IInv, TypeOK
  <2>2. completed' \in SUBSET (Messages \X BOOLEAN)
    <3>1. <<m, TRUE>> \in Messages \X BOOLEAN /\ completed \in SUBSET (Messages \X BOOLEAN)
      BY DEF IInv, TypeOK
    <3> QED
      BY <1>1, <3>1
  <2> QED
    BY <1>1, <2>1, <2>2 DEF IInv, TypeOK, reader
<1>5. ChainInv'
  <2>1. sendQueue' # <<>> /\ sendQueue'[1] = m
    BY <1>1, <1>2, Front
  <2>2. \A l \in Messages : Busy(l)' <=> l = m
    BY <1>3 DEF Busy
  <2> QED
    BY <1>3, <2>1, <2>2 DEF ChainInv
<1>6. QueueInv'
  BY <1>1 DEF IInv, QueueInv, Sent
<1>7. NetInv'
  <2> SUFFICES ASSUME open["receiver"] PROVE NetInv'
    BY <1>1 DEF NetInv
  <2>1. ~Written /\ Written'
    BY <1>2, <1>3 DEF Written
  <2>2. Len(delivered) + Len(net) = Sent /\ Len(delivered) \in Nat /\ Len(net) \in Nat
    BY <1>1, <2>1 DEF IInv, NetInv, TypeOK, QueueInv, Sent
  <2>3. /\ Len(net') = Len(net) + 1 /\ net'[Len(net) + 1] = m
        /\ \A i \in 1..Len(net) : net'[i] = net[i]
    BY <1>1, AppendSeq DEF IInv, TypeOK
  <2>4. Sent + 1 \in 1..Len(accepted) /\ accepted[Sent + 1] = m /\ Sent' = Sent
    BY <1>1, <1>2, Front DEF Sent
  <2>5. \A i \in 1..Len(net) : net[i] = accepted[Len(delivered) + i]
    BY DEF IInv, NetInv
  <2>6. ASSUME NEW i \in 1..Len(net') PROVE net'[i] = accepted[Len(delivered) + i]
    <3>1. CASE i = Len(net) + 1
      <4>1. Len(delivered) + i = Sent + 1
        BY <2>2, <3>1
      <4> QED
        BY <2>3, <2>4, <3>1, <4>1
    <3>2. CASE i # Len(net) + 1
      BY <2>2, <2>3, <2>5, <3>2
    <3> QED
      BY <3>1, <3>2
  <2>7. Len(delivered) + Len(net') <= Len(accepted) /\ Len(delivered) + Len(net') = Sent + 1
    BY <2>2, <2>3, <2>4 DEF IInv, TypeOK
  <2> QED
    BY <1>1, <2>1, <2>4, <2>6, <2>7 DEF NetInv
<1>8. BodyInv'
  <2> SUFFICES ASSUME open["receiver"], reading = "body" PROVE net' # <<>> /\ net'[1] = bodyOf
    BY <1>1 DEF IInv, BodyInv, reader
  <2>1. net # <<>> /\ net[1] = bodyOf /\ net \in Seq(Messages)
    BY <1>1 DEF IInv, BodyInv, TypeOK
  <2>2. 1 \in 1..Len(net)
    BY <2>1
  <2> QED
    BY <1>1, <2>1, <2>2, AppendSeq
<1> QED
  BY <1>4, <1>5, <1>6, <1>7, <1>8 DEF IInv

(* ... or is cut off ...                                                   *)
LEMMA WriteFailsInv == ASSUME IInv, NEW m \in Messages, WriteFails(m) PROVE IInv'
<1>1. /\ m \in writing
      /\ writing' = writing \ {m} /\ completed' = completed \cup {<<m, FALSE>>}
      /\ UNCHANGED <<open, sendQueue, net, reader, calls, accepted, delivered>>
  BY DEF WriteFails
<1>2. Busy(m) /\ \A l \in Messages : ~Ok(l) /\ ~Bad(l)
  <2>1. Busy(m) /\ ~Ok(m) /\ ~Bad(m)
    BY <1>1 DEF Busy, IInv, ChainInv
  <2> QED
    BY <2>1, Front DEF Busy
<1>3. \A l \in Messages : ~Ok(l)' /\ (Bad(l)' <=> l = m) /\ l \notin writing'
  <2>1. \A l \in Messages : l \in writing => l = m
    BY <1>2, Front DEF Busy
  <2> QED
    BY <1>1, <1>2, <2>1 DEF Ok, Bad
<1>4. TypeOK'
  <2>1. completed' \in SUBSET (Messages \X BOOLEAN)
    <3>1. <<m, FALSE>> \in Messages \X BOOLEAN /\ completed \in SUBSET (Messages \X BOOLEAN)
      BY DEF IInv, TypeOK
    <3> QED
      BY <1>1, <3>1
  <2> QED
    BY <1>1, <2>1 DEF IInv, TypeOK, reader
<1>5. ChainInv'
  <2>1. sendQueue' # <<>> /\ sendQueue'[1] = m
    BY <1>1, <1>2, Front
  <2>2. \A l \in Messages : Busy(l)' <=> l = m
    BY <1>3 DEF Busy
  <2> QED
    BY <1>3, <2>1, <2>2 DEF ChainInv
<1>6. QueueInv' /\ BodyInv'
  BY <1>1 DEF IInv, QueueInv, Sent, BodyInv, reader
<1>7. NetInv'
  <2>1. ~Written /\ ~Written'
    BY <1>2, <1>3 DEF Written
  <2> QED
    BY <1>1, <2>1 DEF IInv, NetInv, Sent
<1> QED
  BY <1>4, <1>5, <1>6, <1>7 DEF IInv

(* ... and when it was moved, the next one is started.                     *)
LEMMA WriteHandledInv == ASSUME IInv, NEW m \in Messages, WriteHandled(m) PROVE IInv'
<1>1. /\ Ok(m) /\ completed' = completed \ {<<m, TRUE>>} /\ sendQueue' = Tail(sendQueue)
      /\ writing' = IF sendQueue' # <<>> THEN writing \cup {Head(sendQueue')} ELSE writing
      /\ UNCHANGED <<open, net, reader, calls, accepted, delivered>>
  BY DEF WriteHandled, StartWrite, Ok
<1>2. Busy(m) /\ m \notin writing /\ ~Bad(m)
  BY <1>1 DEF Busy, IInv, ChainInv
<1>3. \A l \in Messages : (Ok(l) <=> l = m) /\ ~Bad(l) /\ l \notin writing
  BY <1>1, <1>2, Front DEF Busy
<1>4. \A l \in Messages : ~Ok(l)' /\ ~Bad(l)'
  BY <1>1, <1>3 DEF Ok, Bad
<1>5. /\ Len(sendQueue) \in Nat \ {0} /\ sendQueue' \in Seq(Messages)
      /\ Len(sendQueue') = Len(sendQueue) - 1
      /\ \A i \in 1..Len(sendQueue') : sendQueue'[i] = sendQueue[i + 1]
  <2>1. sendQueue # <<>> /\ sendQueue \in Seq(Messages)
    BY <1>2, Front DEF IInv, TypeOK
  <2> QED
    BY <1>1, <2>1, TailSeq
<1>6. sendQueue' # <<>> => Head(sendQueue') = sendQueue'[1] /\ sendQueue'[1] \in Messages
  BY <1>5, TailSeq
<1>7. TypeOK'
  <2>1. Len(sendQueue') <= MaxPending
    BY <1>5 DEF IInv, TypeOK
  <2>2. writing' \in SUBSET Messages /\ completed' \in SUBSET (Messages \X BOOLEAN)
    BY <1>1, <1>6 DEF IInv, TypeOK
  <2> QED
    BY <1>1, <1>5, <2>1, <2>2 DEF IInv, TypeOK, reader
<1>8. ChainInv'
  <2>1. CASE sendQueue' = <<>>
    <3>1. \A l \in Messages : ~Busy(l)'
      BY <1>1, <1>3, <1>4, <2>1 DEF Busy
    <3> QED
      BY <1>1, <1>3, <1>4, <2>1, <3>1 DEF ChainInv
  <2>2. CASE sendQueue' # <<>>
    <3>1. \A l \in Messages : Busy(l)' <=> l = sendQueue'[1]
      BY <1>1, <1>3, <1>4, <1>6, <2>2 DEF Busy
    <3> QED
      BY <1>4, <1>6, <2>2, <3>1 DEF ChainInv
  <2> QED
    BY <2>1, <2>2
<1>9. Sent' = Sent + 1 /\ Sent \in Nat
  BY <1>1, <1>2, <1>5, Front DEF Sent, IInv, TypeOK
<1>10. QueueInv'
  <2>1. ASSUME NEW i \in 1..Len(sendQueue') PROVE sendQueue'[i] = accepted[Sent' + i]
    <3>1. i + 1 \in 1..Len(sendQueue) /\ Sent + (i + 1) = Sent' + i
      BY <1>5, <1>9
    <3> QED
      BY <1>5, <3>1 DEF IInv, QueueInv
  <2> QED
    BY <1>1, <1>9, <2>1 DEF IInv, QueueInv
<1>11. NetInv'
  <2>1. Written /\ ~Written'
    BY <1>1, <1>4 DEF Written
  <2> QED
    BY <1>1, <1>9, <2>1 DEF IInv, NetInv
<1>12. BodyInv'
  BY <1>1 DEF IInv, BodyInv, reader
<1> QED
  BY <1>7, <1>8, <1>10, <1>11, <1>12 DEF IInv

-----------------------------------------------------------------------------
(* Closing an end may only lose what is on its way, from the end.          *)
LEMMA CloseNet ==
  ASSUME IInv, NEW e \in Ends, CloseEnd(e)
  PROVE  /\ open' \in [Ends -> BOOLEAN] /\ net' \in Seq(Messages)
         /\ ~open'[e] /\ \A f \in Ends \ {e} : open'[f] = open[f]
         /\ open'["receiver"] =>
               /\ open["receiver"] /\ Len(net') <= Len(net)
               /\ \A i \in 1..Len(net') : net'[i] = net[i]
<1>1. /\ open' = [open EXCEPT ![e] = FALSE] /\ open \in [Ends -> BOOLEAN] /\ net \in Seq(Messages)
      /\ Ends = {"sender", "receiver"}
  BY DEF CloseEnd, IInv, TypeOK, Ends
<1>2. open' \in [Ends -> BOOLEAN] /\ ~open'[e] /\ \A f \in Ends \ {e} : open'[f] = open[f]
  BY <1>1
<1>3. CASE e = "sender"
  <2>1. PICK n \in 0..Len(net) : net' = SubSeq(net, 1, n)
    BY <1>3 DEF CloseEnd
  <2>2. net' \in Seq(Messages) /\ Len(net') = n /\ \A i \in 1..n : net'[i] = net[i]
    BY <1>1, <2>1, PrefixSeq
  <2>3. n <= Len(net)
    BY <1>1
  <2> QED
    BY <1>1, <1>2, <1>3, <2>2, <2>3
<1>4. CASE e # "sender"
  <2>1. e = "receiver" /\ net' = <<>>
    BY <1>1, <1>4 DEF CloseEnd
  <2> QED
    BY <1>2, <2>1
<1> QED
  BY <1>3, <1>4

LEMMA CloseInv ==
  ASSUME IInv, NEW e \in Ends, CloseEnd(e),
         UNCHANGED <<sendQueue, writing, reader, calls, accepted>>,
         \/ UNCHANGED <<completed, delivered>>
         \/ UNCHANGED completed /\ e = "receiver" /\ delivered' \in Seq([msg : Messages, size : Nat])
         \/ /\ UNCHANGED delivered /\ e = "sender"
            /\ \E m \in Messages : Bad(m) /\ completed' = completed \ {<<m, FALSE>>}
  PROVE  IInv'
<1>1. Ends = {"sender", "receiver"}
  BY DEF Ends
<1>2. TypeOK'
  BY CloseNet DEF IInv, TypeOK, reader
<1>3. ChainInv'
  <2>1. CASE UNCHANGED completed
    BY <1>1, <2>1, CloseNet DEF IInv, ChainInv, Busy, Ok, Bad
  <2>2. CASE e = "sender" /\ \E m \in Messages : Bad(m) /\ completed' = completed \ {<<m, FALSE>>}
    <3>1. \A l \in Messages : (Ok(l)' => Ok(l)) /\ (Bad(l)' => Bad(l))
      BY <2>2 DEF Ok, Bad
    <3>2. ~open'["sender"]
      BY <1>1, <2>2, CloseNet
    <3> QED
      BY <3>1, <3>2 DEF IInv, ChainInv, Busy
  <2> QED
    BY <2>1, <2>2
<1>4. QueueInv'
  BY DEF IInv, QueueInv, Sent
<1>5. NetInv'
  <2> SUFFICES ASSUME open'["receiver"] PROVE NetInv'
    BY DEF NetInv
  <2>1. ~open'["sender"] /\ delivered' = delivered
    BY <1>1, CloseNet
  <2>2. open["receiver"] /\ Len(net') <= Len(net) /\ \A i \in 1..Len(net') : net'[i] = net[i]
    BY CloseNet
  <2>3. Len(net') \in Nat /\ Len(net) \in Nat /\ Len(delivered) \in Nat /\ Len(accepted) \in Nat
    BY CloseNet DEF IInv, TypeOK
  <2>4. /\ Len(delivered) + Len(net) <= Len(accepted)
        /\ \A i \in 1..Len(net) : net[i] = accepted[Len(delivered) + i]
    BY <2>2 DEF IInv, NetInv
  <2>5. /\ Len(delivered) + Len(net') <= Len(accepted)
        /\ \A i \in 1..Len(net') : net'[i] = accepted[Len(delivered) + i]
    BY <2>2, <2>3, <2>4
  <2> QED
    BY <2>1, <2>5 DEF NetInv
<1>6. BodyInv'
  <2>1. reading' = reading /\ bodyOf' = bodyOf /\ ~(open'["sender"] /\ open'["receiver"])
    BY <1>1, CloseNet DEF reader
  <2>2. open'["receiver"] /\ net' # <<>> => open["receiver"] /\ net # <<>> /\ net'[1] = net[1]
    <3> SUFFICES ASSUME open'["receiver"], net' # <<>> PROVE net # <<>> /\ net'[1] = net[1]
      BY CloseNet
    <3>1. net \in Seq(Messages) /\ net' \in Seq(Messages) /\ Len(net') <= Len(net)
      BY CloseNet DEF IInv, TypeOK
    <3>2. 1 \in 1..Len(net') /\ net # <<>>
      BY <3>1
    <3> QED
      BY <3>2, CloseNet
  <2> QED
    BY <2>1, <2>2 DEF IInv, BodyInv
<1> QED
  BY <1>2, <1>3, <1>4, <1>5, <1>6 DEF IInv

-----------------------------------------------------------------------------
(* Reading a body delivers the next message that was accepted.             *)
LEMMA Delivers ==
  ASSUME IInv, open["receiver"], reading = "body", net # <<>>
  PROVE  /\ bodyOf \in Messages /\ Len(delivered) \in Nat
         /\ Len(delivered) < Len(accepted) /\ accepted[Len(delivered) + 1] = bodyOf
         /\ Append(delivered, CopyOf(bodyOf)) \in Seq([msg : Messages, size : Nat])
         /\ Len(Append(delivered, CopyOf(bodyOf))) = Len(delivered) + 1
<1>1. bodyOf \in Messages /\ bodyOf = net[1]
  BY DEF IInv, BodyInv
<1>2. Len(net) \in Nat \ {0} /\ Len(delivered) \in Nat /\ Len(accepted) \in Nat
  BY DEF IInv, TypeOK
<1>3. CopyOf(bodyOf) \in [msg : Messages, size : Nat]
  BY <1>1, SizeIsANumber DEF CopyOf
<1>4. 1 \in 1..Len(net)
  BY <1>2
<1>5. accepted[Len(delivered) + 1] = bodyOf /\ Len(delivered) + Len(net) <= Len(accepted)
  BY <1>1, <1>4 DEF IInv, NetInv
<1>6. delivered \in Seq([msg : Messages, size : Nat])
  BY DEF IInv, TypeOK
<1> QED
  BY <1>1, <1>2, <1>3, <1>5, <1>6, AppendSeq

LEMMA BodyReadInv == ASSUME IInv, BodyRead PROVE IInv'
<1>1. /\ open["receiver"] /\ reading = "body" /\ net # <<>>
      /\ delivered' = Append(delivered, CopyOf(bodyOf)) /\ net' = Tail(net)
      /\ reading' = "head" /\ bodyOf' = Nil
      /\ UNCHANGED <<open, sendQueue, writing, completed, calls, accepted>>
  BY DEF BodyRead, sender
<1>2. delivered' \in Seq([msg : Messages, size : Nat]) /\ Len(delivered') = Len(delivered) + 1
  BY <1>1, Delivers
<1>3. /\ net' \in Seq(Messages) /\ Len(net) \in Nat \ {0} /\ Len(net') = Len(net) - 1
      /\ \A i \in 1..(Len(net) - 1) : net'[i] = net[i + 1]
  BY <1>1, TailSeq DEF IInv, TypeOK
<1>4. TypeOK'
  BY <1>1, <1>2, <1>3 DEF IInv, TypeOK
<1>5. ChainInv' /\ QueueInv'
  BY <1>1 DEF IInv, ChainInv, Busy, Ok, Bad, QueueInv, Sent
<1>6. NetInv'
  <2>1. Len(delivered) \in Nat /\ Sent \in Int
    BY DEF IInv, TypeOK, Sent
  <2>2. /\ Len(delivered) + Len(net) <= Len(accepted)
        /\ \A i \in 1..Len(net) : net[i] = accepted[Len(delivered) + i]
        /\ open["sender"] => Len(delivered) + Len(net) = Sent + (IF Written THEN 1 ELSE 0)
    BY <1>1 DEF IInv, NetInv
  <2>3. Sent' = Sent /\ (Written' <=> Written)
    BY <1>1 DEF Sent, Written, Ok
  <2>4. Len(delivered') + Len(net') = Len(delivered) + Len(net)
    BY <1>2, <1>3, <2>1
  <2>5. ASSUME NEW i \in 1..Len(net') PROVE net'[i] = accepted[Len(delivered') + i]
    <3>1. i + 1 \in 1..Len(net) /\ Len(delivered) + (i + 1) = Len(delivered') + i /\ i \in 1..(Len(net) - 1)
      BY <1>2, <1>3, <2>1
    <3> QED
      BY <1>3, <2>2, <3>1
  <2> QED
    BY <1>1, <2>2, <2>3, <2>4, <2>5 DEF NetInv
<1>7. BodyInv'
  BY <1>1 DEF BodyInv
<1> QED
  BY <1>4, <1>5, <1>6, <1>7 DEF IInv

LEMMA OtherSteps ==
  ASSUME IInv, (\E m \in Messages : SendDropped(m)) \/ HeadRead \/ UNCHANGED vars
  PROVE  IInv'
<1>1. UNCHANGED <<open, sendQueue, writing, completed, net, accepted, delivered>>
  BY DEF SendDropped, HeadRead, vars, sender
<1>2. calls \subseteq calls' /\ calls' \in SUBSET Messages
  BY DEF SendDropped, HeadRead, vars, IInv, TypeOK
<1>3. (UNCHANGED <<reading, bodyOf>>) \/ (reading' = "body" /\ net # <<>> /\ bodyOf' = Head(net))
  BY DEF SendDropped, HeadRead, vars, reader
<1>4. net # <<>> => Head(net) = net[1] /\ net[1] \in Messages
  BY TailSeq DEF IInv, TypeOK
<1>5. TypeOK'
  BY <1>1, <1>2, <1>3, <1>4 DEF IInv, TypeOK
<1>6. ChainInv' /\ QueueInv' /\ NetInv'
  BY <1>1, <1>2 DEF IInv, ChainInv, Busy, Ok, Bad, QueueInv, Sent, NetInv, Written
<1>7. BodyInv'
  BY <1>1, <1>3, <1>4 DEF IInv, BodyInv
<1> QED
  BY <1>5, <1>6, <1>7 DEF IInv

LEMMA NextIInv == IInv /\ [Next]_vars => IInv'
<1> SUFFICES ASSUME IInv, [Next]_vars PROVE IInv'
  OBVIOUS
<1>1. CASE HeadTooLarge
  BY <1>1, CloseInv DEF HeadTooLarge, sender, Ends
<1>2. CASE HandlerThrows
  <2>1. delivered' \in Seq([msg : Messages, size : Nat])
    BY <1>2, Delivers DEF HandlerThrows
  <2> QED
    BY <1>2, <2>1, CloseInv DEF HandlerThrows, sender, Ends
<1>3. ASSUME NEW e \in Ends, ReadError(e) \/ LocalClose(e) PROVE IInv'
  BY <1>3, CloseInv DEF ReadError, LocalClose, sender
<1>4. ASSUME NEW m \in Messages, WriteErrorHandled(m) PROVE IInv'
  BY <1>4, CloseInv DEF WriteErrorHandled, Bad, Ends
<1> QED
  BY <1>1, <1>2, <1>3, <1>4, SendInv, WriteOkInv, WriteFailsInv, WriteHandledInv, BodyReadInv, OtherSteps DEF Next

-----------------------------------------------------------------------------
(* What is queued, written, on its way and delivered is always one piece   *)
(* of the sequence of messages that were accepted.                         *)
THEOREM Invariance == Spec => []IInv
<1> QED
  BY InitIInv, NextIInv, PTL DEF Spec

(* The type invariant; the queue keeps to its limit.                       *)
THEOREM TypeCorrect == Spec => []TypeOK
<1>1. IInv => TypeOK
  BY DEF IInv
<1> QED
  BY <1>1, Invariance, PTL

(* At most one write is outstanding, that of the front of the queue, and   *)
(* the queue of an open session never stands still without one.            *)
THEOREM OneWrite == Spec => []WriteChain
<1>1. IInv => WriteChain
  BY ChainIsWriteChain DEF IInv
<1> QED
  BY <1>1, Invariance, PTL

-----------------------------------------------------------------------------
(* Send is Accept; reading a body, also for a handler that throws, is      *)
(* Deliver.                                                                *)
LEMMA InitMapped == Init => Ch!Init
BY DEF Init, Ch!Init

LEMMA StepMapped == IInv /\ [Next]_vars => [Ch!Next]_(Ch!channelVars)
<1> SUFFICES ASSUME IInv, [Next]_vars PROVE Ch!Next \/ UNCHANGED Ch!channelVars
  OBVIOUS
<1>1. ASSUME NEW m \in Messages, Send(m) PROVE Ch!Next
  <2>1. \A i \in DOMAIN accepted : accepted[i] # m
    BY <1>1 DEF Send, IInv, QueueInv, TypeOK
  <2> QED
    BY <1>1, <2>1 DEF Send, Ch!Next, Ch!Accept
<1>2. CASE BodyRead \/ HandlerThrows
  <2>1. /\ open["receiver"] /\ reading = "body" /\ net # <<>> /\ accepted' = accepted
        /\ delivered' = Append(delivered, CopyOf(bodyOf))
    BY <1>2 DEF BodyRead, HandlerThrows
  <2>2. Len(delivered) < Len(accepted) /\ accepted[Len(delivered) + 1] = bodyOf
    BY <2>1, Delivers
  <2> QED
    BY <2>1, <2>2 DEF CopyOf, Size, Ch!Next, Ch!Deliver
<1>3. CASE \/ \E m \in Messages : \/ SendDropped(m) \/ WriteOk(m) \/ WriteFails(m)
                                  \/ WriteHandled(m) \/ WriteErrorHandled(m)
           \/ HeadRead \/ HeadTooLarge \/ UNCHANGED vars
           \/ \E e \in Ends : ReadError(e) \/ LocalClose(e)
  BY <1>3 DEF SendDropped, WriteOk, WriteFails, WriteHandled, WriteErrorHandled, HeadRead, HeadTooLarge,
              ReadError, LocalClose, vars, Ch!channelVars
<1> QED
  BY <1>1, <1>2, <1>3 DEF Next

(* Whatever is closed when, messages arrive in the order send accepted     *)
(* them, none twice and none left out, with their length modulo 2^16.      *)
THEOREM Refinement == Spec => ImplementsChannel
<1> QED
  BY InitMapped, StepMapped, Invariance, PTL DEF Spec, ImplementsChannel, Ch!Spec

-----------------------------------------------------------------------------
(* The server.                                                             *)
HIDE SessionAssumption
USE ServerAssumption DEF None

-----------------------------------------------------------------------------
(* A session that no client has connected to is known to nobody.           *)
Unused(s) ==
    /\ s \notin sockets /\ s \notin registered /\ s # cur
    /\ ops[s] = {}
    /\ \A c \in Contexts : closing[c] # s

UnusedInv ==
    /\ armed <= made
    /\ \A s \in Sessions : s > made \/ s = armed => Unused(s)

(* Between the test for room and the insertion there stays room; the       *)
(* session to be inserted is open, or was closed in between.               *)
Registering == listen \in {"check", "insert"}

ListenInv ==
    /\ listen \in {"check", "insert", "rearm"} => cur \in Sessions
    /\ Registering => cur \in sockets \cup early
    /\ listen = "insert" => Cardinality(registered) < MaxSessions

(* Once an io thread has erased a session it is not registered any more,   *)
(* unless the erasure came too early.                                      *)
ClosingInv ==
    \A c \in Contexts :
        /\ io[c] \in {"erase", "shut"} => closing[c] \in Sessions
        /\ io[c] = "shut" =>
              \/ closing[c] \in early
              \/ closing[c] \notin registered /\ ~(Registering /\ closing[c] = cur)

ServerInv == ServerTypeOK /\ UnusedInv /\ ListenInv /\ ClosingInv /\ SlotInv /\ Capacity

-----------------------------------------------------------------------------
(* The table is finite, and a smaller one fits where a larger one did.     *)
LEMMA TableFinite == ASSUME ServerTypeOK PROVE IsFiniteSet(registered) /\ Cardinality(registered) \in Nat
<1>1. IsFiniteSet(Sessions)
  BY FS_Interval DEF Sessions
<1> QED
  BY <1>1, FS_Subset, FS_CardinalityType DEF ServerTypeOK

LEMMA Shrinks ==
  ASSUME ServerTypeOK, Capacity, registered' \subseteq registered
  PROVE  Capacity' /\ \A n \in Nat : Cardinality(registered) < n => Cardinality(registered') < n
<1>1. /\ IsFiniteSet(registered') /\ Cardinality(registered') <= Cardinality(registered)
      /\ Cardinality(registered') \in Nat /\ Cardinality(registered) \in Nat
  BY TableFinite, FS_Subset, FS_CardinalityType
<1> QED
  BY <1>1 DEF Capacity

LEMMA InitServerInv == ServerInit => ServerInv
<1> SUFFICES ASSUME ServerInit PROVE ServerInv
  OBVIOUS
<1>1. 0 \in Contexts /\ made \in 0..MaxConn /\ armed = None /\ cur = None
  BY DEF ServerInit, Contexts
<1>2. ServerTypeOK
  BY <1>1 DEF ServerInit, ServerTypeOK
<1>3. UnusedInv
  <2>1. \A s \in Sessions : s # None
    BY DEF Sessions
  <2> QED
    BY <1>1, <2>1 DEF ServerInit, UnusedInv, Unused
<1>4. ListenInv /\ ClosingInv /\ SlotInv
  BY DEF ServerInit, ListenInv, ClosingInv, SlotInv, Registering
<1>5. Capacity
  BY FS_EmptySet DEF ServerInit, Capacity
<1> QED
  BY <1>2, <1>3, <1>4, <1>5 DEF ServerInv

-----------------------------------------------------------------------------
(* startAccept picks a session nobody has used, on a context of the pool.  *)
LEMMA StartAcceptPicks ==
  ASSUME ServerTypeOK, StartAccept
  PROVE  /\ made' \in 0..MaxConn /\ armed' \in Sessions \cup {None} /\ armed' <= made'
         /\ nextCtx' \in Contexts /\ ctx' \in [Sessions -> Contexts]
         /\ \A s \in Sessions : s > made' \/ s = armed' => s > made
<1>1. CASE made < MaxConn
  <2>1. made + 1 \in Sessions /\ made + 1 \in 0..MaxConn
    BY <1>1 DEF Sessions, ServerTypeOK
  <2>2. NextIndex \in Contexts
    BY DEF NextIndex, Contexts, ServerTypeOK
  <2>3. made' = made + 1 /\ armed' = made + 1 /\ ctx' = [ctx EXCEPT ![made + 1] = nextCtx] /\ nextCtx' = NextIndex
    BY <1>1 DEF StartAccept
  <2>4. \A s \in Sessions : s > made' \/ s = armed' => s > made
    BY <2>3 DEF Sessions, ServerTypeOK
  <2> QED
    BY <2>1, <2>2, <2>3, <2>4 DEF ServerTypeOK
<1>2. CASE ~(made < MaxConn)
  <2>1. armed' = None /\ UNCHANGED <<made, ctx, nextCtx>>
    BY <1>2 DEF StartAccept
  <2>2. \A s \in Sessions : s # None
    BY DEF Sessions
  <2> QED
    BY <2>1, <2>2 DEF ServerTypeOK
<1> QED
  BY <1>1, <1>2

(* The steps of Main and Other leave the sessions alone; Start, Rearm and  *)
(* AcceptFails also pick the next session.                                 *)
LEMMA MainInv ==
  ASSUME ServerInv, UNCHANGED <<accept, sessions, pool>>,
         pc' \in [Threads -> {"idle", "startjoin", "returned", "stopjoin", "done", "threw"}],
         running' \in BOOLEAN, iocStopped' \in BOOLEAN, joinable' \in BOOLEAN
  PROVE  ServerInv'
<1> USE DEF accept, sessions, pool
<1>1. ServerTypeOK'
  BY DEF ServerInv, ServerTypeOK
<1>2. UnusedInv' /\ ListenInv' /\ ClosingInv' /\ SlotInv' /\ Capacity'
  BY DEF ServerInv, UnusedInv, Unused, ListenInv, ClosingInv, SlotInv, Capacity, Registering
<1> QED
  BY <1>1, <1>2 DEF ServerInv

LEMMA PickInv ==
  ASSUME ServerInv, StartAccept, UNCHANGED <<sessions, pool>>,
         pc' \in [Threads -> {"idle", "startjoin", "returned", "stopjoin", "done", "threw"}],
         UNCHANGED <<running, iocStopped>>, joinable' \in BOOLEAN,
         cur' \in {cur, None}, listen' \in {"begin", "loop"}
  PROVE  ServerInv'
<1> USE DEF sessions, pool
<1>1. ServerTypeOK'
  BY StartAcceptPicks DEF ServerInv, ServerTypeOK
<1>2. UnusedInv'
  <2> SUFFICES ASSUME NEW s \in Sessions, s > made' \/ s = armed' PROVE Unused(s)'
    BY StartAcceptPicks DEF UnusedInv, ServerInv
  <2>1. Unused(s) /\ s # None
    BY StartAcceptPicks DEF ServerInv, UnusedInv, Sessions
  <2> QED
    BY <2>1 DEF Unused
<1>3. ListenInv'
  BY DEF ListenInv, Registering
<1>4. ClosingInv'
  BY DEF ServerInv, ClosingInv, Registering
<1>5. SlotInv' /\ Capacity'
  BY DEF ServerInv, SlotInv, Capacity
<1> QED
  BY <1>1, <1>2, <1>3, <1>4, <1>5 DEF ServerInv

LEMMA MainSteps ==
  ASSUME ServerInv,
         \/ Start \/ StartReturns \/ Signal \/ AcceptFails \/ Rearm
         \/ \E t \in Threads : StopEarly(t) \/ Stop(t) \/ StopReturns(t) \/ JoinThrows(t)
  PROVE  ServerInv'
<1>0. ServerTypeOK /\ Main \in Threads /\ UNCHANGED pool
  BY DEF ServerInv, Threads, Start, StartReturns, Signal, AcceptFails, Rearm, StopEarly, Stop, StopReturns, JoinThrows
<1>1. CASE Start
  <2>1. pc' \in [Threads -> {"idle", "startjoin", "returned", "stopjoin", "done", "threw"}]
    BY <1>0, <1>1 DEF Start, ServerTypeOK
  <2> QED
    BY <1>0, <1>1, <2>1, PickInv DEF Start
<1>2. CASE Rearm
  BY <1>0, <1>2, PickInv DEF Rearm, ServerTypeOK, main
<1>3. CASE AcceptFails
  BY <1>0, <1>3, PickInv DEF AcceptFails, ServerTypeOK, main
<1>4. CASE StartReturns \/ Signal
  BY <1>0, <1>4, MainInv DEF StartReturns, Signal, ServerTypeOK
<1>5. ASSUME NEW t \in Threads, StopEarly(t) \/ Stop(t) PROVE ServerInv'
  BY <1>0, <1>5, MainInv DEF StopEarly, Stop, ServerTypeOK
<1>6. ASSUME NEW t \in Threads, StopReturns(t) PROVE ServerInv'
  BY <1>0, <1>6, MainInv DEF StopReturns, ServerTypeOK
<1>7. ASSUME NEW t \in Threads, JoinThrows(t) PROVE ServerInv'
  BY <1>0, <1>7, MainInv DEF JoinThrows, ServerTypeOK
<1> QED
  BY <1>1, <1>2, <1>3, <1>4, <1>5, <1>6, <1>7

-----------------------------------------------------------------------------
(* The listening thread: accept, look for room, insert or refuse.          *)
LEMMA AcceptInv == ASSUME ServerInv, Accept PROVE ServerInv'
<1>1. /\ armed \in Sessions /\ cur' = armed /\ armed' = None /\ listen' = "check"
      /\ sockets' = sockets \cup {armed}
      /\ peer' = [peer EXCEPT ![armed] = "here"] /\ ops' = [ops EXCEPT ![armed] = {"read"}]
      /\ UNCHANGED <<pc, running, iocStopped, joinable, made, nextCtx, ctx, registered, early, io, closing, exiting>>
  BY DEF Accept, ServerInv, ServerTypeOK, main, pool
<1>2. ServerTypeOK'
  BY <1>1 DEF ServerInv, ServerTypeOK, OpNames
<1>3. Unused(armed)
  BY <1>1 DEF ServerInv, UnusedInv
<1>4. UnusedInv'
  <2> SUFFICES ASSUME NEW s \in Sessions, s > made PROVE Unused(s)'
    <3>1. \A s \in Sessions : s # None
      BY DEF Sessions
    <3>2. armed' <= made'
      BY <1>1 DEF ServerInv, ServerTypeOK
    <3> QED
      BY <1>1, <3>1, <3>2 DEF UnusedInv
  <2>1. Unused(s) /\ s # armed
    BY <1>1 DEF ServerInv, UnusedInv, ServerTypeOK, Sessions
  <2> QED
    BY <1>1, <2>1 DEF Unused, ServerInv, ServerTypeOK
<1>5. ListenInv'
  BY <1>1 DEF ListenInv, Registering
<1>6. ClosingInv'
  BY <1>1, <1>3 DEF ServerInv, ClosingInv, Unused, Registering
<1>7. SlotInv' /\ Capacity'
  BY <1>1 DEF ServerInv, SlotInv, Capacity
<1> QED
  BY <1>2, <1>4, <1>5, <1>6, <1>7 DEF ServerInv

LEMMA ListenSteps ==
  ASSUME ServerInv, ListenBegin \/ ListenEnd \/ CheckRoom
  PROVE  ServerInv'
<1>1. /\ listen' \in {"loop", "ended", "insert"} /\ running' \in BOOLEAN
      /\ UNCHANGED <<pc, iocStopped, joinable, cur, armed, made, nextCtx, ctx, sessions, pool>>
      /\ listen' = "insert" => listen = "check" /\ Room
  BY DEF ListenBegin, ListenEnd, CheckRoom, main, ServerInv, ServerTypeOK
<1> USE DEF sessions, pool
<1>2. ServerTypeOK'
  BY <1>1 DEF ServerInv, ServerTypeOK
<1>3. UnusedInv' /\ SlotInv' /\ Capacity'
  BY <1>1 DEF ServerInv, UnusedInv, Unused, SlotInv, Capacity
<1>4. ListenInv'
  BY <1>1 DEF ServerInv, ListenInv, Registering, Room
<1>5. ClosingInv'
  BY <1>1 DEF ServerInv, ClosingInv, Registering
<1> QED
  BY <1>2, <1>3, <1>4, <1>5 DEF ServerInv

LEMMA RefuseInv == ASSUME ServerInv, Refuse PROVE ServerInv'
<1>1. /\ cur \in Sessions /\ listen' = "rearm"
      /\ registered' = registered \ {cur} /\ sockets' = sockets \ {cur}
      /\ UNCHANGED <<main, cur, armed, made, nextCtx, ctx, peer, ops, early, pool>>
  BY DEF Refuse, ServerInv, ListenInv
<1> USE DEF main, pool
<1>2. ServerTypeOK'
  BY <1>1 DEF ServerInv, ServerTypeOK
<1>3. UnusedInv'
  BY <1>1 DEF ServerInv, UnusedInv, Unused
<1>4. ListenInv' /\ ClosingInv'
  BY <1>1 DEF ServerInv, ListenInv, ClosingInv, Registering
<1>5. SlotInv'
  BY <1>1 DEF ServerInv, SlotInv
<1>6. Capacity'
  BY <1>1, Shrinks DEF ServerInv
<1> QED
  BY <1>2, <1>3, <1>4, <1>5, <1>6 DEF ServerInv

LEMMA InsertInv == ASSUME ServerInv, Insert PROVE ServerInv'
<1>1. /\ listen = "insert" /\ listen' = "rearm" /\ cur \in Sessions /\ cur \in sockets \cup early
      /\ registered' = registered \cup {cur} /\ Cardinality(registered) < MaxSessions
      /\ UNCHANGED <<main, cur, armed, made, nextCtx, ctx, sockets, peer, ops, early, pool>>
  BY DEF Insert, ServerInv, ListenInv, Registering
<1> USE DEF main, pool
<1>2. ServerTypeOK'
  BY <1>1 DEF ServerInv, ServerTypeOK
<1>3. UnusedInv'
  BY <1>1 DEF ServerInv, UnusedInv, Unused
<1>4. ListenInv' /\ ClosingInv'
  BY <1>1 DEF ServerInv, ListenInv, ClosingInv, Registering
<1>5. SlotInv'
  BY <1>1 DEF ServerInv, SlotInv
<1>6. Capacity'
  <2>1. IsFiniteSet(registered) /\ Cardinality(registered) \in Nat
    BY TableFinite DEF ServerInv
  <2>2. Cardinality(registered') \in {Cardinality(registered), Cardinality(registered) + 1}
    BY <1>1, <2>1, FS_AddElement
  <2> QED
    BY <1>1, <2>1, <2>2 DEF Capacity
<1> QED
  BY <1>2, <1>3, <1>4, <1>5, <1>6 DEF ServerInv

-----------------------------------------------------------------------------
(* What happens to a session in use: requests, answers and its closing.    *)
LEMMA OpsInv ==
  ASSUME ServerInv, NEW s \in Sessions, PeerLeaves(s) \/ Answer(s) \/ WriteDone(s)
  PROVE  ServerInv'
<1>1. /\ UNCHANGED <<main, accept, sockets, registered, early, pool>>
      /\ peer' \in [Sessions -> {"away", "here", "gone"}]
      /\ ops' \in [Sessions -> SUBSET OpNames]
      /\ \A r \in Sessions \ {s} : ops'[r] = ops[r]
      /\ ops' # ops => s \in sockets
  BY DEF PeerLeaves, Answer, WriteDone, ServerInv, ServerTypeOK, OpNames
<1> USE DEF main, accept, pool
<1>2. ServerTypeOK'
  BY <1>1 DEF ServerInv, ServerTypeOK
<1>3. UnusedInv'
  <2> SUFFICES ASSUME NEW r \in Sessions, Unused(r) PROVE Unused(r)'
    BY <1>1 DEF ServerInv, UnusedInv
  <2> QED
    BY <1>1 DEF Unused
<1>4. ListenInv' /\ ClosingInv' /\ SlotInv' /\ Capacity'
  BY <1>1 DEF ServerInv, ListenInv, ClosingInv, SlotInv, Capacity, Registering
<1> QED
  BY <1>2, <1>3, <1>4 DEF ServerInv

LEMMA BeginCloseInv == ASSUME ServerInv, NEW s \in Sessions, NEW o \in OpNames, BeginClose(s, o) PROVE ServerInv'
<1> DEFINE c == ctx[s]
<1>1. /\ c \in Contexts /\ o \in ops[s] /\ ops' = [ops EXCEPT ![s] = ops[s] \ {o}]
      /\ io' = [io EXCEPT ![c] = "erase"] /\ closing' = [closing EXCEPT ![c] = s]
      /\ UNCHANGED <<main, accept, sockets, peer, registered, early, exiting>>
  BY DEF BeginClose, ServerInv, ServerTypeOK
<1> USE DEF main, accept
<1>2. ServerTypeOK'
  BY <1>1 DEF ServerInv, ServerTypeOK
<1>3. UnusedInv'
  <2> SUFFICES ASSUME NEW r \in Sessions, Unused(r) PROVE Unused(r)'
    BY <1>1 DEF ServerInv, UnusedInv
  <2>1. r # s
    BY <1>1 DEF Unused
  <2>2. ops'[r] = ops[r] /\ \A d \in Contexts : closing'[d] \in {closing[d], s}
    BY <1>1, <2>1 DEF ServerInv, ServerTypeOK
  <2> QED
    BY <1>1, <2>1, <2>2 DEF Unused
<1>4. ClosingInv'
  <2>1. /\ io'[c] = "erase" /\ closing'[c] = s
        /\ \A d \in Contexts \ {c} : io'[d] = io[d] /\ closing'[d] = closing[d]
    BY <1>1 DEF ServerInv, ServerTypeOK
  <2> QED
    BY <1>1, <2>1 DEF ServerInv, ClosingInv, Registering
<1>5. ListenInv' /\ SlotInv' /\ Capacity'
  BY <1>1 DEF ServerInv, ListenInv, SlotInv, Capacity, Registering
<1> QED
  BY <1>2, <1>3, <1>4, <1>5 DEF ServerInv

LEMMA EraseInv == ASSUME ServerInv, NEW c \in Contexts, Erase(c) PROVE ServerInv'
<1> DEFINE s == closing[c]
<1>1. /\ io[c] = "erase" /\ s \in Sessions /\ registered' = registered \ {s}
      /\ early' = IF s = cur /\ Registering THEN early \cup {s} ELSE early
      /\ io' = [io EXCEPT ![c] = "shut"]
      /\ UNCHANGED <<main, accept, sockets, peer, ops, closing, exiting>>
  BY DEF Erase, Erased, Registering, ServerInv, ClosingInv
<1> USE DEF main, accept
<1>2. ServerTypeOK'
  BY <1>1 DEF ServerInv, ServerTypeOK
<1>3. UnusedInv'
  BY <1>1 DEF ServerInv, UnusedInv, Unused
<1>4. ClosingInv'
  <2>1. io'[c] = "shut" /\ \A d \in Contexts \ {c} : io'[d] = io[d]
    BY <1>1 DEF ServerInv, ServerTypeOK
  <2> QED
    BY <1>1, <2>1 DEF ServerInv, ClosingInv, Registering
<1>5. ListenInv' /\ Capacity'
  <2>1. Capacity' /\ (Cardinality(registered) < MaxSessions => Cardinality(registered') < MaxSessions)
    BY <1>1, Shrinks DEF ServerInv
  <2> QED
    BY <1>1, <2>1 DEF ServerInv, ListenInv, Registering
<1>6. SlotInv'
  BY <1>1 DEF ServerInv, SlotInv
<1> QED
  BY <1>2, <1>3, <1>4, <1>5, <1>6 DEF ServerInv

LEMMA ShutInv == ASSUME ServerInv, NEW c \in Contexts, Shut(c) PROVE ServerInv'
<1> DEFINE s == closing[c]
<1>1. /\ io[c] = "shut" /\ sockets' = sockets \ {s}
      /\ io' = [io EXCEPT ![c] = "idle"] /\ closing' = [closing EXCEPT ![c] = None]
      /\ UNCHANGED <<main, accept, peer, ops, registered, early, exiting>>
  BY DEF Shut
<1> USE DEF main, accept
<1>2. s \in early \/ (s \notin registered /\ ~(Registering /\ s = cur))
  BY <1>1 DEF ServerInv, ClosingInv
<1>3. /\ io'[c] = "idle" /\ closing'[c] = None
      /\ \A d \in Contexts \ {c} : io'[d] = io[d] /\ closing'[d] = closing[d]
  BY <1>1 DEF ServerInv, ServerTypeOK
<1>4. ServerTypeOK'
  BY <1>1 DEF ServerInv, ServerTypeOK
<1>5. UnusedInv'
  <2>1. \A r \in Sessions : r # None
    BY DEF Sessions
  <2> QED
    BY <1>1, <1>3, <2>1 DEF ServerInv, UnusedInv, Unused
<1>6. ClosingInv'
  BY <1>1, <1>3 DEF ServerInv, ClosingInv, Registering
<1>7. ListenInv'
  BY <1>1, <1>2 DEF ServerInv, ListenInv, Registering
<1>8. SlotInv' /\ Capacity'
  BY <1>1, <1>2 DEF ServerInv, SlotInv, Capacity
<1> QED
  BY <1>4, <1>5, <1>6, <1>7, <1>8 DEF ServerInv

LEMMA EndSteps ==
  ASSUME ServerInv, Exit \/ (\E c \in Contexts : IoEnds(c)) \/ UNCHANGED serverVars
  PROVE  ServerInv'
<1>1. /\ UNCHANGED <<main, accept, sessions, closing>> /\ exiting' \in BOOLEAN
      /\ io' \in [Contexts -> {"idle", "erase", "shut", "ended"}]
      /\ \A c \in Contexts : io'[c] \in {io[c], "ended"}
  BY DEF Exit, IoEnds, serverVars, pool, ServerInv, ServerTypeOK
<1> USE DEF main, accept, sessions
<1>2. ServerTypeOK'
  BY <1>1 DEF ServerInv, ServerTypeOK
<1>3. ClosingInv'
  BY <1>1 DEF ServerInv, ClosingInv, Registering
<1>4. UnusedInv' /\ ListenInv' /\ SlotInv' /\ Capacity'
  BY <1>1 DEF ServerInv, UnusedInv, Unused, ListenInv, SlotInv, Capacity, Registering
<1> QED
  BY <1>2, <1>3, <1>4 DEF ServerInv

LEMMA NextServerInv == ServerInv /\ [ServerNext]_serverVars => ServerInv'
<1> SUFFICES ASSUME ServerInv, [ServerNext]_serverVars PROVE ServerInv'
  OBVIOUS
<1>1. ASSUME NEW s \in Sessions, ReadCloses(s) \/ \E o \in OpNames : OpFails(s, o) PROVE ServerInv'
  BY <1>1, BeginCloseInv DEF ReadCloses, OpFails, OpNames
<1> QED
  BY <1>1, MainSteps, AcceptInv, ListenSteps, RefuseInv, InsertInv, OpsInv, EraseInv, ShutInv, EndSteps DEF ServerNext

-----------------------------------------------------------------------------
(* Sessions nobody has connected to are unused, and a thread that closes a *)
(* session goes with the table as it found it.                             *)
THEOREM ServerInvariance == ServerSpec => []ServerInv
<1> QED
  BY InitServerInv, NextServerInv, PTL DEF ServerSpec

(* The type invariant; the round robin stays within the pool.              *)
THEOREM ServerTypeCorrect == ServerSpec => []ServerTypeOK
<1>1. ServerInv => ServerTypeOK
  BY DEF ServerInv
<1> QED
  BY <1>1, ServerInvariance, PTL

(* The table never holds more than m_maxSessions, although onConnected     *)
(* measures it and inserts in separate steps, while io threads erase.      *)
THEOREM CapacityKept == ServerSpec => []Capacity
<1>1. ServerInv => Capacity
  BY DEF ServerInv
<1> QED
  BY <1>1, ServerInvariance, PTL

(* A slot is occupied by an open session, or by one that was closed before *)
(* its registration.                                                       *)
THEOREM SlotsAreOpen == ServerSpec => []SlotInv
<1>1. ServerInv => SlotInv
  BY DEF ServerInv
<1> QED
  BY <1>1, ServerInvariance, PTL
=============================================================================
