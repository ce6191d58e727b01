-------------------------- MODULE RpcServer_proofs --------------------------
(***************************************************************************)
(* RpcServer, for all clients, procedures, messages and limits: messages   *)
(* have the fate their content calls for, and answers match requests.      *)
(***************************************************************************)
EXTENDS RpcServer, FiniteSetTheorems, SequenceTheorems, TLAPS

USE RpcServerAssumption

-----------------------------------------------------------------------------
(* What is sent and what is answered.                                      *)
Everything == UNION {Texts[n] : n \in Calls}
ErrorText  == Text(CreateFromInt(ToInt("ParseError")))
AnswerTo(x) == Document(CreateResponseFromRequest(x.value, Reply(x.value)))
Calling(x) == IsRequest(x) /\ IsReturnCall(x.value)
Out == {ErrorText} \cup {AnswerTo(x) : x \in {y \in Everything : Calling(y)}}

Types ==
    /\ running \in BOOLEAN /\ returns \subseteq Methods /\ notifies \subseteq Methods
    /\ sent \in Seq([client : Clients, text : Everything]) /\ Len(sent) <= MaxCalls
    /\ \A n \in 1..Len(sent) : sent[n].text \in Texts[n]
    /\ inbox \in [Clients -> Seq(Calls)] /\ outbox \in [Clients -> Seq(Out)]
    /\ tasks \subseteq Calls /\ busy \subseteq Calls
    /\ open \in [Clients -> BOOLEAN]
    /\ fate \in [Calls -> Fates] /\ ran \in [Calls -> 0..1]

(* A message that was sent is in one place until its fate is settled: in   *)
(* the inbox of its session, among the tasks, or with its procedure.       *)
Waits(n) == n \in 1..Len(sent) /\ fate[n] = "none"

Unread(c, n) == Waits(n) /\ Sender(n) = c /\ n \notin tasks /\ n \notin busy /\ ran[n] = 0

InboxInv ==
    \A c \in Clients :
        /\ ~open[c] => inbox[c] = <<>>
        /\ \A i \in 1..Len(inbox[c]) : \A n \in Calls : inbox[c][i] = n => Unread(c, n)
        /\ \A i, j \in 1..Len(inbox[c]) : inbox[c][i] = inbox[c][j] => i = j

TaskInv == \A n \in tasks : Waits(n) /\ n \notin busy /\ ran[n] = 0 /\ IsRequest(sent[n].text)

BusyInv ==
    \A n \in busy : Waits(n) /\ ran[n] = 1 /\ IsRequest(sent[n].text) /\ IsReturnCall(Request(n)) /\ Valid(n)

LaterInv == \A n \in Calls : n > Len(sent) => fate[n] = "none" /\ ran[n] = 0

(* No procedure is registered any more once messages arrive.               *)
RunningInv == Len(sent) > 0 => running

(* The number in a response tells which request it answers.                *)
Number(message) == message.value.result.term.number

Answered(c, message) ==
    LET n == Number(message)
    IN  /\ n \in 1..Len(sent) /\ Sender(n) = c /\ fate[n] = "answered" /\ ran[n] = 1
        /\ IsReturnCall(Request(n)) /\ message.value.id = GetId(Request(n))
        /\ Request(n).params.term.number = n

Told(c) == {n \in 1..Len(sent) : Sender(n) = c /\ fate[n] \in {"answered", "refused"}}

OutInv ==
    \A c \in Clients :
        /\ \A i \in 1..Len(outbox[c]) :
             IF IsResponse(outbox[c][i]) THEN Answered(c, outbox[c][i])
             ELSE \E n \in 1..Len(sent) : Sender(n) = c /\ fate[n] = "refused"
        /\ \A i, j \in 1..Len(outbox[c]) :
             /\ IsResponse(outbox[c][i]) /\ IsResponse(outbox[c][j])
             /\ Number(outbox[c][i]) = Number(outbox[c][j])
             => i = j
        /\ Len(outbox[c]) = Cardinality(Told(c))

IInv ==
    /\ Types /\ InboxInv /\ TaskInv /\ BusyInv /\ LaterInv /\ RunningInv
    /\ FateFits /\ OutInv

-----------------------------------------------------------------------------
(* What the operators give.                                                *)
LEMMA FieldsAre ==
    ASSUME NEW r
    PROVE  /\ RequestFieldsExist(r) <=> WellFormed(r)
           /\ RequestFieldsExist(r) => GetMethod(r) = r.method /\ IsMember(r, "params")
<1>1. /\ DOMAIN RequestTypes = {"jsonrpc", "method", "params"}
      /\ RequestTypes["jsonrpc"] = "stringValue" /\ RequestTypes["method"] = "stringValue"
      /\ RequestTypes["params"] = "objectValue"
  BY DEF RequestTypes
<1>2. RequestFieldsExist(r) <=> WellFormed(r)
  BY <1>1 DEF RequestFieldsExist, WellFormed, HasType, IsMember
<1>3. RequestFieldsExist(r) => GetMethod(r) = r.method /\ IsMember(r, "params")
  BY DEF RequestFieldsExist, HasType, GetMethod
<1> QED
  BY <1>2, <1>3

(* The answer to a call is a response with its id and its number.          *)
LEMMA AnswerIs ==
    ASSUME NEW n \in Calls, NEW x \in Texts[n], Calling(x)
    PROVE  /\ IsResponse(AnswerTo(x))
           /\ AnswerTo(x).value.id = GetId(x.value)
           /\ Number(AnswerTo(x)) = n
           /\ x.value.params.term.number = n
           /\ AnswerTo(x) \in Out
<1> DEFINE r == x.value
<1>1. RequestFieldsExist(r) /\ IsMember(r, "id") /\ IsRequest(x)
  BY DEF Calling, IsRequest, IsReturnCall
<1>2. "term" \in DOMAIN r.params /\ r.params.term.number = n
  BY <1>1, Numbered
<1>3. VoteReply(r).term = r.params.term
  BY <1>2 DEF VoteReply, ToJson, FromJson, Default, RequestVoteArgs, RequestVoteReply
<1>4. EntriesReply(r).term = r.params.term
  BY <1>2 DEF EntriesReply, ToJson, FromJson, Default, AppendEntriesArgs, AppendEntriesReply
<1>5. Reply(r).term = r.params.term
  BY <1>3, <1>4 DEF Reply
<1>6. AnswerTo(x) = Document(CreateResponse(r.id, Reply(r)))
  BY <1>1 DEF AnswerTo, CreateResponseFromRequest
<1>7. AnswerTo(x).form = "json" /\ AnswerTo(x).value = CreateResponse(r.id, Reply(r))
  BY <1>6 DEF Document
<1>8. IsResponse(AnswerTo(x))
  BY <1>7 DEF IsResponse, ResponseFieldsExist, IsMember, CreateResponse
<1>9. AnswerTo(x).value.id = GetId(x.value)
  BY <1>1, <1>7 DEF CreateResponse, GetId
<1>10. Number(AnswerTo(x)) = n
  BY <1>2, <1>5, <1>7 DEF Number, CreateResponse
<1>11. AnswerTo(x) \in Out
  BY DEF Out, Everything
<1> QED
  BY <1>2, <1>8, <1>9, <1>10, <1>11

LEMMA ErrorIs == ErrorText \in Out /\ ~IsResponse(ErrorText)
BY DEF Out, ErrorText, Text, IsResponse

(* The fate a message must have, from its content.                         *)
LEMMA FatesAre ==
    ASSUME Types, NEW n \in 1..Len(sent)
    PROVE  /\ ParseThrows(sent[n].text) => "closed" \in FatesOf(n)
           /\ ~ParseThrows(sent[n].text) /\ ~IsRequest(sent[n].text) => "refused" \in FatesOf(n)
           /\ IsRequest(sent[n].text) /\ ~Valid(n) => "dropped" \in FatesOf(n)
           /\ IsRequest(sent[n].text) /\ Valid(n) /\ IsReturnCall(Request(n))
                => "answered" \in FatesOf(n) /\ "lost" \in FatesOf(n) /\ "failed" \in FatesOf(n)
           /\ IsRequest(sent[n].text) /\ Valid(n) /\ IsNotification(Request(n)) => "notified" \in FatesOf(n)
<1> DEFINE r == Request(n)
<1>1. n \in Calls /\ sent[n].text.form \in {"json", "value", "text"}
  BY DEF Types, Calls
<1>2. CASE ~IsRequest(sent[n].text)
  BY <1>1, <1>2, FieldsAre DEF IsRequest, ParseThrows, FatesOf, NoObject, Request
<1>3. CASE IsRequest(sent[n].text)
  <2>1. sent[n].text.form = "json" /\ WellFormed(r) /\ GetMethod(r) = r.method /\ IsMember(r, "params")
    BY <1>3, FieldsAre DEF IsRequest, Request
  <2>2. ValidateGeneric(ParamsOf[r.method], r) <=> WellTyped(r)
    BY <2>1 DEF ValidateGeneric, WellTyped
  <2>3. Valid(n) <=> r.method \in Procedures(n) /\ WellTyped(r)
    BY <2>1, <2>2 DEF Valid
  <2> QED
    BY <1>3, <2>1, <2>3 DEF FatesOf, NoObject, ParseThrows, Procedures, IsReturnCall, IsNotification, IsMember
<1> QED
  BY <1>2, <1>3

(* Nothing that was sent changes, and neither do the registered procedures *)
(* once messages arrive: content alone decides.                            *)
LEMMA ContentSame ==
    ASSUME UNCHANGED <<returns, notifies>>, NEW n, sent'[n] = sent[n]
    PROVE  /\ Request(n)' = Request(n) /\ Sender(n)' = Sender(n)
           /\ Valid(n)' = Valid(n) /\ FatesOf(n)' = FatesOf(n)
<1>1. Request(n)' = Request(n) /\ Sender(n)' = Sender(n)
  BY DEF Request, Sender
<1>2. Valid(n)' = Valid(n)
  BY <1>1 DEF Valid, Procedures
<1>3. FatesOf(n)' = FatesOf(n)
  BY <1>1 DEF FatesOf
<1> QED
  BY <1>1, <1>2, <1>3

LEMMA Lengths ==
    ASSUME Types
    PROVE  /\ Len(sent) \in Nat /\ Len(sent) <= MaxCalls /\ Calls = 1..MaxCalls
           /\ 1..Len(sent) \subseteq Calls
           /\ \A k \in Calls : k \in 1..Len(sent) \/ k > Len(sent)
           /\ \A k \in 1..Len(sent) : Sender(k) \in Clients
<1> DEFINE S == [client : Clients, text : Everything]
<1>1. Len(sent) \in Nat /\ Len(sent) <= MaxCalls /\ sent \in Seq(S)
  BY DEF Types
<1>2. \A x \in S : x.client \in Clients
  OBVIOUS
<1> HIDE DEF S
<1>3. \A k \in 1..Len(sent) : sent[k] \in S
  BY <1>1
<1> QED
  BY <1>1, <1>2, <1>3 DEF Calls, Sender

-----------------------------------------------------------------------------
(* Lemmas for the parts of the invariant that most steps leave alone.      *)
LEMMA FitKeep ==
    ASSUME IInv, Types', UNCHANGED <<returns, notifies>>,
           \A k \in 1..Len(sent) : sent'[k] = sent[k],
           \A k \in Calls : \/ fate'[k] = fate[k]
                            \/ k \in 1..Len(sent) /\ fate'[k] \in FatesOf(k)
    PROVE  FateFits'
<1> SUFFICES ASSUME NEW k \in Calls, fate'[k] # "none" PROVE fate'[k] \in FatesOf(k)'
  BY DEF FateFits
<1>1. k \in 1..Len(sent)
  BY Lengths DEF IInv, LaterInv
<1>2. fate'[k] \in FatesOf(k)
  BY DEF IInv, FateFits
<1> QED
  BY <1>1, <1>2, ContentSame

(* A step that sends nothing, and settles only messages whose caller is    *)
(* told nothing.                                                           *)
LEMMA OutKeep ==
    ASSUME IInv, Types', outbox' = outbox, Len(sent) <= Len(sent'),
           \A k \in 1..Len(sent) : sent'[k] = sent[k],
           \A k \in Calls : \/ fate'[k] = fate[k] /\ ran'[k] = ran[k]
                            \/ fate[k] = "none" /\ fate'[k] \notin {"answered", "refused"}
    PROVE  OutInv'
<1>0. /\ 1..Len(sent) \subseteq Calls /\ 1..Len(sent) \subseteq 1..Len(sent') /\ 1..Len(sent') \subseteq Calls
      /\ \A k \in Calls : k \in 1..Len(sent) \/ k > Len(sent)
  <2>1. Len(sent') \in Nat /\ Len(sent') <= MaxCalls
    BY DEF Types
  <2> QED
    BY <2>1, Lengths DEF IInv, Calls
<1>1. \A c \in Clients : Told(c)' = Told(c)
  <2> SUFFICES ASSUME NEW c \in Clients, NEW k
               PROVE  k \in Told(c)' <=> k \in Told(c)
    OBVIOUS
  <2>1. CASE k \in 1..Len(sent)
    <3>1. k \in Calls /\ k \in 1..Len(sent') /\ Sender(k)' = Sender(k)
      BY <1>0, <2>1 DEF Sender
    <3> QED
      BY <2>1, <3>1 DEF Told
  <2>2. CASE k \notin 1..Len(sent) /\ k \in 1..Len(sent')
    <3>1. k \in Calls /\ k > Len(sent)
      BY <1>0, <2>2
    <3>2. fate'[k] \notin {"answered", "refused"}
      BY <3>1 DEF IInv, LaterInv
    <3> QED
      BY <2>2, <3>2 DEF Told
  <2>3. CASE k \notin 1..Len(sent) /\ k \notin 1..Len(sent')
    BY <2>3 DEF Told
  <2> QED
    BY <2>1, <2>2, <2>3
<1>2. \A k \in 1..Len(sent) : k \in Calls /\ k \in 1..Len(sent') /\ Request(k)' = Request(k) /\ Sender(k)' = Sender(k)
  BY <1>0 DEF Request, Sender
<1>3. ASSUME NEW c \in Clients, NEW i \in 1..Len(outbox[c])
      PROVE  IF IsResponse(outbox[c][i])' THEN Answered(c, outbox[c][i])'
             ELSE \E n \in 1..Len(sent') : Sender(n)' = c /\ fate'[n] = "refused"
  <2>1. CASE IsResponse(outbox[c][i])
    <3>1. Answered(c, outbox[c][i])
      BY <2>1 DEF IInv, OutInv
    <3>2. Number(outbox[c][i]) \in Calls /\ Number(outbox[c][i])' = Number(outbox[c][i])
      BY <1>2, <3>1 DEF Answered, Number
    <3>3. Answered(c, outbox[c][i])'
      BY <1>2, <3>1, <3>2 DEF Answered
    <3> QED
      BY <2>1, <3>3
  <2>2. CASE ~IsResponse(outbox[c][i])
    <3>1. PICK n \in 1..Len(sent) : Sender(n) = c /\ fate[n] = "refused"
      BY <2>2 DEF IInv, OutInv
    <3>2. n \in Calls /\ fate'[n] = "refused"
      BY <1>2, <3>1
    <3> QED
      BY <1>2, <2>2, <3>1, <3>2
  <2> QED
    BY <2>1, <2>2
<1>4. \A c \in Clients : \A i, j \in 1..Len(outbox[c]) :
         /\ IsResponse(outbox[c][i])' /\ IsResponse(outbox[c][j])'
         /\ Number(outbox[c][i])' = Number(outbox[c][j])'
         => i = j
  BY DEF IInv, OutInv, Number
<1>5. \A c \in Clients : Len(outbox'[c]) = Cardinality(Told(c))'
  BY <1>1 DEF IInv, OutInv
<1> QED
  BY <1>3, <1>4, <1>5 DEF OutInv

(* A message leaves on c, about the message n of the same client.          *)
LEMMA OutAppend ==
    ASSUME IInv, Types', NEW c \in Clients, NEW n, Waits(n), Sender(n) = c,
           NEW message, NEW what,
           UNCHANGED <<sent, ran>>, fate' = [fate EXCEPT ![n] = what],
           outbox' = [outbox EXCEPT ![c] = Append(@, message)],
           IF IsResponse(message)
           THEN what = "answered" /\ ran[n] = 1 /\ Number(message) = n /\ IsReturnCall(Request(n))
                /\ message.value.id = GetId(Request(n)) /\ Request(n).params.term.number = n
           ELSE what = "refused"
    PROVE  OutInv'
<1>1. n \in 1..Len(sent) /\ n \in Calls /\ fate[n] = "none" /\ fate \in [Calls -> Fates] /\ outbox \in [Clients -> Seq(Out)]
      /\ outbox' \in [Clients -> Seq(Out)] /\ Len(sent) \in Nat
  BY DEF IInv, Types, Waits, Calls
<1>2. fate'[n] = what /\ \A k \in Calls \ {n} : fate'[k] = fate[k]
  BY <1>1
<1>3. \A k \in 1..Len(sent) : k \in Calls /\ Request(k)' = Request(k) /\ Sender(k)' = Sender(k)
  BY DEF IInv, Types, Calls, Request, Sender
<1>4. outbox'[c] = Append(outbox[c], message) /\ \A d \in Clients \ {c} : outbox'[d] = outbox[d]
  BY <1>1
<1>5. /\ Len(outbox'[c]) = Len(outbox[c]) + 1 /\ Len(outbox[c]) \in Nat
      /\ outbox'[c][Len(outbox[c]) + 1] = message
      /\ \A i \in 1..Len(outbox[c]) : outbox'[c][i] = outbox[c][i]
  <2>1. outbox[c] \in Seq(Out)
    BY <1>1
  <2> DEFINE o == outbox[c]
  <2>2. o \in Seq(Out) /\ outbox'[c] = Append(o, message)
    BY <2>1, <1>4
  <2> HIDE DEF o
  <2>3. Len(Append(o, message)) = Len(o) + 1 /\ Len(o) \in Nat
        /\ Append(o, message)[Len(o) + 1] = message
        /\ \A i \in 1..Len(o) : Append(o, message)[i] = o[i]
    BY <2>2
  <2> QED
    BY <2>2, <2>3 DEF o
<1>6. ASSUME NEW d \in Clients, NEW i \in 1..Len(outbox[d])
      PROVE  /\ outbox'[d][i] = outbox[d][i]
             /\ IF IsResponse(outbox[d][i])
                THEN Answered(d, outbox[d][i])' /\ Number(outbox[d][i]) # n
                ELSE \E k \in 1..Len(sent') : Sender(k)' = d /\ fate'[k] = "refused"
  <2>1. outbox'[d][i] = outbox[d][i]
    BY <1>4, <1>5
  <2>2. CASE IsResponse(outbox[d][i])
    <3>1. Answered(d, outbox[d][i])
      BY <2>2 DEF IInv, OutInv
    <3> DEFINE k == Number(outbox[d][i])
    <3>2. k \in 1..Len(sent) /\ k # n
      BY <1>1, <3>1 DEF Answered
    <3>3. k \in Calls /\ fate'[k] = fate[k] /\ ran'[k] = ran[k]
      BY <1>2, <1>3, <3>2
    <3>4. Answered(d, outbox[d][i])'
      BY <1>3, <2>1, <3>1, <3>2, <3>3 DEF Answered, Number
    <3> QED
      BY <2>1, <2>2, <3>2, <3>4
  <2>3. CASE ~IsResponse(outbox[d][i])
    <3>1. PICK k \in 1..Len(sent) : Sender(k) = d /\ fate[k] = "refused"
      BY <2>3 DEF IInv, OutInv
    <3>2. k \in Calls /\ k # n
      BY <1>1, <1>3, <3>1
    <3> QED
      BY <1>2, <1>3, <2>1, <2>3, <3>1, <3>2
  <2> QED
    BY <2>2, <2>3
<1>7. ASSUME NEW d \in Clients, NEW i \in 1..Len(outbox'[d])
      PROVE  \/ i \in 1..Len(outbox[d])
             \/ d = c /\ i = Len(outbox[c]) + 1 /\ outbox'[d][i] = message
  BY <1>4, <1>5
<1>8. IF IsResponse(message)
      THEN Answered(c, message)' /\ Number(message) = n
      ELSE Sender(n)' = c /\ fate'[n] = "refused"
  BY <1>1, <1>2, <1>3 DEF Answered, Number
<1>9. \A d \in Clients : \A i \in 1..Len(outbox'[d]) :
         IF IsResponse(outbox[d][i])' THEN Answered(d, outbox[d][i])'
         ELSE \E k \in 1..Len(sent') : Sender(k)' = d /\ fate'[k] = "refused"
  <2> SUFFICES ASSUME NEW d \in Clients, NEW i \in 1..Len(outbox'[d])
               PROVE  IF IsResponse(outbox[d][i])' THEN Answered(d, outbox[d][i])'
                      ELSE \E k \in 1..Len(sent') : Sender(k)' = d /\ fate'[k] = "refused"
    OBVIOUS
  <2>1. CASE i \in 1..Len(outbox[d])
    BY <2>1, <1>6
  <2>2. CASE d = c /\ i = Len(outbox[c]) + 1 /\ outbox'[d][i] = message
    <3>1. CASE IsResponse(message)
      BY <1>8, <2>2, <3>1 DEF Answered, Number
    <3>2. CASE ~IsResponse(message)
      BY <1>1, <1>8, <2>2, <3>2
    <3> QED
      BY <3>1, <3>2
  <2> QED
    BY <1>7, <2>1, <2>2
<1>10. \A d \in Clients : \A i, j \in 1..Len(outbox'[d]) :
          /\ IsResponse(outbox[d][i])' /\ IsResponse(outbox[d][j])'
          /\ Number(outbox[d][i])' = Number(outbox[d][j])'
          => i = j
  <2> SUFFICES ASSUME NEW d \in Clients, NEW i \in 1..Len(outbox'[d]), NEW j \in 1..Len(outbox'[d]),
                      IsResponse(outbox[d][i])', IsResponse(outbox[d][j])',
                      Number(outbox[d][i])' = Number(outbox[d][j])'
               PROVE  i = j
    OBVIOUS
  <2>0. /\ IsResponse(outbox'[d][i]) /\ IsResponse(outbox'[d][j])
        /\ Number(outbox'[d][i]) = Number(outbox'[d][j])
    BY DEF Number
  <2>1. CASE i \in 1..Len(outbox[d]) /\ j \in 1..Len(outbox[d])
    BY <1>6, <2>0, <2>1 DEF IInv, OutInv
  <2>2. CASE i \in 1..Len(outbox[d]) /\ ~(j \in 1..Len(outbox[d]))
    BY <1>6, <1>7, <1>8, <2>0, <2>2
  <2>3. CASE ~(i \in 1..Len(outbox[d])) /\ j \in 1..Len(outbox[d])
    BY <1>6, <1>7, <1>8, <2>0, <2>3
  <2>4. CASE ~(i \in 1..Len(outbox[d])) /\ ~(j \in 1..Len(outbox[d]))
    BY <1>7, <2>4
  <2> QED
    BY <2>1, <2>2, <2>3, <2>4
<1>11. \A d \in Clients : Len(outbox'[d]) = Cardinality(Told(d)')
  <2>1. Told(c)' = Told(c) \cup {n} /\ n \notin Told(c)
    BY <1>1, <1>2, <1>3 DEF Told
  <2>2. \A d \in Clients \ {c} : Told(d)' = Told(d)
    BY <1>1, <1>2, <1>3 DEF Told
  <2>3. IsFiniteSet(Told(c))
    <3>1. IsFiniteSet(1..Len(sent)) /\ Told(c) \subseteq 1..Len(sent)
      BY <1>1, FS_Interval DEF Told
    <3> QED
      BY <3>1, FS_Subset
  <2>4. Cardinality(Told(c)') = Cardinality(Told(c)) + 1
    <3> DEFINE T == Told(c)
    <3>1. Told(c)' = T \cup {n} /\ n \notin T /\ IsFiniteSet(T)
      BY <2>1, <2>3
    <3> HIDE DEF T
    <3>2. Cardinality(T \cup {n}) = Cardinality(T) + 1
      BY <3>1, FS_AddElement
    <3>3. Cardinality(Told(c)') = Cardinality(T) + 1
      BY <3>1, <3>2, Zenon
    <3> QED
      BY <3>3 DEF T
  <2>5. Len(outbox'[c]) = Cardinality(Told(c)')
    BY <1>5, <2>4 DEF IInv, OutInv
  <2>6. \A d \in Clients \ {c} : Len(outbox'[d]) = Cardinality(Told(d)')
    BY <1>4, <2>2 DEF IInv, OutInv
  <2> QED
    BY <2>5, <2>6
<1> QED
  BY <1>9, <1>10, <1>11 DEF OutInv

(* A worker works on message n, which is a task or with its procedure.     *)
LEMMA WorkKeeps ==
    ASSUME IInv, Types', NEW n, n \in tasks \/ n \in busy,
           UNCHANGED <<running, returns, notifies, sent, inbox, open>>,
           tasks' \subseteq tasks \ {n}, busy' \subseteq busy \cup {n},
           \A k \in Calls \ {n} : fate'[k] = fate[k] /\ ran'[k] = ran[k]
    PROVE  /\ InboxInv' /\ TaskInv' /\ LaterInv' /\ RunningInv'
           /\ n \in 1..Len(sent) /\ n \in Calls /\ fate[n] = "none"
           /\ n \notin busy' => BusyInv'
           /\ Waits(n)' /\ ran'[n] = 1 /\ IsRequest(sent[n].text) /\ IsReturnCall(Request(n)) /\ Valid(n)
                => BusyInv'
<1>1. n \in 1..Len(sent) /\ n \in Calls /\ fate[n] = "none" /\ Waits(n)
  BY Lengths DEF IInv, TaskInv, BusyInv, Waits
<1>2. \A k : /\ Waits(k) /\ k # n => Waits(k)' /\ k \in Calls
             /\ Sender(k)' = Sender(k) /\ Request(k)' = Request(k)
             /\ IsRequest(sent[k].text)' = IsRequest(sent[k].text) /\ Valid(k)' = Valid(k)
  <2> SUFFICES ASSUME NEW k
               PROVE  /\ Waits(k) /\ k # n => Waits(k)' /\ k \in Calls
                      /\ Sender(k)' = Sender(k) /\ Request(k)' = Request(k)
                      /\ IsRequest(sent[k].text)' = IsRequest(sent[k].text) /\ Valid(k)' = Valid(k)
    OBVIOUS
  <2>1. Waits(k) /\ k # n => Waits(k)' /\ k \in Calls
    BY Lengths DEF IInv, Waits
  <2>2. sent'[k] = sent[k]
    OBVIOUS
  <2> QED
    BY <2>1, <2>2, ContentSame
<1>3. InboxInv'
  <2> SUFFICES ASSUME NEW c \in Clients
               PROVE  /\ ~open[c] => inbox[c] = <<>>
                      /\ \A i \in 1..Len(inbox[c]) : \A k \in Calls : inbox[c][i] = k => Unread(c, k)'
                      /\ \A i, j \in 1..Len(inbox[c]) : inbox[c][i] = inbox[c][j] => i = j
    BY DEF InboxInv
  <2>1. ASSUME NEW i \in 1..Len(inbox[c]), NEW k \in Calls, inbox[c][i] = k
        PROVE  Unread(c, k)'
    <3>1. Unread(c, k)
      BY <2>1 DEF IInv, InboxInv
    <3> QED
      BY <1>2, <3>1 DEF Unread
  <2> QED
    BY <2>1 DEF IInv, InboxInv
<1>4. TaskInv'
  <2> SUFFICES ASSUME NEW k \in tasks'
               PROVE  Waits(k)' /\ k \notin busy' /\ ran'[k] = 0 /\ IsRequest(sent[k].text)'
    BY DEF TaskInv
  <2>1. Waits(k) /\ k # n /\ k \notin busy /\ ran[k] = 0 /\ IsRequest(sent[k].text)
    BY DEF IInv, TaskInv
  <2> QED
    BY <1>2, <2>1
<1>5. LaterInv' /\ RunningInv'
  BY <1>1, Lengths DEF IInv, LaterInv, RunningInv
<1>6. \A k \in busy' \ {n} :
         /\ Waits(k)' /\ ran'[k] = 1 /\ IsRequest(sent[k].text)'
         /\ IsReturnCall(Request(k))' /\ Valid(k)'
  <2> SUFFICES ASSUME NEW k \in busy' \ {n}
               PROVE  /\ Waits(k)' /\ ran'[k] = 1 /\ IsRequest(sent[k].text)'
                      /\ IsReturnCall(Request(k))' /\ Valid(k)'
    OBVIOUS
  <2>1. Waits(k) /\ ran[k] = 1 /\ IsRequest(sent[k].text) /\ IsReturnCall(Request(k)) /\ Valid(k)
    BY DEF IInv, BusyInv
  <2>2. IsReturnCall(Request(k))' = IsReturnCall(Request(k))
    BY <1>2
  <2> QED
    BY <1>2, <2>1, <2>2
<1>7. n \notin busy' => BusyInv'
  BY <1>6 DEF BusyInv
<1>8. Waits(n)' /\ ran'[n] = 1 /\ IsRequest(sent[n].text) /\ IsReturnCall(Request(n)) /\ Valid(n) => BusyInv'
  <2>1. IsReturnCall(Request(n))' = IsReturnCall(Request(n))
    BY <1>2
  <2> QED
    BY <1>2, <1>6, <2>1 DEF BusyInv
<1> QED
  BY <1>1, <1>3, <1>4, <1>5, <1>7, <1>8

-----------------------------------------------------------------------------
LEMMA InitIInv == Init => IInv
<1> SUFFICES ASSUME Init PROVE IInv
  OBVIOUS
<1>1. Types
  <2>1. running \in BOOLEAN /\ returns \subseteq Methods /\ notifies \subseteq Methods
        /\ tasks \subseteq Calls /\ busy \subseteq Calls /\ open \in [Clients -> BOOLEAN]
    BY DEF Init
  <2>2. sent \in Seq([client : Clients, text : Everything]) /\ Len(sent) = 0 /\ 1..Len(sent) = {}
    BY DEF Init
  <2>3. inbox \in [Clients -> Seq(Calls)] /\ outbox \in [Clients -> Seq(Out)]
    BY DEF Init
  <2>4. fate \in [Calls -> Fates] /\ ran \in [Calls -> 0..1]
    BY DEF Init, Fates
  <2>5. Len(sent) <= MaxCalls /\ \A n \in 1..Len(sent) : sent[n].text \in Texts[n]
    BY <2>2
  <2> QED
    BY <2>1, <2>2, <2>3, <2>4, <2>5 DEF Types
<1>2. Len(sent) = 0 /\ 1..Len(sent) = {}
  BY DEF Init
<1>3. \A c \in Clients : Len(inbox[c]) = 0 /\ inbox[c] = <<>> /\ Len(outbox[c]) = 0 /\ Told(c) = {}
  BY <1>2 DEF Init, Told
<1>4. InboxInv
  BY <1>3 DEF InboxInv
<1>5. TaskInv /\ BusyInv /\ LaterInv /\ RunningInv /\ FateFits
  BY <1>2 DEF Init, TaskInv, BusyInv, LaterInv, RunningInv, FateFits
<1>6. OutInv
  <2>1. \A c \in Clients : 1..Len(outbox[c]) = {} /\ Cardinality(Told(c)) = 0
    <3>1. \A c \in Clients : 1..Len(outbox[c]) = {}
      BY <1>3
    <3>2. \A c \in Clients : Cardinality(Told(c)) = 0
      BY <1>3, FS_EmptySet, Zenon
    <3> QED
      BY <3>1, <3>2
  <2> QED
    BY <1>3, <2>1 DEF OutInv
<1> QED
  BY <1>1, <1>4, <1>5, <1>6 DEF IInv

(* Registering and starting: no message has arrived yet.                   *)
LEMMA BeforeInv ==
    ASSUME IInv, ~running, running' \in BOOLEAN, returns' \subseteq Methods, notifies' \subseteq Methods,
           UNCHANGED <<sent, inbox, tasks, busy, outbox, open, fate, ran>>
    PROVE  IInv'
<1>1. Len(sent) = 0 /\ 1..Len(sent) = {}
  <2>1. Len(sent) \in Nat /\ ~(Len(sent) > 0)
    BY DEF IInv, Types, RunningInv
  <2> QED
    BY <2>1
<1>2. Types'
  BY DEF IInv, Types
<1>3. tasks = {} /\ busy = {} /\ \A k \in Calls : fate[k] = "none"
  BY <1>1, Lengths DEF IInv, TaskInv, BusyInv, Waits, LaterInv
<1>4. InboxInv' /\ TaskInv' /\ BusyInv' /\ LaterInv' /\ RunningInv' /\ FateFits'
  <2>1. InboxInv'
    BY DEF IInv, InboxInv, Unread, Waits, Sender
  <2>2. TaskInv' /\ BusyInv' /\ LaterInv' /\ RunningInv' /\ FateFits'
    BY <1>1, <1>3 DEF IInv, TaskInv, BusyInv, LaterInv, RunningInv, FateFits
  <2> QED
    BY <2>1, <2>2
<1>5. OutInv'
  BY <1>2, Lengths, OutKeep DEF IInv
<1> QED
  BY <1>2, <1>4, <1>5 DEF IInv

LEMMA SendInv ==
    ASSUME IInv, NEW c \in Clients, NEW m \in Calls, NEW x \in Texts[m], Send(c, x)
    PROVE  IInv'
<1> USE DEF IInv
<1>0. PICK n \in Calls : n = Len(sent) + 1
  <2>1. Len(sent) \in Nat /\ Len(sent) + 1 <= MaxCalls
    BY Lengths DEF Send
  <2> QED
    BY <2>1 DEF Calls
<1>1. /\ running /\ open[c] /\ Len(sent) \in Nat /\ n \in Calls /\ x \in Texts[n] /\ x \in Everything
      /\ sent \in Seq([client : Clients, text : Everything]) /\ inbox \in [Clients -> Seq(Calls)]
  BY <1>0, Lengths DEF Send, Types, Everything
<1>2. /\ sent' = Append(sent, [client |-> c, text |-> x])
      /\ inbox' = [inbox EXCEPT ![c] = Append(@, n)]
      /\ UNCHANGED <<running, returns, notifies, tasks, busy, outbox, open, fate, ran>>
  BY <1>0 DEF Send
<1>3. /\ sent' \in Seq([client : Clients, text : Everything]) /\ Len(sent') = n
      /\ sent'[n] = [client |-> c, text |-> x] /\ \A k \in 1..Len(sent) : sent'[k] = sent[k]
  <2>1. [client |-> c, text |-> x] \in [client : Clients, text : Everything]
    BY <1>1
  <2> QED
    BY <1>0, <1>1, <1>2, <2>1
<1>4. /\ inbox' \in [Clients -> Seq(Calls)] /\ Len(inbox[c]) \in Nat
      /\ Len(inbox'[c]) = Len(inbox[c]) + 1 /\ inbox'[c][Len(inbox[c]) + 1] = n
      /\ \A i \in 1..Len(inbox[c]) : inbox'[c][i] = inbox[c][i]
      /\ \A d \in Clients \ {c} : inbox'[d] = inbox[d]
  <2> DEFINE s == inbox[c]
  <2>1. s \in Seq(Calls) /\ inbox'[c] = Append(s, n)
    BY <1>1, <1>2
  <2>2. \A d \in Clients \ {c} : inbox'[d] = inbox[d]
    BY <1>1, <1>2
  <2> HIDE DEF s
  <2>3. Len(Append(s, n)) = Len(s) + 1 /\ Len(s) \in Nat /\ Append(s, n)[Len(s) + 1] = n
        /\ Append(s, n) \in Seq(Calls) /\ \A i \in 1..Len(s) : Append(s, n)[i] = s[i]
    BY <1>1, <2>1
  <2>4. inbox' \in [Clients -> Seq(Calls)]
    BY <1>1, <1>2, <2>1, <2>3
  <2> QED
    BY <2>1, <2>2, <2>3, <2>4 DEF s
<1>5. Types'
  <2>1. n <= MaxCalls /\ \A k \in 1..n : k = n \/ k \in 1..Len(sent)
    BY <1>0, <1>1, Lengths DEF Calls
  <2>2. \A k \in 1..Len(sent') : sent'[k].text \in Texts[k]
    <3>1. sent'[n].text \in Texts[n]
      BY <1>1, <1>3
    <3>2. \A k \in 1..Len(sent) : sent'[k].text \in Texts[k]
      BY <1>3 DEF Types
    <3> QED
      BY <1>3, <2>1, <3>1, <3>2
  <2> QED
    BY <1>2, <1>3, <1>4, <2>1, <2>2 DEF Types
<1>6. fate[n] = "none" /\ ran[n] = 0 /\ n \notin tasks /\ n \notin busy /\ n \notin 1..Len(sent)
      /\ \A d \in Clients : \A i \in 1..Len(inbox[d]) : inbox[d][i] # n
  <2>1. n \notin 1..Len(sent) /\ n > Len(sent)
    BY <1>0, <1>1
  <2> QED
    BY <1>1, <2>1 DEF LaterInv, TaskInv, BusyInv, InboxInv, Unread, Waits
<1>7. \A k : Waits(k) => /\ Waits(k)' /\ Sender(k)' = Sender(k) /\ Request(k)' = Request(k)
                         /\ IsRequest(sent[k].text)' = IsRequest(sent[k].text)
                         /\ IsReturnCall(Request(k))' = IsReturnCall(Request(k)) /\ Valid(k)' = Valid(k)
  <2> SUFFICES ASSUME NEW k, Waits(k)
               PROVE  /\ Waits(k)' /\ Sender(k)' = Sender(k) /\ Request(k)' = Request(k)
                      /\ IsRequest(sent[k].text)' = IsRequest(sent[k].text)
                      /\ IsReturnCall(Request(k))' = IsReturnCall(Request(k)) /\ Valid(k)' = Valid(k)
    OBVIOUS
  <2>1. k \in 1..Len(sent) /\ k \in 1..Len(sent') /\ sent'[k] = sent[k]
    <3>1. k \in 1..Len(sent)
      BY DEF Waits
    <3>2. 1..Len(sent) \subseteq 1..Len(sent')
      BY <1>0, <1>1, <1>3
    <3> QED
      BY <1>3, <3>1, <3>2
  <2>2. Waits(k)'
    BY <1>2, <2>1 DEF Waits
  <2> QED
    BY <1>2, <2>1, <2>2, ContentSame
<1>8. Waits(n)' /\ Sender(n)' = c
  <2>1. n \in 1..n
    BY <1>0, <1>1
  <2> QED
    BY <1>2, <1>3, <1>6, <2>1 DEF Waits, Sender
<1>9. InboxInv'
  <2> SUFFICES ASSUME NEW d \in Clients
               PROVE  /\ ~open'[d] => inbox'[d] = <<>>
                      /\ \A i \in 1..Len(inbox'[d]) : \A k \in Calls : inbox'[d][i] = k => Unread(d, k)'
                      /\ \A i, j \in 1..Len(inbox'[d]) : inbox'[d][i] = inbox'[d][j] => i = j
    BY DEF InboxInv
  <2>1. ~open'[d] => inbox'[d] = <<>>
    BY <1>1, <1>2, <1>4 DEF InboxInv
  <2>2. ASSUME NEW i \in 1..Len(inbox'[d])
        PROVE  \/ i \in 1..Len(inbox[d]) /\ inbox'[d][i] = inbox[d][i]
               \/ d = c /\ i = Len(inbox[c]) + 1 /\ inbox'[d][i] = n
    BY <1>4
  <2>3. ASSUME NEW i \in 1..Len(inbox'[d]), NEW k \in Calls, inbox'[d][i] = k
        PROVE  Unread(d, k)'
    <3>1. CASE i \in 1..Len(inbox[d]) /\ inbox'[d][i] = inbox[d][i]
      <4>1. Unread(d, k)
        BY <2>3, <3>1 DEF InboxInv
      <4> QED
        BY <1>2, <1>7, <4>1 DEF Unread
    <3>2. CASE d = c /\ i = Len(inbox[c]) + 1 /\ inbox'[d][i] = n
      BY <1>2, <1>6, <1>8, <2>3, <3>2 DEF Unread
    <3> QED
      BY <2>2, <3>1, <3>2
  <2>4. ASSUME NEW i \in 1..Len(inbox'[d]), NEW j \in 1..Len(inbox'[d]), inbox'[d][i] = inbox'[d][j]
        PROVE  i = j
    BY <1>6, <2>2, <2>4 DEF InboxInv
  <2> QED
    BY <2>1, <2>3, <2>4
<1>10. TaskInv' /\ BusyInv'
  BY <1>2, <1>7 DEF TaskInv, BusyInv
<1>11. LaterInv' /\ RunningInv'
  BY <1>0, <1>1, <1>2, <1>3 DEF LaterInv, RunningInv, Calls
<1>12. FateFits'
  BY <1>2, <1>3, <1>5, FitKeep
<1>13. OutInv'
  <2>1. Len(sent) <= Len(sent')
    BY <1>0, <1>1, <1>3
  <2> QED
    BY <1>2, <1>3, <1>5, <2>1, OutKeep
<1> QED
  BY <1>5, <1>9, <1>10, <1>11, <1>12, <1>13

(* A session closes, and a message it had not read is settled or not.      *)
LEMMA SessionCloses ==
    ASSUME IInv, NEW c \in Clients, CloseSession(c),
           UNCHANGED <<running, returns, notifies, sent, tasks, busy, outbox, ran>>,
           fate' \in [Calls -> Fates],
           \A k \in Calls : \/ fate'[k] = fate[k]
                            \/ Unread(c, k) /\ fate'[k] = "closed" /\ "closed" \in FatesOf(k)
    PROVE  IInv'
<1>0. open' = [open EXCEPT ![c] = FALSE] /\ inbox' = [inbox EXCEPT ![c] = <<>>]
  BY DEF CloseSession
<1>1. Types'
  <2>1. inbox' \in [Clients -> Seq(Calls)] /\ open' \in [Clients -> BOOLEAN]
    BY <1>0 DEF IInv, Types
  <2> QED
    BY <2>1 DEF IInv, Types
<1>2. /\ inbox'[c] = <<>> /\ Len(inbox'[c]) = 0
      /\ \A d \in Clients \ {c} : inbox'[d] = inbox[d] /\ open'[d] = open[d]
  BY <1>0 DEF IInv, Types
<1>3. InboxInv'
  <2> SUFFICES ASSUME NEW d \in Clients
               PROVE  /\ ~open'[d] => inbox'[d] = <<>>
                      /\ \A i \in 1..Len(inbox'[d]) : \A k \in Calls : inbox'[d][i] = k => Unread(d, k)'
                      /\ \A i, j \in 1..Len(inbox'[d]) : inbox'[d][i] = inbox'[d][j] => i = j
    BY DEF InboxInv
  <2>1. CASE d = c
    BY <1>2, <2>1
  <2>2. CASE d # c
    <3>1. ASSUME NEW k \in Calls, Unread(d, k) PROVE Unread(d, k)'
      <4>1. Sender(k) = d /\ fate'[k] = fate[k]
        BY <2>2, <3>1 DEF Unread
      <4> QED
        BY <3>1, <4>1 DEF Unread, Waits, Sender
    <3> QED
      BY <1>2, <2>2, <3>1 DEF IInv, InboxInv
  <2> QED
    BY <2>1, <2>2
<1>4. TaskInv' /\ BusyInv' /\ LaterInv' /\ RunningInv'
  <2>1. \A k : Valid(k)' = Valid(k)
    BY ContentSame
  <2>2. \A k \in tasks \cup busy : k \in Calls /\ fate'[k] = fate[k]
    BY DEF IInv, Types, Unread
  <2>3. TaskInv' /\ BusyInv'
    BY <2>1, <2>2 DEF IInv, TaskInv, BusyInv, Waits, Request
  <2>4. \A k \in Calls : k > Len(sent) => fate'[k] = fate[k]
    BY Lengths DEF IInv, Unread, Waits
  <2> QED
    BY <2>3, <2>4 DEF IInv, LaterInv, RunningInv
<1>5. FateFits'
  <2>1. \A k \in Calls : fate'[k] = fate[k] \/ (k \in 1..Len(sent) /\ fate'[k] \in FatesOf(k))
    BY DEF Unread, Waits
  <2> QED
    BY <1>1, <2>1, FitKeep
<1>6. OutInv'
  <2>1. \A k \in Calls : fate'[k] = fate[k] \/ (fate[k] = "none" /\ fate'[k] \notin {"answered", "refused"})
    BY DEF Unread, Waits
  <2> QED
    BY <1>1, <2>1, Lengths, OutKeep DEF IInv
<1> QED
  BY <1>1, <1>3, <1>4, <1>5, <1>6 DEF IInv

LEMMA CloseInv ==
    ASSUME IInv, NEW c \in Clients, Close(c)
    PROVE  IInv'
<1>1. /\ CloseSession(c)
      /\ UNCHANGED <<running, returns, notifies, sent, tasks, busy, outbox, fate, ran>>
  BY DEF Close
<1>2. fate' \in [Calls -> Fates]
  BY <1>1 DEF IInv, Types
<1> QED
  BY <1>1, <1>2, SessionCloses

(* The first message of a session has arrived there and nowhere else.      *)
LEMMA FirstUnread ==
    ASSUME IInv, NEW c \in Clients, inbox[c] # <<>>
    PROVE  /\ Head(inbox[c]) \in Calls /\ Head(inbox[c]) = inbox[c][1]
           /\ inbox[c] \in Seq(Calls) /\ Len(inbox[c]) \in Nat \ {0}
           /\ Unread(c, Head(inbox[c])) /\ open[c]
<1>1. inbox[c] \in Seq(Calls)
  BY DEF IInv, Types
<1>2. /\ Head(inbox[c]) \in Calls /\ Head(inbox[c]) = inbox[c][1]
      /\ Len(inbox[c]) \in Nat \ {0} /\ 1 \in 1..Len(inbox[c])
  BY <1>1
<1>3. Unread(c, Head(inbox[c])) /\ open[c]
  BY <1>2 DEF IInv, InboxInv
<1> QED
  BY <1>1, <1>2, <1>3

(* It is read and parsed: it becomes a task, or its client is told that it *)
(* is not a request.                                                       *)
LEMMA ParsedInv ==
    ASSUME IInv, NEW c \in Clients, inbox[c] # <<>>, NEW n \in Calls, n = Head(inbox[c]), Parsed(c, n),
           UNCHANGED <<running, returns, notifies, sent, busy, ran>>
    PROVE  IInv'
<1> USE DEF IInv
<1>1. n = inbox[c][1]
  BY FirstUnread
<1>2. /\ inbox[c] \in Seq(Calls) /\ inbox[c] # <<>> /\ n = Head(inbox[c]) /\ Len(inbox[c]) \in Nat \ {0}
      /\ inbox' = [inbox EXCEPT ![c] = Tail(@)]
      /\ UNCHANGED <<running, returns, notifies, sent, busy, open, ran>>
  BY FirstUnread DEF Parsed
<1>3. /\ ~ParseThrows(sent[n].text)
      /\ IF IsRequest(sent[n].text) THEN Dispatch(n) ELSE Reject(c, n)
  BY DEF Parsed
<1>4. Unread(c, n) /\ open[c] /\ n \in 1..Len(sent) /\ fate[n] = "none"
  BY FirstUnread DEF Unread, Waits
<1>5. /\ inbox' \in [Clients -> Seq(Calls)]
      /\ inbox'[c] = Tail(inbox[c]) /\ \A d \in Clients \ {c} : inbox'[d] = inbox[d]
      /\ Len(inbox'[c]) = Len(inbox[c]) - 1
      /\ \A i \in 1..Len(inbox'[c]) : i + 1 \in 1..Len(inbox[c]) /\ inbox'[c][i] = inbox[c][i + 1]
  <2> DEFINE s == inbox[c]
  <2>1. inbox \in [Clients -> Seq(Calls)] /\ s \in Seq(Calls) /\ s # <<>>
    BY <1>2 DEF Types
  <2>2. inbox'[c] = Tail(s) /\ \A d \in Clients \ {c} : inbox'[d] = inbox[d]
    BY <1>2, <2>1
  <2> HIDE DEF s
  <2>3. /\ Tail(s) \in Seq(Calls) /\ Len(Tail(s)) = Len(s) - 1
        /\ \A i \in 1..Len(Tail(s)) : i + 1 \in 1..Len(s) /\ Tail(s)[i] = s[i + 1]
    BY <2>1
  <2>4. inbox' \in [Clients -> Seq(Calls)]
    BY <1>2, <2>1, <2>2, <2>3
  <2> QED
    BY <2>2, <2>3, <2>4 DEF s
<1>6. ASSUME NEW d \in Clients, NEW i \in 1..Len(inbox'[d])
      PROVE  /\ \E j \in 1..Len(inbox[d]) : inbox'[d][i] = inbox[d][j] /\ (d = c => j = i + 1) /\ (d # c => j = i)
             /\ inbox'[d][i] # n
  <2>1. CASE d = c
    <3>1. i + 1 \in 1..Len(inbox[c]) /\ inbox'[c][i] = inbox[c][i + 1]
      BY <1>5, <2>1
    <3>2. 1 \in 1..Len(inbox[c]) /\ i + 1 # 1
      BY <1>2, <2>1
    <3>3. inbox[c][i + 1] # inbox[c][1]
      BY <3>1, <3>2 DEF InboxInv
    <3> QED
      BY <1>1, <2>1, <3>1, <3>3
  <2>2. CASE d # c
    <3>1. i \in 1..Len(inbox[d]) /\ inbox'[d][i] = inbox[d][i]
      BY <1>5, <2>2
    <3>2. inbox[d][i] # n
      <4>1. inbox[d][i] = n => Sender(n) = d
        BY <3>1 DEF InboxInv, Unread
      <4> QED
        BY <1>4, <2>2, <4>1 DEF Unread
    <3> QED
      BY <2>2, <3>1, <3>2
  <2> QED
    BY <2>1, <2>2
<1>7. ASSUME tasks' \subseteq tasks \cup {n}, \A k \in Calls \ {n} : fate'[k] = fate[k]
      PROVE  InboxInv'
  <2> SUFFICES ASSUME NEW d \in Clients
               PROVE  /\ ~open'[d] => inbox'[d] = <<>>
                      /\ \A i \in 1..Len(inbox'[d]) : \A k \in Calls : inbox'[d][i] = k => Unread(d, k)'
                      /\ \A i, j \in 1..Len(inbox'[d]) : inbox'[d][i] = inbox'[d][j] => i = j
    BY DEF InboxInv
  <2>1. ~open'[d] => inbox'[d] = <<>>
    BY <1>2, <1>4, <1>5 DEF InboxInv
  <2>2. ASSUME NEW i \in 1..Len(inbox'[d]), NEW k \in Calls, inbox'[d][i] = k
        PROVE  Unread(d, k)'
    <3>1. Unread(d, k) /\ k # n
      BY <1>6, <2>2 DEF InboxInv
    <3> QED
      BY <1>2, <1>7, <3>1 DEF Unread, Waits, Sender
  <2>3. ASSUME NEW i \in 1..Len(inbox'[d]), NEW j \in 1..Len(inbox'[d]), inbox'[d][i] = inbox'[d][j]
        PROVE  i = j
    <3>1. CASE d = c
      <4>1. i + 1 \in 1..Len(inbox[c]) /\ j + 1 \in 1..Len(inbox[c]) /\ inbox[c][i + 1] = inbox[c][j + 1]
        BY <1>5, <2>3, <3>1
      <4>2. i + 1 = j + 1
        BY <4>1 DEF InboxInv
      <4> QED
        BY <4>2, <3>1, <1>5
    <3>2. CASE d # c
      BY <1>5, <2>3, <3>2 DEF InboxInv
    <3> QED
      BY <3>1, <3>2
  <2> QED
    BY <2>1, <2>2, <2>3
<1>8. \A k : Valid(k)' = Valid(k) /\ Request(k)' = Request(k)
  BY <1>2, ContentSame
<1>9. CASE IsRequest(sent[n].text)
  <2>1. tasks' = tasks \cup {n} /\ UNCHANGED <<outbox, fate>>
    BY <1>3, <1>9 DEF Dispatch
  <2>2. Types'
    BY <1>2, <1>5, <2>1 DEF Types
  <2>3. InboxInv'
    BY <1>7, <2>1
  <2>4. TaskInv' /\ BusyInv' /\ LaterInv' /\ RunningInv'
    <3>1. Waits(n)' /\ n \notin busy' /\ ran'[n] = 0
      BY <1>2, <1>4, <2>1 DEF Unread, Waits
    <3>2. TaskInv'
      BY <1>2, <1>9, <2>1, <3>1 DEF TaskInv, Waits
    <3>3. BusyInv'
      BY <1>2, <1>8, <2>1 DEF BusyInv, Waits
    <3> QED
      BY <1>2, <2>1, <3>2, <3>3 DEF LaterInv, RunningInv
  <2>5. FateFits'
    BY <1>2, <2>1, <2>2, FitKeep
  <2>6. OutInv'
    BY <1>2, <2>1, <2>2, Lengths, OutKeep
  <2> QED
    BY <2>2, <2>3, <2>4, <2>5, <2>6
<1>10. CASE ~IsRequest(sent[n].text)
  <2>1. /\ outbox' = [outbox EXCEPT ![c] = Append(@, ErrorText)]
        /\ fate' = [fate EXCEPT ![n] = "refused"] /\ UNCHANGED tasks
    <3>1. SendOn(c, ErrorText) /\ Settle(n, "refused") /\ UNCHANGED tasks
      BY <1>3, <1>10 DEF Reject, ErrorText
    <3> QED
      BY <1>4, <3>1 DEF SendOn, Settle
  <2>2. fate \in [Calls -> Fates] /\ fate'[n] = "refused" /\ \A k \in Calls \ {n} : fate'[k] = fate[k]
    BY <2>1 DEF Types
  <2>3. Types'
    <3>1. fate' \in [Calls -> Fates]
      BY <2>1, <2>2 DEF Fates
    <3>2. outbox' \in [Clients -> Seq(Out)]
      <4>1. outbox \in [Clients -> Seq(Out)] /\ outbox[c] \in Seq(Out) /\ ErrorText \in Out
        BY ErrorIs DEF Types
      <4>2. Append(outbox[c], ErrorText) \in Seq(Out)
        BY <4>1
      <4> QED
        BY <2>1, <4>1, <4>2
    <3> QED
      BY <1>2, <1>5, <2>1, <3>1, <3>2 DEF Types
  <2>4. InboxInv'
    BY <1>7, <2>1, <2>2
  <2>5. TaskInv' /\ BusyInv' /\ LaterInv' /\ RunningInv'
    <3>1. n \notin tasks /\ n \notin busy
      BY <1>4 DEF Unread
    <3>2. TaskInv'
      <4>1. \A k \in tasks : k \in Calls \ {n}
        BY <3>1 DEF Types
      <4> QED
        BY <1>2, <2>1, <2>2, <4>1 DEF TaskInv, Waits
    <3>3. BusyInv'
      <4>1. \A k \in busy : k \in Calls \ {n}
        BY <3>1 DEF Types
      <4> QED
        BY <1>2, <1>8, <2>2, <4>1 DEF BusyInv, Waits
    <3>4. LaterInv'
      <4>1. ~(n > Len(sent))
        BY <1>4, Lengths
      <4> QED
        BY <1>2, <2>2, <4>1 DEF LaterInv
    <3> QED
      BY <1>2, <3>2, <3>3, <3>4 DEF RunningInv
  <2>6. FateFits'
    BY <1>2, <1>3, <1>4, <1>10, <2>2, <2>3, FatesAre, FitKeep
  <2>7. OutInv'
    BY <1>2, <1>4, <2>1, <2>3, ErrorIs, OutAppend DEF Unread
  <2> QED
    BY <2>3, <2>4, <2>5, <2>6, <2>7
<1> QED
  BY <1>9, <1>10

(* Reading: parsed or not, and then the session is closed.                 *)
LEMMA ReadInv ==
    ASSUME IInv, NEW c \in Clients, OnDataReady(c)
    PROVE  IInv'
<1> DEFINE n == Head(inbox[c])
<1>1. /\ inbox[c] # <<>>
      /\ Parsed(c, n) \/ NotParsed(c, n)
      /\ UNCHANGED <<running, returns, notifies, sent, busy, ran>>
  BY DEF OnDataReady
<1>2. n \in Calls /\ Unread(c, n) /\ n \in 1..Len(sent)
  BY <1>1, FirstUnread DEF Unread, Waits
<1>3. CASE Parsed(c, n)
  BY <1>1, <1>2, <1>3, ParsedInv
<1>4. CASE NotParsed(c, n)
  <2>1. /\ ParseThrows(sent[n].text) /\ CloseSession(c) /\ UNCHANGED <<tasks, outbox>>
        /\ fate' = [fate EXCEPT ![n] = "closed"]
    BY <1>4 DEF NotParsed, Settle
  <2>2. "closed" \in FatesOf(n)
    BY <1>2, <2>1, FatesAre DEF IInv
  <2>3. fate' \in [Calls -> Fates] /\ fate'[n] = "closed" /\ \A k \in Calls \ {n} : fate'[k] = fate[k]
    BY <1>2, <2>1 DEF IInv, Types, Fates
  <2> QED
    BY <1>1, <1>2, <2>1, <2>2, <2>3, SessionCloses
<1> QED
  BY <1>1, <1>3, <1>4

-----------------------------------------------------------------------------
(* The steps of the workers.                                               *)
LEMMA ThrowInv ==
    ASSUME IInv, NEW n \in Calls, Throw(n)
    PROVE  IInv'
<1> USE DEF IInv
<1>1. /\ n \in tasks /\ ~Valid(n) /\ tasks' = tasks \ {n} /\ fate' = [fate EXCEPT ![n] = "dropped"]
      /\ UNCHANGED <<running, returns, notifies, sent, inbox, busy, outbox, open, ran>>
  BY DEF Throw, Settle
<1>2. fate \in [Calls -> Fates] /\ fate'[n] = "dropped" /\ \A k \in Calls \ {n} : fate'[k] = fate[k]
  BY <1>1 DEF Types
<1>3. Types'
  <2>1. fate' \in [Calls -> Fates]
    BY <1>1, <1>2 DEF Fates
  <2> QED
    BY <1>1, <2>1 DEF Types
<1>4. n \notin busy /\ IsRequest(sent[n].text) /\ n \in 1..Len(sent) /\ fate[n] = "none"
  BY <1>1 DEF TaskInv, Waits
<1>5. InboxInv' /\ TaskInv' /\ BusyInv' /\ LaterInv' /\ RunningInv'
  BY <1>1, <1>2, <1>3, <1>4, WorkKeeps
<1>6. FateFits'
  <2>1. "dropped" \in FatesOf(n)
    BY <1>1, <1>4, FatesAre
  <2> QED
    BY <1>1, <1>2, <1>3, <1>4, <2>1, FitKeep
<1>7. OutInv'
  BY <1>1, <1>2, <1>3, <1>4, Lengths, OutKeep
<1> QED
  BY <1>3, <1>5, <1>6, <1>7

LEMMA CallReturnInv ==
    ASSUME IInv, NEW n \in Calls, CallReturn(n)
    PROVE  IInv'
<1> USE DEF IInv
<1>1. /\ n \in tasks /\ IsReturnCall(Request(n)) /\ Valid(n)
      /\ tasks' = tasks \ {n} /\ busy' = busy \cup {n} /\ ran' = [ran EXCEPT ![n] = @ + 1]
      /\ UNCHANGED <<running, returns, notifies, sent, inbox, outbox, open, fate>>
  BY DEF CallReturn
<1>2. ran[n] = 0 /\ IsRequest(sent[n].text) /\ Waits(n) /\ fate[n] = "none"
  BY <1>1 DEF TaskInv, Waits
<1>3. ran \in [Calls -> 0..1] /\ ran'[n] = 1 /\ \A k \in Calls \ {n} : ran'[k] = ran[k]
  BY <1>1, <1>2 DEF Types
<1>4. Types'
  <2>1. ran' \in [Calls -> 0..1]
    <3>1. ran[n] + 1 \in 0..1
      BY <1>2
    <3> QED
      BY <1>1, <1>3, <3>1
  <2> QED
    BY <1>1, <2>1 DEF Types
<1>5. Waits(n)'
  BY <1>1, <1>2 DEF Waits
<1>6. InboxInv' /\ TaskInv' /\ BusyInv' /\ LaterInv' /\ RunningInv'
  BY <1>1, <1>2, <1>3, <1>4, <1>5, WorkKeeps
<1>7. FateFits'
  BY <1>1, <1>4, FitKeep
<1>8. OutInv'
  <2>1. \A k \in Calls : (fate'[k] = fate[k] /\ ran'[k] = ran[k])
                         \/ (fate[k] = "none" /\ fate'[k] \notin {"answered", "refused"})
    BY <1>1, <1>2, <1>3
  <2> QED
    BY <1>1, <1>4, <2>1, Lengths, OutKeep
<1> QED
  BY <1>4, <1>6, <1>7, <1>8

LEMMA CallNotifyInv ==
    ASSUME IInv, NEW n \in Calls, CallNotify(n)
    PROVE  IInv'
<1> USE DEF IInv
<1>1. /\ n \in tasks /\ IsNotification(Request(n)) /\ Valid(n)
      /\ tasks' = tasks \ {n} /\ ran' = [ran EXCEPT ![n] = @ + 1] /\ fate' = [fate EXCEPT ![n] = "notified"]
      /\ UNCHANGED <<running, returns, notifies, sent, inbox, busy, outbox, open>>
  BY DEF CallNotify, Settle
<1>2. ran[n] = 0 /\ n \notin busy /\ IsRequest(sent[n].text) /\ n \in 1..Len(sent) /\ fate[n] = "none"
  BY <1>1 DEF TaskInv, Waits
<1>3. /\ ran \in [Calls -> 0..1] /\ fate \in [Calls -> Fates] /\ fate'[n] = "notified"
      /\ \A k \in Calls \ {n} : ran'[k] = ran[k] /\ fate'[k] = fate[k]
  BY <1>1 DEF Types
<1>4. Types'
  <2>1. ran' \in [Calls -> 0..1]
    <3>1. ran[n] + 1 \in 0..1
      BY <1>2
    <3> QED
      BY <1>1, <1>3, <3>1
  <2>2. fate' \in [Calls -> Fates]
    BY <1>1, <1>3 DEF Fates
  <2> QED
    BY <1>1, <2>1, <2>2 DEF Types
<1>5. InboxInv' /\ TaskInv' /\ BusyInv' /\ LaterInv' /\ RunningInv'
  BY <1>1, <1>2, <1>3, <1>4, WorkKeeps
<1>6. FateFits'
  <2>1. "notified" \in FatesOf(n)
    BY <1>1, <1>2, FatesAre
  <2> QED
    BY <1>1, <1>2, <1>3, <1>4, <2>1, FitKeep
<1>7. OutInv'
  <2>1. \A k \in Calls : (fate'[k] = fate[k] /\ ran'[k] = ran[k])
                         \/ (fate[k] = "none" /\ fate'[k] \notin {"answered", "refused"})
    BY <1>2, <1>3
  <2> QED
    BY <1>1, <1>4, <2>1, Lengths, OutKeep
<1> QED
  BY <1>4, <1>5, <1>6, <1>7

LEMMA FailInv ==
    ASSUME IInv, NEW n \in Calls, Fail(n)
    PROVE  IInv'
<1> USE DEF IInv
<1>1. /\ n \in busy /\ busy' = busy \ {n} /\ fate' = [fate EXCEPT ![n] = "failed"]
      /\ UNCHANGED <<running, returns, notifies, sent, inbox, tasks, outbox, open, ran>>
  BY DEF Fail, Settle
<1>2. n \notin tasks /\ n \in 1..Len(sent) /\ fate[n] = "none"
      /\ IsRequest(sent[n].text) /\ IsReturnCall(Request(n)) /\ Valid(n)
  BY <1>1 DEF TaskInv, BusyInv, Waits
<1>3. fate \in [Calls -> Fates] /\ fate'[n] = "failed" /\ \A k \in Calls \ {n} : fate'[k] = fate[k]
  BY <1>1 DEF Types
<1>4. Types'
  <2>1. fate' \in [Calls -> Fates]
    BY <1>1, <1>3 DEF Fates
  <2> QED
    BY <1>1, <2>1 DEF Types
<1>5. InboxInv' /\ TaskInv' /\ BusyInv' /\ LaterInv' /\ RunningInv'
  BY <1>1, <1>2, <1>3, <1>4, WorkKeeps
<1>6. FateFits'
  <2>1. "failed" \in FatesOf(n)
    BY <1>2, FatesAre
  <2> QED
    BY <1>1, <1>2, <1>3, <1>4, <2>1, FitKeep
<1>7. OutInv'
  BY <1>1, <1>2, <1>3, <1>4, Lengths, OutKeep
<1> QED
  BY <1>4, <1>5, <1>6, <1>7

(* done: the answer of a procedure leaves, unless the session has closed.  *)
LEMMA DoneInv ==
    ASSUME IInv, NEW n \in Calls, Done(n)
    PROVE  IInv'
<1> USE DEF IInv
<1> DEFINE c == Sender(n)
           message == AnswerTo(sent[n].text)
           what == IF open[c] THEN "answered" ELSE "lost"
<1>1. /\ n \in busy /\ busy' = busy \ {n} /\ fate' = [fate EXCEPT ![n] = what]
      /\ outbox' = [outbox EXCEPT ![c] = IF open[c] THEN Append(@, message) ELSE @]
      /\ UNCHANGED <<running, returns, notifies, sent, inbox, tasks, open, ran>>
  BY DEF Done, Settle, SendOn, ReplyTo, AnswerTo, Request
<1>2. n \notin tasks /\ n \in 1..Len(sent) /\ Waits(n) /\ fate[n] = "none" /\ ran[n] = 1
      /\ IsRequest(sent[n].text) /\ IsReturnCall(Request(n)) /\ Valid(n)
  BY <1>1 DEF TaskInv, BusyInv, Waits
<1>3. c \in Clients /\ sent[n].text \in Texts[n] /\ Calling(sent[n].text)
  <2>1. c \in Clients
    BY <1>2, Lengths
  <2> QED
    BY <1>2, <2>1 DEF Types, Request, Calling
<1>4. /\ IsResponse(message) /\ message.value.id = GetId(Request(n)) /\ Number(message) = n
      /\ Request(n).params.term.number = n /\ message \in Out
  BY <1>3, AnswerIs DEF Request
<1> HIDE DEF message
<1>5. /\ fate \in [Calls -> Fates] /\ outbox \in [Clients -> Seq(Out)]
      /\ fate'[n] = what /\ \A k \in Calls \ {n} : fate'[k] = fate[k]
  BY <1>1 DEF Types
<1>6. Types'
  <2>1. fate' \in [Calls -> Fates]
    BY <1>1, <1>5 DEF Fates
  <2>2. outbox' \in [Clients -> Seq(Out)]
    <3>1. outbox[c] \in Seq(Out) /\ Append(outbox[c], message) \in Seq(Out)
      BY <1>3, <1>4, <1>5
    <3> QED
      BY <1>1, <1>3, <1>5, <3>1
  <2> QED
    BY <1>1, <2>1, <2>2 DEF Types
<1>7. InboxInv' /\ TaskInv' /\ BusyInv' /\ LaterInv' /\ RunningInv'
  BY <1>1, <1>2, <1>5, <1>6, WorkKeeps
<1>8. FateFits'
  <2>1. what \in FatesOf(n)
    BY <1>2, FatesAre
  <2> QED
    BY <1>1, <1>2, <1>5, <1>6, <2>1, FitKeep
<1>9. OutInv'
  <2>1. CASE open[c]
    <3>1. outbox' = [outbox EXCEPT ![c] = Append(@, message)] /\ fate' = [fate EXCEPT ![n] = "answered"]
      BY <1>1, <2>1
    <3>2. PICK d \in Clients : d = Sender(n)
      BY <1>3
    <3>3. outbox' = [outbox EXCEPT ![d] = Append(@, message)]
      BY <3>1, <3>2
    <3>4. UNCHANGED <<sent, ran>>
      BY <1>1
    <3> QED
      BY <1>2, <1>4, <1>6, <3>1, <3>2, <3>3, <3>4, OutAppend
  <2>2. CASE ~open[c]
    <3>1. outbox' = outbox
      BY <1>1, <1>5, <2>2
    <3>2. fate'[n] = "lost"
      BY <1>5, <2>2
    <3>3. Len(sent) <= Len(sent')
      BY <1>1, Lengths
    <3> QED
      BY <1>1, <1>2, <1>5, <1>6, <3>1, <3>2, <3>3, OutKeep
  <2> QED
    BY <2>1, <2>2
<1> QED
  BY <1>6, <1>7, <1>8, <1>9

LEMMA NextIInv == IInv /\ [Next]_vars => IInv'
<1> SUFFICES ASSUME IInv, [Next]_vars PROVE IInv'
  OBVIOUS
<1>1. ASSUME NEW m \in Methods, RegistReturn(m) PROVE IInv'
  BY <1>1, BeforeInv DEF RegistReturn, IInv, Types
<1>2. ASSUME NEW m \in Methods, RegistNotify(m) PROVE IInv'
  BY <1>2, BeforeInv DEF RegistNotify, IInv, Types
<1>3. CASE Run
  BY <1>3, BeforeInv DEF Run, IInv, Types
<1>4. ASSUME NEW c \in Clients, Close(c) PROVE IInv'
  BY <1>4, CloseInv
<1>5. ASSUME NEW c \in Clients, OnDataReady(c) PROVE IInv'
  BY <1>5, ReadInv
<1>6. ASSUME NEW c \in Clients, NEW n \in Calls, NEW x \in Texts[n], Send(c, x) PROVE IInv'
  BY <1>6, SendInv
<1>7. ASSUME NEW n \in Calls, Throw(n) \/ CallReturn(n) \/ CallNotify(n) \/ Done(n) \/ Fail(n) PROVE IInv'
  BY <1>7, ThrowInv, CallReturnInv, CallNotifyInv, DoneInv, FailInv
<1>8. CASE UNCHANGED vars
  <2>1. UNCHANGED <<running, returns, notifies, sent, inbox, tasks, busy, outbox, open, fate, ran>>
    BY <1>8 DEF vars
  <2>2. \A k : FatesOf(k)' = FatesOf(k) /\ Valid(k)' = Valid(k)
    BY <2>1, ContentSame
  <2>3. Types'
    BY <2>1 DEF IInv, Types
  <2>4. InboxInv' /\ TaskInv' /\ BusyInv' /\ LaterInv' /\ RunningInv'
    BY <2>1, <2>2 DEF IInv, InboxInv, Unread, TaskInv, BusyInv, LaterInv, RunningInv, Waits, Sender, Request
  <2>5. FateFits'
    BY <2>1, <2>3, FitKeep
  <2>6. OutInv'
    BY <2>1, <2>3, Lengths, OutKeep DEF IInv
  <2> QED
    BY <2>3, <2>4, <2>5, <2>6 DEF IInv
<1> QED
  BY <1>1, <1>2, <1>3, <1>4, <1>5, <1>6, <1>7, <1>8 DEF Next

-----------------------------------------------------------------------------
(* IInv holds in every state: messages are in one place until their fate   *)
(* is settled, and what was sent back is accounted for.                    *)
THEOREM Invariance == Spec => []IInv
BY InitIInv, NextIInv, PTL DEF Spec

(* The state is well-formed: no message is handled that was not sent, and  *)
(* no procedure is called twice for one request.                           *)
THEOREM TypeCorrect == Spec => []TypeOK
<1>1. ASSUME IInv PROVE TypeOK
  <2>1. DOMAIN sent = 1..Len(sent) /\ Calls = 1..MaxCalls /\ 1..Len(sent) \subseteq Calls
    BY <1>1, Lengths DEF IInv, Types
  <2>2. \A n \in DOMAIN sent : Sender(n) \in Clients /\ sent[n].text \in Texts[n]
    BY <1>1, <2>1, Lengths DEF IInv, Types
  <2>3. inbox \in [Clients -> Seq(DOMAIN sent)]
    <3>1. ASSUME NEW c \in Clients PROVE inbox[c] \in Seq(DOMAIN sent)
      <4>1. inbox[c] \in Seq(Calls)
        BY <1>1 DEF IInv, Types
      <4>2. \A i \in 1..Len(inbox[c]) : inbox[c][i] \in DOMAIN sent
        <5> SUFFICES ASSUME NEW i \in 1..Len(inbox[c]) PROVE inbox[c][i] \in DOMAIN sent
          OBVIOUS
        <5>1. inbox[c][i] \in Calls
          BY <4>1
        <5>2. Unread(c, inbox[c][i])
          BY <1>1, <5>1 DEF IInv, InboxInv
        <5> QED
          BY <2>1, <5>2 DEF Unread, Waits
      <4>3. inbox[c] \in [1..Len(inbox[c]) -> DOMAIN sent] /\ Len(inbox[c]) \in Nat
        BY <4>1, <4>2
      <4> QED
        BY <4>3, SeqDef
    <3> QED
      BY <1>1, <3>1 DEF IInv, Types
  <2>4. tasks \subseteq DOMAIN sent /\ busy \subseteq DOMAIN sent
    BY <1>1, <2>1 DEF IInv, TaskInv, BusyInv, Waits
  <2> QED
    BY <1>1, <2>1, <2>2, <2>3, <2>4 DEF IInv, Types, TypeOK
<1> QED
  BY <1>1, Invariance, PTL

(* A message has the fate its content calls for, however the io threads,   *)
(* the workers and the connections interleave.                             *)
THEOREM FatesFit == Spec => []FateFits
<1>1. IInv => FateFits
  BY DEF IInv
<1> QED
  BY <1>1, Invariance, PTL

(* Every answer is the one answer to one call of the client it goes to,    *)
(* whose procedure ran once; each client is told as often as it was due.   *)
THEOREM AnswersAreMatched == Spec => []AnswersMatch
<1>1. ASSUME IInv PROVE AnswersMatch
  <2>1. DOMAIN sent = 1..Len(sent) /\ \A c \in Clients : DOMAIN outbox[c] = 1..Len(outbox[c])
    BY <1>1 DEF IInv, Types
  <2>2. ASSUME NEW c \in Clients, NEW i \in DOMAIN outbox[c], IsResponse(outbox[c][i])
        PROVE  \E n \in DOMAIN sent :
                 /\ Sender(n) = c /\ fate[n] = "answered" /\ ran[n] = 1
                 /\ IsReturnCall(Request(n)) /\ Answers(c, i, n)
                 /\ \A j \in DOMAIN outbox[c] : (IsResponse(outbox[c][j]) /\ Answers(c, j, n)) => i = j
    <3> DEFINE n == Number(outbox[c][i])
    <3>1. Answered(c, outbox[c][i])
      BY <1>1, <2>1, <2>2 DEF IInv, OutInv
    <3>2. n \in DOMAIN sent /\ Sender(n) = c /\ fate[n] = "answered" /\ ran[n] = 1 /\ IsReturnCall(Request(n))
          /\ Request(n).params.term.number = n
      BY <2>1, <3>1 DEF Answered
    <3>3. Answers(c, i, n)
      BY <3>1 DEF Answered, Answers, Number
    <3>4. ASSUME NEW j \in DOMAIN outbox[c], IsResponse(outbox[c][j]), Answers(c, j, n)
          PROVE  i = j
      <4>1. Number(outbox[c][j]) = n
        BY <3>2, <3>4 DEF Answers, Number
      <4> QED
        BY <1>1, <2>1, <2>2, <3>4, <4>1 DEF IInv, OutInv
    <3> QED
      BY <3>2, <3>3, <3>4
  <2>3. ASSUME NEW c \in Clients, NEW i \in DOMAIN outbox[c], ~IsResponse(outbox[c][i])
        PROVE  \E n \in DOMAIN sent : Sender(n) = c /\ fate[n] = "refused"
    BY <1>1, <2>1, <2>3 DEF IInv, OutInv
  <2>4. ASSUME NEW c \in Clients
        PROVE  Len(outbox[c]) =
                 Cardinality({n \in DOMAIN sent : Sender(n) = c /\ fate[n] \in {"answered", "refused"}})
    BY <1>1, <2>1 DEF IInv, OutInv, Told
  <2> QED
    BY <2>2, <2>3, <2>4 DEF AnswersMatch
<1> QED
  BY <1>1, Invariance, PTL
=============================================================================
