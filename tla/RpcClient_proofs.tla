-------------------------- MODULE RpcClient_proofs --------------------------
(***************************************************************************)
(* RpcClient, for every set of threads and ids and any number of calls:    *)
(* responses reach the records of the calls they answer.                   *)
(*                                                                         *)
(* The argument.  While a request or its response is on the way, the       *)
(* call's record stays under the call's id, because a caller only removes  *)
(* a record that has its response; so the id is refused to other calls     *)
(* and the response finds its own record.  An id that clearCallRecords     *)
(* dropped is outside the argument, as it is outside the property.         *)
(***************************************************************************)
EXTENDS RpcClient, TLAPS

(* The response of call c may still arrive.                                *)
InFlight(c) == c \in requests \/ c \in replies \/ (io = "got" /\ ioReply = c)

(* Call c has not registered a record yet.                                 *)
Fresh(c) ==
    \/ c > begun
    \/ c \in jobs
    \/ \E t \in Users : pc[t] = "register" /\ cur[t] = c

WireInv ==
    /\ requests \cap replies = {}
    /\ io = "got" => ioReply \notin requests \cup replies

FreshInv ==
    \A c \in Calls : Fresh(c) =>
        ~InFlight(c) /\ resp[c] = None /\ ran[c] = 0 /\ records[id[c]] # c

(* Every call is made by one thread, or waits in the pool for one.         *)
OwnerInv ==
    /\ \A t \in Users : pc[t] # "idle" =>
         cur[t] <= begun /\ cur[t] \notin jobs /\ outcome[cur[t]] = "pending"
    /\ \A t, u \in Users : pc[t] # "idle" /\ pc[u] # "idle" /\ cur[t] = cur[u] => t = u
    /\ \A c \in jobs : c <= begun /\ outcome[c] = "pending"
    /\ \A c \in Calls : c > begun => outcome[c] = "none"

RecordsInv == \A i \in Ids : records[i] # None => id[records[i]] = i

SafeInv ==
    \A c \in Calls : id[c] \notin clearedIds =>
        /\ Own(c)
        /\ InFlight(c) => records[id[c]] = c /\ resp[c] = None
        /\ outcome[c] = "done" => /\ resp[c] = c /\ records[id[c]] # c
                                  /\ ~(io = "callback" /\ ioRecord = c)

Registered == {"sleep", "stop", "join", "joined", "fetch", "check", "remove"}

HoldInv ==
    \A t \in Users :
        pc[t] \in Registered /\ id[cur[t]] \notin clearedIds =>
            /\ records[id[cur[t]]] = cur[t]
            /\ pc[t] \in {"check", "remove"} => rec[t] = cur[t]
            /\ pc[t] = "remove" => resp[cur[t]] # None

IInv == TypeOK /\ WireInv /\ FreshInv /\ OwnerInv /\ RecordsInv /\ SafeInv /\ HoldInv

USE ClientAssumption DEF Calls, None, Users, Threads

(* The invariant holds before the first connect: no call, no record.       *)
LEMMA InitIInv == Init => IInv
<1> SUFFICES ASSUME Init PROVE IInv
  OBVIOUS
<1>1. TypeOK
  <2>1. /\ connected \in BOOLEAN /\ running \in BOOLEAN /\ stopped \in BOOLEAN
        /\ joined \in BOOLEAN
    BY DEF Init
  <2>2. /\ records \in [Ids -> Calls \cup {None}] /\ resp \in [Calls -> Calls \cup {None}]
        /\ pc \in [Threads -> PcNames] /\ cur \in [Threads -> Calls \cup {None}]
        /\ rec \in [Threads -> Calls \cup {None}] /\ ran \in [Calls -> Nat]
        /\ begun \in 0..MaxCalls /\ id \in [Calls -> Ids]
        /\ outcome \in [Calls -> {"none", "pending", "refused", "timeout", "done", "looked"}]
    BY DEF Init, PcNames
  <2>3. \A t \in Users : pc[t] = "idle"
    BY DEF Init
  <2> QED
    BY <2>1, <2>2, <2>3 DEF Init, TypeOK, NetTypes, TableTypes, CallTypes
<1>2. WireInv
  BY DEF Init, conn, wire, WireInv
<1>3. FreshInv
  BY DEF Init, conn, wire, FreshInv, Fresh, InFlight
<1>4. OwnerInv
  BY DEF Init, conn, wire, OwnerInv
<1>5. RecordsInv
  BY DEF Init, conn, wire, RecordsInv
<1>6. SafeInv
  BY DEF Init, conn, wire, SafeInv, Own, InFlight
<1>7. HoldInv
  BY DEF Init, conn, wire, HoldInv, Registered
<1> QED
  BY <1>1, <1>2, <1>3, <1>4, <1>5, <1>6, <1>7 DEF IInv

(* Every step preserves the invariant: one case per action.                *)
LEMMA NextIInv == IInv /\ [Next]_vars => IInv'
<1> SUFFICES ASSUME IInv, [Next]_vars PROVE IInv'
  OBVIOUS
<1> USE DEF IInv, conn, table, ioVars, wire, calls
<1>1. ASSUME NEW t \in Threads, Connect(t) PROVE IInv'
  <2>1. TypeOK'
    <3>1. NetTypes'
      BY <1>1 DEF TypeOK, NetTypes, Connect, StartedIo
    <3>2. TableTypes'
      BY <1>1 DEF TypeOK, TableTypes, NetTypes, Connect, StartedIo
    <3>3. CallTypes'
      BY <1>1 DEF TypeOK, CallTypes, PcNames, TableTypes, Connect, StartedIo
    <3> QED
      BY <3>1, <3>2, <3>3 DEF TypeOK
  <2>2. WireInv'
    BY <1>1 DEF WireInv, Connect, StartedIo
  <2>3. FreshInv'
    BY <1>1 DEF FreshInv, Fresh, InFlight, Connect, StartedIo
  <2>4. OwnerInv'
    BY <1>1 DEF OwnerInv, Connect, StartedIo
  <2>5. RecordsInv'
    BY <1>1 DEF RecordsInv, Connect, StartedIo
  <2>6. SafeInv'
    BY <1>1 DEF SafeInv, Own, InFlight, Connect, StartedIo
  <2>7. HoldInv'
    BY <1>1 DEF HoldInv, Registered, Connect, StartedIo
  <2> QED
    BY <2>1, <2>2, <2>3, <2>4, <2>5, <2>6, <2>7
<1>2. ASSUME NEW t \in Threads, Stop(t) PROVE IInv'
  <2>1. TypeOK'
    <3>1. NetTypes'
      BY <1>2 DEF TypeOK, NetTypes, Stop, Goto
    <3>2. TableTypes'
      BY <1>2 DEF TypeOK, TableTypes, NetTypes, Stop, Goto
    <3>3. CallTypes'
      BY <1>2 DEF TypeOK, CallTypes, PcNames, TableTypes, Stop, Goto
    <3> QED
      BY <3>1, <3>2, <3>3 DEF TypeOK
  <2>2. WireInv'
    BY <1>2 DEF WireInv, Stop, Goto
  <2>3. FreshInv'
    BY <1>2 DEF FreshInv, Fresh, InFlight, Stop, Goto
  <2>4. OwnerInv'
    BY <1>2 DEF OwnerInv, Stop, Goto
  <2>5. RecordsInv'
    BY <1>2 DEF RecordsInv, Stop, Goto
  <2>6. SafeInv'
    BY <1>2 DEF SafeInv, Own, InFlight, Stop, Goto
  <2>7. HoldInv'
    BY <1>2 DEF HoldInv, Registered, Stop, Goto
  <2> QED
    BY <2>1, <2>2, <2>3, <2>4, <2>5, <2>6, <2>7
<1>3. ASSUME NEW t \in Threads, Join(t) PROVE IInv'
  <2>1. TypeOK'
    <3>1. NetTypes'
      BY <1>3 DEF TypeOK, NetTypes, Join, Goto, JoinIo
    <3>2. TableTypes'
      BY <1>3 DEF TypeOK, TableTypes, NetTypes, Join, Goto, JoinIo
    <3>3. CallTypes'
      BY <1>3 DEF TypeOK, CallTypes, PcNames, TableTypes, Join, Goto, JoinIo
    <3> QED
      BY <3>1, <3>2, <3>3 DEF TypeOK
  <2>2. WireInv'
    BY <1>3 DEF WireInv, Join, Goto, JoinIo
  <2>3. FreshInv'
    BY <1>3 DEF FreshInv, Fresh, InFlight, Join, Goto, JoinIo
  <2>4. OwnerInv'
    BY <1>3 DEF OwnerInv, Join, Goto, JoinIo
  <2>5. RecordsInv'
    BY <1>3 DEF RecordsInv, Join, Goto, JoinIo
  <2>6. SafeInv'
    BY <1>3 DEF SafeInv, Own, InFlight, Join, Goto, JoinIo
  <2>7. HoldInv'
    BY <1>3 DEF HoldInv, Registered, Join, Goto, JoinIo
  <2> QED
    BY <2>1, <2>2, <2>3, <2>4, <2>5, <2>6, <2>7
<1>4. ASSUME NEW t \in Threads, Joined(t) PROVE IInv'
  <2>1. TypeOK'
    <3>1. NetTypes'
      BY <1>4 DEF TypeOK, NetTypes, Joined, Goto
    <3>2. TableTypes'
      BY <1>4 DEF TypeOK, TableTypes, NetTypes, Joined, Goto
    <3>3. CallTypes'
      BY <1>4 DEF TypeOK, CallTypes, PcNames, TableTypes, Joined, Goto
    <3> QED
      BY <3>1, <3>2, <3>3 DEF TypeOK
  <2>2. WireInv'
    BY <1>4 DEF WireInv, Joined, Goto
  <2>3. FreshInv'
    BY <1>4 DEF FreshInv, Fresh, InFlight, Joined, Goto
  <2>4. OwnerInv'
    BY <1>4 DEF OwnerInv, Joined, Goto
  <2>5. RecordsInv'
    BY <1>4 DEF RecordsInv, Joined, Goto
  <2>6. SafeInv'
    BY <1>4 DEF SafeInv, Own, InFlight, Joined, Goto
  <2>7. HoldInv'
    BY <1>4 DEF HoldInv, Registered, Joined, Goto
  <2> QED
    BY <2>1, <2>2, <2>3, <2>4, <2>5, <2>6, <2>7
<1>5. ASSUME NEW t \in Users, BeginCall(t) PROVE IInv'
  <2>1. TypeOK'
    <3>1. NetTypes'
      BY <1>5 DEF TypeOK, NetTypes, BeginCall, NewCall, Goto
    <3>2. TableTypes'
      BY <1>5 DEF TypeOK, TableTypes, NetTypes, BeginCall, NewCall, Goto
    <3>3. CallTypes'
      BY <1>5 DEF TypeOK, CallTypes, PcNames, TableTypes, BeginCall, NewCall, Goto
    <3> QED
      BY <3>1, <3>2, <3>3 DEF TypeOK
  <2>2. WireInv'
    BY <1>5 DEF WireInv, BeginCall, NewCall, Goto
  <2>3. FreshInv'
    BY <1>5 DEF FreshInv, Fresh, InFlight, BeginCall, NewCall, Goto, TypeOK, NetTypes, TableTypes, CallTypes
  <2>4. OwnerInv'
    BY <1>5 DEF OwnerInv, BeginCall, NewCall, Goto, TypeOK, NetTypes, TableTypes, CallTypes
  <2>5. RecordsInv'
    BY <1>5 DEF RecordsInv, BeginCall, NewCall, Goto
  <2>6. SafeInv'
    BY <1>5 DEF SafeInv, Own, InFlight, BeginCall, NewCall, Goto
  <2>7. HoldInv'
    BY <1>5 DEF HoldInv, Registered, BeginCall, NewCall, Goto
  <2> QED
    BY <2>1, <2>2, <2>3, <2>4, <2>5, <2>6, <2>7
<1>6. ASSUME NEW t \in Users, SubmitCall(t) PROVE IInv'
  <2>1. TypeOK'
    <3>1. NetTypes'
      BY <1>6 DEF TypeOK, NetTypes, SubmitCall, NewCall
    <3>2. TableTypes'
      BY <1>6 DEF TypeOK, TableTypes, NetTypes, SubmitCall, NewCall
    <3>3. CallTypes'
      BY <1>6 DEF TypeOK, CallTypes, PcNames, TableTypes, SubmitCall, NewCall
    <3> QED
      BY <3>1, <3>2, <3>3 DEF TypeOK
  <2>2. WireInv'
    BY <1>6 DEF WireInv, SubmitCall, NewCall
  <2>3. FreshInv'
    BY <1>6 DEF FreshInv, Fresh, InFlight, SubmitCall, NewCall, TypeOK, NetTypes, TableTypes, CallTypes, WireInv
  <2>4. OwnerInv'
    BY <1>6 DEF OwnerInv, SubmitCall, NewCall, TypeOK, NetTypes, TableTypes, CallTypes
  <2>5. RecordsInv'
    BY <1>6 DEF RecordsInv, SubmitCall, NewCall
  <2>6. SafeInv'
    BY <1>6 DEF SafeInv, Own, InFlight, SubmitCall, NewCall
  <2>7. HoldInv'
    BY <1>6 DEF HoldInv, Registered, SubmitCall, NewCall
  <2> QED
    BY <2>1, <2>2, <2>3, <2>4, <2>5, <2>6, <2>7
<1>7. ASSUME NEW t \in Users, TakeJob(t) PROVE IInv'
  <2>1. TypeOK'
    <3>1. NetTypes'
      BY <1>7 DEF TypeOK, NetTypes, TakeJob, Goto
    <3>2. TableTypes'
      BY <1>7 DEF TypeOK, TableTypes, NetTypes, TakeJob, Goto
    <3>3. CallTypes'
      BY <1>7 DEF TypeOK, CallTypes, PcNames, TableTypes, TakeJob, Goto
    <3> QED
      BY <3>1, <3>2, <3>3 DEF TypeOK
  <2>2. WireInv'
    BY <1>7 DEF WireInv, TakeJob, Goto
  <2>3. FreshInv'
    BY <1>7 DEF FreshInv, Fresh, InFlight, TakeJob, Goto, TypeOK, NetTypes, TableTypes, CallTypes
  <2>4. OwnerInv'
    BY <1>7 DEF OwnerInv, TakeJob, Goto, TypeOK, NetTypes, TableTypes, CallTypes
  <2>5. RecordsInv'
    BY <1>7 DEF RecordsInv, TakeJob, Goto
  <2>6. SafeInv'
    BY <1>7 DEF SafeInv, Own, InFlight, TakeJob, Goto
  <2>7. HoldInv'
    BY <1>7 DEF HoldInv, Registered, TakeJob, Goto
  <2> QED
    BY <2>1, <2>2, <2>3, <2>4, <2>5, <2>6, <2>7
<1>8. ASSUME NEW t \in Users, Refuse(t) PROVE IInv'
  <2>1. TypeOK'
    <3>1. NetTypes'
      BY <1>8 DEF TypeOK, NetTypes, Refuse, Return, Goto, MutexFree, IdFree
    <3>2. TableTypes'
      BY <1>8 DEF TypeOK, TableTypes, NetTypes, Refuse, Return, Goto, MutexFree, IdFree
    <3>3. CallTypes'
      BY <1>8 DEF TypeOK, CallTypes, PcNames, TableTypes, Refuse, Return, Goto, MutexFree, IdFree
    <3> QED
      BY <3>1, <3>2, <3>3 DEF TypeOK
  <2>2. WireInv'
    BY <1>8 DEF WireInv, Refuse, Return, Goto, MutexFree, IdFree
  <2>3. FreshInv'
    BY <1>8 DEF FreshInv, Fresh, InFlight, Refuse, Return, Goto, MutexFree, IdFree
  <2>4. OwnerInv'
    BY <1>8 DEF OwnerInv, Refuse, Return, Goto, MutexFree, IdFree, TypeOK, NetTypes, TableTypes, CallTypes
  <2>5. RecordsInv'
    BY <1>8 DEF RecordsInv, Refuse, Return, Goto, MutexFree, IdFree
  <2>6. SafeInv'
    BY <1>8 DEF SafeInv, Own, InFlight, Refuse, Return, Goto, MutexFree, IdFree
  <2>7. HoldInv'
    BY <1>8 DEF HoldInv, Registered, Refuse, Return, Goto, MutexFree, IdFree
  <2> QED
    BY <2>1, <2>2, <2>3, <2>4, <2>5, <2>6, <2>7
<1>9. ASSUME NEW t \in Users, Register(t) PROVE IInv'
  <2>0. /\ cur[t] \in Calls /\ cur[t] \notin replies
        /\ io = "got" => ioReply # cur[t]
        /\ requests' = requests \/ requests' = requests \cup {cur[t]}
        /\ io' = io /\ ioReply' = ioReply /\ replies' = replies
    BY <1>9 DEF Register, TypeOK, NetTypes, TableTypes, CallTypes, FreshInv, Fresh, InFlight
  <2>1. TypeOK'
    <3>1. NetTypes'
      BY <1>9, <2>0 DEF Register, TypeOK, NetTypes
    <3>2. TableTypes'
      BY <1>9, <2>0 DEF Register, TypeOK, TableTypes, CallTypes
    <3>3. CallTypes'
      BY <1>9 DEF Register, Goto, TypeOK, CallTypes, PcNames
    <3> QED
      BY <3>1, <3>2, <3>3 DEF TypeOK
  <2>2. WireInv'
    <3>1. requests \cap replies = {} /\ (io = "got" => ioReply \notin requests \cup replies)
      BY DEF WireInv
    <3>2. \A c \in requests' : c \notin replies' /\ (io' = "got" => ioReply' # c)
      BY <2>0, <3>1
    <3> QED
      BY <2>0, <3>1, <3>2 DEF WireInv
  <2>3. FreshInv'
    BY <1>9 DEF FreshInv, Fresh, InFlight, Register, Goto, TypeOK, NetTypes, TableTypes, CallTypes, OwnerInv
  <2>4. OwnerInv'
    BY <1>9 DEF OwnerInv, Register, Goto, MutexFree, IdFree
  <2>5. RecordsInv'
    BY <1>9 DEF RecordsInv, Register, Goto, MutexFree, IdFree
  <2>6. SafeInv'
    BY <1>9 DEF SafeInv, Own, InFlight, Register, IdFree, TypeOK, NetTypes, TableTypes, CallTypes, FreshInv, Fresh
  <2>7. HoldInv'
    BY <1>9 DEF HoldInv, Registered, Register, Goto, MutexFree, IdFree, TypeOK, NetTypes, TableTypes, CallTypes
  <2> QED
    BY <2>1, <2>2, <2>3, <2>4, <2>5, <2>6, <2>7
<1>10. ASSUME NEW t \in Users, Wake(t) PROVE IInv'
  <2>1. TypeOK'
    <3>1. NetTypes'
      BY <1>10 DEF TypeOK, NetTypes, Wake, Goto
    <3>2. TableTypes'
      BY <1>10 DEF TypeOK, TableTypes, NetTypes, Wake, Goto
    <3>3. CallTypes'
      BY <1>10 DEF TypeOK, CallTypes, PcNames, TableTypes, Wake, Goto
    <3> QED
      BY <3>1, <3>2, <3>3 DEF TypeOK
  <2>2. WireInv'
    BY <1>10 DEF WireInv, Wake, Goto
  <2>3. FreshInv'
    BY <1>10 DEF FreshInv, Fresh, InFlight, Wake, Goto
  <2>4. OwnerInv'
    BY <1>10 DEF OwnerInv, Wake, Goto
  <2>5. RecordsInv'
    BY <1>10 DEF RecordsInv, Wake, Goto
  <2>6. SafeInv'
    BY <1>10 DEF SafeInv, Own, InFlight, Wake, Goto
  <2>7. HoldInv'
    BY <1>10 DEF HoldInv, Registered, Wake, Goto
  <2> QED
    BY <2>1, <2>2, <2>3, <2>4, <2>5, <2>6, <2>7
<1>11. ASSUME NEW t \in Users, Fetch(t) PROVE IInv'
  <2>1. TypeOK'
    <3>1. NetTypes'
      BY <1>11 DEF TypeOK, NetTypes, Fetch, Goto, MutexFree
    <3>2. TableTypes'
      BY <1>11 DEF TypeOK, TableTypes, NetTypes, Fetch, Goto, MutexFree
    <3>3. CallTypes'
      BY <1>11 DEF TypeOK, CallTypes, PcNames, TableTypes, Fetch, Goto, MutexFree
    <3> QED
      BY <3>1, <3>2, <3>3 DEF TypeOK
  <2>2. WireInv'
    BY <1>11 DEF WireInv, Fetch, Goto, MutexFree
  <2>3. FreshInv'
    BY <1>11 DEF FreshInv, Fresh, InFlight, Fetch, Goto, MutexFree
  <2>4. OwnerInv'
    BY <1>11 DEF OwnerInv, Fetch, Goto, MutexFree
  <2>5. RecordsInv'
    BY <1>11 DEF RecordsInv, Fetch, Goto, MutexFree
  <2>6. SafeInv'
    BY <1>11 DEF SafeInv, Own, InFlight, Fetch, Goto, MutexFree
  <2>7. HoldInv'
    BY <1>11 DEF HoldInv, Registered, Fetch, Goto, MutexFree, TypeOK, NetTypes, TableTypes, CallTypes
  <2> QED
    BY <2>1, <2>2, <2>3, <2>4, <2>5, <2>6, <2>7
<1>12. ASSUME NEW t \in Users, FetchOnce(t) PROVE IInv'
  <2>1. TypeOK'
    <3>1. NetTypes'
      BY <1>12 DEF TypeOK, NetTypes, FetchOnce, Return, Goto, MutexFree
    <3>2. TableTypes'
      BY <1>12 DEF TypeOK, TableTypes, NetTypes, FetchOnce, Return, Goto, MutexFree
    <3>3. CallTypes'
      BY <1>12 DEF TypeOK, CallTypes, PcNames, TableTypes, FetchOnce, Return, Goto, MutexFree
    <3> QED
      BY <3>1, <3>2, <3>3 DEF TypeOK
  <2>2. WireInv'
    BY <1>12 DEF WireInv, FetchOnce, Return, Goto, MutexFree
  <2>3. FreshInv'
    BY <1>12 DEF FreshInv, Fresh, InFlight, FetchOnce, Return, Goto, MutexFree
  <2>4. OwnerInv'
    BY <1>12 DEF OwnerInv, FetchOnce, Return, Goto, MutexFree, TypeOK, NetTypes, TableTypes, CallTypes
  <2>5. RecordsInv'
    BY <1>12 DEF RecordsInv, FetchOnce, Return, Goto, MutexFree
  <2>6. SafeInv'
    BY <1>12 DEF SafeInv, Own, InFlight, FetchOnce, Return, Goto, MutexFree
  <2>7. HoldInv'
    BY <1>12 DEF HoldInv, Registered, FetchOnce, Return, Goto, MutexFree, TypeOK, NetTypes, TableTypes, CallTypes
  <2> QED
    BY <2>1, <2>2, <2>3, <2>4, <2>5, <2>6, <2>7
<1>13. ASSUME NEW t \in Users, SeeDone(t) PROVE IInv'
  <2>1. TypeOK'
    <3>1. NetTypes'
      BY <1>13 DEF TypeOK, NetTypes, SeeDone, HasResponse, Goto
    <3>2. TableTypes'
      BY <1>13 DEF TypeOK, TableTypes, NetTypes, SeeDone, HasResponse, Goto
    <3>3. CallTypes'
      BY <1>13 DEF TypeOK, CallTypes, PcNames, TableTypes, SeeDone, HasResponse, Goto
    <3> QED
      BY <3>1, <3>2, <3>3 DEF TypeOK
  <2>2. WireInv'
    BY <1>13 DEF WireInv, SeeDone, HasResponse, Goto
  <2>3. FreshInv'
    BY <1>13 DEF FreshInv, Fresh, InFlight, SeeDone, HasResponse, Goto
  <2>4. OwnerInv'
    BY <1>13 DEF OwnerInv, SeeDone, HasResponse, Goto
  <2>5. RecordsInv'
    BY <1>13 DEF RecordsInv, SeeDone, HasResponse, Goto
  <2>6. SafeInv'
    BY <1>13 DEF SafeInv, Own, InFlight, SeeDone, HasResponse, Goto
  <2>7. HoldInv'
    BY <1>13 DEF HoldInv, Registered, SeeDone, HasResponse, Goto
  <2> QED
    BY <2>1, <2>2, <2>3, <2>4, <2>5, <2>6, <2>7
<1>14. ASSUME NEW t \in Users, GiveUp(t) PROVE IInv'
  <2>1. TypeOK'
    <3>1. NetTypes'
      BY <1>14 DEF TypeOK, NetTypes, GiveUp, HasResponse, Return, Goto
    <3>2. TableTypes'
      BY <1>14 DEF TypeOK, TableTypes, NetTypes, GiveUp, HasResponse, Return, Goto
    <3>3. CallTypes'
      BY <1>14 DEF TypeOK, CallTypes, PcNames, TableTypes, GiveUp, HasResponse, Return, Goto
    <3> QED
      BY <3>1, <3>2, <3>3 DEF TypeOK
  <2>2. WireInv'
    BY <1>14 DEF WireInv, GiveUp, HasResponse, Return, Goto
  <2>3. FreshInv'
    BY <1>14 DEF FreshInv, Fresh, InFlight, GiveUp, HasResponse, Return, Goto
  <2>4. OwnerInv'
    BY <1>14 DEF OwnerInv, GiveUp, HasResponse, Return, Goto, TypeOK, NetTypes, TableTypes, CallTypes
  <2>5. RecordsInv'
    BY <1>14 DEF RecordsInv, GiveUp, HasResponse, Return, Goto
  <2>6. SafeInv'
    BY <1>14 DEF SafeInv, Own, InFlight, GiveUp, HasResponse, Return, Goto
  <2>7. HoldInv'
    BY <1>14 DEF HoldInv, Registered, GiveUp, HasResponse, Return, Goto, TypeOK, NetTypes, TableTypes, CallTypes
  <2> QED
    BY <2>1, <2>2, <2>3, <2>4, <2>5, <2>6, <2>7
<1>15. ASSUME NEW t \in Users, Remove(t) PROVE IInv'
  <2>1. TypeOK'
    <3>1. NetTypes'
      BY <1>15 DEF TypeOK, NetTypes, Remove, Return, Goto, MutexFree
    <3>2. TableTypes'
      BY <1>15 DEF TypeOK, TableTypes, NetTypes, Remove, Return, Goto, MutexFree
    <3>3. CallTypes'
      BY <1>15 DEF TypeOK, CallTypes, PcNames, TableTypes, Remove, Return, Goto, MutexFree
    <3> QED
      BY <3>1, <3>2, <3>3 DEF TypeOK
  <2>2. WireInv'
    BY <1>15 DEF WireInv, Remove, Return, Goto, MutexFree
  <2>3. FreshInv'
    BY <1>15 DEF FreshInv, Fresh, InFlight, Remove, Return, Goto, MutexFree
  <2>4. OwnerInv'
    BY <1>15 DEF OwnerInv, Remove, Return, Goto, MutexFree, TypeOK, NetTypes, TableTypes, CallTypes
  <2>5. RecordsInv'
    BY <1>15 DEF RecordsInv, Remove, Return, Goto, MutexFree
  <2>6. SafeInv'
    BY <1>15 DEF SafeInv, Own, InFlight, Remove, Return, MutexFree, TypeOK, NetTypes, TableTypes, CallTypes, HoldInv, Registered
  <2>7. HoldInv'
    BY <1>15 DEF HoldInv, Registered, Remove, Return, Goto, TypeOK, NetTypes, TableTypes, CallTypes, OwnerInv
  <2> QED
    BY <2>1, <2>2, <2>3, <2>4, <2>5, <2>6, <2>7
<1>16. ASSUME Disconnect PROVE IInv'
  <2>1. TypeOK'
    <3>1. NetTypes'
      BY <1>16 DEF TypeOK, NetTypes, Disconnect, Goto
    <3>2. TableTypes'
      BY <1>16 DEF TypeOK, TableTypes, NetTypes, Disconnect, Goto
    <3>3. CallTypes'
      BY <1>16 DEF TypeOK, CallTypes, PcNames, TableTypes, Disconnect, Goto
    <3> QED
      BY <3>1, <3>2, <3>3 DEF TypeOK
  <2>2. WireInv'
    BY <1>16 DEF WireInv, Disconnect, Goto
  <2>3. FreshInv'
    BY <1>16 DEF FreshInv, Fresh, InFlight, Disconnect, Goto
  <2>4. OwnerInv'
    BY <1>16 DEF OwnerInv, Disconnect, Goto
  <2>5. RecordsInv'
    BY <1>16 DEF RecordsInv, Disconnect, Goto
  <2>6. SafeInv'
    BY <1>16 DEF SafeInv, Own, InFlight, Disconnect, Goto
  <2>7. HoldInv'
    BY <1>16 DEF HoldInv, Registered, Disconnect, Goto
  <2> QED
    BY <2>1, <2>2, <2>3, <2>4, <2>5, <2>6, <2>7
<1>17. ASSUME PeerDrop PROVE IInv'
  <2>1. TypeOK'
    <3>1. NetTypes'
      BY <1>17 DEF TypeOK, NetTypes, PeerDrop
    <3>2. TableTypes'
      BY <1>17 DEF TypeOK, TableTypes, NetTypes, PeerDrop
    <3>3. CallTypes'
      BY <1>17 DEF TypeOK, CallTypes, PcNames, TableTypes, PeerDrop
    <3> QED
      BY <3>1, <3>2, <3>3 DEF TypeOK
  <2>2. WireInv'
    BY <1>17 DEF WireInv, PeerDrop
  <2>3. FreshInv'
    BY <1>17 DEF FreshInv, Fresh, InFlight, PeerDrop
  <2>4. OwnerInv'
    BY <1>17 DEF OwnerInv, PeerDrop
  <2>5. RecordsInv'
    BY <1>17 DEF RecordsInv, PeerDrop
  <2>6. SafeInv'
    BY <1>17 DEF SafeInv, Own, InFlight, PeerDrop
  <2>7. HoldInv'
    BY <1>17 DEF HoldInv, Registered, PeerDrop
  <2> QED
    BY <2>1, <2>2, <2>3, <2>4, <2>5, <2>6, <2>7
<1>18. ASSUME Clear PROVE IInv'
  <2>1. TypeOK'
    <3>1. NetTypes'
      BY <1>18 DEF TypeOK, NetTypes, Clear, MutexFree
    <3>2. TableTypes'
      BY <1>18 DEF TypeOK, TableTypes, NetTypes, Clear, MutexFree
    <3>3. CallTypes'
      BY <1>18 DEF TypeOK, CallTypes, PcNames, TableTypes, Clear, MutexFree
    <3> QED
      BY <3>1, <3>2, <3>3 DEF TypeOK
  <2>2. WireInv'
    BY <1>18 DEF WireInv, Clear, MutexFree
  <2>3. FreshInv'
    BY <1>18 DEF FreshInv, Fresh, InFlight, Clear, MutexFree, TypeOK, TableTypes
  <2>4. OwnerInv'
    BY <1>18 DEF OwnerInv, Clear, MutexFree
  <2>5. RecordsInv'
    BY <1>18 DEF RecordsInv, Clear, MutexFree
  <2>6. SafeInv'
    BY <1>18 DEF SafeInv, Own, InFlight, Clear, MutexFree, TypeOK, NetTypes, TableTypes, CallTypes
  <2>7. HoldInv'
    BY <1>18 DEF HoldInv, Registered, Clear, MutexFree, TypeOK, NetTypes, TableTypes, CallTypes
  <2> QED
    BY <2>1, <2>2, <2>3, <2>4, <2>5, <2>6, <2>7
<1>19. ASSUME Answer PROVE IInv'
  <2>1. TypeOK'
    <3>1. NetTypes'
      BY <1>19 DEF TypeOK, NetTypes, Answer
    <3>2. TableTypes'
      BY <1>19 DEF TypeOK, TableTypes, NetTypes, Answer
    <3>3. CallTypes'
      BY <1>19 DEF TypeOK, CallTypes, PcNames, TableTypes, Answer
    <3> QED
      BY <3>1, <3>2, <3>3 DEF TypeOK
  <2>2. WireInv'
    BY <1>19 DEF WireInv, Answer
  <2>3. FreshInv'
    BY <1>19 DEF FreshInv, Fresh, InFlight, Answer
  <2>4. OwnerInv'
    BY <1>19 DEF OwnerInv, Answer
  <2>5. RecordsInv'
    BY <1>19 DEF RecordsInv, Answer
  <2>6. SafeInv'
    BY <1>19 DEF SafeInv, Own, InFlight, Answer
  <2>7. HoldInv'
    BY <1>19 DEF HoldInv, Registered, Answer
  <2> QED
    BY <2>1, <2>2, <2>3, <2>4, <2>5, <2>6, <2>7
<1>20. ASSUME IoSeesDrop PROVE IInv'
  <2>1. TypeOK'
    <3>1. NetTypes'
      BY <1>20 DEF TypeOK, NetTypes, IoSeesDrop
    <3>2. TableTypes'
      BY <1>20 DEF TypeOK, TableTypes, NetTypes, IoSeesDrop
    <3>3. CallTypes'
      BY <1>20 DEF TypeOK, CallTypes, PcNames, TableTypes, IoSeesDrop
    <3> QED
      BY <3>1, <3>2, <3>3 DEF TypeOK
  <2>2. WireInv'
    BY <1>20 DEF WireInv, IoSeesDrop
  <2>3. FreshInv'
    BY <1>20 DEF FreshInv, Fresh, InFlight, IoSeesDrop
  <2>4. OwnerInv'
    BY <1>20 DEF OwnerInv, IoSeesDrop
  <2>5. RecordsInv'
    BY <1>20 DEF RecordsInv, IoSeesDrop
  <2>6. SafeInv'
    BY <1>20 DEF SafeInv, Own, InFlight, IoSeesDrop
  <2>7. HoldInv'
    BY <1>20 DEF HoldInv, Registered, IoSeesDrop
  <2> QED
    BY <2>1, <2>2, <2>3, <2>4, <2>5, <2>6, <2>7
<1>21. ASSUME IoRead PROVE IInv'
  <2>1. TypeOK'
    <3>1. NetTypes'
      BY <1>21 DEF TypeOK, NetTypes, IoRead
    <3>2. TableTypes'
      BY <1>21 DEF TypeOK, TableTypes, NetTypes, IoRead
    <3>3. CallTypes'
      BY <1>21 DEF TypeOK, CallTypes, PcNames, TableTypes, IoRead
    <3> QED
      BY <3>1, <3>2, <3>3 DEF TypeOK
  <2>2. WireInv'
    BY <1>21 DEF WireInv, IoRead
  <2>3. FreshInv'
    BY <1>21 DEF FreshInv, Fresh, InFlight, IoRead
  <2>4. OwnerInv'
    BY <1>21 DEF OwnerInv, IoRead
  <2>5. RecordsInv'
    BY <1>21 DEF RecordsInv, IoRead
  <2>6. SafeInv'
    BY <1>21 DEF SafeInv, Own, InFlight, IoRead
  <2>7. HoldInv'
    BY <1>21 DEF HoldInv, Registered, IoRead
  <2> QED
    BY <2>1, <2>2, <2>3, <2>4, <2>5, <2>6, <2>7
<1>22. ASSUME IoDrop PROVE IInv'
  <2>1. TypeOK'
    <3>1. NetTypes'
      BY <1>22 DEF TypeOK, NetTypes, IoDrop, Found
    <3>2. TableTypes'
      BY <1>22 DEF TypeOK, TableTypes, NetTypes, IoDrop, Found
    <3>3. CallTypes'
      BY <1>22 DEF TypeOK, CallTypes, PcNames, TableTypes, IoDrop, Found
    <3> QED
      BY <3>1, <3>2, <3>3 DEF TypeOK
  <2>2. WireInv'
    BY <1>22 DEF WireInv, IoDrop, Found
  <2>3. FreshInv'
    BY <1>22 DEF FreshInv, Fresh, InFlight, IoDrop, Found
  <2>4. OwnerInv'
    BY <1>22 DEF OwnerInv, IoDrop, Found
  <2>5. RecordsInv'
    BY <1>22 DEF RecordsInv, IoDrop, Found
  <2>6. SafeInv'
    BY <1>22 DEF SafeInv, Own, InFlight, IoDrop, Found
  <2>7. HoldInv'
    BY <1>22 DEF HoldInv, Registered, IoDrop, Found
  <2> QED
    BY <2>1, <2>2, <2>3, <2>4, <2>5, <2>6, <2>7
<1>23. ASSUME IoStore PROVE IInv'
  <2>1. TypeOK'
    <3>1. NetTypes'
      BY <1>23 DEF TypeOK, NetTypes, TableTypes, IoStore, Found
    <3>2. TableTypes'
      BY <1>23 DEF TypeOK, TableTypes, NetTypes, IoStore, Found
    <3>3. CallTypes'
      BY <1>23 DEF TypeOK, CallTypes, PcNames, TableTypes, IoStore, Found
    <3> QED
      BY <3>1, <3>2, <3>3 DEF TypeOK
  <2>2. WireInv'
    BY <1>23 DEF WireInv, IoStore, Found
  <2>3. FreshInv'
    BY <1>23 DEF FreshInv, Fresh, InFlight, IoStore, TypeOK, NetTypes, TableTypes, CallTypes, RecordsInv
  <2>4. OwnerInv'
    BY <1>23 DEF OwnerInv, IoStore, Found
  <2>5. RecordsInv'
    BY <1>23 DEF RecordsInv, IoStore, Found
  <2>6. SafeInv'
    BY <1>23 DEF SafeInv, Own, InFlight, IoStore, TypeOK, NetTypes, TableTypes, CallTypes, WireInv, RecordsInv
  <2>7. HoldInv'
    BY <1>23 DEF HoldInv, Registered, IoStore, Found, TypeOK, NetTypes, TableTypes, CallTypes
  <2> QED
    BY <2>1, <2>2, <2>3, <2>4, <2>5, <2>6, <2>7
<1>24. ASSUME IoDone PROVE IInv'
  <2>1. TypeOK'
    <3>1. NetTypes'
      BY <1>24 DEF TypeOK, NetTypes, IoDone, CallbackOver
    <3>2. TableTypes'
      BY <1>24 DEF TypeOK, TableTypes, NetTypes, IoDone, CallbackOver
    <3>3. CallTypes'
      BY <1>24 DEF TypeOK, CallTypes, PcNames, TableTypes, IoDone, CallbackOver
    <3> QED
      BY <3>1, <3>2, <3>3 DEF TypeOK
  <2>2. WireInv'
    BY <1>24 DEF WireInv, IoDone, CallbackOver
  <2>3. FreshInv'
    BY <1>24 DEF FreshInv, Fresh, InFlight, IoDone, CallbackOver
  <2>4. OwnerInv'
    BY <1>24 DEF OwnerInv, IoDone, CallbackOver
  <2>5. RecordsInv'
    BY <1>24 DEF RecordsInv, IoDone, CallbackOver
  <2>6. SafeInv'
    BY <1>24 DEF SafeInv, Own, InFlight, IoDone, CallbackOver
  <2>7. HoldInv'
    BY <1>24 DEF HoldInv, Registered, IoDone, CallbackOver
  <2> QED
    BY <2>1, <2>2, <2>3, <2>4, <2>5, <2>6, <2>7
<1>25. CASE UNCHANGED vars
  <2>1. TypeOK'
    <3>1. NetTypes'
      BY <1>25 DEF TypeOK, NetTypes, vars
    <3>2. TableTypes'
      BY <1>25 DEF TypeOK, TableTypes, NetTypes, vars
    <3>3. CallTypes'
      BY <1>25 DEF TypeOK, CallTypes, PcNames, TableTypes, vars
    <3> QED
      BY <3>1, <3>2, <3>3 DEF TypeOK
  <2>2. WireInv'
    BY <1>25 DEF WireInv, vars
  <2>3. FreshInv'
    BY <1>25 DEF FreshInv, Fresh, InFlight, vars
  <2>4. OwnerInv'
    BY <1>25 DEF OwnerInv, vars
  <2>5. RecordsInv'
    BY <1>25 DEF RecordsInv, vars
  <2>6. SafeInv'
    BY <1>25 DEF SafeInv, Own, InFlight, vars
  <2>7. HoldInv'
    BY <1>25 DEF HoldInv, Registered, vars
  <2> QED
    BY <2>1, <2>2, <2>3, <2>4, <2>5, <2>6, <2>7
<1> QED
  BY <1>1, <1>2, <1>3, <1>4, <1>5, <1>6, <1>7, <1>8, <1>9, <1>10, <1>11, <1>12, <1>13, <1>14, <1>15, <1>16, <1>17, <1>18, <1>19, <1>20, <1>21, <1>22, <1>23, <1>24, <1>25 DEF Next

-----------------------------------------------------------------------------
(* The io thread ends with disconnect and does not come back.              *)
QuietInv ==
    /\ \A t \in Threads : pc[t] = "join" => stopped
    /\ joined => stopped /\ io = "ended"

(* No step brings the io thread back: connecting again after disconnect    *)
(* starts a thread that finds m_ioc stopped.                               *)
LEMMA NextQuiet == TypeOK /\ QuietInv /\ [Next]_vars => QuietInv'
<1> SUFFICES ASSUME TypeOK, QuietInv, [Next]_vars PROVE QuietInv'
  OBVIOUS
<1> USE DEF TypeOK, NetTypes, TableTypes, CallTypes, QuietInv, conn, ioVars, Goto
<1>1. ASSUME NEW t \in Threads, Connect(t) PROVE QuietInv'
  BY <1>1 DEF Connect, StartedIo
<1>2. ASSUME NEW t \in Threads, Stop(t) PROVE QuietInv'
  BY <1>2 DEF Stop
<1>3. ASSUME NEW t \in Threads, Join(t) PROVE QuietInv'
  BY <1>3 DEF Join, JoinIo
<1>4. ASSUME NEW t \in Threads, Joined(t) PROVE QuietInv'
  BY <1>4 DEF Joined
<1>5. ASSUME NEW t \in Users, BeginCall(t) \/ SubmitCall(t) \/ TakeJob(t) PROVE QuietInv'
  BY <1>5 DEF BeginCall, SubmitCall, NewCall, TakeJob
<1>6. ASSUME NEW t \in Users, Register(t) \/ Wake(t) \/ Fetch(t) \/ SeeDone(t)
      PROVE QuietInv'
  BY <1>6 DEF Register, Wake, Fetch, SeeDone
<1>7. ASSUME NEW t \in Users, Refuse(t) \/ FetchOnce(t) \/ GiveUp(t) \/ Remove(t)
      PROVE QuietInv'
  BY <1>7 DEF Refuse, FetchOnce, GiveUp, Remove, Return
<1>8. CASE Disconnect
  BY <1>8 DEF Disconnect
<1>9. CASE PeerDrop \/ Clear \/ Answer
  BY <1>9 DEF PeerDrop, Clear, Answer
<1>10. CASE IoSeesDrop \/ IoRead \/ IoDrop \/ IoStore \/ IoDone
  BY <1>10 DEF IoSeesDrop, IoRead, IoDrop, IoStore, Found, IoDone, CallbackOver
<1>11. CASE UNCHANGED vars
  BY <1>11 DEF vars
<1> QED
  BY <1>1, <1>2, <1>3, <1>4, <1>5, <1>6, <1>7, <1>8, <1>9, <1>10, <1>11 DEF Next

(* Only IoStore touches records and callbacks, and it needs a live thread. *)
LEMMA QuietStep == QuietInv /\ [Next]_vars => [joined => UNCHANGED <<resp, ran>>]_vars
<1> SUFFICES ASSUME QuietInv, Next, joined PROVE UNCHANGED <<resp, ran>>
  BY DEF vars
<1>1. ~IoStore
  BY DEF QuietInv, IoStore
<1> QED
  BY <1>1 DEF Next, Connect, Stop, Join, Joined, BeginCall, SubmitCall, NewCall,
     TakeJob, Refuse, Register, Wake, Fetch, FetchOnce, SeeDone, GiveUp, Remove,
     Disconnect, PeerDrop, Clear, Answer, IoSeesDrop, IoRead, IoDrop, IoDone

-----------------------------------------------------------------------------
(* The invariant holds in every reachable state.                           *)
THEOREM Invariance == Spec => []IInv
<1> QED
  BY InitIInv, NextIInv, PTL DEF Spec

(* The type invariant of the runs.                                         *)
THEOREM TypeCorrect == Spec => []TypeOK
<1>1. IInv => TypeOK
  BY DEF IInv
<1> QED
  BY <1>1, Invariance, PTL

(* A response reaches the record of the call it answers and a callback     *)
(* runs at most once, for ids in use when nobody cleared the table.        *)
THEOREM ResponsesMatch == Spec => []ResponseMatchesCall
<1>1. IInv => ResponseMatchesCall
  BY DEF IInv, SafeInv, ResponseMatchesCall
<1> QED
  BY <1>1, Invariance, PTL

(* A call that returns with its response removed from the table returns    *)
(* after its callback.                                                     *)
THEOREM CallbackFirst == Spec => []DoneAfterCallback
<1>1. IInv => DoneAfterCallback
  BY DEF IInv, SafeInv, Own, DoneAfterCallback
<1> QED
  BY <1>1, Invariance, PTL

(* Nothing changes in any record after disconnect.                         *)
THEOREM Quiet == Spec => QuietAfterDisconnect
<1>1. Init => QuietInv
  BY DEF Init, QuietInv
<1> QED
  BY <1>1, NextQuiet, QuietStep, TypeCorrect, PTL DEF Spec, QuietAfterDisconnect
=============================================================================
