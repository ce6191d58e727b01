---------------------------- MODULE RaftMessages ----------------------------
(***************************************************************************)
(* NBRaft/struct.h: the arguments and replies of RequestVote and           *)
(* AppendEntries and their conversions by RaftServiceAdapter.  A kind of   *)
(* message is the function from its fields to the types they have in JSON. *)
(***************************************************************************)
EXTENDS JrpcProto

RequestVoteArgs ==
    [term |-> "intValue", candidateId |-> "intValue",
     lastLogIndex |-> "intValue", lastLogTerm |-> "intValue"]

RequestVoteReply == [term |-> "intValue", voteGranted |-> "booleanValue"]

AppendEntriesArgs ==
    [term |-> "intValue", leaderId |-> "intValue", prevLogIndex |-> "intValue",
     prevLogTerm |-> "intValue", entries |-> "arrayValue", leaderCommit |-> "intValue"]

AppendEntriesReply ==
    [term |-> "intValue", success |-> "booleanValue",
     expectIndex |-> "intValue", expectTerm |-> "intValue"]

(* The types a procedure is registered with.                               *)
RequestVoteArgsMap   == RequestVoteArgs
AppendEntriesArgsMap == AppendEntriesArgs

(* A structure as it is constructed: -1, or false; entries is null until   *)
(* something is assigned to it.                                            *)
Default(kind) ==
    [f \in DOMAIN kind |->
        CASE kind[f] = "intValue"     -> [type |-> "intValue", number |-> -1]
          [] kind[f] = "booleanValue" -> [type |-> "booleanValue", number |-> 0]
          [] kind[f] = "arrayValue"   -> [type |-> "nullValue", number |-> 0]]

ToJson(kind, args) == [f \in DOMAIN kind |-> args[f]]

FieldsCheck(kind, value) == \A f \in DOMAIN kind : f \in DOMAIN value

(* asInt and asBool of a member that is absent give 0 and false.           *)
FromJson(kind, value) ==
    [f \in DOMAIN kind |->
        IF f \in DOMAIN value THEN value[f]
        ELSE IF kind[f] = "arrayValue" THEN [type |-> "nullValue", number |-> 0]
        ELSE [type |-> kind[f], number |-> 0]]
=============================================================================
