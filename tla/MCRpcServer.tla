---------------------------- MODULE MCRpcServer ----------------------------
(* A small instance of RpcServer for TLC: two clients and the two methods  *)
(* of Raft; each message is one of what the factories create, of documents *)
(* that lack something and of what is no document.                         *)
EXTENDS RpcServer

CONSTANTS c1, c2

VoteArgs(n)    == ToJson(RequestVoteArgs, [Default(RequestVoteArgs) EXCEPT !.term.number = n])
Heartbeat(n)   == ToJson(AppendEntriesArgs, [Default(AppendEntriesArgs) EXCEPT !.term.number = n])
EntriesArgs(n) == [Heartbeat(n) EXCEPT !.entries.type = "arrayValue"]
OnlyTerm(n)    == [term |-> [type |-> "intValue", number |-> n]]
BadTerm(n)     == [term |-> [type |-> "stringValue", number |-> n]]

WithoutMethod(r) == [r EXCEPT !.type = [m \in DOMAIN r.type \ {"method"} |-> r.type[m]]]

Calling(n)   == Document(CreateReturnCall("vote", "a", VoteArgs(n)))
Notifying(n) == Document(CreateNotifyCall("vote", VoteArgs(n)))

AllTexts(n) ==
    {Text("noise"), Value("arrayValue"), Value("nullValue"), Calling(n), Notifying(n)} \cup
    {Document(r) : r \in
        {CreateReturnCall("vote", "b", OnlyTerm(n)), CreateReturnCall("vote", "a", BadTerm(n)),
         CreateReturnCall("append", "a", EntriesArgs(n)), CreateReturnCall("append", "a", Heartbeat(n)),
         CreateReturnCall("vote", "a", EntriesArgs(n)), CreateNotifyCall("vote", BadTerm(n)),
         CreateNotifyCallTemplate("vote", VoteArgs(n)),
         WithoutMethod(CreateReturnCall("vote", "a", VoteArgs(n)))}}

MCTexts == <<AllTexts(1), {Calling(2)}, {Calling(3)}>>

MCParamsOf == [m \in Methods |-> IF m = "vote" THEN RequestVoteArgsMap ELSE AppendEntriesArgsMap]
=============================================================================
