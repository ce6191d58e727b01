---------------------------- MODULE BehaviorTree ----------------------------
(***************************************************************************)
(* NBRaft/BehaviorTree.{h,cpp}: behavior trees, built by                   *)
(* BehaviorTreeBuilder and run by BehaviorTree::tick.                      *)
(*                                                                         *)
(* A tick calls the nodes recursively; here the calls in progress are the  *)
(* frames of a stack, one step at a time.  A node is the number in which   *)
(* it was added; its kind never changes.  Filter and Monitor add           *)
(* AddCondition and AddAction to Sequence and Parallel and are modelled by *)
(* these kinds.                                                            *)
(*                                                                         *)
(* Between two ticks children may be added and removed and nodes reset.    *)
(* Where the code then follows an invalid iterator or a null pointer the   *)
(* model allows no step: no behavior is added under a root that is an      *)
(* Action, a decorator has its child before it is ticked, and no child is  *)
(* removed while its parent is running.                                    *)
(***************************************************************************)
EXTENDS Integers, Sequences, SequencesExt, FiniteSets

CONSTANTS MaxNodes,  \* bound: behaviors added
          MaxInner,  \* bound: those that are not Actions
          Kinds,     \* the kinds that are added, see Kind
          MaxEdits   \* bound: changes of the tree after its first tick, resets

Policies == {"RequireOne", "RequireAll"}

(* The classes derived from Behavior.  limit < 0 means without limit.      *)
Kind == [type : {"Action", "Sequence", "Selector", "ActiveSelector", "Inverter"}]
            \cup [type : {"Parallel"}, success : Policies, failure : Policies]
            \cup [type : {"Repeat"}, limit : Int]

ASSUME TreeAssumption ==
    /\ MaxNodes \in Nat /\ MaxInner \in Nat /\ MaxEdits \in Nat
    /\ \A k \in Kinds : k \in Kind

Nodes == 1..MaxNodes
End   == 0  \* m_children->end(), and no child

Statuses == {"Failure", "Success", "Running", "Aborted", "Invalid"}

VARIABLES
    kind,      \* the kind of each node added so far
    children,  \* m_children; a decorator's m_child as a sequence of one
    status,    \* m_status
    current,   \* m_currentChild of Sequence and Selector
    counter,   \* m_conunter of Repeat
    building,  \* m_nodeStack, top first
    calls,     \* the calls of tick in progress, innermost first
    edits,     \* history: changes so far
    touched    \* history: nodes whose children changed since they started

vars == <<kind, children, status, current, counter, building, calls, edits, touched>>

Init ==
    /\ kind = <<>>
    /\ children = [n \in Nodes |-> <<>>]
    /\ status = [n \in Nodes |-> "Invalid"]
    /\ current = [n \in Nodes |-> End]
    /\ counter = [n \in Nodes |-> 0]
    /\ building = <<>>
    /\ calls = <<>>
    /\ edits = 0 /\ touched = {}

Added       == DOMAIN kind
Is(n, t)    == kind[n].type = t
AtRest      == calls = <<>>
Terminated(n)   == status[n] \in {"Success", "Failure"}
IsDecorator(n)  == Is(n, "Inverter") \/ Is(n, "Repeat")
HasCurrent(n)   == Is(n, "Sequence") \/ Is(n, "Selector") \/ Is(n, "ActiveSelector")
Offspring(n)    == {children[n][i] : i \in DOMAIN children[n]}

First(n) == IF children[n] = <<>> THEN End ELSE Head(children[n])
Index(n, c) == CHOOSE j \in DOMAIN children[n] : children[n][j] = c
Next1(n, c) == IF Index(n, c) = Len(children[n]) THEN End ELSE children[n][Index(n, c) + 1]

-----------------------------------------------------------------------------
(* Building.  A change of a tree that has been ticked counts as an edit.   *)
Ticked == \E n \in Added : status[n] # "Invalid"

Edit(n) ==
    IF Ticked
    THEN edits < MaxEdits /\ edits' = edits + 1 /\ touched' = touched \cup {n}
    ELSE UNCHANGED <<edits, touched>>

(* addChild: a composite appends, a decorator replaces, an Action ignores. *)
AddChild(p, c) ==
    children' = [children EXCEPT ![p] =
        IF Is(p, "Action") THEN @ ELSE IF IsDecorator(p) THEN <<c>> ELSE Append(@, c)]

(* addBehavior: the first behavior is the root, another one becomes a      *)
(* child of the top of the stack; all but Actions are pushed.              *)
AddBehavior(k) ==
    LET n == Len(kind) + 1
    IN  /\ AtRest
        /\ n <= MaxNodes
        /\ k.type = "Action" \/ Cardinality({m \in Added : ~Is(m, "Action")}) < MaxInner
        /\ kind' = Append(kind, k)
        /\ building' = IF k.type = "Action" THEN building ELSE <<n>> \o building
        /\ \/ n = 1 /\ UNCHANGED <<children, edits, touched>>
           \/ building # <<>> /\ AddChild(Head(building), n) /\ Edit(Head(building))
        /\ UNCHANGED <<status, current, counter, calls>>

Back ==
    /\ AtRest
    /\ Len(building) > 1
    /\ building' = Tail(building)
    /\ UNCHANGED <<kind, children, status, current, counter, calls, edits, touched>>

EndBuild ==
    /\ AtRest
    /\ Len(building) > 1
    /\ building' = <<building[Len(building)]>>
    /\ UNCHANGED <<kind, children, status, current, counter, calls, edits, touched>>

(* AddCondition and AddAction of Filter and Monitor put a behavior of the  *)
(* user's in front of the others or behind them.                           *)
AddPart(p, inFront) ==
    LET n == Len(kind) + 1
    IN  /\ AtRest
        /\ n <= MaxNodes /\ [type |-> "Action"] \in Kinds
        /\ Is(p, "Sequence") \/ Is(p, "Parallel")
        /\ kind' = Append(kind, [type |-> "Action"])
        /\ children' = [children EXCEPT ![p] = IF inFront THEN <<n>> \o @ ELSE Append(@, n)]
        /\ Edit(p)
        /\ UNCHANGED <<status, current, counter, building, calls>>

AddCondition(p) == AddPart(p, TRUE)
AddAction(p)    == AddPart(p, FALSE)

(* removeChild and removeChile: a parent that is not running.              *)
RemoveChild(p, c) ==
    /\ AtRest
    /\ ~IsDecorator(p) /\ status[p] # "Running"
    /\ \E i \in DOMAIN children[p] :
          children[p][i] = c /\ children' = [children EXCEPT ![p] = RemoveAt(@, i)]
    /\ current' = [current EXCEPT ![p] = IF @ = c THEN End ELSE @]
    /\ Edit(p)
    /\ UNCHANGED <<kind, status, counter, building, calls>>

Reset(n) ==
    /\ AtRest
    /\ edits < MaxEdits /\ edits' = edits + 1
    /\ status[n] # "Invalid"
    /\ status' = [status EXCEPT ![n] = "Invalid"]
    /\ touched' = touched \cup {n} \cup {p \in Added : n \in Offspring(p)}
    /\ UNCHANGED <<kind, children, current, counter, building, calls>>

-----------------------------------------------------------------------------
(* Behavior::tick.  A call starts with onInitialize, unless the node is    *)
(* running, and enters onUpdate.                                           *)
Frame == [node : Nodes, at : Nodes \cup {End}, ticked : BOOLEAN,
          good : Nat, bad : Nat, prev : Nodes \cup {End}, fresh : BOOLEAN]

Starts(n) == status[n] # "Running"

(* onInitialize of Sequence, Selector and Repeat.                          *)
OnInitialize(n) ==
    /\ current' = [current EXCEPT ![n] =
           IF HasCurrent(n) /\ (Starts(n) \/ Is(n, "ActiveSelector")) THEN First(n) ELSE @]
    /\ counter' = [counter EXCEPT ![n] = IF Is(n, "Repeat") /\ Starts(n) THEN 0 ELSE @]
    /\ touched' = IF Starts(n) THEN touched \ {n} ELSE touched

(* at is where the loop over the children begins; ActiveSelector remembers *)
(* the child that was current.                                             *)
EnterUpdate(n, rest) ==
    calls' = <<[node |-> n,
                at |-> IF Is(n, "Sequence") /\ ~Starts(n) THEN current[n] ELSE First(n),
                ticked |-> FALSE, good |-> 0, bad |-> 0,
                prev |-> IF Starts(n) THEN First(n) ELSE current[n],
                fresh |-> Starts(n)]>> \o rest

Call(n, rest) == OnInitialize(n) /\ EnterUpdate(n, rest)

TreeTick ==
    /\ AtRest
    /\ kind # <<>>
    /\ \A n \in Added : IsDecorator(n) => children[n] # <<>>
    /\ Call(1, <<>>)
    /\ UNCHANGED <<kind, children, status, building, edits>>

(* What the onUpdate of a composite or a decorator does next: the child it *)
(* ticks, or else the result it returns, or else it looks at the next      *)
(* child.                                                                  *)
Unlimited(n) == kind[n].limit < 0
Repeats(n)   == Unlimited(n) \/ counter[n] < kind[n].limit

TicksChild(f) ==
    /\ ~f.ticked /\ f.at # End
    /\ Is(f.node, "Parallel") => ~Terminated(f.at)
    /\ Is(f.node, "Repeat") => Repeats(f.node)

SequenceResult(f) ==
    IF f.at = End THEN "Success"
    ELSE IF status[f.at] # "Success" THEN status[f.at] ELSE "none"

SelectorResult(f) ==
    IF f.at = End THEN "Failure"
    ELSE IF status[f.at] # "Failure" THEN status[f.at] ELSE "none"

ParallelResult(f) ==
    LET k == kind[f.node]
        n == Len(children[f.node])
    IN  IF f.at = End
        THEN IF k.failure = "RequireAll" /\ f.bad = n THEN "Failure"
             ELSE IF k.success = "RequireAll" /\ f.good = n THEN "Success" ELSE "Running"
        ELSE IF k.success = "RequireOne" /\ status[f.at] = "Success" THEN "Success"
             ELSE IF k.failure = "RequireOne" /\ status[f.at] = "Failure" THEN "Failure" ELSE "none"

InverterResult(f) ==
    CASE status[f.at] = "Failure" -> "Success"
      [] status[f.at] = "Success" -> "Failure"
      [] OTHER -> "Running"

RepeatResult(f) ==
    IF ~f.ticked THEN "Success"
    ELSE IF status[f.at] \in {"Running", "Failure"} THEN status[f.at] ELSE "none"

Result(f) ==
    CASE Is(f.node, "Sequence") -> SequenceResult(f)
      [] Is(f.node, "Selector") \/ Is(f.node, "ActiveSelector") -> SelectorResult(f)
      [] Is(f.node, "Parallel") -> ParallelResult(f)
      [] Is(f.node, "Inverter") -> InverterResult(f)
      [] Is(f.node, "Repeat")   -> RepeatResult(f)

Descend ==
    /\ ~AtRest /\ ~Is(Head(calls).node, "Action")
    /\ TicksChild(Head(calls))
    /\ LET f == Head(calls)
       IN  Call(f.at, <<[f EXCEPT !.ticked = TRUE]>> \o Tail(calls))
    /\ UNCHANGED <<kind, children, status, building, edits>>

Counts(f, s) == IF Is(f.node, "Parallel") /\ status[f.at] = s THEN 1 ELSE 0

(* Without a limit the counter is not looked at and is left as it is.      *)
SameRound(n, c) == c
Round(n, c) == IF Unlimited(n) THEN c ELSE c + 1

(* The loop goes on: the next child, or for Repeat the next round.         *)
Advance ==
    /\ ~AtRest /\ ~Is(Head(calls).node, "Action")
    /\ LET f == Head(calls)
           n == f.node
           c == IF Is(n, "Repeat") THEN f.at ELSE Next1(n, f.at)
       IN  /\ ~TicksChild(f) /\ Result(f) = "none"
           /\ calls' = <<[f EXCEPT !.at = c, !.ticked = FALSE,
                             !.good = @ + Counts(f, "Success"),
                             !.bad = @ + Counts(f, "Failure")]>>
                       \o Tail(calls)
           /\ current' = IF Is(n, "Sequence") THEN [current EXCEPT ![n] = c] ELSE current
           /\ counter' = IF Is(n, "Repeat") THEN [counter EXCEPT ![n] = Round(n, @)] ELSE counter
    /\ UNCHANGED <<kind, children, status, building, edits, touched>>

(* The nodes that onTerminate aborts: the running children of a Parallel,  *)
(* and theirs when they are Parallels themselves; the smallest such set.   *)
AbortsNone(n) == {}
AbortedBy(m) ==
    {c \in Offspring(m) : m \in Added /\ Is(m, "Parallel") /\ status[c] = "Running"}

Aborts(n) ==
    {c \in Nodes : \A S \in SUBSET Nodes :
                      (\A m \in {n} \cup S : AbortedBy(m) \subseteq S) => c \in S}

(* ActiveSelector aborts the child it was at when another one is current.  *)
SwitchedFrom(f) ==
    IF Is(f.node, "ActiveSelector") /\ f.prev # End /\ current[f.node] # f.prev
    THEN {f.prev} \cup Aborts(f.prev) ELSE {}

(* The rest of tick: m_status, and onTerminate unless it is running.       *)
Return(f, s) ==
    LET out == SwitchedFrom(f) \cup (IF s = "Running" THEN {} ELSE Aborts(f.node))
    IN  /\ status' = [n \in Nodes |-> IF n = f.node THEN s
                                      ELSE IF n \in out THEN "Aborted" ELSE status[n]]
        /\ calls' = Tail(calls)
        /\ UNCHANGED <<kind, children, current, counter, building, edits, touched>>

Leave ==
    /\ ~AtRest /\ ~Is(Head(calls).node, "Action")
    /\ ~TicksChild(Head(calls)) /\ Result(Head(calls)) # "none"
    /\ Return(Head(calls), Result(Head(calls)))

(* An Action is the user's code.                                           *)
Act(s) ==
    /\ ~AtRest /\ Is(Head(calls).node, "Action")
    /\ Return(Head(calls), s)

-----------------------------------------------------------------------------
TickStep == Descend \/ Advance \/ Leave \/ \E s \in {"Success", "Failure", "Running"} : Act(s)

Next ==
    \/ \E k \in Kinds : AddBehavior(k)
    \/ Back \/ EndBuild
    \/ \E p \in Added :
         \/ AddCondition(p) \/ AddAction(p) \/ Reset(p)
         \/ \E c \in Nodes : RemoveChild(p, c)
    \/ TreeTick
    \/ Descend \/ Advance \/ Leave
    \/ \E s \in {"Success", "Failure", "Running"} : Act(s)

Spec == Init /\ [][Next]_vars

(* Fairness: the thread that called tick runs, and Actions return.  Nobody *)
(* need build or tick a tree.                                              *)
FairSpec == Spec /\ WF_vars(TickStep)

-----------------------------------------------------------------------------
(* Type invariant.                                                         *)
TypeOK ==
    /\ kind \in Seq(Kinds) /\ Len(kind) <= MaxNodes
    /\ children \in [Nodes -> Seq(Added)]
    /\ status \in [Nodes -> Statuses]
    /\ current \in [Nodes -> Added \cup {End}]
    /\ counter \in [Nodes -> Nat]
    /\ building \in Seq(Added) /\ calls \in Seq(Frame)
    /\ edits \in 0..MaxEdits /\ touched \in SUBSET Added

(* What the status of a node says of its children.                         *)
All(n, s)  == \A c \in Offspring(n) : status[c] = s
Some(n, s) == \E c \in Offspring(n) : status[c] = s

StopsAt(n, c, s, before) ==
    /\ c # End /\ status[c] = s
    /\ \E i \in DOMAIN children[n] :
          children[n][i] = c /\ \A j \in 1..(i - 1) : status[children[n][j]] = before

SequenceAgrees(n) ==
    IF status[n] = "Success" THEN All(n, "Success")
    ELSE StopsAt(n, current[n], status[n], "Success")

SelectorAgrees(n) ==
    IF status[n] = "Failure" THEN All(n, "Failure")
    ELSE \E c \in Offspring(n) : StopsAt(n, c, status[n], "Failure")

ParallelAgrees(n) ==
    LET k == kind[n]
    IN  /\ status[n] = "Success" =>
              /\ ~Some(n, "Running")
              /\ IF k.success = "RequireOne" THEN Some(n, "Success") ELSE All(n, "Success")
        /\ status[n] = "Failure" =>
              /\ ~Some(n, "Running")
              /\ IF k.failure = "RequireOne" THEN Some(n, "Failure") ELSE All(n, "Failure")
        /\ status[n] = "Running" =>
              /\ Some(n, "Success") => k.success = "RequireAll"
              /\ Some(n, "Failure") => k.failure = "RequireAll"
              /\ \/ Some(n, "Running")
                 \/ Some(n, "Success") /\ Some(n, "Failure")
                 \/ Offspring(n) = {} /\ k.success = "RequireOne" /\ k.failure = "RequireOne"

InverterAgrees(n) ==
    /\ status[n] = "Success" => All(n, "Failure")
    /\ status[n] = "Failure" => All(n, "Success")
    /\ status[n] = "Running" => All(n, "Running")

RepeatAgrees(n) ==
    IF status[n] = "Success" THEN ~Unlimited(n) /\ (All(n, "Success") \/ kind[n].limit = 0)
    ELSE All(n, status[n])

ResultAgrees(n) ==
    /\ Is(n, "Sequence") => SequenceAgrees(n)
    /\ Is(n, "Selector") \/ Is(n, "ActiveSelector") => SelectorAgrees(n)
    /\ Is(n, "Parallel") => ParallelAgrees(n)
    /\ Is(n, "Inverter") => InverterAgrees(n)
    /\ Is(n, "Repeat")   => RepeatAgrees(n)

(* After its tick, and until it is called again, the result of a node is   *)
(* the one its children's results call for: also for the children that     *)
(* answered in an earlier tick, and unless the tree was changed after the  *)
(* node started.  A Parallel that is done has no child running.  Only a    *)
(* Parallel runs without a running child, and then it goes on for ever:    *)
(* both policies ask for all and got different results, or both ask for    *)
(* one and there is no child.                                              *)
StatusAgrees ==
    \A n \in Added :
        (/\ n \notin touched /\ \A i \in DOMAIN calls : calls[i].node # n
         /\ status[n] \in {"Success", "Failure", "Running"}) => ResultAgrees(n)

(* tick returns, whatever the Actions answer, unless a Repeat without      *)
(* limit goes on.                                                          *)
TickReturns ==
    ~AtRest ~> (AtRest \/ \E i \in DOMAIN calls :
                             Is(calls[i].node, "Repeat") /\ Unlimited(calls[i].node))

(* "onInitialize is executed once, when the node is entered": a node whose *)
(* parent starts is entered anew and not in the middle of an earlier run.  *)
EntersInitialized ==
    \A i \in 1..(Len(calls) - 1) : calls[i + 1].fresh => calls[i].fresh
=============================================================================
