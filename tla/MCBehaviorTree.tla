-------------------------- MODULE MCBehaviorTree --------------------------
(* Instances of BehaviorTree for TLC.                                      *)
EXTENDS BehaviorTree

Leaf == [type |-> "Action"]
Par(s, f) == [type |-> "Parallel", success |-> s, failure |-> f]
Rep(k)    == [type |-> "Repeat", limit |-> k]

SmallKinds == {Leaf, [type |-> "Sequence"], [type |-> "Selector"]}
AllKinds ==
    SmallKinds \cup {[type |-> "ActiveSelector"], [type |-> "Inverter"], Rep(0), Rep(2), Rep(-1),
        Par("RequireOne", "RequireOne"), Par("RequireOne", "RequireAll"), Par("RequireAll", "RequireAll")}
===========================================================================
