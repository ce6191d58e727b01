------------------------------ MODULE Channel ------------------------------
(***************************************************************************)
(* What one direction of a connection promises to those who use Session:   *)
(* the messages that send accepts arrive in order and none is skipped,     *)
(* duplicated or mixed with another, until the connection is cut.  A       *)
(* message whose length does not fit the length field arrives shortened.   *)
(***************************************************************************)
EXTENDS Integers, Sequences

CONSTANTS Messages,   \* the messages that may be sent, each once
          Length,     \* Length[m]: their lengths
          SizeLimit   \* lengths from here on do not fit the length field

VARIABLES accepted,   \* the messages accepted, in order
          delivered   \* the messages handed to the receiver, with the size
                      \* they have there

channelVars == <<accepted, delivered>>

Init == accepted = <<>> /\ delivered = <<>>

Accept(m) ==
    /\ \A i \in DOMAIN accepted : accepted[i] # m
    /\ accepted' = Append(accepted, m)
    /\ UNCHANGED delivered

Deliver ==
    /\ Len(delivered) < Len(accepted)
    /\ LET m == accepted[Len(delivered) + 1]
       IN  delivered' = Append(delivered, [msg |-> m, size |-> Length[m] % SizeLimit])
    /\ UNCHANGED accepted

Next == (\E m \in Messages : Accept(m)) \/ Deliver

Spec == Init /\ [][Next]_channelVars
=============================================================================
