---------------------------- MODULE ReliableStream ----------------------------
(***************************************************************************)
(* What the reliable stream of the x-protocol promises to the code that    *)
(* uses it (CL_SendReliableClientCommand, CL_ReceiveReliableMessages and   *)
(* the server's counterparts): in each direction a sequence of fragments,  *)
(* handed over in the order in which they were submitted, each once, and   *)
(* counted as confirmed at the sender only after they were handed over.    *)
(* ReliableTransport implements it.                                        *)
(***************************************************************************)
EXTENDS Integers, Sequences

CONSTANTS
    End,        \* the two ends
    Other,      \* [End -> End], the other end
    MaxSubmit   \* most fragments submitted at once

VARIABLES
    submitted,  \* fragments each end has submitted so far
    delivered,  \* the fragments handed over at each end
    confirmed   \* fragments of each end it knows to be handed over

streamVars == <<submitted, delivered, confirmed>>

Init ==
    /\ submitted = [p \in End |-> 0]
    /\ delivered = [p \in End |-> <<>>]
    /\ confirmed = [p \in End |-> 0]

Submit(p) ==
    /\ \E k \in 1 .. MaxSubmit : submitted' = [submitted EXCEPT ![p] = @ + k]
    /\ UNCHANGED <<delivered, confirmed>>

HandOver(p) ==
    /\ \E n \in 1 .. submitted[Other[p]] - Len(delivered[p]) :
          delivered' = [delivered EXCEPT ![p] =
                            @ \o [i \in 1 .. n |-> Len(delivered[p]) + i - 1]]
    /\ UNCHANGED <<submitted, confirmed>>

Confirm(p) ==
    /\ \E c \in confirmed[p] + 1 .. Len(delivered[Other[p]]) :
          confirmed' = [confirmed EXCEPT ![p] = c]
    /\ UNCHANGED <<submitted, delivered>>

Next == \E p \in End : Submit(p) \/ HandOver(p) \/ Confirm(p)

Spec == Init /\ [][Next]_streamVars
===============================================================================
