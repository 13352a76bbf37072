---------------------------- MODULE BoundedFifo ----------------------------
(***************************************************************************)
(* What the ring buffer of the serial library promises its two sides: a    *)
(* queue of bounded length, each operation at one instant.                 *)
(***************************************************************************)
EXTENDS Naturals, Sequences

CONSTANTS Value, Capacity

VARIABLES
    queue,  \* the values put in and not taken yet
    handed  \* what the last taking handed out

Init == queue = <<>> /\ handed = <<>>

Put(values) ==
    /\ Len(queue) + Len(values) <= Capacity
    /\ queue' = queue \o values
    /\ UNCHANGED handed

Rest(n) == [i \in 1..Len(queue) - n |-> queue[i + n]]

Take(n) ==
    /\ handed' = [i \in 1..n |-> queue[i]]
    /\ queue' = Rest(n)

Discard(n) == queue' = Rest(n) /\ UNCHANGED handed

Next ==
    \/ \E n \in 1..Capacity : \E values \in [1..n -> Value] : Put(values)
    \/ \E n \in 0..Len(queue) : Take(n) \/ Discard(n)

Spec == Init /\ [][Next]_<<queue, handed>>
=============================================================================
