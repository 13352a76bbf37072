----------------------------- MODULE RoundRobin -----------------------------
(***************************************************************************)
(* What the gateway's polling promises, without frames, timers or rounds:  *)
(* the nodes take turns in a fixed order, and a turn ends either with the  *)
(* node heard, after it was asked at least once in that turn, or with the  *)
(* node missed, after it was asked as often as the budget says.  Only the  *)
(* node whose turn it is has its status changed, and only then.            *)
(***************************************************************************)
EXTENDS LoRaFrames

CONSTANT Budget  \* how often a node is asked before it counts as missed

VARIABLES
    turn,   \* the node whose turn it is
    asked,  \* how often it was asked in this turn
    status  \* [Node -> {0, 1}]: the last verdict stored for each node

rvars == <<turn, asked, status>>

Init ==
    /\ turn = 1
    /\ asked = 0
    /\ status = [n \in Node |-> 1]

(* One request beyond the budget is tolerated. *)
Ask ==
    /\ asked <= Budget
    /\ asked' = asked + 1
    /\ UNCHANGED <<turn, status>>

(* The verdict may fail to be stored, but the turn is over. *)
Settle(verdict) ==
    /\ status' \in {status, [status EXCEPT ![turn] = verdict]}
    /\ turn' = NextNode(turn)
    /\ asked' = 0

Hear == asked > 0 /\ Settle(1)

Miss == asked >= Budget /\ Settle(0)

Restart ==
    /\ turn' = 1
    /\ asked' = 0
    /\ UNCHANGED status

Next == Ask \/ Hear \/ Miss \/ Restart

Spec == Init /\ [][Next]_rvars
=============================================================================
