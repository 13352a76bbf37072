--------------------------- MODULE MeshProperties ---------------------------
(***************************************************************************)
(* What the network as a whole promises: the abstraction its polling       *)
(* implements, and what must eventually happen.                            *)
(***************************************************************************)
EXTENDS LoRaMesh

(* The gateway takes turns as RoundRobin says, under every interleaving    *)
(* with its timers, the nodes' answers, mode changes and restarts: no turn *)
(* is skipped, settled twice, or settled with another node's answer        *)
(* (main.cpp:63-90, lora_functions.h:160-173).                             *)
Turns == INSTANCE RoundRobin
    WITH Budget <- MaxRetry, turn <- expectedNode, asked <- currentRetry,
         status <- cloud.stt
TakesTurns == Turns!Spec

(* LEDn is lit to show that node n was given up (main.cpp:73-84); while    *)
(* the polling alone drives the pins and the cloud stores what it is sent, *)
(* the phone shows it too (main.cpp:67): no lit LED contradicts the cloud. *)
LedMatchesStatus == \A n \in Node : led[n] = 0 => cloud.stt[n] = 0

-----------------------------------------------------------------------------
(* When the cloud keeps asking for automatic mode, every node is polled    *)
(* again and again, whatever frames are lost and whatever nodes are silent.*)
EveryNodePolled ==
    <>[](cloud.mode = "true") =>
        \A n \in Node : []<><<Polling /\ expectedNode = n>>_vars

(* ... and a round, once begun, comes to its end (main.cpp:49, 88).        *)
RoundEnds == <>[](cloud.mode = "true") => (flag_gui1s ~> ~flag_gui1s)

(* The gateway settles in the mode the application has stored for good.    *)
ModeFollowsCloud ==
    \A b \in BOOLEAN : <>[](cloud.mode = Literal(b)) => <>[](mode = b)

(* The button stores the mode as a string (FIREBASE_MT.h:64), which reads  *)
(* as false: until the application stores a boolean, the gateway keeps     *)
(* falling back to manual mode, however often the button is pressed.       *)
ButtonFallsBack == <>[](cloud.mode = "quoted") => []<>(~mode)

(* In manual mode the gateway acts on the remote switch: a value that stays*)
(* in the cloud, written by the application or after a report of the       *)
(* device, becomes the one last sent (main.cpp:98-113).                    *)
RemoteFollowsCloud ==
    \A b \in BOOLEAN :
        <>[](~mode /\ cloud.led1 = Literal(b)) => <>[](datacurrent = b)
=============================================================================
