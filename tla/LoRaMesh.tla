------------------------------ MODULE LoRaMesh ------------------------------
(***************************************************************************)
(* The whole network: the gateway, the three field nodes, the phone        *)
(* application behind the cloud, and the clock.                            *)
(***************************************************************************)
EXTENDS Gateway, FieldNodes

CONSTANTS
    AnswerTicks,  \* how many ticks an exchange with the nodes may straddle
    AppModes,     \* the values the application may store in "/MODE/"
    AppLeds,      \* the values the application may store in "led1"
    Reports       \* the marks a device other than this node 1 may send: "^" 1, "~" 0

ASSUME AnswerAssumption == AnswerTicks \in Nat
ASSUME AppAssumption == AppModes \subseteq BOOLEAN /\ AppLeds \subseteq BOOLEAN
ASSUME ReportsAssumption == Reports \subseteq {0, 1}

VARIABLE underway  \* ticks since every node's radio was last without a frame

vars == <<gatewayVars, fieldVars, airVars, cloud, underway>>

TypeOK ==
    /\ AirTypeOK
    /\ CloudTypeOK
    /\ GatewayTypeOK
    /\ FieldTypeOK
    /\ underway \in 0..AnswerTicks

Init ==
    /\ AirInit
    /\ CloudInit
    /\ GatewayInit
    /\ FieldInit
    /\ underway = 0

-----------------------------------------------------------------------------
(* The exchange ends with the step that leaves no frame with a node. *)
Watch == underway' = IF NodesBusy' THEN underway ELSE 0

GatewayPart(action) == action /\ Watch /\ UNCHANGED fieldVars
FieldPart(action)   == action /\ Watch /\ UNCHANGED <<gatewayVars, cloud>>

GatewayStep == GatewayPart(GatewayNext)
FieldStep   == FieldPart(FieldNext)

(* The handlers answer at once and a frame takes about a second, so an     *)
(* exchange, its relayed call included, straddles few ticks.               *)
Tick ==
    /\ NodesBusy => underway < AnswerTicks
    /\ GatewayAges
    /\ underway' = IF NodesBusy THEN underway + 1 ELSE 0
    /\ UNCHANGED <<pc, mode, turnVars, led, datacurrent, fieldVars, airVars, cloud>>

AppStep ==
    /\ \/ \E b \in AppModes : AppPutsMode(b)
       \/ \E b \in AppLeds : AppPutsLed(b)
    /\ UNCHANGED <<gatewayVars, fieldVars, airVars, underway>>

(* The gateway understands two marks that no firmware of this repository   *)
(* sends; a device that does is in the place of node 1.                    *)
ForeignReport ==
    /\ \E v \in Reports, T \in SUBSET {Gateway} :
           /\ T \subseteq Audience(1, Report(v))
           /\ ether' = Landed(ether, T, Report(v))
    /\ UNCHANGED <<radio, gatewayVars, fieldVars, cloud, underway>>

Next == GatewayStep \/ FieldStep \/ Tick \/ AppStep \/ ForeignReport

Spec == Init /\ [][Next]_vars

(* loop() runs again and again, an interrupt is served, time passes; and   *)
(* the timers of the mode (3 s) and of the remote switch (1 s) are due in  *)
(* some iteration, over and over, with app.ready().                        *)
Fairness ==
    /\ WF_vars(GatewayStep)
    /\ WF_vars(FieldPart(Handlers))
    /\ WF_vars(FieldPart(RelayLoop))
    /\ WF_vars(Tick)
    /\ SF_vars(GatewayPart(RefreshMode))
    /\ SF_vars(GatewayPart(RemoteChange))

FairSpec == Spec /\ Fairness
=============================================================================
