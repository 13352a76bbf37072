------------------------------ MODULE Gateway ------------------------------
(***************************************************************************)
(* The gateway's loop(): buttons, receive, poll or follow the remote       *)
(* switch, refresh the mode, once around per iteration.                    *)
(*                                                                         *)
(* pc names the part of the iteration that runs next; another station or   *)
(* the clock may act between any two parts.  The two timers the polling    *)
(* depends on are ages that saturate once they are due, which is all that  *)
(* "millis() - last >= interval" can tell; the one and three second timers *)
(* of the remote switch and of the mode are due or not due in any          *)
(* iteration, as is app.ready().                                           *)
(***************************************************************************)
EXTENDS Air, Cloud

CONSTANTS
    MaxRetry,       \* maxRetryCount
    RetryInterval,  \* retryInterval, in ticks
    RoundInterval,  \* interval_gui1s, in ticks
    Presses         \* what a user may do: subset of {"switch", "mode", "clear"}

ASSUME MaxRetryAssumption == MaxRetry \in Nat \ {0}
ASSUME IntervalAssumption ==
    /\ RetryInterval \in Nat \ {0}
    /\ RoundInterval \in Nat
    /\ RetryInterval <= RoundInterval
ASSUME PressesAssumption == Presses \subseteq {"switch", "mode", "clear"}

VARIABLES
    pc,               \* the part of loop() that runs next
    mode,             \* TRUE: poll the nodes, FALSE: follow the remote switch
    flag_gui1s,       \* a round is in progress
    expectedNode,     \* the node whose turn it is
    currentRetry,     \* polls sent in this turn
    node_count_send,  \* turns settled and error frames since the round began
    sinceRound,       \* age of lastSendTime_gui1s
    sinceResend,      \* age of lastSendTime
    led,              \* [Node -> {0, 1}]: the pins LED1, LED2, LED3
    datacurrent       \* the remote switch's value last acted on

gatewayVars == <<pc, mode, flag_gui1s, expectedNode, currentRetry,
                 node_count_send, sinceRound, sinceResend, led, datacurrent>>
turnVars  == <<flag_gui1s, expectedNode, currentRetry, node_count_send>>
timerVars == <<sinceRound, sinceResend>>

GatewayTypeOK ==
    /\ pc \in {"button3", "button0", "receive", "round", "retry", "remote", "refresh"}
    /\ mode \in BOOLEAN
    /\ flag_gui1s \in BOOLEAN
    /\ expectedNode \in Node
    /\ currentRetry \in Nat
    /\ node_count_send \in Nat
    /\ sinceRound \in 0..RoundInterval
    /\ sinceResend \in 0..RetryInterval
    /\ led \in [Node -> {0, 1}]
    /\ datacurrent \in BOOLEAN

AtMost(a, b) == IF a <= b THEN a ELSE b

(* Global initialisers and init_setup(), after any time spent booting: both*)
(* time stamps start at 0, so their ages are the time since reset.         *)
GatewayInit ==
    /\ pc = "button3"
    /\ mode = TRUE
    /\ flag_gui1s = FALSE
    /\ expectedNode = 1
    /\ currentRetry = 0
    /\ node_count_send = 0
    /\ sinceRound \in 0..RoundInterval
    /\ sinceResend = AtMost(sinceRound, RetryInterval)
    /\ led = [n \in Node |-> 1]
    /\ datacurrent = FALSE

-----------------------------------------------------------------------------
(* usebutton() and button0.tick() *)

Button3Idle ==
    /\ pc = "button3"
    /\ pc' = "button0"
    /\ UNCHANGED <<mode, turnVars, timerVars, led, datacurrent, airVars, cloud>>

(* A click of button 3 is sendon1, a long press sendoff1. *)
Button3Press(v) ==
    /\ pc = "button3"
    /\ "switch" \in Presses
    /\ GatewaySends(Switch(v))
    /\ pc' = "button0"
    /\ UNCHANGED <<mode, turnVars, timerVars, led, datacurrent, cloud>>

Button0Idle ==
    /\ pc = "button0"
    /\ pc' = "receive"
    /\ UNCHANGED <<mode, turnVars, timerVars, led, datacurrent, airVars, cloud>>

sw_mode ==
    /\ pc = "button0"
    /\ "mode" \in Presses
    /\ mode' = ~mode
    /\ PutModeString
    /\ pc' = "receive"
    /\ UNCHANGED <<turnVars, timerVars, led, datacurrent, airVars>>

(* A long press of button 0 forgets the WiFi network and restarts.  The    *)
(* restart lasts until somebody has entered a network again, longer than   *)
(* any exchange the nodes were in.                                         *)
clear_wifi ==
    /\ pc = "button0"
    /\ "clear" \in Presses
    /\ ~NodesBusy
    /\ pc' = "button3"
    /\ mode' = TRUE
    /\ flag_gui1s' = FALSE
    /\ expectedNode' = 1
    /\ currentRetry' = 0
    /\ node_count_send' = 0
    /\ sinceRound' \in 0..RoundInterval
    /\ sinceResend' = AtMost(sinceRound', RetryInterval)
    /\ led' = [n \in Node |-> 1]
    /\ datacurrent' = FALSE
    /\ ether' = [ether EXCEPT ![Gateway] = NoFrame]
    /\ Idles(Gateway)
    /\ UNCHANGED cloud

-----------------------------------------------------------------------------
(* LoRa.parsePacket(), which opens a receiver it finds idle, and           *)
(* getLoRaData()                                                           *)

parsePacketNone ==
    /\ pc = "receive"
    /\ ether[Gateway] = NoFrame
    /\ Opens(Gateway)
    /\ pc' = "round"
    /\ UNCHANGED <<mode, turnVars, timerVars, led, datacurrent, ether, cloud>>

(* A packet is there: parsePacket leaves the transceiver in standby. *)
parsePacket ==
    /\ pc = "receive"
    /\ ether[Gateway] # NoFrame
    /\ ether' = [ether EXCEPT ![Gateway] = NoFrame]
    /\ Idles(Gateway)
    /\ pc' = "round"

ReceiveError ==
    /\ parsePacket
    /\ ether[Gateway].kind = "error"
    /\ node_count_send' = node_count_send + 1
    /\ UNCHANGED <<mode, flag_gui1s, expectedNode, currentRetry, timerVars, led,
                   datacurrent, cloud>>

ReceiveReport ==
    /\ parsePacket
    /\ ether[Gateway].kind = "report"
    /\ led' = [led EXCEPT ![1] = 1 - ether[Gateway].arg]
    /\ PutDevice(ether[Gateway].arg = 1)
    /\ UNCHANGED <<mode, turnVars, timerVars, datacurrent>>

ExpectedAny(f) == f.kind = "reading"  \* slip: the number not compared
Expected(f) == f.kind \notin {"error", "report"} /\ ParsedId(f) = expectedNode

(* The turn of the expected node ends with its reading. *)
ReceiveReading ==
    /\ parsePacket
    /\ Expected(ether[Gateway])
    /\ PutStatus(expectedNode, 1)
    /\ led' = [led EXCEPT ![expectedNode] = 1]
    /\ expectedNode' = NextNode(expectedNode)
    /\ currentRetry' = 0
    /\ node_count_send' = node_count_send + 1
    /\ UNCHANGED <<mode, flag_gui1s, timerVars, datacurrent>>

ReceiveOther ==
    /\ parsePacket
    /\ ether[Gateway].kind \notin {"error", "report"}
    /\ ~Expected(ether[Gateway])
    /\ UNCHANGED <<mode, turnVars, timerVars, led, datacurrent, cloud>>

-----------------------------------------------------------------------------
(* if (mode): start a round, then poll or give up *)

(* "millis() - last >= interval" for the round and for the retry timer. *)
RoundDue == sinceRound = RoundInterval
ResendDueEarly == sinceResend >= RetryInterval - 1  \* slip: off by one
ResendDue == sinceResend = RetryInterval

TriesLeftOneMore == currentRetry <= MaxRetry  \* slip: <= for <
TriesLeft == currentRetry < MaxRetry

(* The read of the remote switch that may follow takes its time. *)
ManualMode ==
    /\ pc = "round"
    /\ ~mode
    /\ pc' = "remote"
    /\ Waits(Gateway)
    /\ UNCHANGED <<mode, turnVars, timerVars, led, datacurrent, ether, cloud>>

RoundNotDue ==
    /\ pc = "round"
    /\ mode
    /\ ~RoundDue
    /\ pc' = "retry"
    /\ UNCHANGED <<mode, turnVars, timerVars, led, datacurrent, airVars, cloud>>

(* lastSendTime is not touched. *)
StartRound ==
    /\ pc = "round"
    /\ mode
    /\ RoundDue
    /\ flag_gui1s' = TRUE
    /\ led' = [n \in Node |-> 1]
    /\ sinceRound' = 0
    /\ GatewaySends(Poll(expectedNode))
    /\ currentRetry' = currentRetry + 1
    /\ pc' = "retry"
    /\ UNCHANGED <<mode, expectedNode, node_count_send, sinceResend, datacurrent, cloud>>

RoundIsFullLate == node_count_send > 3  \* slip: off by one
RoundIsFull == node_count_send > 2

(* The first statement of the retry block; the rest runs all the same. *)
FlagKept == TRUE  \* slip: the flag not lowered
FlagAfterReset == ~RoundIsFull
CountAfterReset == IF RoundIsFull THEN 0 ELSE node_count_send

NoRound ==
    /\ pc = "retry"
    /\ ~flag_gui1s
    /\ pc' = "refresh"
    /\ UNCHANGED <<mode, turnVars, timerVars, led, datacurrent, airVars, cloud>>

RetryBlock ==
    /\ pc = "retry"
    /\ flag_gui1s
    /\ pc' = "refresh"

Waiting ==
    /\ RetryBlock
    /\ TriesLeft
    /\ ~ResendDue
    /\ flag_gui1s' = FlagAfterReset
    /\ node_count_send' = CountAfterReset
    /\ UNCHANGED <<mode, expectedNode, currentRetry, timerVars, led, datacurrent,
                   airVars, cloud>>

Resend ==
    /\ RetryBlock
    /\ TriesLeft
    /\ ResendDue
    /\ flag_gui1s' = FlagAfterReset
    /\ node_count_send' = CountAfterReset
    /\ sinceResend' = 0
    /\ GatewaySends(Poll(expectedNode))
    /\ currentRetry' = currentRetry + 1
    /\ UNCHANGED <<mode, expectedNode, sinceRound, led, datacurrent, cloud>>

(* The turn of the expected node ends without a reading. *)
GiveUp ==
    /\ RetryBlock
    /\ currentRetry >= MaxRetry
    /\ PutStatus(expectedNode, 0)
    /\ led' = [led EXCEPT ![expectedNode] = 0]
    /\ currentRetry' = 0
    /\ expectedNode' = NextNode(expectedNode)
    /\ flag_gui1s' = FALSE
    /\ node_count_send' = CountAfterReset + 1
    /\ UNCHANGED <<mode, timerVars, datacurrent, airVars>>

-----------------------------------------------------------------------------
(* else: follow the remote switch, then refresh the mode *)

RemoteSkip ==
    /\ pc = "remote"
    /\ pc' = "refresh"
    /\ UNCHANGED <<mode, turnVars, timerVars, led, datacurrent, airVars, cloud>>

(* The switch command is sent once, and the new value counts as acted on   *)
(* whether or not anybody heard it.                                        *)
RemoteChange ==
    /\ pc = "remote"
    /\ \E getdata \in BoolRead(cloud.led1) :
           /\ getdata # datacurrent
           /\ led' = [led EXCEPT ![1] = IF getdata THEN 0 ELSE 1]
           /\ GatewaySends(Switch(IF getdata THEN 1 ELSE 0))
           /\ datacurrent' = getdata
    /\ pc' = "refresh"
    /\ UNCHANGED <<mode, turnVars, timerVars, cloud>>

(* Either way the iteration ends with delay(10). *)
RefreshSkip ==
    /\ pc = "refresh"
    /\ pc' = "button3"
    /\ Waits(Gateway)
    /\ UNCHANGED <<mode, turnVars, timerVars, led, datacurrent, ether, cloud>>

RefreshMode ==
    /\ pc = "refresh"
    /\ mode' \in BoolRead(cloud.mode)
    /\ pc' = "button3"
    /\ Waits(Gateway)
    /\ UNCHANGED <<turnVars, timerVars, led, datacurrent, ether, cloud>>

-----------------------------------------------------------------------------
(* The steps that poll a node, the steps that settle its turn, and others. *)
Polling  == StartRound \/ Resend
Settling == ReceiveReading \/ GiveUp
Passing ==
    \/ Button3Idle \/ Button0Idle \/ sw_mode
    \/ \E v \in {0, 1} : Button3Press(v)
    \/ parsePacketNone \/ ReceiveError \/ ReceiveReport \/ ReceiveOther
    \/ ManualMode \/ RoundNotDue \/ NoRound \/ Waiting
    \/ RemoteSkip \/ RemoteChange \/ RefreshSkip \/ RefreshMode

GatewayNext == Polling \/ Settling \/ Passing \/ clear_wifi

(* The ages after one more tick. *)
GatewayAges ==
    /\ sinceRound' = AtMost(sinceRound + 1, RoundInterval)
    /\ sinceResend' = AtMost(sinceResend + 1, RetryInterval)
=============================================================================
