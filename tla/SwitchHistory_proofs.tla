------------------------ MODULE SwitchHistory_proofs ------------------------
(***************************************************************************)
(* Node 1's relay obeys its commands, for any radio topology, losses,      *)
(* number of feedback marks, and behaviour of the gateway and the users.   *)
(***************************************************************************)
EXTENDS SwitchHistory, LoRaMesh_proofs

LEMMA SwitchOnlyWatches == [SNext]_svars => [Next]_vars
  BY DEF SNext, SAccept, Quiet, FieldPart, FieldStep, FieldNext, Handlers, Next, svars

(* What is shown with the history is shown of the network.                 *)
THEOREM SwitchHistoryIsOfTheNetwork == SSpec => Spec
  <1>1. SInit => Init
    BY DEF SInit
  <1> QED BY <1>1, SwitchOnlyWatches, PTL DEF SSpec, Spec

(* Nothing lands in a radio in standby: the frame it holds stays.          *)
LEMMA StandbyStaysEmpty ==
    ASSUME NEW s, NEW f, NEW T \in Heard(s, f), NEW t \in Station, NEW e,
           radio[t] = "standby"
    PROVE  Landed(e, T, f)[t] = e[t]
  <1>1. t \notin T
    BY DEF Heard, Audience, Tuned
  <1> QED BY <1>1 DEF Landed

(* The gateway's radio changes its mode alone. *)
LEMMA ModesApart ==
    ASSUME AirTypeOK, Idles(Gateway) \/ Opens(Gateway) \/ Waits(Gateway)
    PROVE  radio'[1] = radio[1]
  BY DEF AirTypeOK, Idles, Opens, Waits, Station, Node, Gateway

(* What the gateway's steps leave of node 1's radio in standby. *)
LEMMA GatewayLeavesStandby ==
    ASSUME AirTypeOK, GatewayNext, radio[1] = "standby"
    PROVE  radio'[1] = "standby" /\ ether'[1] = ether[1]
  <1>1. 1 \in Station /\ 1 # Gateway /\ Gateway \in Station
    BY DEF Station, Node, Gateway
  <1>2. ASSUME NEW f, GatewaySends(f)  PROVE radio'[1] = "standby" /\ ether'[1] = ether[1]
    <2>1. PICK g \in Overlaid(ether[Gateway], f), T \in Heard(Gateway, f) :
               ether' = Landed([ether EXCEPT ![Gateway] = g], T, f)
      BY <1>2 DEF GatewaySends
    <2>2. \A e : Landed(e, T, f)[1] = e[1]
      BY <1>1, StandbyStaysEmpty
    <2>3. ether'[1] = ether[1]
      BY <1>1, <2>1, <2>2 DEF AirTypeOK
    <2> QED BY <1>2, <2>3, ModesApart DEF GatewaySends
  <1>3. CASE Polling
    BY <1>2, <1>3 DEF Polling, StartRound, Resend
  <1>4. CASE Settling
    BY <1>1, <1>4, ModesApart
    DEF Settling, ReceiveReading, GiveUp, parsePacket, airVars, AirTypeOK
  <1>5. CASE clear_wifi
    BY <1>1, <1>5, ModesApart DEF clear_wifi, AirTypeOK
  <1>6. CASE Passing
    <2>1. CASE RemoteChange \/ \E v \in {0, 1} : Button3Press(v)
      BY <1>2, <2>1 DEF RemoteChange, Button3Press
    <2>2. CASE parsePacketNone \/ ManualMode \/ RefreshSkip \/ RefreshMode
      BY <2>2, ModesApart DEF parsePacketNone, ManualMode, RefreshSkip, RefreshMode
    <2>3. CASE ReceiveError \/ ReceiveReport \/ ReceiveOther
      BY <1>1, <2>3, ModesApart DEF ReceiveError, ReceiveReport, ReceiveOther, parsePacket, AirTypeOK
    <2>4. CASE UNCHANGED airVars
      BY <2>4 DEF airVars
    <2> QED BY <1>6, <2>1, <2>2, <2>3, <2>4
            DEF Passing, Button3Idle, Button0Idle, sw_mode, RoundNotDue, NoRound, Waiting,
                RemoteSkip
  <1> QED BY <1>3, <1>4, <1>5, <1>6 DEF GatewayNext

-----------------------------------------------------------------------------
Inv == TypeOK /\ RelayInv

LEMMA InvInit == SInit => Inv
  <1> SUFFICES ASSUME SInit  PROVE Inv
    OBVIOUS
  <1>1. TypeOK
    BY InitType DEF SInit
  <1>2. RelayInv
    BY DEF SInit, Init, FieldInit, RelayInv, RelayObeys, BurstIsDeaf
  <1> QED BY <1>1, <1>2 DEF Inv

LEMMA InvNext == Inv /\ [SNext]_svars => Inv'
  <1> SUFFICES ASSUME Inv, [SNext]_svars  PROVE Inv'
    OBVIOUS
  <1> USE DEF Inv
  <1>1. TypeOK'
    BY NextType, SwitchOnlyWatches
  <1>2. AirTypeOK /\ 1 \in Station
    BY RadiosAreStations DEF TypeOK
  <1>3. CASE SAccept
    <2>1. AcceptSwitch /\ overrun' = (pc1 \in {"measure", "finish"})
      BY <1>3 DEF SAccept, FieldPart
    <2>2. pc1 # "feedback"
      BY <2>1 DEF AcceptSwitch, RelayInv, BurstIsDeaf, NoFrame
    <2> QED BY <1>1, <2>1, <2>2 DEF AcceptSwitch, RelayInv, RelayObeys, BurstIsDeaf
  <1>4. CASE UNCHANGED svars
    BY <1>1, <1>4 DEF svars, vars, fieldVars, airVars, RelayInv, RelayObeys, BurstIsDeaf
  <1>5. ASSUME Quiet(GatewayStep \/ Tick \/ AppStep \/ ForeignReport)  PROVE Inv'
    <2>1. UNCHANGED <<fieldVars, overrun>>
      BY <1>5 DEF Quiet, GatewayStep, GatewayPart, Tick, AppStep, ForeignReport
    <2>2. ASSUME BurstIsDeaf, pc1 = "feedback"  PROVE radio'[1] = "standby" /\ ether'[1] = NoFrame
      <3>1. CASE GatewayStep
        BY <1>2, <2>2, <3>1, GatewayLeavesStandby DEF GatewayStep, GatewayPart, BurstIsDeaf
      <3>2. CASE Tick \/ AppStep
        BY <2>2, <3>2 DEF Tick, AppStep, airVars, BurstIsDeaf
      <3>3. CASE ForeignReport
        BY <1>2, <2>2, <3>3 DEF ForeignReport, Landed, BurstIsDeaf, Gateway
      <3> QED BY <1>5, <3>1, <3>2, <3>3 DEF Quiet
    <2> QED BY <1>1, <2>1, <2>2 DEF fieldVars, RelayInv, RelayObeys, BurstIsDeaf
  <1>6. ASSUME Quiet(FieldPart(Answering \/ Loops))  PROVE Inv'
    <2>1. overrun' = overrun /\ (Answering \/ Loops)
      BY <1>6 DEF Quiet, FieldPart
    <2>2. CASE Answering
      <3>1. UNCHANGED <<fieldVars, radio>>
        BY <2>2 DEF Answering, AnswerPoll, RelayPoll, AnswerRelay, NodeReplies
      <3>2. ASSUME NEW n \in Node, NEW f, NodeReplies(n, f), radio[1] = "standby", ether[1] = NoFrame
            PROVE  ether'[1] = NoFrame
        <4>1. PICK T \in Heard(n, f) : ether' = Landed([ether EXCEPT ![n] = NoFrame], T, f)
          BY <3>2 DEF NodeReplies
        <4>2. \A e : Landed(e, T, f)[1] = e[1]
          BY <1>2, <3>2, StandbyStaysEmpty
        <4> QED BY <1>2, <3>2, <4>1, <4>2 DEF AirTypeOK
      <3>3. pc1 = "feedback" => ether'[1] = NoFrame
        BY <2>2, <3>2, RadiosAreStations
        DEF Answering, AnswerPoll, RelayPoll, AnswerRelay, RelayInv, BurstIsDeaf
      <3> QED BY <1>1, <2>1, <3>1, <3>3 DEF fieldVars, RelayInv, RelayObeys, BurstIsDeaf
    <2>3. CASE \E n \in Node : Sample(n)
      BY <1>1, <2>1, <2>3 DEF Sample, relayVars, airVars, RelayInv, RelayObeys, BurstIsDeaf
    <2>4. CASE NoticeCommand \/ ApplyCommand \/ FinishCommand
      BY <1>1, <2>1, <2>4
      DEF NoticeCommand, ApplyCommand, FinishCommand, airVars, RelayInv, RelayObeys, BurstIsDeaf
    <2>5. CASE MeasureCurrent
      BY <1>1, <1>2, <2>1, <2>5
      DEF MeasureCurrent, Idles, AirTypeOK, RelayInv, RelayObeys, BurstIsDeaf
    <2>6. CASE SendFeedback
      <3>1. pc1 = "feedback" /\ radio[1] = "standby" /\ ether[1] = NoFrame
        BY <2>6 DEF SendFeedback, RelayInv, BurstIsDeaf
      <3>2. ether'[1] = NoFrame
        BY <1>2, <2>6, <3>1, StandbyStaysEmpty DEF SendFeedback
      <3>3. pc1' \in {"feedback", "finish"}
        BY <2>6 DEF SendFeedback
      <3> QED BY <1>1, <2>1, <2>6, <3>1, <3>2, <3>3
              DEF SendFeedback, RelayInv, RelayObeys, BurstIsDeaf
    <2> QED BY <2>1, <2>2, <2>3, <2>4, <2>5, <2>6 DEF Loops, RelayLoop
  <1> QED BY <1>3, <1>4, <1>5, <1>6 DEF SNext

(* At rest the relay is as commanded, unless the command came in the one   *)
(* window in which the loop clears it unseen (NODE1 main.cpp:253-279).     *)
THEOREM RelayIsObedient == SSpec => []RelayObeys
  <1>1. Inv => RelayObeys
    BY DEF Inv, RelayInv
  <1> QED BY <1>1, InvInit, InvNext, PTL DEF SSpec

(* No command can be accepted during the feedback burst, whoever sends     *)
(* what: this closes the longest part of the loop's work to the race.      *)
THEOREM BurstHearsNothing == SSpec => []BurstIsDeaf
  <1>1. Inv => BurstIsDeaf
    BY DEF Inv, RelayInv
  <1> QED BY <1>1, InvInit, InvNext, PTL DEF SSpec
=============================================================================
