-------------------------- MODULE LoRaMesh_proofs --------------------------
(***************************************************************************)
(* Type correctness of the whole network, for any radio topology, timing   *)
(* and set of faults.                                                      *)
(***************************************************************************)
EXTENDS LoRaMesh, TLAPS

(* The frames of the protocol are frames. *)
LEMMA FrameTypes ==
    /\ NoFrame \in Frame /\ RelayCall \in Frame /\ Garbled \in Frame
    /\ SensorError(0) \in Frame
    /\ \A n \in Node : Poll(n) \in Frame /\ Reading(n) \in Frame /\ SensorError(n) \in Frame
    /\ \A v \in {0, 1} : Switch(v) \in Frame /\ Feedback(v) \in Frame /\ Report(v) \in Frame
  BY DEF Frame, Kind, OnOff, Node, NoFrame, RelayCall, Garbled, Poll, Reading, SensorError,
         Switch, Feedback, Report

(* A node's answer is a frame, whether its sensor works or not. *)
LEMMA AnswerType == ASSUME NEW n \in Node, NEW h PROVE Answer(n, h) \in Frame
  BY FrameTypes DEF Answer

(* What a transmission leaves of an unread frame is a frame. *)
LEMMA OverlaidType ==
    ASSUME NEW f \in Frame, NEW g, NEW h \in Overlaid(f, g)  PROVE h \in Frame
  BY FrameTypes DEF Overlaid

(* The turn stays with the three nodes. *)
LEMMA NextNodeType == ASSUME NEW n \in Node PROVE NextNode(n) \in Node
  BY DEF NextNode, Node

LEMMA LandedType ==
    ASSUME NEW e \in [Station -> Frame], NEW f \in Frame, NEW T
    PROVE  Landed(e, T, f) \in [Station -> Frame]
  BY DEF Landed

(* Whatever happens to a transceiver, it stays in one of its modes. *)
LEMMA ModeTypes ==
    ASSUME AirTypeOK, NEW s \in Station, Idles(s) \/ Listens(s) \/ Opens(s) \/ Waits(s)
    PROVE  radio' \in [Station -> Mode]
  BY DEF AirTypeOK, Mode, Idles, Listens, Opens, Waits

LEMMA RadiosAreStations == Gateway \in Station /\ Node \subseteq Station /\ 1 \in Node
                           /\ 2 \in Node /\ 3 \in Node
  BY DEF Station, Gateway, Node

(* A transmission of the gateway keeps the air well typed. *)
LEMMA GatewaySendsType ==
    ASSUME AirTypeOK, NEW f \in Frame, GatewaySends(f)  PROVE AirTypeOK'
  <1>1. PICK g \in Overlaid(ether[Gateway], f), T \in Heard(Gateway, f) :
             ether' = Landed([ether EXCEPT ![Gateway] = g], T, f)
    BY DEF GatewaySends
  <1>2. ether[Gateway] \in Frame
    BY DEF AirTypeOK, Station, Gateway
  <1>3. g \in Frame
    BY <1>2, OverlaidType
  <1>4. [ether EXCEPT ![Gateway] = g] \in [Station -> Frame]
    BY <1>3 DEF AirTypeOK
  <1>5. ether' \in [Station -> Frame]
    BY <1>1, <1>4, LandedType
  <1>6. radio' \in [Station -> Mode]
    BY ModeTypes, RadiosAreStations DEF GatewaySends
  <1> QED BY <1>5, <1>6 DEF AirTypeOK

(* ... and so does the answer of a node. *)
LEMMA NodeRepliesType ==
    ASSUME AirTypeOK, NEW n \in Node, NEW f \in Frame, NodeReplies(n, f)
    PROVE  AirTypeOK'
  <1>1. PICK T \in Heard(n, f) : ether' = Landed([ether EXCEPT ![n] = NoFrame], T, f)
    BY DEF NodeReplies
  <1>2. [ether EXCEPT ![n] = NoFrame] \in [Station -> Frame]
    BY FrameTypes DEF AirTypeOK
  <1>3. ether' \in [Station -> Frame]
    BY <1>1, <1>2, LandedType
  <1> QED BY <1>3 DEF NodeReplies, AirTypeOK

(* A radio that is emptied stays well typed. *)
LEMMA EmptiedType ==
    ASSUME AirTypeOK, NEW s \in Station, ether' = [ether EXCEPT ![s] = NoFrame],
           radio' \in [Station -> Mode]
    PROVE  AirTypeOK'
  BY FrameTypes DEF AirTypeOK

(* The calls to the cloud keep its entries well typed. *)
LEMMA MarkedType ==
    ASSUME NEW stt \in [Node -> {0, 1}], NEW n, NEW v \in {0, 1}
    PROVE  Marked(stt, n, v) \in [Node -> {0, 1}]
  BY DEF Marked

LEMMA PutStatusType ==
    ASSUME CloudTypeOK, NEW n \in Node, NEW v \in {0, 1}, PutStatus(n, v)
    PROVE  CloudTypeOK'
  <1>1. Marked(cloud.stt, n, v) \in [Node -> {0, 1}]
    BY MarkedType DEF CloudTypeOK
  <1> QED BY <1>1 DEF CloudTypeOK, PutStatus

LEMMA PutEntriesType ==
    ASSUME CloudTypeOK
    PROVE  /\ PutModeString => CloudTypeOK'
           /\ \A b \in BOOLEAN : PutDevice(b) => CloudTypeOK'
           /\ \A b \in BOOLEAN : AppPutsMode(b) => CloudTypeOK'
           /\ \A b \in BOOLEAN : AppPutsLed(b) => CloudTypeOK'
  BY DEF CloudTypeOK, PutModeString, PutDevice, AppPutsMode, AppPutsLed, Literal, Entry

(* Reading an entry as a boolean gives a boolean. *)
LEMMA BoolReadType == ASSUME NEW e, NEW b \in BoolRead(e) PROVE b \in BOOLEAN
  BY CloudOutcomesAssumption DEF BoolRead

(* The ages saturate at the timers' intervals. *)
LEMMA AgesType ==
    ASSUME NEW a \in Nat, NEW limit \in Nat, NEW t \in Nat
    PROVE  AtMost(a + t, limit) \in 0..limit /\ AtMost(a, limit) \in 0..limit
  BY DEF AtMost

(* The two timers of the gateway after a restart, and their bounds. *)
LEMMA ResetAges ==
    ASSUME NEW up \in 0..RoundInterval
    PROVE  AtMost(up, RetryInterval) \in 0..RetryInterval
  BY IntervalAssumption DEF AtMost

-----------------------------------------------------------------------------
(* The gateway's steps *)

GatewayTypes == AirTypeOK /\ CloudTypeOK /\ GatewayTypeOK

(* Every step that polls a node keeps the types. *)
LEMMA PollingType == GatewayTypes /\ Polling => GatewayTypes'
  <1> SUFFICES ASSUME GatewayTypes, Polling  PROVE GatewayTypes'
    OBVIOUS
  <1>1. Poll(expectedNode) \in Frame
    BY FrameTypes DEF GatewayTypes, GatewayTypeOK
  <1>2. AirTypeOK'
    BY <1>1, GatewaySendsType DEF Polling, StartRound, Resend, GatewayTypes
  <1>3. CloudTypeOK'
    BY DEF Polling, StartRound, Resend, GatewayTypes, CloudTypeOK
  <1>4. GatewayTypeOK'
    <2>1. CASE StartRound
      BY <2>1, IntervalAssumption DEF StartRound, GatewayTypes, GatewayTypeOK
    <2>2. CASE Resend
      BY <2>2, IntervalAssumption
      DEF Resend, RetryBlock, FlagAfterReset, RoundIsFull, CountAfterReset, GatewayTypes, GatewayTypeOK
    <2> QED BY <2>1, <2>2 DEF Polling
  <1> QED BY <1>2, <1>3, <1>4 DEF GatewayTypes

(* Every step that settles a turn keeps the types. *)
LEMMA SettlingType == GatewayTypes /\ Settling => GatewayTypes'
  <1> SUFFICES ASSUME GatewayTypes, Settling  PROVE GatewayTypes'
    OBVIOUS
  <1> USE DEF GatewayTypes
  <1>1. expectedNode \in Node /\ NextNode(expectedNode) \in Node
    BY NextNodeType DEF GatewayTypeOK
  <1>2. CloudTypeOK'
    BY <1>1, PutStatusType DEF Settling, ReceiveReading, GiveUp
  <1>3. CASE ReceiveReading
    <2>1. AirTypeOK'
      BY <1>3, EmptiedType, ModeTypes, RadiosAreStations DEF ReceiveReading, parsePacket
    <2>2. GatewayTypeOK'
      BY <1>1, <1>3 DEF ReceiveReading, parsePacket, GatewayTypeOK, timerVars
    <2> QED BY <1>2, <2>1, <2>2
  <1>4. CASE GiveUp
    <2>1. AirTypeOK'
      BY <1>4 DEF GiveUp, AirTypeOK, airVars
    <2>2. node_count_send' \in Nat
      BY <1>4 DEF GiveUp, CountAfterReset, GatewayTypeOK
    <2>3. led' \in [Node -> {0, 1}]
      BY <1>4 DEF GiveUp, GatewayTypeOK
    <2>4. GatewayTypeOK'
      BY <1>1, <1>4, <2>2, <2>3 DEF GiveUp, RetryBlock, GatewayTypeOK, timerVars
    <2> QED BY <1>2, <2>1, <2>4
  <1> QED BY <1>3, <1>4 DEF Settling

(* A restart keeps the types. *)
LEMMA RestartType == GatewayTypes /\ clear_wifi => GatewayTypes'
  <1> SUFFICES ASSUME GatewayTypes, clear_wifi  PROVE GatewayTypes'
    OBVIOUS
  <1> USE DEF GatewayTypes
  <1>1. AirTypeOK'
    BY EmptiedType, ModeTypes, RadiosAreStations DEF clear_wifi
  <1>2. CloudTypeOK'
    BY DEF clear_wifi, CloudTypeOK
  <1>3. sinceRound' \in 0..RoundInterval /\ sinceResend' \in 0..RetryInterval
    BY ResetAges DEF clear_wifi
  <1>4. expectedNode' \in Node /\ led' \in [Node -> {0, 1}]
    BY RadiosAreStations DEF clear_wifi
  <1>5. GatewayTypeOK'
    BY <1>3, <1>4 DEF clear_wifi, GatewayTypeOK
  <1> QED BY <1>1, <1>2, <1>5

(* The remaining steps of loop() keep the types. *)
LEMMA PassingType == GatewayTypes /\ Passing => GatewayTypes'
  <1> SUFFICES ASSUME GatewayTypes, Passing  PROVE GatewayTypes'
    OBVIOUS
  <1> USE DEF GatewayTypes
  <1>1. CASE Button3Idle \/ Button0Idle \/ RoundNotDue \/ NoRound \/ RemoteSkip
    <2>1. AirTypeOK' /\ CloudTypeOK'
      BY <1>1 DEF Button3Idle, Button0Idle, RoundNotDue, NoRound, RemoteSkip, airVars,
                  AirTypeOK, CloudTypeOK
    <2>2. GatewayTypeOK'
      BY <1>1 DEF Button3Idle, Button0Idle, RoundNotDue, NoRound, RemoteSkip, turnVars,
                  timerVars, GatewayTypeOK
    <2> QED BY <2>1, <2>2
  <1>2. CASE sw_mode
    <2>1. AirTypeOK' /\ CloudTypeOK'
      BY <1>2, PutEntriesType DEF sw_mode, airVars, AirTypeOK
    <2>2. GatewayTypeOK'
      BY <1>2 DEF sw_mode, turnVars, timerVars, GatewayTypeOK
    <2> QED BY <2>1, <2>2
  <1>3. ASSUME NEW v \in {0, 1}, Button3Press(v)  PROVE GatewayTypes'
    <2>1. AirTypeOK'
      BY <1>3, FrameTypes, GatewaySendsType DEF Button3Press
    <2>2. GatewayTypeOK' /\ CloudTypeOK'
      BY <1>3 DEF Button3Press, turnVars, timerVars, GatewayTypeOK, CloudTypeOK
    <2> QED BY <2>1, <2>2
  <1>4. CASE parsePacketNone \/ ManualMode \/ RefreshSkip
    <2>1. ether' = ether /\ radio' \in [Station -> Mode]
      BY <1>4, ModeTypes, RadiosAreStations DEF parsePacketNone, ManualMode, RefreshSkip
    <2>2. AirTypeOK' /\ CloudTypeOK'
      BY <1>4, <2>1 DEF parsePacketNone, ManualMode, RefreshSkip, AirTypeOK, CloudTypeOK
    <2>3. GatewayTypeOK'
      BY <1>4 DEF parsePacketNone, ManualMode, RefreshSkip, turnVars, timerVars, GatewayTypeOK
    <2> QED BY <2>2, <2>3
  <1>5. CASE ReceiveError \/ ReceiveReport \/ ReceiveOther
    <2>1. AirTypeOK'
      BY <1>5, EmptiedType, ModeTypes, RadiosAreStations
      DEF ReceiveError, ReceiveReport, ReceiveOther, parsePacket
    <2>2. CASE ReceiveError
      BY <2>1, <2>2 DEF ReceiveError, parsePacket, timerVars, GatewayTypeOK, CloudTypeOK
    <2>3. CASE ReceiveOther
      BY <2>1, <2>3 DEF ReceiveOther, parsePacket, turnVars, timerVars, GatewayTypeOK, CloudTypeOK
    <2>4. CASE ReceiveReport
      <3>1. CloudTypeOK'
        BY <2>4, PutEntriesType DEF ReceiveReport
      <3>2. ether[Gateway].arg \in {0, 1}
        BY <2>4, RadiosAreStations DEF ReceiveReport, AirTypeOK, Frame, OnOff
      <3>3. led' \in [Node -> {0, 1}]
        <4>1. 1 - ether[Gateway].arg \in {0, 1}
          BY <3>2
        <4> QED BY <2>4, <4>1 DEF ReceiveReport, GatewayTypeOK
      <3> QED BY <2>1, <2>4, <3>1, <3>3 DEF ReceiveReport, parsePacket, turnVars, timerVars,
                                            GatewayTypeOK
    <2> QED BY <1>5, <2>2, <2>3, <2>4
  <1>6. CASE Waiting
    <2>1. AirTypeOK' /\ CloudTypeOK'
      BY <1>6 DEF Waiting, airVars, AirTypeOK, CloudTypeOK
    <2>2. node_count_send' \in Nat /\ flag_gui1s' \in BOOLEAN
      BY <1>6 DEF Waiting, FlagAfterReset, RoundIsFull, CountAfterReset, GatewayTypeOK
    <2>3. GatewayTypeOK'
      BY <1>6, <2>2 DEF Waiting, RetryBlock, timerVars, GatewayTypeOK
    <2> QED BY <2>1, <2>3
  <1>7. CASE RemoteChange
    <2>1. PICK b \in BoolRead(cloud.led1) :
              /\ led' = [led EXCEPT ![1] = IF b THEN 0 ELSE 1]
              /\ GatewaySends(Switch(IF b THEN 1 ELSE 0))
              /\ datacurrent' = b
      BY <1>7 DEF RemoteChange
    <2>2. AirTypeOK' /\ CloudTypeOK'
      BY <1>7, <2>1, FrameTypes, GatewaySendsType DEF RemoteChange, CloudTypeOK
    <2>3. led' \in [Node -> {0, 1}] /\ datacurrent' \in BOOLEAN
      BY <2>1, BoolReadType DEF GatewayTypeOK
    <2>4. GatewayTypeOK'
      BY <1>7, <2>3 DEF RemoteChange, turnVars, timerVars, GatewayTypeOK
    <2> QED BY <2>2, <2>4
  <1>8. CASE RefreshMode
    <2>1. mode' \in BOOLEAN
      BY <1>8, BoolReadType DEF RefreshMode
    <2>2. AirTypeOK' /\ CloudTypeOK'
      BY <1>8, ModeTypes, RadiosAreStations DEF RefreshMode, AirTypeOK, CloudTypeOK
    <2>3. GatewayTypeOK'
      BY <1>8, <2>1 DEF RefreshMode, turnVars, timerVars, GatewayTypeOK
    <2> QED BY <2>2, <2>3
  <1> QED BY <1>1, <1>2, <1>3, <1>4, <1>5, <1>6, <1>7, <1>8 DEF Passing

-----------------------------------------------------------------------------
(* The nodes' steps *)

FieldTypes == AirTypeOK /\ FieldTypeOK

(* The receive handlers keep the types. *)
LEMMA HandlersType == FieldTypes /\ Handlers => FieldTypes'
  <1> SUFFICES ASSUME FieldTypes, Handlers  PROVE FieldTypes'
    OBVIOUS
  <1> USE DEF FieldTypes
  <1>1. CASE Answering
    <2>1. AirTypeOK'
      <3>1. ASSUME NEW n \in Node, AnswerPoll(n)  PROVE AirTypeOK'
        BY <3>1, AnswerType, NodeRepliesType DEF AnswerPoll
      <3>2. ASSUME RelayPoll  PROVE AirTypeOK'
        BY <3>2, FrameTypes, RadiosAreStations, NodeRepliesType DEF RelayPoll
      <3>3. ASSUME AnswerRelay  PROVE AirTypeOK'
        BY <3>3, AnswerType, RadiosAreStations, NodeRepliesType DEF AnswerRelay
      <3> QED BY <1>1, <3>1, <3>2, <3>3 DEF Answering
    <2>2. FieldTypeOK'
      BY <1>1 DEF Answering, AnswerPoll, RelayPoll, AnswerRelay, fieldVars, FieldTypeOK
    <2> QED BY <2>1, <2>2
  <1>2. CASE AcceptSwitch
    <2>1. ether[1].arg \in {0, 1}
      BY <1>2, RadiosAreStations DEF AcceptSwitch, AirTypeOK, Frame, OnOff
    <2>2. FieldTypeOK'
      BY <1>2, <2>1 DEF AcceptSwitch, FieldTypeOK
    <2>3. AirTypeOK'
      BY <1>2, EmptiedType, RadiosAreStations DEF AcceptSwitch, AirTypeOK
    <2> QED BY <2>2, <2>3
  <1> QED BY <1>1, <1>2 DEF Handlers

(* The loops keep the types. *)
LEMMA LoopsType == FieldTypes /\ Loops => FieldTypes'
  <1> SUFFICES ASSUME FieldTypes, Loops  PROVE FieldTypes'
    OBVIOUS
  <1> USE DEF FieldTypes
  <1>1. ASSUME NEW n \in Node, Sample(n)  PROVE FieldTypes'
    <2>1. PICK h \in {"ok", "error"} : sensor' = [sensor EXCEPT ![n] = h]
      BY <1>1 DEF Sample, Health
    <2> QED BY <1>1, <2>1 DEF Sample, relayVars, airVars, AirTypeOK, FieldTypeOK
  <1>2. CASE NoticeCommand \/ ApplyCommand
    BY <1>2 DEF NoticeCommand, ApplyCommand, airVars, AirTypeOK, FieldTypeOK
  <1>3. CASE MeasureCurrent
    <2>1. burst' \in 0..FeedbackRepeats /\ pc1' \in {"feedback", "finish"}
      BY <1>3, FeedbackAssumption DEF MeasureCurrent, FieldTypeOK
    <2>2. AirTypeOK'
      BY <1>3, ModeTypes, RadiosAreStations DEF MeasureCurrent, AirTypeOK
    <2> QED BY <1>3, <2>1, <2>2 DEF MeasureCurrent, FieldTypeOK
  <1>4. CASE SendFeedback
    <2>1. PICK T \in Heard(1, Feedback(ssr)) : ether' = Landed(ether, T, Feedback(ssr))
      BY <1>4 DEF SendFeedback
    <2>2. Feedback(ssr) \in Frame
      BY FrameTypes DEF FieldTypeOK
    <2>3. AirTypeOK'
      BY <1>4, <2>1, <2>2, LandedType DEF SendFeedback, AirTypeOK
    <2>4. burst' \in 0..FeedbackRepeats
      BY <1>4, FeedbackAssumption DEF SendFeedback, FieldTypeOK
    <2>5. pc1' \in {"finish", "feedback"}
      BY <1>4 DEF SendFeedback
    <2> QED BY <1>4, <2>3, <2>4, <2>5 DEF SendFeedback, FieldTypeOK
  <1>5. CASE FinishCommand
    BY <1>5, ModeTypes, RadiosAreStations DEF FinishCommand, AirTypeOK, FieldTypeOK
  <1> QED BY <1>1, <1>2, <1>3, <1>4, <1>5 DEF Loops, RelayLoop

-----------------------------------------------------------------------------
(* The network *)

LEMMA InitType == Init => TypeOK
  <1> SUFFICES ASSUME Init  PROVE TypeOK
    OBVIOUS
  <1>1. AirTypeOK
    BY FrameTypes DEF Init, AirInit, AirTypeOK, Mode
  <1>2. CloudTypeOK
    BY DEF Init, CloudInit, CloudTypeOK, Entry
  <1>3. sinceResend \in 0..RetryInterval
    BY ResetAges DEF Init, GatewayInit
  <1>4. GatewayTypeOK
    BY <1>3, RadiosAreStations DEF Init, GatewayInit, GatewayTypeOK
  <1>5. FieldTypeOK
    <2>1. sensor \in [Node -> {"ok", "error"}]
      BY DEF Init, FieldInit
    <2>2. burst \in 0..FeedbackRepeats
      BY FeedbackAssumption DEF Init, FieldInit
    <2> QED BY <2>1, <2>2 DEF Init, FieldInit, FieldTypeOK
  <1> QED BY <1>1, <1>2, <1>4, <1>5, AnswerAssumption DEF Init, TypeOK

LEMMA NextType == TypeOK /\ [Next]_vars => TypeOK'
  <1> SUFFICES ASSUME TypeOK, [Next]_vars  PROVE TypeOK'
    OBVIOUS
  <1> USE DEF TypeOK
  <1>1. CASE GatewayStep
    <2>1. GatewayTypes'
      BY <1>1, PollingType, SettlingType, PassingType, RestartType
      DEF GatewayStep, GatewayPart, GatewayNext, GatewayTypes
    <2>2. FieldTypeOK'
      BY <1>1 DEF GatewayStep, GatewayPart, fieldVars, FieldTypeOK
    <2>3. underway' \in 0..AnswerTicks
      BY <1>1, AnswerAssumption DEF GatewayStep, GatewayPart, Watch
    <2> QED BY <2>1, <2>2, <2>3 DEF GatewayTypes
  <1>2. CASE FieldStep
    <2>1. FieldTypes'
      BY <1>2, HandlersType, LoopsType DEF FieldStep, FieldPart, FieldNext, FieldTypes
    <2>2. GatewayTypeOK' /\ CloudTypeOK'
      BY <1>2 DEF FieldStep, FieldPart, gatewayVars, GatewayTypeOK, CloudTypeOK
    <2>3. underway' \in 0..AnswerTicks
      BY <1>2, AnswerAssumption DEF FieldStep, FieldPart, Watch
    <2> QED BY <2>1, <2>2, <2>3 DEF FieldTypes
  <1>3. CASE Tick
    <2>1. sinceRound' \in 0..RoundInterval /\ sinceResend' \in 0..RetryInterval
      BY <1>3, AgesType, IntervalAssumption DEF Tick, GatewayAges, GatewayTypeOK
    <2>2. underway' \in 0..AnswerTicks
      BY <1>3, AnswerAssumption DEF Tick
    <2>3. AirTypeOK' /\ CloudTypeOK' /\ FieldTypeOK'
      BY <1>3 DEF Tick, airVars, fieldVars, AirTypeOK, CloudTypeOK, FieldTypeOK
    <2>4. GatewayTypeOK'
      BY <1>3, <2>1 DEF Tick, turnVars, GatewayTypeOK
    <2> QED BY <2>2, <2>3, <2>4
  <1>4. CASE AppStep
    <2>1. CloudTypeOK'
      BY <1>4, PutEntriesType, AppAssumption DEF AppStep
    <2>2. AirTypeOK' /\ GatewayTypeOK' /\ FieldTypeOK'
      BY <1>4 DEF AppStep, airVars, gatewayVars, fieldVars, AirTypeOK, GatewayTypeOK, FieldTypeOK
    <2> QED BY <1>4, <2>1, <2>2 DEF AppStep
  <1>5. CASE ForeignReport
    <2>1. PICK v \in Reports, T \in SUBSET {Gateway} : ether' = Landed(ether, T, Report(v))
      BY <1>5 DEF ForeignReport
    <2>2. AirTypeOK'
      BY <1>5, <2>1, FrameTypes, ReportsAssumption, LandedType DEF ForeignReport, AirTypeOK
    <2>3. GatewayTypeOK' /\ FieldTypeOK' /\ CloudTypeOK'
      BY <1>5 DEF ForeignReport, gatewayVars, fieldVars, GatewayTypeOK, FieldTypeOK, CloudTypeOK
    <2> QED BY <1>5, <2>2, <2>3 DEF ForeignReport
  <1>6. CASE UNCHANGED vars
    BY <1>6 DEF vars, gatewayVars, fieldVars, airVars, AirTypeOK, CloudTypeOK, GatewayTypeOK,
                FieldTypeOK
  <1> QED BY <1>1, <1>2, <1>3, <1>4, <1>5, <1>6 DEF Next

(* Every variable of the network keeps its type: in particular the relay's *)
(* pin only ever gets the value of a switch command, and both ages stay    *)
(* within the intervals they are compared with.                            *)
THEOREM TypeCorrect == Spec => []TypeOK
  BY InitType, NextType, PTL DEF Spec
=============================================================================
