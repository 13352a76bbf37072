------------------------- MODULE PollHistory_proofs -------------------------
(***************************************************************************)
(* The pace and the bound of the gateway's polling, and the turns it takes *)
(* with the nodes, for every topology, retry count and pair of intervals,  *)
(* and any radio, cloud, sensors and users.                                *)
(***************************************************************************)
EXTENDS PollHistory, MeshProperties, LoRaMesh_proofs

(* The history disables nothing and invents nothing. *)
LEMMA HistoryOnlyWatches == [HNext]_hvars => [Next]_vars
  BY DEF HNext, HPolling, HSettling, HRestart, HTick, HOther, GatewayPart, GatewayStep,
         GatewayNext, Next, hvars

(* What is shown with the history is shown of the network.                 *)
THEOREM PollHistoryIsOfTheNetwork == HSpec => Spec
  <1>1. HInit => Init
    BY DEF HInit
  <1> QED BY <1>1, HistoryOnlyWatches, PTL DEF HSpec, Spec

(* The steps that touch neither the timers nor the polls in their turn. *)
LEMMA PassingLeaves ==
    Passing => /\ UNCHANGED <<currentRetry, timerVars>>
               /\ pc' = "retry" => pc = "round"
               /\ pc = "retry" /\ flag_gui1s => currentRetry < MaxRetry
  BY DEF Passing, Button3Idle, Button0Idle, sw_mode, Button3Press, parsePacketNone,
         ReceiveError, ReceiveReport, ReceiveOther, parsePacket, ManualMode, RoundNotDue,
         NoRound, Waiting, RetryBlock, TriesLeft, RemoteSkip, RemoteChange, RefreshSkip, RefreshMode,
         turnVars, timerVars

-----------------------------------------------------------------------------
(* A gap that grew by the uptime is no smaller than the uptime's ages. *)
LEMMA UptimeAges ==
    ASSUME NEW gap \in Nat, NEW uptime \in Nat, NEW limit \in Nat
    PROVE  /\ AtMost(gap + uptime, limit) >= AtMost(uptime, limit)
           /\ AtMost(gap + uptime, limit) >= AtMost(uptime, AtMost(uptime, limit))
  BY DEF AtMost

TimeInv == TypeOK /\ HistoryTypeOK /\ GapsFollowTimers

LEMMA TimeInvInit == HInit => TimeInv
  <1> SUFFICES ASSUME HInit  PROVE TimeInv
    OBVIOUS
  <1>1. TypeOK
    BY InitType DEF HInit
  <1>2. HistoryTypeOK
    BY IntervalAssumption DEF HInit, HistoryTypeOK
  <1>3. GapsFollowTimers
    BY <1>1, IntervalAssumption
    DEF HInit, GapsFollowTimers, AtMost, TypeOK, GatewayTypeOK
  <1> QED BY <1>1, <1>2, <1>3 DEF TimeInv

LEMMA TimeInvNext == TimeInv /\ [HNext]_hvars => TimeInv'
  <1> SUFFICES ASSUME TimeInv, [HNext]_hvars  PROVE TimeInv'
    OBVIOUS
  <1> USE DEF TimeInv
  <1>1. TypeOK'
    BY NextType, HistoryOnlyWatches
  <1>2. /\ sinceRound \in 0..RoundInterval /\ sinceResend \in 0..RetryInterval
        /\ sinceRound' \in 0..RoundInterval /\ sinceResend' \in 0..RetryInterval
        /\ gap1 \in 0..RetryInterval /\ gap2 \in 0..RetryInterval /\ settled \in Nat
    BY <1>1 DEF TypeOK, GatewayTypeOK, HistoryTypeOK
  <1>3. CASE HPolling
    <2>1. HistoryTypeOK'
      BY <1>2, <1>3, IntervalAssumption DEF HPolling, HistoryTypeOK
    <2>2. gap1' = 0 /\ gap2' = gap1
      BY <1>3 DEF HPolling
    <2>3. ASSUME StartRound  PROVE GapsFollowTimers'
      <3>1. sinceRound' = 0 /\ sinceResend' = sinceResend /\ sinceRound = RoundInterval
        BY <2>3 DEF StartRound, RoundDue
      <3> QED BY <1>2, <2>2, <3>1, IntervalAssumption DEF GapsFollowTimers, AtMost
    <2>4. ASSUME Resend  PROVE GapsFollowTimers'
      <3>1. sinceResend' = 0 /\ sinceRound' = sinceRound /\ sinceResend = RetryInterval
        BY <2>4 DEF Resend, ResendDue
      <3> QED BY <1>2, <2>2, <3>1, IntervalAssumption DEF GapsFollowTimers, AtMost
    <2> QED BY <1>1, <1>3, <2>1, <2>3, <2>4 DEF HPolling, GatewayPart, Polling
  <1>4. CASE HSettling
    <2>1. UNCHANGED timerVars
      BY <1>4 DEF HSettling, GatewayPart, Settling, ReceiveReading, GiveUp
    <2> QED BY <1>1, <1>2, <1>4, <2>1
            DEF HSettling, timerVars, HistoryTypeOK, GapsFollowTimers, AtMost
  <1>5. CASE HRestart
    <2>1. sinceResend' = AtMost(sinceRound', RetryInterval)
      BY <1>5 DEF HRestart, GatewayPart, clear_wifi
    <2>2. HistoryTypeOK'
      BY <1>2, <1>5, AgesType, IntervalAssumption DEF HRestart, Older, HistoryTypeOK
    <2>3. /\ gap1' = AtMost(gap1 + sinceRound', RetryInterval)
          /\ gap2' = AtMost(gap2 + sinceRound', RetryInterval)
      BY <1>5 DEF HRestart, Older
    <2>4. GapsFollowTimers'
      BY <1>2, <2>1, <2>3, UptimeAges, IntervalAssumption DEF GapsFollowTimers
    <2> QED BY <1>1, <2>2, <2>4
  <1>6. CASE HTick
    <2>1. HistoryTypeOK'
      BY <1>2, <1>6, IntervalAssumption DEF HTick, Older, AtMost, HistoryTypeOK
    <2>2. GapsFollowTimers'
      BY <1>2, <1>6, IntervalAssumption
      DEF HTick, Tick, GatewayAges, Older, AtMost, GapsFollowTimers
    <2> QED BY <1>1, <2>1, <2>2
  <1>7. CASE HOther \/ UNCHANGED hvars
    <2>1. UNCHANGED <<timerVars, historyVars>>
      BY <1>7, PassingLeaves
      DEF HOther, GatewayPart, FieldStep, FieldPart, AppStep, ForeignReport, gatewayVars,
          timerVars, vars, hvars
    <2> QED BY <1>1, <1>2, <2>1
            DEF timerVars, historyVars, HistoryTypeOK, GapsFollowTimers, AtMost
  <1> QED BY <1>3, <1>4, <1>5, <1>6, <1>7 DEF HNext

(* The two polls before any moment are at least as old as the timers that  *)
(* could send the next one.                                                *)
THEOREM GapsAreKept == HSpec => []GapsFollowTimers
  <1>1. TimeInv => GapsFollowTimers
    BY DEF TimeInv
  <1> QED BY <1>1, TimeInvInit, TimeInvNext, PTL DEF HSpec

(* Never three polls within one retry interval, whatever the interplay of  *)
(* round timer, retry timer, mode changes and restarts (main.cpp:32-61).   *)
THEOREM PaceIsKept == HSpec => PollRate
  <1>1. TimeInv /\ [HNext]_hvars => [Polling => gap2 = RetryInterval]_hvars
    <2> SUFFICES ASSUME TimeInv, Polling  PROVE gap2 = RetryInterval
      OBVIOUS
    <2>1. /\ sinceRound \in 0..RoundInterval /\ sinceResend \in 0..RetryInterval
          /\ gap2 \in 0..RetryInterval
      BY DEF TimeInv, TypeOK, GatewayTypeOK, HistoryTypeOK
    <2>2. CASE StartRound
      BY <2>1, <2>2, IntervalAssumption DEF StartRound, RoundDue, TimeInv, GapsFollowTimers, AtMost
    <2>3. CASE Resend
      BY <2>1, <2>3 DEF Resend, ResendDue, TimeInv, GapsFollowTimers
    <2> QED BY <2>2, <2>3 DEF Polling
  <1> QED BY <1>1, TimeInvInit, TimeInvNext, PTL DEF HSpec, PollRate

-----------------------------------------------------------------------------
TriesInv == TypeOK /\ RetryBounded

LEMMA TriesInvNext == TriesInv /\ [HNext]_hvars => TriesInv'
  <1> SUFFICES ASSUME TriesInv, [HNext]_hvars  PROVE TriesInv'
    OBVIOUS
  <1> USE MaxRetryAssumption DEF TriesInv
  <1>1. TypeOK'
    BY NextType, HistoryOnlyWatches
  <1>2. currentRetry \in Nat /\ currentRetry' \in Nat
    BY <1>1 DEF TypeOK, GatewayTypeOK
  <1>3. CASE HPolling
    <2>1. ASSUME StartRound  PROVE RetryBounded'
      BY <1>2, <2>1 DEF StartRound, RetryBounded
    <2>2. ASSUME Resend  PROVE RetryBounded'
      BY <1>2, <2>2 DEF Resend, TriesLeft, RetryBounded
    <2> QED BY <1>1, <1>3, <2>1, <2>2 DEF HPolling, GatewayPart, Polling
  <1>4. CASE HSettling \/ HRestart
    <2>1. currentRetry' = 0
      BY <1>4 DEF HSettling, HRestart, GatewayPart, Settling, ReceiveReading, GiveUp, clear_wifi
    <2> QED BY <1>1, <2>1 DEF RetryBounded
  <1>5. CASE HTick
    BY <1>1, <1>5 DEF HTick, Tick, turnVars, RetryBounded
  <1>6. ASSUME GatewayPart(Passing)  PROVE TriesInv'
    <2>1. Passing
      BY <1>6 DEF GatewayPart
    <2>2. currentRetry <= MaxRetry /\ currentRetry' = currentRetry
      BY <1>2, <2>1, PassingLeaves DEF RetryBounded
    <2> QED BY <1>1, <2>2 DEF RetryBounded
  <1>7. ASSUME FieldStep \/ AppStep \/ ForeignReport \/ UNCHANGED hvars  PROVE TriesInv'
    BY <1>1, <1>7 DEF FieldStep, FieldPart, AppStep, ForeignReport, hvars, vars, gatewayVars,
                      RetryBounded
  <1> QED BY <1>3, <1>4, <1>5, <1>6, <1>7 DEF HNext, HOther

(* One poll more than maxRetryCount at most, and only in the iteration that*)
(* is about to settle the turn (main.cpp:41, 60, 63).                      *)
THEOREM TriesAreBounded == HSpec => []RetryBounded
  <1>1. HInit => TriesInv
    BY InitType, MaxRetryAssumption DEF HInit, Init, GatewayInit, TriesInv, RetryBounded
  <1>2. TriesInv => RetryBounded
    BY DEF TriesInv
  <1> QED BY <1>1, <1>2, TriesInvNext, PTL DEF HSpec

-----------------------------------------------------------------------------
(* Who drives the pins: without a device that sends the marks, no frame the*)
(* gateway could take for one is ever on the air.                          *)
NoReports == \A s \in Station : ether[s].kind # "report"

LEMMA NotReports ==
    /\ NoFrame.kind # "report" /\ RelayCall.kind # "report"
    /\ \A n \in Node : Poll(n).kind # "report"
    /\ \A v \in {0, 1} : Switch(v).kind # "report" /\ Feedback(v).kind # "report"
    /\ \A n \in Node, h \in {"ok", "error"} : Answer(n, h).kind # "report"
    /\ \A f, g : \A h \in Overlaid(f, g) : h.kind # "report"
  BY DEF NoFrame, RelayCall, Poll, Switch, Feedback, Answer, Reading, SensorError, Overlaid,
         Garbled

LEMMA LandedNoReports ==
    ASSUME NEW e, NEW T, NEW f, f.kind # "report",
           \A s \in Station : e[s].kind # "report"
    PROVE  \A s \in Station : Landed(e, T, f)[s].kind # "report"
  BY DEF Landed

LEMMA EmptiedNoReports ==
    ASSUME AirTypeOK, NoReports, NEW s \in Station, NEW f, f.kind # "report"
    PROVE  \A t \in Station : [ether EXCEPT ![s] = f][t].kind # "report"
  BY DEF NoReports, AirTypeOK

LEMMA GatewaySendsNoReports ==
    ASSUME AirTypeOK, NoReports, NEW f, f.kind # "report", GatewaySends(f)
    PROVE  NoReports'
  <1>1. PICK g \in Overlaid(ether[Gateway], f), T \in Heard(Gateway, f) :
             ether' = Landed([ether EXCEPT ![Gateway] = g], T, f)
    BY DEF GatewaySends
  <1>2. g.kind # "report"
    BY NotReports
  <1>3. \A t \in Station : [ether EXCEPT ![Gateway] = g][t].kind # "report"
    BY <1>2, EmptiedNoReports, RadiosAreStations
  <1> QED BY <1>1, <1>3, LandedNoReports DEF NoReports

LEMMA NodeRepliesNoReports ==
    ASSUME AirTypeOK, NoReports, NEW n \in Node, NEW f, f.kind # "report", NodeReplies(n, f)
    PROVE  NoReports'
  <1>1. PICK T \in Heard(n, f) : ether' = Landed([ether EXCEPT ![n] = NoFrame], T, f)
    BY DEF NodeReplies
  <1>2. \A t \in Station : [ether EXCEPT ![n] = NoFrame][t].kind # "report"
    BY NotReports, EmptiedNoReports, RadiosAreStations
  <1> QED BY <1>1, <1>2, LandedNoReports DEF NoReports

LEMMA NoReportsNext ==
    ASSUME Reports = {}, TypeOK, NoReports, [Next]_vars  PROVE NoReports'
  <1>1. CASE UNCHANGED airVars
    BY <1>1 DEF NoReports, airVars
  <1>2. ASSUME NEW s \in Station, ether' = [ether EXCEPT ![s] = NoFrame]  PROVE NoReports'
    BY <1>2, NotReports, EmptiedNoReports DEF NoReports, TypeOK
  <1>3. CASE GatewayStep
    <2>1. CASE Polling
      BY <2>1, NotReports, GatewaySendsNoReports
      DEF Polling, StartRound, Resend, TypeOK, GatewayTypeOK
    <2>2. CASE Settling \/ clear_wifi
      BY <2>2, <1>1, <1>2, RadiosAreStations
      DEF Settling, ReceiveReading, parsePacket, GiveUp, clear_wifi
    <2>3. ASSUME NEW v \in {0, 1}, Button3Press(v)  PROVE NoReports'
      BY <2>3, NotReports, GatewaySendsNoReports DEF Button3Press, TypeOK
    <2>4. CASE RemoteChange
      <3>1. PICK v \in {0, 1} : GatewaySends(Switch(v))
        BY <2>4 DEF RemoteChange
      <3> QED BY <3>1, NotReports, GatewaySendsNoReports DEF TypeOK
    <2>5. CASE ReceiveError \/ ReceiveReport \/ ReceiveOther
      BY <2>5, <1>2, RadiosAreStations DEF ReceiveError, ReceiveReport, ReceiveOther, parsePacket
    <2>6. CASE parsePacketNone \/ ManualMode \/ RefreshSkip \/ RefreshMode
      BY <2>6 DEF parsePacketNone, ManualMode, RefreshSkip, RefreshMode, NoReports
    <2>7. CASE \/ Button3Idle \/ Button0Idle \/ sw_mode \/ RoundNotDue \/ NoRound
               \/ Waiting \/ RemoteSkip
      BY <2>7, <1>1 DEF Button3Idle, Button0Idle, sw_mode, RoundNotDue, NoRound, Waiting,
                        RemoteSkip
    <2> QED BY <1>3, <2>1, <2>2, <2>3, <2>4, <2>5, <2>6, <2>7
            DEF GatewayStep, GatewayPart, GatewayNext, Passing
  <1>4. CASE FieldStep
    <2>1. ASSUME NEW n \in Node, AnswerPoll(n)  PROVE NoReports'
      <3>1. Answer(n, sensor[n]).kind # "report"
        BY NotReports DEF TypeOK, FieldTypeOK
      <3> QED BY <2>1, <3>1, NodeRepliesNoReports DEF AnswerPoll, TypeOK
    <2>2. CASE RelayPoll
      BY <2>2, NotReports, NodeRepliesNoReports, RadiosAreStations DEF RelayPoll, TypeOK
    <2>3. CASE AnswerRelay
      <3>1. Answer(3, sensor[3]).kind # "report"
        BY NotReports, RadiosAreStations DEF TypeOK, FieldTypeOK
      <3> QED BY <2>3, <3>1, NodeRepliesNoReports, RadiosAreStations DEF AnswerRelay, TypeOK
    <2>4. CASE AcceptSwitch
      BY <2>4, <1>2, RadiosAreStations DEF AcceptSwitch
    <2>5. CASE SendFeedback
      <3>1. Feedback(ssr).kind # "report"
        BY NotReports DEF TypeOK, FieldTypeOK
      <3>2. PICK T \in Heard(1, Feedback(ssr)) : ether' = Landed(ether, T, Feedback(ssr))
        BY <2>5 DEF SendFeedback
      <3> QED BY <3>1, <3>2, LandedNoReports DEF NoReports
    <2>6. CASE \/ NoticeCommand \/ ApplyCommand \/ MeasureCurrent \/ FinishCommand
               \/ \E n \in Node : Sample(n)
      <3>1. ether' = ether
        BY <2>6 DEF NoticeCommand, ApplyCommand, MeasureCurrent, FinishCommand, Sample, airVars
      <3> QED BY <3>1 DEF NoReports
    <2> QED BY <1>4, <2>1, <2>2, <2>3, <2>4, <2>5, <2>6
            DEF FieldStep, FieldPart, FieldNext, Handlers, Answering, Loops, RelayLoop
  <1>5. CASE Tick \/ AppStep \/ UNCHANGED vars
    BY <1>5, <1>1 DEF Tick, AppStep, vars
  <1>6. CASE ForeignReport
    BY <1>6 DEF ForeignReport
  <1> QED BY <1>3, <1>4, <1>5, <1>6 DEF Next

-----------------------------------------------------------------------------
(* ... then the remote switch stays off, and the polling owns the pins.    *)
PollingOwnsPins ==
    /\ TypeOK
    /\ NoReports
    /\ cloud.led1 = "false"
    /\ ~datacurrent

LedInv == PollingOwnsPins /\ LedMatchesStatus

Unattended == Reports = {} /\ AppLeds = {} /\ CloudOutcomes = {TRUE}

LEMMA OwnsPinsNext ==
    ASSUME Unattended, PollingOwnsPins, [Next]_vars
    PROVE  PollingOwnsPins' /\ ~ReceiveReport /\ ~RemoteChange
  <1> USE DEF Unattended, PollingOwnsPins
  <1>1. TypeOK' /\ NoReports'
    BY NextType, NoReportsNext
  <1>2. ~ReceiveReport
    BY RadiosAreStations DEF ReceiveReport, NoReports
  <1>3. ~RemoteChange
    <2>1. ASSUME NEW b \in BoolRead(cloud.led1)  PROVE ~b /\ b \in BOOLEAN
      BY <2>1, BoolReadType DEF BoolRead
    <2>2. datacurrent \in BOOLEAN
      BY DEF TypeOK, GatewayTypeOK
    <2> QED BY <2>1, <2>2 DEF RemoteChange
  <1>4. ~datacurrent'
    <2>1. CASE GatewayStep
      BY <2>1, <1>2, <1>3
      DEF GatewayStep, GatewayPart, GatewayNext, Polling, StartRound, Resend, Settling,
          ReceiveReading, GiveUp, clear_wifi, Passing, Button3Idle, Button0Idle, sw_mode,
          Button3Press, parsePacketNone, ReceiveError, ReceiveOther, ManualMode, RoundNotDue,
          NoRound, Waiting, RemoteSkip, RefreshSkip, RefreshMode
    <2>2. CASE ~GatewayStep
      BY <2>2 DEF Next, FieldStep, FieldPart, Tick, AppStep, ForeignReport, vars, gatewayVars
    <2> QED BY <2>1, <2>2
  <1>5. cloud'.led1 = "false"
    <2>1. CASE GatewayStep
      <3>1. CASE sw_mode
        BY <3>1 DEF sw_mode, PutModeString, TypeOK, CloudTypeOK
      <3>2. CASE ReceiveReading \/ GiveUp
        <4>1. PICK n \in Node, v \in {0, 1} : PutStatus(n, v)
          BY <3>2 DEF ReceiveReading, GiveUp, TypeOK, GatewayTypeOK
        <4> QED BY <4>1 DEF PutStatus, TypeOK, CloudTypeOK
      <3>3. CASE UNCHANGED cloud
        BY <3>3
      <3> QED BY <2>1, <1>2, <1>3, <3>1, <3>2, <3>3
              DEF GatewayStep, GatewayPart, GatewayNext, Polling, StartRound, Resend, Settling,
                  clear_wifi, Passing, Button3Idle, Button0Idle, Button3Press, parsePacketNone,
                  ReceiveError, ReceiveOther, ManualMode, RoundNotDue, NoRound, Waiting,
                  RemoteSkip, RefreshSkip, RefreshMode
    <2>2. CASE AppStep
      BY <2>2 DEF AppStep, AppPutsMode, TypeOK, CloudTypeOK
    <2>3. CASE ~GatewayStep /\ ~AppStep
      BY <2>3 DEF Next, FieldStep, FieldPart, Tick, ForeignReport, vars
    <2> QED BY <2>1, <2>2, <2>3
  <1> QED BY <1>1, <1>2, <1>3, <1>4, <1>5

LEMMA LedInvNext == ASSUME Unattended, LedInv, [HNext]_hvars  PROVE LedInv'
  <1> USE DEF LedInv
  <1>1. [Next]_vars
    BY HistoryOnlyWatches
  <1>2. PollingOwnsPins' /\ ~ReceiveReport /\ ~RemoteChange
    BY <1>1, OwnsPinsNext
  <1> SUFFICES LedMatchesStatus'
    BY <1>2
  <1>3. /\ led \in [Node -> {0, 1}] /\ led' \in [Node -> {0, 1}]
        /\ cloud.stt \in [Node -> {0, 1}] /\ cloud'.stt \in [Node -> {0, 1}]
        /\ expectedNode \in Node
    BY <1>2 DEF PollingOwnsPins, TypeOK, GatewayTypeOK, CloudTypeOK
  <1>4. ASSUME NEW v \in {0, 1}, PutStatus(expectedNode, v)
        PROVE  cloud'.stt = [cloud.stt EXCEPT ![expectedNode] = v]
    <2>1. cloud' = [cloud EXCEPT !.stt = Marked(@, expectedNode, v)]
      BY <1>4 DEF PutStatus, Unattended
    <2> QED BY <2>1 DEF Marked, PollingOwnsPins, TypeOK, CloudTypeOK
  <1>5. ASSUME NEW v \in {0, 1}, PutStatus(expectedNode, v),
               led' = [led EXCEPT ![expectedNode] = v]
        PROVE  LedMatchesStatus'
    BY <1>3, <1>4, <1>5 DEF LedMatchesStatus
  <1>6. CASE led' = [n \in Node |-> 1]
    <2> SUFFICES ASSUME NEW n \in Node  PROVE led'[n] # 0
      BY DEF LedMatchesStatus
    <2> QED BY <1>6
  <1>7. CASE UNCHANGED led /\ cloud'.stt = cloud.stt
    <2> SUFFICES ASSUME NEW n \in Node, led'[n] = 0  PROVE cloud'.stt[n] = 0
      BY DEF LedMatchesStatus
    <2> QED BY <1>7 DEF LedMatchesStatus
  <1>8. CASE GatewayStep
    <2>1. CASE ReceiveReading \/ GiveUp
      <3>1. PICK v \in {0, 1} :
                /\ PutStatus(expectedNode, v)
                /\ led' = [led EXCEPT ![expectedNode] = v]
        BY <2>1 DEF ReceiveReading, GiveUp
      <3> QED BY <3>1, <1>5
    <2>2. CASE StartRound \/ clear_wifi
      BY <2>2, <1>6 DEF StartRound, clear_wifi
    <2>3. CASE sw_mode
      BY <2>3, <1>7 DEF sw_mode, PutModeString, PollingOwnsPins, TypeOK, CloudTypeOK
    <2> QED BY <1>8, <1>2, <1>7, <2>1, <2>2, <2>3
            DEF GatewayStep, GatewayPart, GatewayNext, Polling, Resend, Settling, Passing,
                Button3Idle, Button0Idle, Button3Press, parsePacketNone, ReceiveError,
                ReceiveOther, ManualMode, RoundNotDue, NoRound, Waiting, RemoteSkip,
                RefreshSkip, RefreshMode
  <1>9. CASE AppStep
    BY <1>9, <1>7 DEF AppStep, AppPutsMode, Unattended, PollingOwnsPins, TypeOK, CloudTypeOK,
                      gatewayVars
  <1>10. CASE ~GatewayStep /\ ~AppStep
    BY <1>1, <1>7, <1>10
    DEF Next, FieldStep, FieldPart, Tick, ForeignReport, vars, gatewayVars
  <1> QED BY <1>8, <1>9, <1>10

(* While the polling alone drives the pins and the cloud stores what it is *)
(* sent, no lit LED contradicts the cloud (main.cpp:65-84), whatever frames*)
(* are lost, however the sensors fail and the gateway restarts.            *)
THEOREM LedsAreTrue == Unattended /\ HSpec => []LedMatchesStatus
  <1> SUFFICES ASSUME Unattended  PROVE HSpec => []LedMatchesStatus
    OBVIOUS
  <1>1. HInit => LedInv
    <2> SUFFICES ASSUME HInit  PROVE LedInv
      OBVIOUS
    <2>1. TypeOK
      BY InitType DEF HInit
    <2>2. NoReports /\ cloud.led1 = "false" /\ ~datacurrent /\ LedMatchesStatus
      BY NotReports
      DEF HInit, Init, AirInit, CloudInit, GatewayInit, NoReports, LedMatchesStatus
    <2> QED BY <2>1, <2>2 DEF LedInv, PollingOwnsPins
  <1>2. LedInv /\ [HNext]_hvars => LedInv'
    BY LedInvNext
  <1>3. LedInv => LedMatchesStatus
    BY DEF LedInv
  <1> QED BY <1>1, <1>2, <1>3, PTL DEF HSpec

-----------------------------------------------------------------------------
(* The turns: no answer of an earlier turn ends a later one, a round       *)
(* settles at most three turns, and the network implements the round robin *)

(* An answer of n waits in the gateway's radio. *)
Holds(n) == ether[Gateway] = Reading(n)

LEMMA LeadingFrames ==
    ASSUME NEW n \in Node
    PROVE  /\ \A m \in Node : Leads(Poll(m), n) => m = n
           /\ Leads(RelayCall, n) => n = 3
           /\ ~Leads(NoFrame, n)
           /\ \A v : ~Leads(Switch(v), n) /\ ~Leads(Feedback(v), n) /\ ~Leads(Report(v), n)
           /\ \A m, h : ~Leads(Answer(m, h), n)
  <1>1. Poll(n).kind = "poll" /\ Poll(n).arg = n /\ RelayCall.kind = "relay"
    BY DEF Poll, RelayCall
  <1>2. \A f : Leads(f, n) => f.kind \in {"poll", "relay"}
    BY <1>1 DEF Leads
  <1>3. \A m \in Node : Leads(Poll(m), n) => m = n
    BY <1>1 DEF Leads, Poll, RelayCall
  <1>4. Leads(RelayCall, n) => n = 3
    BY <1>1 DEF Leads
  <1>5. /\ NoFrame.kind = "none"
        /\ \A v : /\ Switch(v).kind = "switch" /\ Feedback(v).kind = "feedback"
                  /\ Report(v).kind = "report"
        /\ \A m, h : Answer(m, h).kind \in {"reading", "error"}
    BY DEF NoFrame, Switch, Feedback, Report, Answer, Reading, SensorError
  <1> QED BY <1>2, <1>3, <1>4, <1>5

LEMMA ReadingFrames ==
    ASSUME NEW n \in Node
    PROVE  /\ Reading(n) # NoFrame /\ Reading(n) # RelayCall
           /\ \A m : Reading(n) # Poll(m)
           /\ \A v : /\ Reading(n) # Switch(v) /\ Reading(n) # Feedback(v)
                     /\ Reading(n) # Report(v)
           /\ \A f, g : Reading(n) \notin Overlaid(f, g)
           /\ \A m, h : Answer(m, h) = Reading(n) => m = n
  <1>1. Reading(n).kind = "reading" /\ Reading(n).arg = n
    BY DEF Reading
  <1>2. /\ NoFrame.kind = "none" /\ RelayCall.kind = "relay" /\ Garbled.kind = "garbled"
        /\ \A m : Poll(m).kind = "poll" /\ SensorError(m).kind = "error"
        /\ \A v : /\ Switch(v).kind = "switch" /\ Feedback(v).kind = "feedback"
                  /\ Report(v).kind = "report"
    BY DEF NoFrame, RelayCall, Garbled, Poll, SensorError, Switch, Feedback, Report
  <1>3. \A f, g : Reading(n) \notin Overlaid(f, g)
    BY <1>1, <1>2 DEF Overlaid
  <1>4. \A m, h : Answer(m, h) = Reading(n) => m = n
    BY <1>1, <1>2 DEF Answer, Reading
  <1> QED BY <1>1, <1>2, <1>3, <1>4

LEMMA OwingIsBusy == ASSUME NEW n \in Node, Owes(n) PROVE NodesBusy
  BY LeadingFrames DEF Owes, NodesBusy

(* The node after a node's successor is the one before it. *)
LEMMA ThreeNodes ==
    ASSUME NEW e \in Node, NEW n \in Node
    PROVE  /\ NextNode(e) # e
           /\ n \in {e, NextNode(e)} \/ NextNode(n) = e
           /\ n = NextNode(NextNode(e)) <=> NextNode(n) = e
           /\ NextNode(n) = NextNode(e) => n = e
  BY DEF Node, NextNode

-----------------------------------------------------------------------------
(* What the steps do to the answers owed and held                          *)

LEMMA SendingOwes ==
    ASSUME AirTypeOK, NEW f, GatewaySends(f), NEW n \in Node
    PROVE  /\ Owes(n)' => Owes(n) \/ Leads(f, n)
           /\ f # Reading(n) => ~Holds(n)'
  <1>1. PICK g \in Overlaid(ether[Gateway], f), T \in Heard(Gateway, f) :
             ether' = Landed([ether EXCEPT ![Gateway] = g], T, f)
    BY DEF GatewaySends
  <1>2. \A s \in Node : ether'[s] \in {f, ether[s]}
    BY <1>1 DEF Landed, AirTypeOK, Station, Node, Gateway
  <1>3. ether'[Gateway] \in {f, g}
    BY <1>1, RadiosAreStations DEF Landed, AirTypeOK
  <1>4. g # Reading(n)
    BY ReadingFrames
  <1> QED BY <1>2, <1>3, <1>4 DEF Owes, Holds

LEMMA ReplyingOwes ==
    ASSUME AirTypeOK, NEW m \in Node, NEW f, NodeReplies(m, f), NEW n \in Node
    PROVE  /\ Owes(n)' => Owes(n) \/ Leads(f, n)
           /\ Holds(n)' => Holds(n) \/ f = Reading(n)
  <1>1. PICK T \in Heard(m, f) : ether' = Landed([ether EXCEPT ![m] = NoFrame], T, f)
    BY DEF NodeReplies
  <1>2. \A s \in Node : ether'[s] \in {f, ether[s], NoFrame}
    BY <1>1, RadiosAreStations DEF Landed, AirTypeOK
  <1>3. ether'[Gateway] \in {f, ether[Gateway]}
    BY <1>1 DEF Landed, AirTypeOK, Station, Node, Gateway
  <1> QED BY <1>2, <1>3, LeadingFrames DEF Owes, Holds

LEMMA EmptyingOwes ==
    ASSUME AirTypeOK, NEW s \in Station, ether' = [ether EXCEPT ![s] = NoFrame], NEW n \in Node
    PROVE  (Owes(n)' => Owes(n)) /\ (Holds(n)' => Holds(n))
  <1>1. \A t \in Station : ether'[t] \in {ether[t], NoFrame}
    BY DEF AirTypeOK
  <1> QED BY <1>1, LeadingFrames, ReadingFrames, RadiosAreStations DEF Owes, Holds

(* No step but a poll makes a node owe an answer, and the gateway holds    *)
(* none that was not owed.                                                 *)
OwesLess == \A n \in Node : (Owes(n)' => Owes(n)) /\ (Holds(n)' => Holds(n) \/ Owes(n))

LEMMA AirLeft == ether' = ether => OwesLess
  BY DEF OwesLess, Owes, Holds

LEMMA GatewayOwesLess == TypeOK /\ (Settling \/ Passing) => OwesLess
  <1> SUFFICES ASSUME TypeOK, Settling \/ Passing  PROVE OwesLess
    OBVIOUS
  <1>1. ASSUME ether' = [ether EXCEPT ![Gateway] = NoFrame]  PROVE OwesLess
    BY <1>1, EmptyingOwes, RadiosAreStations DEF OwesLess, TypeOK
  <1>2. ASSUME NEW v \in {0, 1}, GatewaySends(Switch(v))  PROVE OwesLess
    BY <1>2, SendingOwes, LeadingFrames, ReadingFrames DEF OwesLess, TypeOK
  <1>3. CASE Settling \/ ReceiveError \/ ReceiveReport \/ ReceiveOther
    BY <1>1, <1>3, AirLeft DEF Settling, ReceiveReading, GiveUp, ReceiveError, ReceiveReport,
                               ReceiveOther, parsePacket, airVars
  <1>4. CASE RemoteChange \/ \E v \in {0, 1} : Button3Press(v)
    <2>1. PICK v \in {0, 1} : GatewaySends(Switch(v))
      BY <1>4 DEF RemoteChange, Button3Press
    <2> QED BY <2>1, <1>2
  <1>5. CASE \/ Button3Idle \/ Button0Idle \/ sw_mode \/ parsePacketNone \/ ManualMode
             \/ RoundNotDue \/ NoRound \/ Waiting \/ RemoteSkip \/ RefreshSkip \/ RefreshMode
    BY <1>5, AirLeft DEF Button3Idle, Button0Idle, sw_mode, parsePacketNone, ManualMode,
                         RoundNotDue, NoRound, Waiting, RemoteSkip, RefreshSkip, RefreshMode,
                         airVars
  <1> QED BY <1>3, <1>4, <1>5 DEF Passing

LEMMA FieldOwesLess == TypeOK /\ FieldNext => OwesLess
  <1> SUFFICES ASSUME TypeOK, FieldNext  PROVE OwesLess
    OBVIOUS
  <1>1. ASSUME NEW n \in Node, AnswerPoll(n)  PROVE OwesLess
    <2>1. Owes(n)
      BY <1>1 DEF AnswerPoll, Owes, Leads
    <2> QED BY <1>1, <2>1, ReplyingOwes, LeadingFrames, ReadingFrames
            DEF AnswerPoll, OwesLess, TypeOK
  <1>2. CASE RelayPoll
    <2>1. Owes(3)
      BY <1>2, RadiosAreStations DEF RelayPoll, Owes, Leads
    <2> QED BY <1>2, <2>1, ReplyingOwes, LeadingFrames, ReadingFrames, RadiosAreStations
            DEF RelayPoll, OwesLess, TypeOK
  <1>3. CASE AnswerRelay
    <2>1. Owes(3)
      BY <1>3, RadiosAreStations DEF AnswerRelay, Owes, Leads
    <2> QED BY <1>3, <2>1, ReplyingOwes, LeadingFrames, ReadingFrames, RadiosAreStations
            DEF AnswerRelay, OwesLess, TypeOK
  <1>4. CASE AcceptSwitch
    BY <1>4, EmptyingOwes, RadiosAreStations DEF AcceptSwitch, OwesLess, TypeOK
  <1>5. CASE SendFeedback
    <2>1. PICK T \in Heard(1, Feedback(ssr)) : ether' = Landed(ether, T, Feedback(ssr))
      BY <1>5 DEF SendFeedback
    <2>2. \A s \in Station : ether'[s] \in {ether[s], Feedback(ssr)}
      BY <2>1 DEF Landed
    <2> QED BY <2>2, LeadingFrames, ReadingFrames, RadiosAreStations DEF OwesLess, Owes, Holds
  <1>6. CASE \/ NoticeCommand \/ ApplyCommand \/ MeasureCurrent \/ FinishCommand
             \/ \E n \in Node : Sample(n)
    BY <1>6, AirLeft DEF NoticeCommand, ApplyCommand, MeasureCurrent, FinishCommand, Sample,
                         airVars
  <1> QED BY <1>1, <1>2, <1>3, <1>4, <1>5, <1>6
          DEF FieldNext, Handlers, Answering, Loops, RelayLoop

LEMMA ForeignOwesLess == ForeignReport => OwesLess
  <1> SUFFICES ASSUME ForeignReport  PROVE OwesLess
    OBVIOUS
  <1>1. PICK v, T : ether' = Landed(ether, T, Report(v))
    BY DEF ForeignReport
  <1>2. \A s \in Station : ether'[s] \in {ether[s], Report(v)}
    BY <1>1 DEF Landed
  <1> QED BY <1>2, LeadingFrames, ReadingFrames, RadiosAreStations DEF OwesLess, Owes, Holds

-----------------------------------------------------------------------------
(* An answer of the expected node is one to a poll of its turn             *)

(* An exchange is over before the gateway sends the next poll but one.     *)
PromptAnswers == AnswerTicks < RetryInterval

(* What is known when node n owes an answer: its exchange is as old as the *)
(* last poll, and as old as the one before if that was not n's.            *)
OwedSince(n) ==
    /\ underway >= gap1
    /\ n = expectedNode => currentRetry > 0
    /\ n = NextNode(expectedNode) => currentRetry = 0 /\ underway >= gap2
    /\ NextNode(n) = expectedNode /\ currentRetry > 0 => underway >= gap2

HeldSince(n) ==
    /\ n = expectedNode => currentRetry > 0
    /\ n = NextNode(expectedNode) => currentRetry = 0

AskInv ==
    /\ TimeInv
    /\ \A n \in Node : (Owes(n) => OwedSince(n)) /\ (Holds(n) => HeldSince(n))

LEMMA AskInvInit == HInit => AskInv
  <1> SUFFICES ASSUME HInit  PROVE AskInv
    OBVIOUS
  <1>1. \A s \in Station : ether[s] = NoFrame
    BY DEF HInit, Init, AirInit
  <1>2. \A n \in Node : ~Owes(n) /\ ~Holds(n)
    BY <1>1, LeadingFrames, ReadingFrames, RadiosAreStations DEF Owes, Holds
  <1> QED BY <1>2, TimeInvInit DEF AskInv

(* The exchange goes on as long as there is a frame with a node. *)
LEMMA WatchKeeps == ASSUME NEW n \in Node, Watch, Owes(n)' PROVE underway' = underway
  <1>1. NodesBusy'
    BY LeadingFrames DEF Owes, NodesBusy
  <1> QED BY <1>1 DEF Watch

(* When a poll goes out, the exchange that began with the poll before the  *)
(* last is over.                                                           *)
LEMMA PollingOwes ==
    ASSUME PromptAnswers, AskInv, Polling
    PROVE  /\ gap2 = RetryInterval /\ underway < gap2
           /\ GatewaySends(Poll(expectedNode))
           /\ currentRetry' = currentRetry + 1 /\ expectedNode' = expectedNode
  <1>1. /\ sinceRound \in 0..RoundInterval /\ sinceResend \in 0..RetryInterval
        /\ gap2 \in 0..RetryInterval /\ underway \in 0..AnswerTicks
    BY DEF AskInv, TimeInv, TypeOK, GatewayTypeOK, HistoryTypeOK
  <1>2. gap2 = RetryInterval
    <2>1. CASE StartRound
      BY <1>1, <2>1, IntervalAssumption
      DEF StartRound, RoundDue, AskInv, TimeInv, GapsFollowTimers, AtMost
    <2>2. CASE Resend
      BY <1>1, <2>2 DEF Resend, ResendDue, AskInv, TimeInv, GapsFollowTimers
    <2> QED BY <2>1, <2>2 DEF Polling
  <1>3. underway < gap2
    BY <1>1, <1>2, AnswerAssumption, IntervalAssumption DEF PromptAnswers
  <1> QED BY <1>2, <1>3 DEF Polling, StartRound, Resend

LEMMA AskInvPolling == ASSUME PromptAnswers, AskInv, TimeInv', HPolling  PROVE AskInv'
  <1> SUFFICES ASSUME NEW n \in Node
               PROVE  (Owes(n)' => OwedSince(n)') /\ ~Holds(n)'
    BY DEF AskInv
  <1>1. Polling /\ Watch /\ gap1' = 0 /\ gap2' = gap1
    BY DEF HPolling, GatewayPart
  <1>2. /\ gap2 = RetryInterval /\ underway < gap2
        /\ GatewaySends(Poll(expectedNode))
        /\ currentRetry' = currentRetry + 1 /\ expectedNode' = expectedNode
    BY <1>1, PollingOwes
  <1>3. /\ currentRetry \in Nat /\ expectedNode \in Node /\ gap1 \in Nat /\ gap2 \in Nat
        /\ underway \in Nat /\ AirTypeOK
    BY AnswerAssumption, IntervalAssumption
    DEF AskInv, TimeInv, TypeOK, GatewayTypeOK, HistoryTypeOK
  <1>4. ~Holds(n)' /\ (Owes(n)' => Owes(n) \/ n = expectedNode)
    BY <1>2, <1>3, SendingOwes, LeadingFrames, ReadingFrames
  <1>5. ASSUME Owes(n)'  PROVE OwedSince(n)'
    <2>1. underway' = underway
      BY <1>1, <1>5, WatchKeeps
    <2>2. Owes(n) => OwedSince(n)
      BY DEF AskInv
    <2>3. n # NextNode(expectedNode)
      BY <1>2, <1>3, <1>4, <1>5, <2>2, ThreeNodes DEF OwedSince
    <2>4. NextNode(n) = expectedNode => underway >= gap1
      BY <1>3, <1>4, <1>5, <2>2, ThreeNodes DEF OwedSince
    <2> QED BY <1>1, <1>2, <1>3, <2>1, <2>3, <2>4 DEF OwedSince
  <1> QED BY <1>4, <1>5

(* The reading that ends a turn was asked for in it. *)
LEMMA ReadingWasAsked == ASSUME AskInv, ReceiveReading  PROVE currentRetry > 0
  <1>1. expectedNode \in Node /\ ether[Gateway] \in Frame
    BY RadiosAreStations DEF AskInv, TimeInv, TypeOK, GatewayTypeOK, AirTypeOK
  <1>2. ether[Gateway].kind = "reading" /\ ether[Gateway].arg = expectedNode
    BY <1>1 DEF ReceiveReading, Expected, ParsedId, Node
  <1>3. Holds(expectedNode)
    BY <1>1, <1>2 DEF Holds, Reading, Frame
  <1> QED BY <1>1, <1>3 DEF AskInv, HeldSince

LEMMA AskInvSettling == ASSUME AskInv, TimeInv', HSettling  PROVE AskInv'
  <1> SUFFICES ASSUME NEW n \in Node
               PROVE  (Owes(n)' => OwedSince(n)') /\ (Holds(n)' => HeldSince(n)')
    BY DEF AskInv
  <1>1. Settling /\ Watch /\ UNCHANGED <<gap1, gap2>>
    BY DEF HSettling, GatewayPart
  <1>2. currentRetry \in Nat /\ expectedNode \in Node /\ TypeOK
    BY DEF AskInv, TimeInv, TypeOK, GatewayTypeOK
  <1>3. currentRetry' = 0 /\ expectedNode' = NextNode(expectedNode)
    BY <1>1 DEF Settling, ReceiveReading, GiveUp
  <1>4. Owes(n)' => Owes(n)
    BY <1>1, <1>2, GatewayOwesLess DEF OwesLess
  <1>5. /\ Holds(n)' => Holds(n)
        /\ currentRetry > 0
    <2>1. CASE ReceiveReading
      <3>1. ether' = [ether EXCEPT ![Gateway] = NoFrame]
        BY <2>1 DEF ReceiveReading, parsePacket
      <3>2. Holds(n)' => Holds(n)
        BY <1>2, <3>1, EmptyingOwes, RadiosAreStations DEF TypeOK
      <3> QED BY <2>1, <3>2, ReadingWasAsked
    <2>2. CASE GiveUp
      <3>1. currentRetry > 0
        BY <2>2, <1>2, MaxRetryAssumption DEF GiveUp
      <3> QED BY <2>2, <3>1 DEF GiveUp, airVars, Holds
    <2> QED BY <1>1, <2>1, <2>2 DEF Settling
  <1>6. ASSUME Owes(n)'  PROVE OwedSince(n)'
    <2>1. underway' = underway /\ OwedSince(n)
      BY <1>1, <1>4, <1>6, WatchKeeps DEF AskInv
    <2>2. n # NextNode(expectedNode)
      BY <1>5, <2>1, <1>2 DEF OwedSince
    <2>3. n = NextNode(NextNode(expectedNode)) => underway >= gap2
      BY <1>2, <1>5, <2>1, ThreeNodes DEF OwedSince
    <2> QED BY <1>1, <1>3, <2>1, <2>2, <2>3 DEF OwedSince
  <1>7. ASSUME Holds(n)'  PROVE HeldSince(n)'
    BY <1>2, <1>3, <1>5, <1>7 DEF AskInv, HeldSince
  <1> QED BY <1>6, <1>7

LEMMA AskInvRestart == ASSUME AskInv, TimeInv', HRestart  PROVE AskInv'
  <1> SUFFICES ASSUME NEW n \in Node  PROVE ~Owes(n)' /\ ~Holds(n)'
    BY DEF AskInv
  <1>1. /\ ~NodesBusy
        /\ ether' = [ether EXCEPT ![Gateway] = NoFrame]
        /\ AirTypeOK
    BY DEF HRestart, GatewayPart, clear_wifi, AskInv, TimeInv, TypeOK
  <1>2. ~Owes(n)'
    BY <1>1, EmptyingOwes, OwingIsBusy, RadiosAreStations
  <1>3. ether'[Gateway] = NoFrame
    BY <1>1, RadiosAreStations DEF AirTypeOK
  <1> QED BY <1>2, <1>3, ReadingFrames DEF Holds

LEMMA AskInvTick == ASSUME AskInv, TimeInv', HTick  PROVE AskInv'
  <1> SUFFICES ASSUME NEW n \in Node
               PROVE  (Owes(n)' => OwedSince(n)') /\ (Holds(n)' => HeldSince(n)')
    BY DEF AskInv
  <1>1. /\ UNCHANGED <<expectedNode, currentRetry, ether>>
        /\ underway' = IF NodesBusy THEN underway + 1 ELSE 0
        /\ gap1' = AtMost(gap1 + 1, RetryInterval) /\ gap2' = AtMost(gap2 + 1, RetryInterval)
    BY DEF HTick, Tick, turnVars, airVars, Older
  <1>2. /\ gap1 \in Nat /\ gap2 \in Nat /\ RetryInterval \in Nat /\ underway \in Nat
    BY AnswerAssumption, IntervalAssumption DEF AskInv, TimeInv, TypeOK, HistoryTypeOK
  <1>3. gap1' <= gap1 + 1 /\ gap2' <= gap2 + 1 /\ gap1' \in Nat /\ gap2' \in Nat
    BY <1>1, <1>2 DEF AtMost
  <1>4. ASSUME Owes(n)'  PROVE OwedSince(n)'
    <2>1. Owes(n)
      BY <1>1, <1>4 DEF Owes
    <2>2. underway' = underway + 1 /\ OwedSince(n)
      BY <1>1, <2>1, OwingIsBusy DEF AskInv
    <2> QED BY <1>1, <1>2, <1>3, <2>2 DEF OwedSince
  <1>5. ASSUME Holds(n)'  PROVE HeldSince(n)'
    BY <1>1, <1>5 DEF Holds, HeldSince, AskInv
  <1> QED BY <1>4, <1>5

(* A step that leaves the turn and the gaps alone and owes less. *)
LEMMA AskInvQuiet ==
    ASSUME AskInv, TimeInv', OwesLess, Watch \/ UNCHANGED underway,
           UNCHANGED <<expectedNode, currentRetry, gap1, gap2>>
    PROVE  AskInv'
  <1> SUFFICES ASSUME NEW n \in Node
               PROVE  (Owes(n)' => OwedSince(n)') /\ (Holds(n)' => HeldSince(n)')
    BY DEF AskInv
  <1>1. ASSUME Owes(n)'  PROVE OwedSince(n)'
    BY <1>1, WatchKeeps DEF OwesLess, OwedSince, AskInv
  <1>2. Owes(n) => HeldSince(n)
    BY DEF AskInv, OwedSince, HeldSince
  <1>3. ASSUME Holds(n)'  PROVE HeldSince(n)'
    <2>1. HeldSince(n)
      BY <1>2, <1>3 DEF OwesLess, AskInv
    <2> QED BY <2>1 DEF HeldSince
  <1> QED BY <1>1, <1>3

LEMMA PassingKeepsTurn == Passing => UNCHANGED <<expectedNode, currentRetry>>
  BY DEF Passing, Button3Idle, Button0Idle, sw_mode, Button3Press, parsePacketNone,
         ReceiveError, ReceiveReport, ReceiveOther, parsePacket, ManualMode, RoundNotDue,
         NoRound, Waiting, RemoteSkip, RemoteChange, RefreshSkip, RefreshMode, turnVars

LEMMA AskInvNext ==
    ASSUME PromptAnswers, AskInv, [HNext]_hvars  PROVE AskInv'
  <1>1. TimeInv' /\ TypeOK
    BY TimeInvNext DEF AskInv, TimeInv
  <1>2. CASE HOther
    <2>1. OwesLess /\ (Watch \/ UNCHANGED underway)
      BY <1>1, <1>2, GatewayOwesLess, FieldOwesLess, ForeignOwesLess, AirLeft
      DEF HOther, GatewayPart, FieldStep, FieldPart, AppStep, ForeignReport, airVars
    <2>2. UNCHANGED <<expectedNode, currentRetry, gap1, gap2>>
      BY <1>2, PassingKeepsTurn
      DEF HOther, GatewayPart, FieldStep, FieldPart, AppStep, ForeignReport, gatewayVars,
          historyVars
    <2> QED BY <1>1, <2>1, <2>2, AskInvQuiet
  <1>3. CASE UNCHANGED hvars
    BY <1>1, <1>3, AskInvQuiet, AirLeft DEF hvars, vars, historyVars, gatewayVars, airVars
  <1> QED BY <1>1, <1>2, <1>3, AskInvPolling, AskInvSettling, AskInvRestart, AskInvTick
          DEF HNext

(* A reading ends a turn only if its node was polled in that turn          *)
(* (lora_functions.h:165), provided an exchange is over within a retry     *)
(* interval: what is left of an earlier turn is gone or overlaid by then.  *)
THEOREM LateAnswersAreSeen == PromptAnswers /\ HSpec => AskedBeforeAccepted
  <1> SUFFICES ASSUME PromptAnswers  PROVE HSpec => AskedBeforeAccepted
    OBVIOUS
  <1>1. AskInv /\ [HNext]_hvars => AskInv'
    BY AskInvNext
  <1>2. AskInv /\ [HNext]_hvars => [ReceiveReading => currentRetry > 0]_hvars
    BY ReadingWasAsked
  <1> QED BY <1>1, <1>2, AskInvInit, PTL DEF HSpec, AskedBeforeAccepted

-----------------------------------------------------------------------------
(* A round settles at most three turns                                     *)

(* The third turn settled leaves no turn under way until the retry block   *)
(* ends the round.                                                         *)
RoundInv ==
    flag_gui1s =>
        /\ settled <= node_count_send
        /\ settled <= 3
        /\ settled = 3 => currentRetry = 0 \/ pc = "retry"

(* The retry block ends a full round before anything else. *)
LEMMA ResetKeepsRound ==
    ASSUME settled \in Nat, node_count_send \in Nat, flag_gui1s, RoundInv,
           flag_gui1s' = FlagAfterReset, node_count_send' = CountAfterReset,
           UNCHANGED settled
    PROVE  RoundInv'
  <1>1. CASE node_count_send > 2
    BY <1>1 DEF FlagAfterReset, RoundIsFull, RoundInv
  <1>2. CASE ~(node_count_send > 2)
    <2>1. node_count_send' = node_count_send
      BY <1>2 DEF CountAfterReset, RoundIsFull
    <2>2. settled <= node_count_send /\ settled < 3
      BY <1>2 DEF RoundInv
    <2> QED BY <2>1, <2>2 DEF RoundInv
  <1> QED BY <1>1, <1>2

LEMMA RoundInvPolling == ASSUME AskInv, RoundInv, HPolling  PROVE RoundInv'
  <1>1. /\ settled \in Nat /\ node_count_send \in Nat /\ flag_gui1s \in BOOLEAN
        /\ settled' = IF flag_gui1s THEN settled ELSE 0
    BY DEF AskInv, TimeInv, TypeOK, GatewayTypeOK, HistoryTypeOK, HPolling
  <1>2. CASE StartRound
    BY <1>1, <1>2 DEF StartRound, RoundInv
  <1>3. CASE Resend
    BY <1>1, <1>3, ResetKeepsRound DEF Resend, RetryBlock
  <1> QED BY <1>2, <1>3 DEF HPolling, GatewayPart, Polling

LEMMA RoundInvSettling == ASSUME AskInv, RoundInv, HSettling  PROVE RoundInv'
  <1>1. /\ settled \in Nat /\ node_count_send \in Nat
        /\ settled' = IF flag_gui1s THEN settled + 1 ELSE settled
    BY DEF AskInv, TimeInv, TypeOK, GatewayTypeOK, HistoryTypeOK, HSettling
  <1>2. CASE ReceiveReading
    <2>1. currentRetry > 0
      BY <1>2, ReadingWasAsked
    <2>2. /\ pc = "receive" /\ flag_gui1s' = flag_gui1s /\ currentRetry' = 0
          /\ node_count_send' = node_count_send + 1
      BY <1>2 DEF ReceiveReading, parsePacket
    <2> QED BY <1>1, <2>1, <2>2 DEF RoundInv
  <1>3. CASE GiveUp
    BY <1>3 DEF GiveUp, RoundInv
  <1> QED BY <1>2, <1>3 DEF HSettling, GatewayPart, Settling

LEMMA RoundInvPassing ==
    ASSUME AskInv, RoundInv, Passing, UNCHANGED settled  PROVE RoundInv'
  <1>1. settled \in Nat /\ node_count_send \in Nat /\ currentRetry \in Nat
    BY DEF AskInv, TimeInv, TypeOK, GatewayTypeOK, HistoryTypeOK
  <1>2. CASE Waiting
    BY <1>1, <1>2, ResetKeepsRound DEF Waiting, RetryBlock
  <1>3. CASE ReceiveError
    BY <1>1, <1>3 DEF ReceiveError, parsePacket, RoundInv
  <1>4. CASE NoRound
    BY <1>4 DEF NoRound, turnVars, RoundInv
  <1>5. CASE \/ Button3Idle \/ Button0Idle \/ sw_mode \/ (\E v \in {0, 1} : Button3Press(v))
             \/ parsePacketNone \/ ReceiveReport \/ ReceiveOther \/ ManualMode \/ RoundNotDue
             \/ RemoteSkip \/ RemoteChange \/ RefreshSkip \/ RefreshMode
    <2>1. UNCHANGED turnVars /\ pc # "retry"
      BY <1>5 DEF Button3Idle, Button0Idle, sw_mode, Button3Press, parsePacketNone,
                  ReceiveReport, ReceiveOther, parsePacket, ManualMode, RoundNotDue, RemoteSkip,
                  RemoteChange, RefreshSkip, RefreshMode
    <2> QED BY <1>1, <2>1 DEF turnVars, RoundInv
  <1> QED BY <1>2, <1>3, <1>4, <1>5 DEF Passing

LEMMA RoundInvNext == ASSUME AskInv, RoundInv, [HNext]_hvars  PROVE RoundInv'
  <1>1. ASSUME UNCHANGED <<turnVars, pc, settled>>  PROVE RoundInv'
    BY <1>1 DEF turnVars, RoundInv
  <1>2. CASE HRestart
    BY <1>2 DEF HRestart, GatewayPart, clear_wifi, RoundInv
  <1>3. CASE HTick \/ UNCHANGED hvars
    BY <1>1, <1>3 DEF HTick, Tick, hvars, vars, gatewayVars, turnVars, historyVars
  <1>4. CASE HOther
    BY <1>1, <1>4, RoundInvPassing
    DEF HOther, GatewayPart, FieldStep, FieldPart, AppStep, ForeignReport, gatewayVars,
        turnVars, historyVars
  <1> QED BY <1>2, <1>3, <1>4, RoundInvPolling, RoundInvSettling DEF HNext

(* A round settles at most three turns (main.cpp:47-51), whatever errors,  *)
(* losses, mode changes and give-ups fall into it.                         *)
THEOREM RoundsAreShort == PromptAnswers /\ HSpec => []RoundSettlesThree
  <1> SUFFICES ASSUME PromptAnswers  PROVE HSpec => []RoundSettlesThree
    OBVIOUS
  <1>1. HInit => AskInv /\ RoundInv
    BY AskInvInit DEF HInit, Init, GatewayInit, RoundInv
  <1>2. AskInv /\ RoundInv /\ [HNext]_hvars => AskInv' /\ RoundInv'
    BY AskInvNext, RoundInvNext
  <1>3. RoundInv => RoundSettlesThree
    BY DEF RoundInv, RoundSettlesThree
  <1> QED BY <1>1, <1>2, <1>3, PTL DEF HSpec

-----------------------------------------------------------------------------
(* The network implements the round robin                                  *)

LEMMA PollingIsAsk ==
    ASSUME TypeOK, RetryBounded, Polling  PROVE Turns!Ask
  <1>1. currentRetry \in Nat /\ MaxRetry \in Nat
    BY MaxRetryAssumption DEF TypeOK, GatewayTypeOK
  <1>2. currentRetry <= MaxRetry
    BY <1>1 DEF Polling, StartRound, Resend, TriesLeft, RetryBounded
  <1>3. currentRetry' = currentRetry + 1 /\ expectedNode' = expectedNode /\ cloud' = cloud
    BY DEF Polling, StartRound, Resend
  <1> QED BY <1>2, <1>3 DEF Turns!Ask

LEMMA StoredIsSettled ==
    ASSUME TypeOK, NEW v \in {0, 1}, PutStatus(expectedNode, v),
           expectedNode' = NextNode(expectedNode), currentRetry' = 0
    PROVE  Turns!Settle(v)
  <1>1. PICK stored \in CloudOutcomes :
            cloud' = IF stored THEN [cloud EXCEPT !.stt = Marked(@, expectedNode, v)] ELSE cloud
    BY DEF PutStatus
  <1>2. cloud'.stt \in {cloud.stt, [cloud.stt EXCEPT ![expectedNode] = v]}
    BY <1>1 DEF Marked, TypeOK, CloudTypeOK
  <1> QED BY <1>2 DEF Turns!Settle, Turns!NextNode, NextNode

LEMMA SettlingIsSettle ==
    ASSUME AskInv, Settling  PROVE Turns!Hear \/ Turns!Miss
  <1>1. TypeOK /\ currentRetry \in Nat /\ MaxRetry \in Nat
    BY MaxRetryAssumption DEF AskInv, TimeInv, TypeOK, GatewayTypeOK
  <1>2. CASE ReceiveReading
    BY <1>1, <1>2, ReadingWasAsked, StoredIsSettled DEF ReceiveReading, Turns!Hear
  <1>3. CASE GiveUp
    BY <1>1, <1>3, StoredIsSettled DEF GiveUp, Turns!Miss
  <1> QED BY <1>2, <1>3 DEF Settling

LEMMA OthersStutter ==
    ASSUME TypeOK, Passing \/ AppStep  PROVE UNCHANGED Turns!rvars
  <1>1. ASSUME UNCHANGED <<expectedNode, currentRetry>>, cloud'.stt = cloud.stt
        PROVE  UNCHANGED Turns!rvars
    BY <1>1 DEF Turns!rvars
  <1>2. UNCHANGED <<expectedNode, currentRetry>>
    BY PassingKeepsTurn DEF AppStep, gatewayVars
  <1>3. CASE sw_mode \/ ReceiveReport \/ AppStep
    <2>1. cloud'.stt = cloud.stt
      BY <1>3 DEF sw_mode, PutModeString, ReceiveReport, PutDevice, AppStep, AppPutsMode,
                  AppPutsLed, TypeOK, CloudTypeOK
    <2> QED BY <1>1, <1>2, <2>1
  <1>4. CASE Passing /\ ~sw_mode /\ ~ReceiveReport
    <2>1. cloud' = cloud
      BY <1>4 DEF Passing, Button3Idle, Button0Idle, Button3Press, parsePacketNone,
                  ReceiveError, ReceiveOther, ManualMode, RoundNotDue, NoRound, Waiting,
                  RemoteSkip, RemoteChange, RefreshSkip, RefreshMode
    <2> QED BY <1>1, <1>2, <2>1
  <1> QED BY <1>3, <1>4

LEMMA TurnsStep ==
    ASSUME AskInv, RetryBounded, [HNext]_hvars  PROVE [Turns!Next]_(Turns!rvars)
  <1>1. TypeOK
    BY DEF AskInv, TimeInv
  <1>2. CASE HPolling
    BY <1>1, <1>2, PollingIsAsk DEF HPolling, GatewayPart, Turns!Next
  <1>3. CASE HSettling
    BY <1>3, SettlingIsSettle DEF HSettling, GatewayPart, Turns!Next
  <1>4. CASE HRestart
    BY <1>4 DEF HRestart, GatewayPart, clear_wifi, Turns!Next, Turns!Restart
  <1>5. CASE HOther
    <2>1. ASSUME FieldStep \/ ForeignReport  PROVE UNCHANGED Turns!rvars
      BY <2>1 DEF FieldStep, FieldPart, ForeignReport, gatewayVars, Turns!rvars
    <2> QED BY <1>1, <1>5, <2>1, OthersStutter DEF HOther, GatewayPart
  <1>6. CASE HTick \/ UNCHANGED hvars
    BY <1>6 DEF HTick, Tick, turnVars, hvars, vars, gatewayVars, Turns!rvars
  <1> QED BY <1>2, <1>3, <1>4, <1>5, <1>6 DEF HNext

(* The network implements the round robin (main.cpp:63-90,                 *)
(* lora_functions.h:160-173): under every interleaving of timers, answers, *)
(* failing calls, mode changes and restarts no turn is skipped, settled    *)
(* twice, or settled with an answer nobody asked for in it.                *)
THEOREM TurnsAreTaken == PromptAnswers /\ HSpec => TakesTurns
  <1> SUFFICES ASSUME PromptAnswers  PROVE HSpec => TakesTurns
    OBVIOUS
  <1>1. HInit => AskInv /\ Turns!Init
    BY AskInvInit DEF HInit, Init, GatewayInit, CloudInit, Turns!Init, Node, Turns!Node
  <1>2. AskInv /\ [HNext]_hvars => AskInv'
    BY AskInvNext
  <1>3. AskInv /\ RetryBounded /\ [HNext]_hvars => [Turns!Next]_(Turns!rvars)
    BY TurnsStep
  <1> QED BY <1>1, <1>2, <1>3, TriesAreBounded, PTL DEF HSpec, TakesTurns, Turns!Spec
=============================================================================
