---------------------------- MODULE PollHistory ----------------------------
(***************************************************************************)
(* The network with the history of its polling: how long ago the gateway   *)
(* sent its last two polls, and how many turns the round in progress has   *)
(* settled.  The history only watches: it disables no step.                *)
(***************************************************************************)
EXTENDS LoRaMesh

VARIABLES
    gap1,    \* age of the last poll, saturating at RetryInterval
    gap2,    \* age of the poll before it, saturating likewise
    settled  \* turns settled since flag_gui1s was last raised

historyVars == <<gap1, gap2, settled>>
hvars == <<vars, historyVars>>

HistoryTypeOK ==
    /\ gap1 \in 0..RetryInterval
    /\ gap2 \in 0..RetryInterval
    /\ settled \in Nat

HInit ==
    /\ Init
    /\ gap1 = RetryInterval
    /\ gap2 = RetryInterval
    /\ settled = 0

Older(gap, ticks) == AtMost(gap + ticks, RetryInterval)

HPolling ==
    /\ GatewayPart(Polling)
    /\ gap1' = 0
    /\ gap2' = gap1
    /\ settled' = IF flag_gui1s THEN settled ELSE 0

HSettling ==
    /\ GatewayPart(Settling)
    /\ settled' = IF flag_gui1s THEN settled + 1 ELSE settled
    /\ UNCHANGED <<gap1, gap2>>

(* The time since the restart has passed for the history too. *)
HRestart ==
    /\ GatewayPart(clear_wifi)
    /\ gap1' = Older(gap1, sinceRound')
    /\ gap2' = Older(gap2, sinceRound')
    /\ settled' = 0

HTick ==
    /\ Tick
    /\ gap1' = Older(gap1, 1)
    /\ gap2' = Older(gap2, 1)
    /\ UNCHANGED settled

HOther ==
    /\ GatewayPart(Passing) \/ FieldStep \/ AppStep \/ ForeignReport
    /\ UNCHANGED historyVars

HNext == HPolling \/ HSettling \/ HRestart \/ HTick \/ HOther

HSpec == HInit /\ [][HNext]_hvars

-----------------------------------------------------------------------------
(* Both timers may fire in one iteration (main.cpp:32-61), but never does  *)
(* the gateway send three polls within one retry interval: the poll before *)
(* the last is always at least that old when another goes out.             *)
PollRate == [][Polling => gap2 = RetryInterval]_hvars

(* The round and retry timers bound the ages of the last two polls; this   *)
(* is why PollRate holds.                                                  *)
GapsFollowTimers ==
    /\ gap1 >= AtMost(sinceRound, sinceResend)
    /\ gap2 >= AtMost(sinceRound, RetryInterval)
    /\ gap2 >= sinceResend

(* A sixth poll can slip in when a round starts between the fifth and the  *)
(* give-up that follows it (main.cpp:41, 60, 63), never a seventh: the     *)
(* iteration that sends it settles the turn.                               *)
RetryBounded ==
    currentRetry <= MaxRetry \/ (currentRetry = MaxRetry + 1 /\ pc = "retry" /\ flag_gui1s)

(* A reading ends a turn only if the gateway polled that node in that turn *)
(* (lora_functions.h:165): an answer to a poll of an earlier turn of the   *)
(* node is not taken for one.                                              *)
AskedBeforeAccepted == [][ReceiveReading => currentRetry > 0]_hvars

(* A round settles at most three turns (main.cpp:47-51), though the counter*)
(* that ends it also counts error frames and turns of no round.            *)
RoundSettlesThree == flag_gui1s => settled <= 3

(* A frame that makes its receiver answer for n, or pass the poll on.      *)
Leads(f, n) == f = Poll(n) \/ (n = 3 /\ f = RelayCall)

(* Some node has n's poll, or its relayed call, and is still to answer it. *)
Owes(n) == \E s \in Node : Leads(ether[s], n)

(* The message at main.cpp:65, "NO DATA FROM NODE": the node given up had  *)
(* the time to answer its last poll, that is, no answer is under way.      *)
NoDataMeansNoAnswer == [][GiveUp => ~Owes(expectedNode)]_hvars
=============================================================================
