----------------------------- MODULE FieldNodes -----------------------------
(***************************************************************************)
(* The three field nodes.  Each runs a loop that samples its sensors and a *)
(* receive handler, called from the radio's interrupt, that answers polls; *)
(* node 1's loop also drives the solid state relay of its pump on behalf   *)
(* of the commands the handler leaves in on_off and thuchien, and node 2's *)
(* handler passes the polls for node 3 on.                                 *)
(***************************************************************************)
EXTENDS Air

CONSTANTS
    Faulty,          \* the nodes whose sensor read may fail
    FeedbackRepeats  \* how often node 1 sends its feedback mark

ASSUME FaultyAssumption == Faulty \subseteq Node
ASSUME FeedbackAssumption == FeedbackRepeats \in Nat \ {0}

VARIABLES
    sensor,    \* [Node -> {"ok", "error"}]: what dataSensor holds
    on_off,    \* node 1: the value commanded last
    thuchien,  \* node 1: a command waits for the loop
    ssr,       \* node 1: the relay's pin
    pc1,       \* node 1: where its loop is
    burst      \* node 1: feedback marks still to send

fieldVars == <<sensor, on_off, thuchien, ssr, pc1, burst>>
relayVars == <<on_off, thuchien, ssr, pc1, burst>>

FieldTypeOK ==
    /\ sensor \in [Node -> {"ok", "error"}]
    /\ on_off \in {0, 1}
    /\ thuchien \in BOOLEAN
    /\ ssr \in {0, 1}
    /\ pc1 \in {"idle", "apply", "measure", "feedback", "finish"}
    /\ burst \in 0..FeedbackRepeats

Health(n) == {"ok"} \union (IF n \in Faulty THEN {"error"} ELSE {})

FieldInit ==
    /\ sensor \in {h \in [Node -> {"ok", "error"}] : \A n \in Node : h[n] \in Health(n)}
    /\ on_off = 0
    /\ thuchien = FALSE
    /\ ssr = 0
    /\ pc1 = "idle"
    /\ burst = 0

-----------------------------------------------------------------------------
(* The receive handlers *)

(* Nodes 1 and 2 answer their own poll with the last sample. *)
AnswerPoll(n) ==
    /\ n \in {1, 2}
    /\ ether[n] = Poll(n)
    /\ NodeReplies(n, Answer(n, sensor[n]))
    /\ UNCHANGED fieldVars

(* Node 3 does not know its poll, "N3": node 2 calls it with "N#". *)
RelayPoll ==
    /\ ether[2] = Poll(3)
    /\ NodeReplies(2, RelayCall)
    /\ UNCHANGED fieldVars

AnswerRelay ==
    /\ ether[3] = RelayCall
    /\ NodeReplies(3, Answer(3, sensor[3]))
    /\ UNCHANGED fieldVars

AcceptSwitch ==
    /\ ether[1].kind = "switch"
    /\ on_off' = ether[1].arg
    /\ thuchien' = TRUE
    /\ ether' = [ether EXCEPT ![1] = NoFrame]
    /\ UNCHANGED <<sensor, ssr, pc1, burst, radio>>

-----------------------------------------------------------------------------
(* The loops; a pending interrupt of a node is served before its loop *)

Sample(n) ==
    /\ ether[n] = NoFrame
    /\ n = 1 => pc1 = "idle"
    /\ \E h \in Health(n) : sensor' = [sensor EXCEPT ![n] = h]
    /\ UNCHANGED <<relayVars, airVars>>

(* if (thuchien) *)
NoticeCommand ==
    /\ ether[1] = NoFrame
    /\ pc1 = "idle"
    /\ thuchien
    /\ pc1' = "apply"
    /\ UNCHANGED <<sensor, on_off, thuchien, ssr, burst, airVars>>

ApplyInverted ==  \* slip: the two branches exchanged
    /\ ether[1] = NoFrame
    /\ pc1 = "apply"
    /\ ssr' = 1 - on_off
    /\ pc1' = "measure"
    /\ UNCHANGED <<sensor, on_off, thuchien, burst, airVars>>

(* on_off is compared with both of its values, and ON_SSR or OFF_SSR run. *)
ApplyCommand ==
    /\ ether[1] = NoFrame
    /\ pc1 = "apply"
    /\ ssr' = on_off
    /\ pc1' = "measure"
    /\ UNCHANGED <<sensor, on_off, thuchien, burst, airVars>>

(* calcIrms either confirms that the pump did as told, which starts the    *)
(* feedback and takes the radio out of receive mode, or it does not.       *)
MeasureCurrent ==
    /\ ether[1] = NoFrame
    /\ pc1 = "measure"
    /\ \/ /\ pc1' = "feedback"
          /\ burst' = FeedbackRepeats
          /\ Idles(1)
       \/ /\ pc1' = "finish"
          /\ UNCHANGED <<burst, radio>>
    /\ UNCHANGED <<sensor, on_off, thuchien, ssr, ether>>

SendFeedbackUncounted ==  \* slip: the loop counter not advanced
    /\ pc1 = "feedback"
    /\ ether' \in {Landed(ether, T, Feedback(ssr)) : T \in Heard(1, Feedback(ssr))}
    /\ UNCHANGED <<fieldVars, radio>>

SendFeedback ==
    /\ pc1 = "feedback"
    /\ burst > 0
    /\ \E T \in Heard(1, Feedback(ssr)) : ether' = Landed(ether, T, Feedback(ssr))
    /\ burst' = burst - 1
    /\ pc1' = IF burst' = 0 THEN "finish" ELSE "feedback"
    /\ UNCHANGED <<sensor, on_off, thuchien, ssr, radio>>

(* thuchien = 0; LoRa.receive() *)
FinishCommand ==
    /\ ether[1] = NoFrame
    /\ pc1 = "finish"
    /\ thuchien' = FALSE
    /\ Listens(1)
    /\ pc1' = "idle"
    /\ UNCHANGED <<sensor, on_off, ssr, burst, ether>>

-----------------------------------------------------------------------------
Answering == (\E n \in Node : AnswerPoll(n)) \/ RelayPoll \/ AnswerRelay
Handlers  == Answering \/ AcceptSwitch

RelayLoop ==
    NoticeCommand \/ ApplyCommand \/ MeasureCurrent \/ SendFeedback \/ FinishCommand
Loops == RelayLoop \/ \E n \in Node : Sample(n)

FieldNext == Handlers \/ Loops
=============================================================================
