----------------------------- MODULE LoRaFrames -----------------------------
(***************************************************************************)
(* The stations of the network and the frames they exchange.               *)
(*                                                                         *)
(* Every frame is a short text in the code.  The firmware tells frames     *)
(* apart by whole-string comparison (nodes) or by searching for a mark     *)
(* (gateway); a frame is here a record of its kind and the one argument    *)
(* those tests depend on, and a sensor value is left out.                  *)
(***************************************************************************)
EXTENDS Integers

Gateway == 0
Node    == 1..3
Station == {Gateway} \union Node

(* The gateway's polling order: expectedNode = (expectedNode % 3) + 1. *)
NextNodeNoWrap(n) == n + 1         \* slip: the modulus forgotten
NextNodeOfTwo(n)  == (n % 2) + 1   \* slip: a modulus of one node too few
NextNode(n) == (n % 3) + 1

Kind == {"none", "poll", "switch", "reading", "error", "relay", "feedback",
         "report", "garbled"}
OnOff == {"switch", "feedback", "report"}  \* the kinds that say on or off

Frame == {f \in [kind : Kind, arg : 0..3] : f.kind \in OnOff => f.arg \in {0, 1}}

NoFrame        == [kind |-> "none",     arg |-> 0]
Poll(n)        == [kind |-> "poll",     arg |-> n]  \* "N1" "N2" "N3"
Switch(v)      == [kind |-> "switch",   arg |-> v]  \* "N1ON" (1), "N1OFF" (0)
Reading(n)     == [kind |-> "reading",  arg |-> n]  \* "1/25.1@60.2*40#415"
SensorError(n) == [kind |-> "error",    arg |-> n]  \* "1/ERROR SHT30"
RelayCall      == [kind |-> "relay",    arg |-> 0]  \* "N#", node 2 to node 3
Feedback(v)    == [kind |-> "feedback", arg |-> v]  \* "@" (1), "#" (0)
Report(v)      == [kind |-> "report",   arg |-> v]  \* "^" (1), "~" (0)
Garbled        == [kind |-> "garbled",  arg |-> 0]  \* no mark, no number

(* What a node puts after "n/" is the text its sensor read returned, which *)
(* contains "ERROR" when the read failed.                                  *)
Answer(n, health) == IF health = "ok" THEN Reading(n) ELSE SensorError(n)

(* The number before the slash as the gateway parses it; a text without a  *)
(* leading number parses to 0, the number of no node.                      *)
ParsedId(f) == IF f.kind = "reading" THEN f.arg ELSE 0

(* Which texts the receive handler of a station does something with. *)
Reacts(s, f) ==
    CASE s = Gateway -> f.kind \notin {"none", "poll", "switch"}
      [] s = 1       -> f = Poll(1) \/ f.kind = "switch"
      [] s = 2       -> f \in {Poll(2), Poll(3)}
      [] s = 3       -> f = RelayCall

(* The radio has one FIFO, and a transmission is written over the first    *)
(* bytes of a frame that was received and not read yet: the two bytes of a *)
(* poll cover the number and the slash, the longer switch commands may or  *)
(* may not cover the word ERROR too.                                       *)
Overlaid(unread, sent) ==
    {f \in {NoFrame, SensorError(0), Garbled} :
        /\ f = NoFrame <=> unread = NoFrame
        /\ f = SensorError(0) => unread.kind = "error"
        /\ f = Garbled /\ unread.kind = "error" => sent.kind = "switch"}
=============================================================================
