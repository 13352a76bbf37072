-------------------------------- MODULE Air --------------------------------
(***************************************************************************)
(* The LoRa channel and the four transceivers, as the driver leaves them   *)
(* between calls.                                                          *)
(*                                                                         *)
(* A transceiver holds at most one received frame, until its station reads *)
(* it.  It is in standby once the driver has sent (beginPacket, endPacket) *)
(* or found a packet (parsePacket), until the station calls parsePacket or *)
(* receive.  The instant of a transmission is the one at which its frame   *)
(* is complete, more than half a second after it began, so that a receiver *)
(* must have been on before: one that parsePacket has only just opened     *)
(* receives nothing until some time has passed.  Frames to a Lossy station *)
(* may vanish.                                                             *)
(***************************************************************************)
EXTENDS LoRaFrames

CONSTANTS
    Links,  \* the pairs <<sender, receiver>> that are in radio range
    Lossy   \* the stations that may miss a frame for no visible reason

ASSUME LinksAssumption == Links \subseteq Station \X Station
ASSUME LossyAssumption == Lossy \subseteq Station

VARIABLES
    ether,  \* [Station -> Frame]: the frame each transceiver holds unread
    radio   \* [Station -> Mode]: what each transceiver is doing

airVars == <<ether, radio>>

Mode == {"standby", "opened", "receive"}

AirTypeOK ==
    /\ ether \in [Station -> Frame]
    /\ radio \in [Station -> Mode]

AirInit ==
    /\ ether = [s \in Station |-> NoFrame]
    /\ radio = [s \in Station |-> IF s = Gateway THEN "standby" ELSE "receive"]

(* What the driver and the time make of a transceiver's mode.              *)
Idles(s)   == radio' = [radio EXCEPT ![s] = "standby"]
Listens(s) == radio' = [radio EXCEPT ![s] = "receive"]
Opens(s) ==
    radio' = [radio EXCEPT ![s] = IF @ = "standby" THEN "opened" ELSE @]
Waits(s) ==
    radio' = [radio EXCEPT ![s] = IF @ = "opened" THEN "receive" ELSE @]

TunedAlways(s) == ether[s] = NoFrame  \* slip: receive mode never left
Tuned(s) == ether[s] = NoFrame /\ radio[s] = "receive"

(* The stations a frame sent by s can reach and that would react to it. *)
Audience(s, f) ==
    {t \in Station : <<s, t>> \in Links /\ Tuned(t) /\ Reacts(t, f)}

(* The sets of stations that may hear it. *)
Heard(s, f) ==
    {T \in SUBSET Audience(s, f) : Audience(s, f) \ Lossy \subseteq T}

Landed(e, T, f) == [s \in Station |-> IF s \in T THEN f ELSE e[s]]

(* beginPacket, print, endPacket() on the gateway: endPacket returns once  *)
(* the frame is out and leaves the transceiver in standby.                 *)
GatewaySends(f) ==
    /\ \E g \in Overlaid(ether[Gateway], f), T \in Heard(Gateway, f) :
           ether' = Landed([ether EXCEPT ![Gateway] = g], T, f)
    /\ Idles(Gateway)

(* LoRa_sendMessage followed by LoRa.receive() in a node's receive handler,*)
(* for the frame it has just read.                                         *)
NodeReplies(n, f) ==
    /\ \E T \in Heard(n, f) :
           ether' = Landed([ether EXCEPT ![n] = NoFrame], T, f)
    /\ UNCHANGED radio

(* A frame is on its way to, or waiting in, some node. *)
NodesBusy == \E n \in Node : ether[n] # NoFrame
=============================================================================
