--------------------------- MODULE SwitchHistory ---------------------------
(***************************************************************************)
(* The network with the history of node 1's commands: whether the one its  *)
(* handler accepted last came while the loop was between acting on the one *)
(* before and clearing thuchien, so that the loop clears it unseen.        *)
(***************************************************************************)
EXTENDS LoRaMesh

VARIABLE overrun  \* the last command accepted came in that window

svars == <<vars, overrun>>

SInit == Init /\ overrun = FALSE

SAccept ==
    /\ FieldPart(AcceptSwitch)
    /\ overrun' = (pc1 \in {"measure", "finish"})

(* Every other step leaves the history alone. *)
Quiet(action) == action /\ UNCHANGED overrun

SNext ==
    \/ SAccept
    \/ Quiet(FieldPart(Answering \/ Loops))
    \/ Quiet(GatewayStep \/ Tick \/ AppStep \/ ForeignReport)

SSpec == SInit /\ [][SNext]_svars

-----------------------------------------------------------------------------
(* At rest, the relay is as the last accepted command says, unless that    *)
(* command came between the test of on_off and "thuchien = 0" (NODE1       *)
(* main.cpp:253-279), the one window in which the handler's request is     *)
(* cleared without having been served.                                     *)
RelayObeys == pc1 = "idle" /\ ~thuchien /\ ~overrun => ssr = on_off

(* While the feedback goes out the radio holds nothing for the handler, so *)
(* the burst (main.cpp:259-263) cannot widen that window.                  *)
BurstIsDeaf == pc1 = "feedback" => radio[1] = "standby" /\ ether[1] = NoFrame

(* What makes RelayObeys inductive. *)
RelayInv ==
    /\ pc1 # "idle" => thuchien
    /\ pc1 \in {"measure", "feedback", "finish"} /\ ~overrun => ssr = on_off
    /\ RelayObeys
    /\ BurstIsDeaf

-----------------------------------------------------------------------------
(* An interrupt is served; the loop gets on between two interrupts. *)
SFairness ==
    /\ WF_svars(SAccept \/ Quiet(FieldPart(Answering)))
    /\ SF_svars(Quiet(FieldPart(RelayLoop)))

FairSSpec == SSpec /\ SFairness

(* A command that was accepted outside the window is carried out, unless   *)
(* another one takes its place first.                                      *)
CommandCarriedOut ==
    \A v \in {0, 1} :
        (thuchien /\ ~overrun /\ on_off = v) ~> (ssr = v \/ on_off # v \/ overrun)

(* The pump's loop never stays in its feedback: it always comes back to    *)
(* sampling and to the next command.                                       *)
LoopReturns == pc1 # "idle" ~> pc1 = "idle"
=============================================================================
