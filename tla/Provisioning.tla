---------------------------- MODULE Provisioning ----------------------------
(***************************************************************************)
(* How the gateway gets onto its WiFi network, and how its mode button     *)
(* makes it start over: init_wifi, WiFiManager's autoConnect and blocking  *)
(* configuration portal, and clear_wifi on a long press.  The button is    *)
(* only looked at in loop(), which the gateway reaches through the         *)
(* network.                                                                *)
(***************************************************************************)
EXTENDS OneButton

CONSTANT PortalTime  \* setConfigPortalTimeout

ASSUME PortalAssumption == PortalTime \in Nat \ {0}

VARIABLES
    pc,       \* where the program is
    button,   \* the pin of the button looked at: each has its own machine
    stored,   \* the network and password kept in flash: right, wrong or none
    station,  \* whether the driver was told to keep a connection up
    linked,   \* WiFi.status() == WL_CONNECTED
    network,  \* whether the access point is there
    left,     \* what is left of the portal's time
    connect, abort  \* WiFiManager's loop flags

portalVars      == <<left, connect, abort>>
wifiVars        == <<stored, station, linked, network>>
allButOneButton == <<pc, wifiVars, portalVars>>
theButton       == <<button, buttonVars>>
vars            == <<allButOneButton, theButton>>

Pins        == {0, 3}
Credentials == {"none", "wrong", "right"}
CanConnect  == network /\ stored = "right"

WifiTypeOK ==
    /\ pc \in {"init", "wait", "open", "portal", "try", "close", "loop"}
    /\ button \in Pins
    /\ stored \in Credentials
    /\ station \in BOOLEAN /\ linked \in BOOLEAN /\ network \in BOOLEAN
    /\ left \in 0..PortalTime
    /\ connect \in BOOLEAN /\ abort \in BOOLEAN

TypeOK == ButtonTypeOK /\ WifiTypeOK

Init ==
    /\ ButtonInit
    /\ pc = "init"
    /\ button \in Pins
    /\ stored \in Credentials
    /\ station = FALSE
    /\ linked = FALSE
    /\ network \in BOOLEAN
    /\ left = 0
    /\ connect = FALSE
    /\ abort = FALSE

-----------------------------------------------------------------------------
(* Outside the program: the access point, the driver, power.               *)

NetworkChanges ==
    /\ network' = ~network
    /\ linked' = (linked /\ network')
    /\ UNCHANGED <<pc, stored, station, portalVars, theButton>>

(* The driver keeps trying once it was told to. *)
LinkUp ==
    /\ station
    /\ ~linked
    /\ CanConnect
    /\ linked' = TRUE
    /\ UNCHANGED <<pc, stored, station, network, portalVars, theButton>>

(* All but the flash and the contact begins anew. *)
Restart ==
    /\ pc' = "init"
    /\ station' = FALSE
    /\ linked' = FALSE
    /\ left' = 0
    /\ connect' = FALSE
    /\ abort' = FALSE
    /\ Reset
    /\ gap' = 0
    /\ unseen' = FALSE
    /\ missed' = FALSE
    /\ rest' = closed
    /\ calm' = Debounce
    /\ owed' = IF closed THEN 1 ELSE 0
    /\ glitch' = FALSE
    /\ UNCHANGED <<button, network, closed, held>>

PowerCut == Restart /\ UNCHANGED stored

-----------------------------------------------------------------------------
(* init_wifi and autoConnect                                               *)

Online ==
    /\ pc = "init"
    /\ linked
    /\ pc' = "loop"
    /\ UNCHANGED <<wifiVars, portalVars, theButton>>

AutoConnect ==
    /\ pc = "init"
    /\ ~linked
    /\ pc' = IF stored # "none" THEN "wait" ELSE "open"
    /\ station' = (station \/ stored # "none")
    /\ UNCHANGED <<stored, linked, network, portalVars, theButton>>

(* The wait ends with a connection or after a minute. *)
ConnectEndsOnline ==  \* slip: the wait without an end
    /\ pc = "wait"
    /\ linked
    /\ pc' = "init"
    /\ UNCHANGED <<wifiVars, portalVars, theButton>>
ConnectEnds ==
    /\ pc = "wait"
    /\ pc' = IF linked THEN "init" ELSE "open"
    /\ UNCHANGED <<wifiVars, portalVars, theButton>>

(* startConfigPortal *)
PortalOpens ==
    /\ pc = "open"
    /\ pc' = "portal"
    /\ station' = (station /\ linked)
    /\ left' = PortalTime
    /\ connect' = FALSE
    /\ abort' = FALSE
    /\ UNCHANGED <<stored, linked, network, theButton>>

-----------------------------------------------------------------------------
(* An iteration of the portal serves at most one request and then does     *)
(* what it asked for.  A page fetched gives the portal its time again.     *)

Never == FALSE  \* slip: the time-out not looked at
TimedOut == left = 0

PortalClock ==
    /\ pc \in {"portal", "try"}
    /\ ~TimedOut
    /\ left' = left - 1
    /\ UNCHANGED <<pc, wifiVars, connect, abort, theButton>>

InPortal == pc = "portal" /\ ~TimedOut /\ ~abort

ServePage ==
    /\ InPortal
    /\ left' = PortalTime
    /\ UNCHANGED <<pc, wifiVars, connect, abort, theButton>>

ServeExit ==
    /\ InPortal
    /\ left' = PortalTime
    /\ abort' = TRUE
    /\ UNCHANGED <<pc, wifiVars, connect, theButton>>

(* handleReset and handleErase, which clear_wifi's resetSettings resembles *)
ServeRestart ==
    /\ InPortal
    /\ stored' \in {stored, "none"}
    /\ Restart

StopStation ==
    /\ station' = FALSE
    /\ linked' = FALSE

(* wifiConnectNew makes the driver store what it was given, right or       *)
(* wrong, over what it held.                                               *)
StoreBesideLink(credentials) ==  \* slip: the old connection not dropped
    /\ stored' = credentials
    /\ station' = TRUE
    /\ UNCHANGED linked
ConnectNew(credentials) ==
    /\ stored' = credentials
    /\ station' = TRUE
    /\ linked' = FALSE

ServeSave(credentials) ==
    /\ InPortal
    /\ left' = PortalTime
    /\ pc' = "try"
    /\ ConnectNew(credentials)
    /\ UNCHANGED <<network, connect, abort, theButton>>

ServeEmptySave ==
    /\ InPortal
    /\ left' = PortalTime
    /\ StopStation
    /\ UNCHANGED <<pc, stored, network, connect, abort, theButton>>

TryEnds ==
    /\ pc = "try"
    /\ \/ linked /\ pc' = "close" /\ UNCHANGED <<station, linked>>
       \/ ~linked /\ pc' = "portal" /\ StopStation
    /\ UNCHANGED <<stored, network, portalVars, theButton>>

PortalExpires ==
    /\ pc = "portal"
    /\ TimedOut \/ abort
    /\ pc' = "close"
    /\ UNCHANGED <<wifiVars, portalVars, theButton>>

(* shutdownConfigPortal, which serves a last request and does not act on   *)
(* the flags it sets.  The driver is told to reconnect if it is idle.      *)
PortalReopens ==  \* slip: the stored settings not tried again
    /\ pc = "close"
    /\ pc' = "open"
    /\ UNCHANGED <<wifiVars, portalVars, theButton>>
PortalCloses ==
    /\ pc = "close"
    /\ pc' = "init"
    /\ \/ UNCHANGED <<connect, abort>>
       \/ connect' = TRUE /\ UNCHANGED abort
       \/ abort' = TRUE /\ UNCHANGED connect
    /\ station' \in {station, TRUE}
    /\ UNCHANGED <<stored, linked, network, left, theButton>>

RestartWhileClosing ==
    /\ pc = "close"
    /\ stored' \in {stored, "none"}
    /\ Restart

-----------------------------------------------------------------------------
(* loop(): the buttons.  A click is sw_mode for the mode button, on pin 0, *)
(* and sendon1 for the other; the other's long press is sendoff1.          *)

ButtonTicks ==
    /\ pc = "loop"
    /\ \/ TickNoCallback
       \/ ClicksKnown
       \/ button = 3 /\ LongPressStart
    /\ UNCHANGED <<button, allButOneButton>>

(* clear_wifi, from which button 0's tick does not return. *)
ClearWifi ==
    /\ pc = "loop"
    /\ button = 0
    /\ LongPressDue
    /\ stored' = "none"
    /\ Restart

ContactMoves ==
    /\ Close \/ Open
    /\ UNCHANGED <<button, allButOneButton>>

LoopGoesOn ==
    /\ pc = "loop"
    /\ Elapse
    /\ UNCHANGED <<button, allButOneButton>>

-----------------------------------------------------------------------------
Program ==
    \/ Online \/ AutoConnect \/ ConnectEnds \/ PortalOpens
    \/ TryEnds \/ PortalExpires \/ PortalCloses

Visit ==
    \/ ServePage \/ ServeExit \/ ServeRestart \/ ServeEmptySave
    \/ \E credentials \in Credentials \ {"none"} : ServeSave(credentials)
    \/ RestartWhileClosing

Next ==
    \/ Program \/ Visit \/ PortalClock \/ ButtonTicks \/ ClearWifi
    \/ ContactMoves \/ LoopGoesOn \/ NetworkChanges \/ LinkUp \/ PowerCut

Spec == Init /\ [][Next]_vars

Fairness ==
    /\ WF_vars(Program)
    /\ WF_vars(PortalClock)
    /\ SF_vars(LinkUp)
    /\ WF_vars(ButtonTicks)
    /\ WF_vars(ClearWifi)
    /\ WF_vars(LoopGoesOn)

FairSpec == Spec /\ Fairness

-----------------------------------------------------------------------------
(* A connection is always with what the flash holds: a power cut loses no  *)
(* setting that works (WiFiManager.cpp:1104-1122, wifiConnectNew).         *)
KnownNetwork == linked => stored = "right"

(* The settings are cleared only for a contact that was closed a press     *)
(* long, less what a bounce takes off, or opened unseen between two ticks  *)
(* (OneButton.cpp:233-249, WIFI_MT.h:27-32).                               *)
ClearMeansHeld ==
    [][ClearWifi \/ LongPressStart => (held > Press - Debounce \/ missed)]_vars

(* There are no more callbacks than presses, however a contact bounces     *)
(* when it is pressed or let go, unless it opened for a moment while held  *)
(* (OneButton CHANGELOG: "By design only one of the events are triggered   *)
(* within one interaction").                                               *)
OneCallbackPerPress ==
    [][ClickFires \/ LongPressStart \/ ClearWifi => owed > 0 \/ glitch]_vars

(* With the right settings in flash and the access point there, the        *)
(* gateway ends up in loop(), if nobody keeps fetching the portal's pages  *)
(* (WIFI_MT.h:34-43).                                                      *)
Undisturbed == <>[][~(Visit \/ PowerCut)]_vars
ComesOnline ==
    <>[](CanConnect) /\ Undisturbed => <>[](pc = "loop")

(* When no connection can be made the portal comes back again and again,   *)
(* so that the settings can be put right, unless the gateway was online    *)
(* before and is in loop() (WIFI_MT.h:38-42, WiFiManager.cpp:278-390).     *)
SetupStaysPossible ==
    <>[](~CanConnect) /\ Undisturbed => []<>(pc \in {"portal", "loop"})

(* A button let go is idle in the end, whatever it bounced through.        *)
ButtonComesToRest == <>[](pc = "loop" /\ ~closed) => <>[](state = "INIT")
=============================================================================
