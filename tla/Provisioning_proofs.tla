------------------------- MODULE Provisioning_proofs -------------------------
(***************************************************************************)
(* What the button's machine remembers of the contact, whatever moves it   *)
(* and however long the loop takes: enough to clear the settings only for  *)
(* a long press, and to call back once for a press.  And that the gateway  *)
(* is only ever online with the settings it keeps.                         *)
(***************************************************************************)
EXTENDS Provisioning, TLAPS

(* The states the machine comes from, which is where a bounce returns it. *)
CameFrom ==
    /\ state = "DOWN" => lastState \in {"INIT", "COUNT", "UP"}
    /\ state = "UP" => lastState = "DOWN"
    /\ state = "PRESSEND" => lastState = "PRESS"

(* An open contact the machine takes for closed is news to the next tick. *)
OpeningUnseen == state = "DOWN" /\ ~closed => unseen

(* The time the machine waited is time the contact was closed. *)
WaitedWhileClosed ==
    state = "DOWN" /\ closed /\ ~missed => held + Debounce >= waitTime

(* The contact at rest is what it last rested as. *)
RestKnown == AtRest /\ Debounce > 0 => rest = closed

(* So many presses are not called back for. *)
Owed(n) == owed >= n \/ glitch

(* The contact was pressed anew after the tick that saw it open: what it   *)
(* does is not the bouncing of the release that tick saw, which is older.  *)
PressedAnew == IF AtRest THEN closed ELSE ~rest \/ calm < waitTime

(* One press for what the machine may yet call back for ...                *)
OneOwed ==
    \/ state \in {"DOWN", "UP", "COUNT"}
    \/ state = "INIT" /\ (closed \/ ~AtRest)
    \/ state = "PRESS" /\ ~AtRest /\ ~rest
    \/ state = "PRESSEND" /\ PressedAnew

(* ... and another one for a contact that was pressed again since.         *)
TwoOwed ==
    \/ state = "DOWN" /\ lastState = "COUNT"
    \/ state = "DOWN" /\ ~AtRest /\ ~rest /\ calm < waitTime
    \/ state = "DOWN" /\ lastState = "UP" /\ waitTime < Debounce /\ PressedAnew
    \/ state = "UP" /\ PressedAnew
    \/ state = "COUNT" /\ (closed \/ ~AtRest)

PressesOwed == (OneOwed => Owed(1)) /\ (TwoOwed => Owed(2))

ButtonInv ==
    /\ ButtonTypeOK /\ CameFrom /\ OpeningUnseen /\ WaitedWhileClosed
    /\ RestKnown /\ PressesOwed

Inv == ButtonInv /\ WifiTypeOK /\ KnownNetwork

-----------------------------------------------------------------------------
(* The contact and the time.                                               *)

LEMMA CloseKeeps == ButtonInv /\ Close => ButtonInv'
  <1> SUFFICES ASSUME ButtonInv, Close PROVE ButtonInv'
    OBVIOUS
  <1>1. ButtonTypeOK' /\ CameFrom' /\ OpeningUnseen'
    BY OneButtonAssumption
    DEF Close, Move, ButtonInv, ButtonTypeOK, CameFrom, OpeningUnseen, tickVars
  <1>2. WaitedWhileClosed'
    BY DEF Close, ButtonInv, OpeningUnseen, WaitedWhileClosed, tickVars
  <1>3. RestKnown'
    BY OneButtonAssumption DEF Close, Move, ButtonInv, RestKnown, AtRest, ButtonTypeOK
  <1>4. PressesOwed'
    <2>1. CASE AtRest
      BY <2>1, OneButtonAssumption
      DEF Close, Move, ButtonInv, ButtonTypeOK, RestKnown, AtRest, tickVars,
          PressesOwed, OneOwed, TwoOwed, Owed, PressedAnew
    <2>2. CASE ~AtRest
      BY <2>2
      DEF Close, Move, ButtonInv, AtRest, tickVars, PressesOwed, OneOwed, TwoOwed, Owed,
          PressedAnew
    <2> QED
      BY <2>1, <2>2
  <1> QED
    BY <1>1, <1>2, <1>3, <1>4 DEF ButtonInv

LEMMA OpenKeeps == ButtonInv /\ Open => ButtonInv'
  <1> SUFFICES ASSUME ButtonInv, Open PROVE ButtonInv'
    OBVIOUS
  <1>1. ButtonTypeOK' /\ CameFrom'
    <2>1. held' \in 0..Press + 1 /\ calm' \in 0..Debounce
      BY OneButtonAssumption DEF Open, Move, ButtonInv, ButtonTypeOK
    <2> QED
      BY <2>1 DEF Open, Move, ButtonInv, ButtonTypeOK, CameFrom, tickVars, pressVars
  <1>2. OpeningUnseen' /\ WaitedWhileClosed'
    BY DEF Open, OpeningUnseen, WaitedWhileClosed
  <1>3. RestKnown'
    BY OneButtonAssumption DEF Open, Move, ButtonInv, RestKnown, AtRest, ButtonTypeOK
  <1>4. PressesOwed'
    <2> USE DEF Open, Move, ButtonInv, tickVars, pressVars, PressesOwed, OneOwed, TwoOwed, Owed,
            PressedAnew, AtRest
    <2>1. CASE AtRest
      <3>1. ~AtRest' => rest'
        <4>1. ~AtRest' => Debounce > 0
          BY <2>1, OneButtonAssumption
        <4>2. rest' = rest /\ closed
          OBVIOUS
        <4> QED
          BY <2>1, <4>1, <4>2 DEF RestKnown
      <3> QED
        BY <2>1, <3>1, OneButtonAssumption DEF ButtonTypeOK
    <2>2. CASE ~AtRest
      BY <2>2
    <2> QED
      BY <2>1, <2>2
  <1> QED
    BY <1>1, <1>2, <1>3, <1>4 DEF ButtonInv

LEMMA ElapseKeeps == ButtonInv /\ Elapse => ButtonInv'
  <1> SUFFICES ASSUME ButtonInv, Elapse PROVE ButtonInv'
    OBVIOUS
  <1>1. ButtonTypeOK'
    <2>1. /\ gap' \in 0..MaxGap /\ waitTime' \in 0..Press + 1 /\ held' \in 0..Press + 1
      BY OneButtonAssumption DEF Elapse, ButtonInv, ButtonTypeOK
    <2>2. calm' \in 0..Debounce
      BY OneButtonAssumption DEF Elapse, Settle, AtRest, ButtonInv, ButtonTypeOK
    <2>3. rest' \in BOOLEAN /\ glitch' \in BOOLEAN /\ owed' = owed
      BY DEF Elapse, Settle, ButtonInv, ButtonTypeOK
    <2> QED
      BY <2>1, <2>2, <2>3 DEF Elapse, ButtonInv, ButtonTypeOK
  <1>2. CameFrom' /\ OpeningUnseen'
    BY DEF Elapse, ButtonInv, CameFrom, OpeningUnseen
  <1>3. WaitedWhileClosed'
    BY OneButtonAssumption
    DEF Elapse, ButtonInv, ButtonTypeOK, WaitedWhileClosed
  <1>4. RestKnown'
    BY DEF Elapse, Settle, RestKnown, AtRest
  <1>5. PressesOwed'
    BY OneButtonAssumption
    DEF Elapse, Settle, Timed, ButtonInv, ButtonTypeOK, AtRest,
        PressesOwed, OneOwed, TwoOwed, Owed, PressedAnew
  <1> QED
    BY <1>1, <1>2, <1>3, <1>4, <1>5 DEF ButtonInv

-----------------------------------------------------------------------------
(* tick                                                                    *)

(* A tick does not move the contact. *)
LEMMA SampledRests == ButtonInv /\ Sampled => RestKnown'
  BY DEF ButtonInv, Sampled, restVars, RestKnown, AtRest

LEMMA PressSeenKeeps == ButtonInv /\ PressSeen => ButtonInv'
  <1> SUFFICES ASSUME ButtonInv, PressSeen PROVE ButtonInv'
    OBVIOUS
  <1> USE DEF PressSeen, NewState, Sampled, ButtonInv, restVars, pressVars
  <1>1. ButtonTypeOK'
    <2>1. /\ waitTime' \in 0..Press + 1 /\ nClicks' \in 0..CountLimit
          /\ gap' \in 0..MaxGap
      BY OneButtonAssumption DEF CountLimit
    <2> QED
      BY <2>1 DEF ButtonTypeOK, ButtonState
  <1>2. CameFrom' /\ OpeningUnseen'
    BY DEF CameFrom, OpeningUnseen
  <1>3. WaitedWhileClosed'
    BY OneButtonAssumption DEF WaitedWhileClosed, ButtonTypeOK
  <1>4. PressesOwed'
    BY OneButtonAssumption
    DEF ButtonTypeOK, AtRest, PressesOwed, OneOwed, TwoOwed, Owed, PressedAnew
  <1> QED
    BY <1>1, <1>2, <1>3, <1>4, SampledRests

LEMMA BounceKeeps == ButtonInv /\ Bounce => ButtonInv'
  <1> SUFFICES ASSUME ButtonInv, Bounce PROVE ButtonInv'
    OBVIOUS
  <1> USE DEF Bounce, NewState, Sampled, ButtonInv, CameFrom, restVars, pressVars
  <1>1. ButtonTypeOK'
    BY OneButtonAssumption DEF ButtonTypeOK, ButtonState
  <1>2. CameFrom' /\ OpeningUnseen'
    BY DEF OpeningUnseen, ButtonTypeOK
  <1>3. WaitedWhileClosed'
    BY OneButtonAssumption DEF WaitedWhileClosed, ButtonTypeOK
  <1>4. PressesOwed'
    BY OneButtonAssumption
    DEF ButtonTypeOK, AtRest, PressesOwed, OneOwed, TwoOwed, Owed, PressedAnew
  <1> QED
    BY <1>1, <1>2, <1>3, <1>4, SampledRests

LEMMA ReleaseSeenKeeps == ButtonInv /\ ReleaseSeen => ButtonInv'
  <1> SUFFICES ASSUME ButtonInv, ReleaseSeen PROVE ButtonInv'
    OBVIOUS
  <1> USE DEF ReleaseSeen, NewState, Sampled, ButtonInv, restVars, pressVars
  <1>1. ButtonTypeOK' /\ CameFrom' /\ OpeningUnseen' /\ WaitedWhileClosed'
    BY OneButtonAssumption
    DEF ButtonTypeOK, ButtonState, CameFrom, OpeningUnseen, WaitedWhileClosed
  <1>2. PressesOwed'
    BY OneButtonAssumption
    DEF ButtonTypeOK, AtRest, PressesOwed, OneOwed, TwoOwed, Owed, PressedAnew
  <1> QED
    BY <1>1, <1>2, SampledRests

LEMMA CountPressKeeps == ButtonInv /\ CountPress => ButtonInv'
  <1> SUFFICES ASSUME ButtonInv, CountPress PROVE ButtonInv'
    OBVIOUS
  <1> USE DEF CountPress, NewState, Sampled, ButtonInv, restVars, pressVars
  <1>1. ButtonTypeOK' /\ CameFrom' /\ OpeningUnseen' /\ WaitedWhileClosed'
    BY OneButtonAssumption
    DEF ButtonTypeOK, ButtonState, CountLimit, CameFrom, OpeningUnseen, WaitedWhileClosed
  <1>2. PressesOwed'
    BY OneButtonAssumption
    DEF ButtonTypeOK, AtRest, PressesOwed, OneOwed, TwoOwed, Owed, PressedAnew
  <1> QED
    BY <1>1, <1>2, SampledRests

LEMMA PressAgainKeeps == ButtonInv /\ PressAgain => ButtonInv'
  <1> SUFFICES ASSUME ButtonInv, PressAgain PROVE ButtonInv'
    OBVIOUS
  <1> USE DEF PressAgain, NewState, Sampled, ButtonInv, restVars, pressVars
  <1>1. ButtonTypeOK' /\ CameFrom' /\ OpeningUnseen' /\ WaitedWhileClosed'
    BY OneButtonAssumption
    DEF ButtonTypeOK, ButtonState, CameFrom, OpeningUnseen, WaitedWhileClosed
  <1>2. PressesOwed'
    BY OneButtonAssumption
    DEF ButtonTypeOK, AtRest, PressesOwed, OneOwed, TwoOwed, Owed, PressedAnew
  <1> QED
    BY <1>1, <1>2, SampledRests

(* What was owed after the machine is done, and is still owed.             *)
LEMMA ResetIdles ==
    ASSUME ButtonInv, Reset, gap' = 0,
           closed' = closed, held' = held, unseen' \in BOOLEAN,
           missed' \in BOOLEAN, rest' \in BOOLEAN, calm' \in 0..Debounce,
           owed' \in 0..2, glitch' \in BOOLEAN, RestKnown',
           closed \/ ~AtRest' => Owed(1)'
    PROVE  ButtonInv'
  <1>1. ButtonTypeOK'
    BY OneButtonAssumption
    DEF Reset, ButtonInv, ButtonTypeOK, ButtonState, CountLimit
  <1>2. CameFrom' /\ OpeningUnseen' /\ WaitedWhileClosed'
    BY DEF Reset, CameFrom, OpeningUnseen, WaitedWhileClosed
  <1>3. PressesOwed'
    BY DEF Reset, PressesOwed, OneOwed, TwoOwed
  <1> QED
    BY <1>1, <1>2, <1>3 DEF ButtonInv

(* A callback is owed one press less. *)
LEMMA OneLess ==
    ASSUME ButtonInv, CalledBack
    PROVE  /\ owed' \in 0..2 /\ glitch' \in BOOLEAN
           /\ Owed(2) => Owed(1)'
  BY DEF ButtonInv, ButtonTypeOK, CalledBack, Owed

LEMMA ClicksKnownKeeps == ButtonInv /\ ClicksKnown => ButtonInv'
  <1> SUFFICES ASSUME ButtonInv, ClicksKnown PROVE ButtonInv'
    OBVIOUS
  <1>1. /\ unseen' \in BOOLEAN /\ missed' \in BOOLEAN /\ ~closed
        /\ rest' = rest /\ calm' = calm /\ rest \in BOOLEAN /\ calm \in 0..Debounce
    BY DEF ClicksKnown, Sampled, restVars, ButtonInv, ButtonTypeOK
  <1>2. ~AtRest' => Owed(2)
    BY <1>1 DEF ClicksKnown, AtRest, ButtonInv, PressesOwed, TwoOwed
  <1>3. owed' \in 0..2 /\ glitch' \in BOOLEAN /\ (Owed(2) => Owed(1)')
    <2>1. CASE nClicks = 1
      BY <2>1, OneLess DEF ClicksKnown
    <2>2. CASE nClicks # 1
      BY <2>2 DEF ClicksKnown, pressVars, ButtonInv, ButtonTypeOK, Owed
    <2> QED
      BY <2>1, <2>2
  <1>4. RestKnown'
    BY SampledRests DEF ClicksKnown
  <1>5. closed \/ ~AtRest' => Owed(1)'
    BY <1>1, <1>2, <1>3
  <1> QED
    BY <1>1, <1>3, <1>4, <1>5, ResetIdles DEF ClicksKnown, Sampled

LEMMA LongPressStartKeeps == ButtonInv /\ LongPressStart => ButtonInv'
  <1> SUFFICES ASSUME ButtonInv, LongPressStart PROVE ButtonInv'
    OBVIOUS
  <1> USE DEF LongPressStart, LongPressDue, NewState, Sampled, ButtonInv, restVars
  <1>1. gap' \in 0..MaxGap
    BY OneButtonAssumption
  <1>2. ButtonTypeOK'
    BY <1>1, OneLess DEF ButtonTypeOK, ButtonState
  <1>3. CameFrom' /\ OpeningUnseen' /\ WaitedWhileClosed'
    BY DEF CameFrom, OpeningUnseen, WaitedWhileClosed
  <1>4. PressesOwed'
    <2>1. ~AtRest /\ ~rest => Owed(2)
      BY OneButtonAssumption DEF AtRest, ButtonTypeOK, PressesOwed, TwoOwed
    <2>2. OneOwed' => ~AtRest /\ ~rest
      BY DEF OneOwed, AtRest
    <2>3. ~TwoOwed'
      BY DEF TwoOwed
    <2> QED
      BY <2>1, <2>2, <2>3, OneLess DEF PressesOwed
  <1> QED
    BY <1>2, <1>3, <1>4, SampledRests

LEMMA LongPressStopKeeps == ButtonInv /\ LongPressStop => ButtonInv'
  <1> SUFFICES ASSUME ButtonInv, LongPressStop PROVE ButtonInv'
    OBVIOUS
  <1>1. /\ unseen' \in BOOLEAN /\ missed' \in BOOLEAN /\ rest' \in BOOLEAN
        /\ calm' = calm /\ calm \in 0..Debounce /\ owed' = owed /\ glitch' = glitch
        /\ owed \in 0..2 /\ glitch \in BOOLEAN
    BY DEF LongPressStop, Sampled, restVars, pressVars, ButtonInv, ButtonTypeOK
  <1>2. closed \/ ~AtRest => Owed(1)
    BY OneButtonAssumption
    DEF LongPressStop, ButtonInv, ButtonTypeOK, AtRest, PressesOwed, OneOwed, PressedAnew
  <1>3. closed \/ ~AtRest' => Owed(1)'
    BY <1>1, <1>2 DEF AtRest, Owed
  <1>4. RestKnown'
    BY SampledRests DEF LongPressStop
  <1> QED
    BY <1>1, <1>3, <1>4, ResetIdles DEF LongPressStop, Sampled

(* Ticks that leave the machine where it is.                               *)
LEMMA StayingKeeps == ButtonInv /\ (Idle \/ NothingToDo) => ButtonInv'
  <1> SUFFICES ASSUME ButtonInv, Idle \/ NothingToDo PROVE ButtonInv'
    OBVIOUS
  <1> USE DEF Idle, NothingToDo, Sampled, tickVars, restVars, pressVars, ButtonInv
  <1>1. ButtonTypeOK'
    <2>1. owed' \in 0..2 /\ gap' \in 0..MaxGap
      BY OneButtonAssumption DEF ButtonTypeOK
    <2>2. glitch' \in BOOLEAN
      BY DEF ButtonTypeOK
    <2> QED
      BY <2>1, <2>2 DEF ButtonTypeOK
  <1>2. CameFrom' /\ OpeningUnseen' /\ WaitedWhileClosed'
    BY DEF CameFrom, OpeningUnseen, WaitedWhileClosed
  <1>3. PressesOwed'
    BY DEF AtRest, PressesOwed, OneOwed, TwoOwed, Owed, PressedAnew
  <1> QED
    BY <1>1, <1>2, <1>3, SampledRests

LEMMA TickKeeps ==
    ButtonInv /\ (TickNoCallback \/ ClicksKnown \/ LongPressStart) => ButtonInv'
  BY PressSeenKeeps, BounceKeeps, ReleaseSeenKeeps, CountPressKeeps,
     PressAgainKeeps, ClicksKnownKeeps, LongPressStartKeeps,
     LongPressStopKeeps, StayingKeeps
  DEF TickNoCallback

-----------------------------------------------------------------------------
(* The program, its visitors, the network.                                 *)

LEMMA ButtonIdlesAlong == ButtonInv /\ UNCHANGED buttonVars => ButtonInv'
  BY DEF buttonVars, tickVars, contactVars, restVars, pressVars, ButtonInv, ButtonTypeOK,
         CameFrom, OpeningUnseen, WaitedWhileClosed, RestKnown, AtRest, PressesOwed, OneOwed,
         TwoOwed, Owed, PressedAnew

LEMMA RestartKeeps ==
    ASSUME Inv, Restart, stored' \in Credentials
    PROVE  Inv'
  <1>1. ButtonInv'
    <2>1. closed \in BOOLEAN /\ calm' \in 0..Debounce
      BY OneButtonAssumption DEF Inv, ButtonInv, ButtonTypeOK, Restart
    <2>2. RestKnown' /\ (closed \/ ~AtRest' => Owed(1)')
      BY DEF Restart, RestKnown, AtRest, Owed
    <2>3. /\ unseen' \in BOOLEAN /\ missed' \in BOOLEAN /\ rest' \in BOOLEAN
          /\ glitch' = FALSE
      BY <2>1 DEF Restart
    <2>4. owed' \in 0..2
      BY DEF Restart
    <2> QED
      BY <2>1, <2>2, <2>3, <2>4, ResetIdles DEF Inv, Restart
  <1>2. left' \in 0..PortalTime
    BY PortalAssumption DEF Restart
  <1>3. WifiTypeOK' /\ KnownNetwork'
    BY <1>2 DEF Restart, Inv, WifiTypeOK, KnownNetwork
  <1> QED
    BY <1>1, <1>3 DEF Inv

LEMMA ProgramKeeps == Inv /\ Program => Inv'
  <1> SUFFICES ASSUME Inv, Program PROVE Inv'
    OBVIOUS
  <1> USE DEF wifiVars, portalVars, Program, Online, AutoConnect, ConnectEnds,
          PortalOpens, TryEnds, StopStation, PortalExpires, PortalCloses
  <1>1. ButtonInv'
    BY ButtonIdlesAlong DEF Inv, theButton
  <1>2. button' = button
    BY DEF theButton
  <1>3. left' \in 0..PortalTime
    <2>1. left' = left \/ left' = PortalTime
      OBVIOUS
    <2> QED
      BY <2>1, PortalAssumption DEF Inv, WifiTypeOK
  <1>4. WifiTypeOK'
    BY <1>2, <1>3 DEF Inv, WifiTypeOK
  <1>5. KnownNetwork'
    BY DEF Inv, KnownNetwork
  <1> QED
    BY <1>1, <1>4, <1>5 DEF Inv

LEMMA VisitKeeps == Inv /\ Visit => Inv'
  <1> SUFFICES ASSUME Inv, Visit PROVE Inv'
    OBVIOUS
  <1>1. CASE ServeRestart \/ RestartWhileClosing
    <2>1. Restart /\ stored' \in Credentials
      BY <1>1 DEF ServeRestart, RestartWhileClosing, Credentials, Inv, WifiTypeOK
    <2> QED
      BY <2>1, RestartKeeps
  <1>2. CASE \/ ServePage \/ ServeExit \/ ServeEmptySave
             \/ \E c \in Credentials \ {"none"} : ServeSave(c)
    <2> USE <1>2 DEF wifiVars, ServePage, ServeExit, ServeEmptySave, ServeSave,
            StopStation, ConnectNew
    <2>1. UNCHANGED theButton
      OBVIOUS
    <2>2. ButtonInv'
      BY <2>1, ButtonIdlesAlong DEF Inv, theButton
    <2>3. left' \in 0..PortalTime
      BY PortalAssumption DEF Inv, WifiTypeOK
    <2>4. WifiTypeOK'
      BY <2>1, <2>3 DEF Inv, WifiTypeOK, theButton
    <2>5. KnownNetwork'
      BY DEF Inv, KnownNetwork
    <2> QED
      BY <2>2, <2>4, <2>5 DEF Inv
  <1> QED
    BY <1>1, <1>2 DEF Visit

LEMMA OutsideKeeps == Inv /\ (NetworkChanges \/ LinkUp \/ PortalClock) => Inv'
  <1> SUFFICES ASSUME Inv, NetworkChanges \/ LinkUp \/ PortalClock PROVE Inv'
    OBVIOUS
  <1> USE DEF wifiVars, portalVars, NetworkChanges, LinkUp, PortalClock,
          CanConnect, TimedOut
  <1>1. UNCHANGED theButton
    OBVIOUS
  <1>2. ButtonInv'
    BY <1>1, ButtonIdlesAlong DEF Inv, theButton
  <1>3. left' \in 0..PortalTime
    BY PortalAssumption DEF Inv, WifiTypeOK
  <1>4. WifiTypeOK'
    BY <1>1, <1>3 DEF Inv, WifiTypeOK, theButton
  <1>5. KnownNetwork'
    BY DEF Inv, WifiTypeOK, KnownNetwork
  <1> QED
    BY <1>2, <1>4, <1>5 DEF Inv

(* In loop() and the contact: only the button's machine moves.             *)
LEMMA ButtonAloneKeeps ==
    ASSUME Inv, ButtonInv', UNCHANGED <<button, allButOneButton>>
    PROVE  Inv'
  BY DEF Inv, WifiTypeOK, KnownNetwork, allButOneButton, wifiVars, portalVars

LEMMA NextKeeps == Inv /\ Next => Inv'
  <1> SUFFICES ASSUME Inv, Next PROVE Inv'
    OBVIOUS
  <1>1. CASE Program
    BY <1>1, ProgramKeeps
  <1>2. CASE Visit
    BY <1>2, VisitKeeps
  <1>3. CASE NetworkChanges \/ LinkUp \/ PortalClock
    BY <1>3, OutsideKeeps
  <1>4. CASE ButtonTicks
    BY <1>4, TickKeeps, ButtonAloneKeeps DEF ButtonTicks, Inv
  <1>5. CASE ContactMoves
    BY <1>5, CloseKeeps, OpenKeeps, ButtonAloneKeeps DEF ContactMoves, Inv
  <1>6. CASE LoopGoesOn
    BY <1>6, ElapseKeeps, ButtonAloneKeeps DEF LoopGoesOn, Inv
  <1>7. CASE PowerCut
    BY <1>7, RestartKeeps DEF PowerCut, Inv, WifiTypeOK
  <1>8. CASE ClearWifi
    BY <1>8, RestartKeeps DEF ClearWifi, Credentials
  <1> QED
    BY <1>1, <1>2, <1>3, <1>4, <1>5, <1>6, <1>7, <1>8 DEF Next

-----------------------------------------------------------------------------
(* The invariant, for every debounce, click, press and portal time and     *)
(* every bound of the loop's length.                                       *)
THEOREM ProvisioningInv == Spec => []Inv
  <1>1. Init => Inv
    <2> SUFFICES ASSUME Init PROVE Inv
      OBVIOUS
    <2>1. ButtonTypeOK
      <3>1. /\ waitTime \in 0..Press + 1 /\ nClicks \in 0..CountLimit
            /\ gap \in 0..MaxGap /\ held \in 0..Press + 1 /\ calm \in 0..Debounce
            /\ owed \in 0..2
        BY OneButtonAssumption DEF Init, ButtonInit, CountLimit
      <3> QED
        BY <3>1 DEF Init, ButtonInit, ButtonTypeOK, ButtonState
    <2>2. CameFrom /\ OpeningUnseen /\ WaitedWhileClosed /\ RestKnown /\ PressesOwed
      BY DEF Init, ButtonInit, CameFrom, OpeningUnseen, WaitedWhileClosed, RestKnown, AtRest,
             PressesOwed, OneOwed, TwoOwed
    <2>3. left \in 0..PortalTime
      BY PortalAssumption DEF Init
    <2>4. WifiTypeOK /\ KnownNetwork
      BY <2>3 DEF Init, WifiTypeOK, KnownNetwork
    <2> QED
      BY <2>1, <2>2, <2>4 DEF Inv, ButtonInv
  <1>2. Inv /\ UNCHANGED vars => Inv'
    BY ButtonIdlesAlong, ButtonAloneKeeps DEF vars, theButton, Inv
  <1>3. Inv /\ [Next]_vars => Inv'
    BY <1>2, NextKeeps
  <1> QED
    BY <1>1, <1>3, PTL DEF Spec

(* The variables keep their types.                                         *)
THEOREM ProvisioningTypeCorrect == Spec => []TypeOK
  <1>1. Inv => TypeOK
    BY DEF Inv, ButtonInv, TypeOK
  <1> QED
    BY <1>1, ProvisioningInv, PTL

(* The gateway is only online with the settings it keeps.                  *)
THEOREM OnlineIsKept == Spec => []KnownNetwork
  <1>1. Inv => KnownNetwork
    BY DEF Inv
  <1> QED
    BY <1>1, ProvisioningInv, PTL

(* Whatever the loop's pauses and the contact's bounces, a long press is a *)
(* contact closed that long, or one that opened and closed between ticks.  *)
THEOREM LongPressIsLong == Spec => ClearMeansHeld
  <1>1. Inv /\ [Next]_vars =>
            [ClearWifi \/ LongPressStart => (held > Press - Debounce \/ missed)]_vars
    <2> SUFFICES ASSUME Inv, LongPressDue
                 PROVE  held > Press - Debounce \/ missed
      BY DEF ClearWifi, LongPressStart
    <2>1. held + Debounce >= waitTime \/ missed
      BY DEF LongPressDue, Inv, ButtonInv, WaitedWhileClosed
    <2> QED
      BY <2>1, OneButtonAssumption DEF LongPressDue, Inv, ButtonInv, ButtonTypeOK
  <1> QED
    BY <1>1, ProvisioningInv, PTL DEF Spec, ClearMeansHeld

(* There are no more callbacks than presses, for every pattern of bounces  *)
(* within the debounce time, unless a held contact opened for a moment.    *)
THEOREM PressActsOnce == Spec => OneCallbackPerPress
  <1>1. Inv /\ [Next]_vars =>
            [ClickFires \/ LongPressStart \/ ClearWifi => owed > 0 \/ glitch]_vars
    <2> SUFFICES ASSUME Inv, ClickFires \/ LongPressStart \/ ClearWifi
                 PROVE  owed > 0 \/ glitch
      OBVIOUS
    <2>1. state \in {"DOWN", "COUNT"}
      BY DEF ClickFires, ClicksKnown, LongPressStart, ClearWifi, LongPressDue
    <2>2. Owed(1)
      BY <2>1 DEF Inv, ButtonInv, PressesOwed, OneOwed
    <2> QED
      BY <2>2 DEF Owed, Inv, ButtonInv, ButtonTypeOK
  <1> QED
    BY <1>1, ProvisioningInv, PTL DEF Spec, OneCallbackPerPress

=============================================================================
