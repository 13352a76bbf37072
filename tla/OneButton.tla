----------------------------- MODULE OneButton -----------------------------
(***************************************************************************)
(* The push button library of the gateway: the finite state machine that   *)
(* OneButton::tick runs on the level of the contact.  The library sees the *)
(* contact only when the program calls tick, and the gateway's loop can    *)
(* take seconds between two calls.                                         *)
(***************************************************************************)
EXTENDS Integers

CONSTANTS
    Debounce,  \* _debounceTicks
    Click,     \* _clickTicks
    Press,     \* _pressTicks
    MaxClicks, \* _maxClicks: 1, no double click is attached
    MaxGap     \* the longest time between two ticks

ASSUME OneButtonAssumption ==
    /\ Debounce \in Nat /\ Click \in Nat /\ Press \in Nat /\ MaxGap \in Nat
    /\ Debounce < Click /\ Click < Press
    /\ MaxClicks \in Nat \ {0}

VARIABLES
    state, lastState,  \* _state, _lastState
    waitTime,          \* millis() - _startTime, up to Press + 1, where looked at
    nClicks,           \* _nClicks
    gap,               \* time since the last tick
    closed,            \* whether the contact is closed
    held,              \* history: how long it has been, up to Press + 1, or 0
    unseen,            \* history: it was open and no tick has seen that
    missed,            \* history: it opened and closed again unseen by a tick
    rest,              \* history: whether it was closed when it last rested
    calm,              \* history: time since it left that rest, up to Debounce
    owed,              \* history: presses not called back for, up to two
    glitch             \* history: it opened and closed while it was held

tickVars    == <<state, lastState, waitTime, nClicks>>
restVars    == <<rest, calm>>
pressVars   == <<owed, glitch>>
contactVars == <<closed, held, unseen, missed, restVars, pressVars>>
buttonVars  == <<tickVars, gap, contactVars>>

ButtonState == {"INIT", "DOWN", "UP", "COUNT", "PRESS", "PRESSEND"}
CountLimit  == MaxClicks + 2  \* bound of nClicks: what lies above behaves alike

ButtonTypeOK ==
    /\ state \in ButtonState
    /\ lastState \in ButtonState
    /\ waitTime \in 0..Press + 1
    /\ nClicks \in 0..CountLimit
    /\ gap \in 0..MaxGap
    /\ closed \in BOOLEAN
    /\ held \in 0..Press + 1
    /\ unseen \in BOOLEAN
    /\ missed \in BOOLEAN
    /\ rest \in BOOLEAN
    /\ calm \in 0..Debounce
    /\ owed \in 0..2
    /\ glitch \in BOOLEAN

ButtonInit ==
    /\ state = "INIT"
    /\ lastState = "INIT"
    /\ waitTime = 0
    /\ nClicks = 0
    /\ gap = 0
    /\ closed = FALSE
    /\ held = 0
    /\ unseen = FALSE
    /\ missed = FALSE
    /\ rest = FALSE
    /\ calm = Debounce
    /\ owed = 0
    /\ glitch = FALSE

-----------------------------------------------------------------------------
(* The contact, which may bounce, and the time.  Once it leaves its rest   *)
(* the contact bounces for up to the debounce time.  A press is a closing  *)
(* out of rest: the closings that follow within that time, and those after *)
(* it was let go, are bounces.                                             *)
AtRest == calm = Debounce

Move ==
    /\ calm' = IF AtRest THEN 0 ELSE calm
    /\ UNCHANGED rest

Close ==
    /\ ~closed
    /\ closed' = TRUE
    /\ held' = 0
    /\ missed' = (missed \/ unseen)
    /\ Move
    /\ owed' = IF AtRest /\ owed < 2 THEN owed + 1 ELSE owed
    /\ UNCHANGED <<tickVars, gap, unseen, glitch>>

Open ==
    /\ closed
    /\ closed' = FALSE
    /\ held' = 0
    /\ unseen' = TRUE
    /\ Move
    /\ UNCHANGED <<tickVars, gap, missed, pressVars>>

Settle ==
    /\ calm' = IF AtRest THEN calm ELSE calm + 1
    /\ rest' = IF calm' = Debounce THEN closed ELSE rest
    /\ glitch' = (glitch \/ (~AtRest /\ calm' = Debounce /\ rest /\ closed))
    /\ UNCHANGED owed

(* The time is looked at in these states only. *)
Timed == state \in {"DOWN", "UP", "COUNT", "PRESSEND"}

Elapse ==
    /\ gap < MaxGap
    /\ gap' = gap + 1
    /\ waitTime' = IF Timed /\ waitTime <= Press THEN waitTime + 1 ELSE waitTime
    /\ held' = IF closed /\ held <= Press THEN held + 1 ELSE held
    /\ Settle
    /\ UNCHANGED <<state, lastState, nClicks, closed, unseen, missed>>

-----------------------------------------------------------------------------
(* tick                                                                    *)
Sampled ==
    /\ gap' = 0
    /\ unseen' = (unseen /\ closed)
    /\ UNCHANGED <<closed, held, restVars>>

CalledBack ==
    /\ owed' = IF owed > 0 THEN owed - 1 ELSE 0
    /\ UNCHANGED glitch

NewState(next) == state' = next /\ lastState' = state

ResetKeepsClicks ==  \* slip: the clicks not cleared, the state not left
    /\ state' = lastState
    /\ UNCHANGED <<lastState, waitTime, nClicks>>
Reset ==
    /\ state' = "INIT"
    /\ lastState' = "INIT"
    /\ nClicks' = 0
    /\ waitTime' = 0

PressSeen ==
    /\ state = "INIT"
    /\ closed
    /\ NewState("DOWN")
    /\ waitTime' = 0
    /\ nClicks' = 0
    /\ missed' = FALSE
    /\ Sampled
    /\ UNCHANGED pressVars

(* A change within the debounce time is taken back, whatever the state.    *)
Bounce ==
    /\ state \in {"DOWN", "UP", "PRESSEND"}
    /\ closed = (state # "DOWN")
    /\ waitTime < Debounce
    /\ NewState(lastState)
    /\ Sampled
    /\ UNCHANGED <<waitTime, nClicks, missed, pressVars>>

ReleaseSeen ==
    /\ \/ state = "DOWN" /\ waitTime >= Debounce /\ NewState("UP")
       \/ state = "PRESS" /\ NewState("PRESSEND")
    /\ ~closed
    /\ waitTime' = 0
    /\ Sampled
    /\ UNCHANGED <<nClicks, missed, pressVars>>

CountPressAtOnce ==  \* slip: the release not debounced
    /\ state = "UP"
    /\ NewState("COUNT")
    /\ nClicks' = IF nClicks < CountLimit THEN nClicks + 1 ELSE nClicks
    /\ Sampled
    /\ UNCHANGED <<waitTime, missed, pressVars>>
CountPress ==
    /\ state = "UP"
    /\ waitTime >= Debounce
    /\ NewState("COUNT")
    /\ nClicks' = IF nClicks < CountLimit THEN nClicks + 1 ELSE nClicks
    /\ Sampled
    /\ UNCHANGED <<waitTime, missed, pressVars>>

PressAgain ==
    /\ state = "COUNT"
    /\ closed
    /\ NewState("DOWN")
    /\ waitTime' = 0
    /\ Sampled
    /\ UNCHANGED <<nClicks, missed, pressVars>>

(* The callback is _clickFunc for one press and nothing for more: the      *)
(* gateway attaches no others.                                             *)
ClicksKnown ==
    /\ state = "COUNT"
    /\ ~closed
    /\ waitTime > Click \/ nClicks = MaxClicks
    /\ Reset
    /\ IF nClicks = 1 THEN CalledBack ELSE UNCHANGED pressVars
    /\ Sampled
    /\ UNCHANGED missed

LongPressDueAtOnce == state = "DOWN" /\ closed  \* slip: the time not asked for
LongPressDue ==
    /\ state = "DOWN"
    /\ closed
    /\ waitTime > Press

(* _longPressStartFunc *)
LongPressStart ==
    /\ LongPressDue
    /\ NewState("PRESS")
    /\ CalledBack
    /\ Sampled
    /\ UNCHANGED <<waitTime, nClicks, missed>>

LongPressStop ==
    /\ state = "PRESSEND"
    /\ waitTime >= Debounce
    /\ Reset
    /\ Sampled
    /\ UNCHANGED <<missed, pressVars>>

(* With the button idle and at rest, the presses are over.                 *)
Idle ==
    /\ state = "INIT"
    /\ ~closed
    /\ IF AtRest THEN owed' = 0 /\ glitch' = FALSE ELSE UNCHANGED pressVars
    /\ Sampled
    /\ UNCHANGED <<tickVars, missed>>

NothingToDo ==
    /\ \/ state = "DOWN" /\ closed /\ waitTime <= Press
       \/ state \in {"UP", "PRESSEND"} /\ ~closed /\ waitTime < Debounce
       \/ state = "COUNT" /\ ~closed /\ waitTime <= Click /\ nClicks # MaxClicks
       \/ state = "PRESS" /\ closed
    /\ Sampled
    /\ UNCHANGED <<tickVars, missed, pressVars>>

TickNoCallback ==
    \/ PressSeen \/ Bounce \/ ReleaseSeen \/ CountPress \/ PressAgain
    \/ LongPressStop \/ Idle \/ NothingToDo

ClickFires == ClicksKnown /\ nClicks = 1

=============================================================================
