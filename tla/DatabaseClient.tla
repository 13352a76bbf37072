--------------------------- MODULE DatabaseClient ---------------------------
(***************************************************************************)
(* One blocking call of the Firebase client, as the gateway's get, set and *)
(* push make them: process() of AsyncClient with a single synchronous      *)
(* request, on a connection that is kept from call to call.                *)
(*                                                                         *)
(* An answer comes in parts, each of one or more lines: its status line,   *)
(* its header and, where it has one, its payload.  An answer to an earlier *)
(* call may still be on the connection: "own" tells them apart.            *)
(***************************************************************************)
EXTENDS Naturals, Sequences

CONSTANTS
    ReadTimeout,  \* FIREBASE_TCP_READ_TIMEOUT_SEC, in ticks
    MaxParts,     \* bound: the parts of answers on the connection
    MaxAsked      \* bound: the requests on it that the server has not taken

ASSUME ClientAssumption ==
    ReadTimeout \in Nat \ {0} /\ MaxParts \in Nat /\ MaxAsked \in Nat

Method == {"get", "put", "post"}
Code   == {"ok", "bad"}  \* 200 or 204; 400 and more

VARIABLES
    at,        \* where process() is
    method,    \* of the call
    again,     \* whether the header is being written for the second time
    told,      \* whether the last call ended without an error
    httpCode,  \* of the answer being read
    reading,   \* the part it is at
    timer,     \* what is left of read_timer
    wifi,      \* netStatus
    open,      \* client->connected()
    asked,     \* requests on the connection the server has not taken
    half,      \* whether another one there still lacks its payload
    answers,   \* parts of answers, sent or to be sent, not read yet
    arrived,   \* how many of them have come in
    applied,   \* history: the server has carried out the call's request
    kept       \* history: a call gave up and left the connection as it was

callVars   == <<at, method, again, told>>
readerVars == <<httpCode, reading, timer>>
lineVars   == <<open, asked, half, answers, arrived>>
vars       == <<callVars, readerVars, wifi, lineVars, applied, kept>>

Part    == [kind : {"status", "header", "payload"}, code : Code, more : BOOLEAN]
Request == [own : BOOLEAN, method : Method, sound : BOOLEAN]

TypeOK ==
    /\ at \in {"idle", "connect", "header", "payload", "await", "receive"}
    /\ method \in Method /\ again \in BOOLEAN /\ told \in BOOLEAN
    /\ httpCode \in Code \union {"none"}
    /\ reading \in {"status", "header", "payload", "beyond"}
    /\ timer \in 0..ReadTimeout
    /\ wifi \in BOOLEAN /\ open \in BOOLEAN
    /\ asked \in Seq(Request) /\ half \in BOOLEAN
    /\ answers \in Seq(Part) /\ arrived \in 0..Len(answers)
    /\ applied \in BOOLEAN /\ kept \in BOOLEAN

Init ==
    /\ at = "idle" /\ method = "get" /\ again = FALSE /\ told = TRUE
    /\ httpCode = "none" /\ reading = "status" /\ timer = 0
    /\ wifi = TRUE /\ open = FALSE
    /\ asked = <<>> /\ half = FALSE /\ answers = <<>> /\ arrived = 0
    /\ applied = FALSE /\ kept = FALSE

-----------------------------------------------------------------------------
FedOver == ReadTimeout + 1  \* slip: one tick more than it holds
(* feedTimer *)
Fed == ReadTimeout

(* What was on the connection is gone with it. *)
Emptied == asked' = <<>> /\ half' = FALSE /\ answers' = <<>> /\ arrived' = 0

Stop == open' = FALSE /\ kept' = FALSE /\ Emptied

WriteLeavesOpen == UNCHANGED <<lineVars, kept>>  \* slip: the socket is not stopped
(* The TLS client stops the connection before it reports a failed write;   *)
(* AsyncClient itself leaves it as it is.                                  *)
WriteFailed == Stop

Return(success) == at' = "idle" /\ told' = success

(* asyncRequest: a slot of its own, so nothing read is left from the call  *)
(* before; what its connection still carries is.                           *)
BeginCall(m) ==
    /\ at = "idle"
    /\ Len(asked) < MaxAsked
    /\ at' = "connect" /\ method' = m /\ again' = FALSE
    /\ httpCode' = "none" /\ reading' = "status"
    /\ asked' = [i \in DOMAIN asked |-> [asked[i] EXCEPT !.own = FALSE]]
    /\ applied' = FALSE
    /\ UNCHANGED <<told, timer, wifi, open, half, answers, arrived, kept>>

(* send and receive ask netConnect first.  Without a network the call ends *)
(* in reset(sData, false): whatever it wrote or has to read stays.         *)
NetworkLost ==
    /\ at \in {"connect", "payload", "receive"}
    /\ ~wifi
    /\ Return(FALSE)
    /\ kept' = (open /\ (kept \/ at # "connect"))
    /\ UNCHANGED <<method, again, readerVars, wifi, lineVars, applied>>

(* connect, unless the last call's connection still stands *)
Connect ==
    /\ at = "connect" /\ wifi
    /\ \/ /\ open
          /\ at' = "header"
          /\ UNCHANGED <<told, lineVars, kept>>
       \/ /\ ~open
          /\ at' = "header" /\ open' = TRUE /\ kept' = FALSE
          /\ Emptied
          /\ UNCHANGED told
       \/ /\ ~open
          /\ Return(FALSE)
          /\ UNCHANGED <<lineVars, kept>>
    /\ UNCHANGED <<method, again, readerVars, wifi, applied>>

(* What the server makes of a header: a request, the beginning of one, or, *)
(* where it waits for the payload of an earlier one, that payload.         *)
HeaderArrives ==
    IF half
    THEN /\ asked' = Append(asked, [own |-> FALSE, method |-> "put", sound |-> FALSE])
         /\ half' = FALSE
    ELSE IF method = "get"
    THEN /\ asked' = Append(asked, [own |-> TRUE, method |-> "get", sound |-> TRUE])
         /\ half' = FALSE
    ELSE half' = TRUE /\ UNCHANGED asked

WriteHeader ==
    /\ at = "header" /\ open
    /\ at' = "payload"
    /\ HeaderArrives
    /\ UNCHANGED <<method, again, told, readerVars, wifi, open, answers,
                   arrived, applied, kept>>

(* send is called once more for a header, since the state is still         *)
(* async_state_send_header.                                                *)
HeaderFails ==
    /\ at = "header"
    /\ IF again THEN Return(FALSE) /\ UNCHANGED again
                ELSE at' = "connect" /\ again' = TRUE /\ UNCHANGED told
    /\ WriteFailed
    /\ UNCHANGED <<method, readerVars, wifi, applied>>

(* A get has no payload; the payload of a header that was taken for        *)
(* another one is lost on the server.                                      *)
SendPayload ==
    /\ at = "payload" /\ wifi
    /\ open \/ method = "get"
    /\ at' = "await" /\ timer' = Fed
    /\ asked' = IF half
                THEN Append(asked, [own |-> TRUE, method |-> method, sound |-> TRUE])
                ELSE asked
    /\ half' = FALSE
    /\ UNCHANGED <<method, again, told, httpCode, reading, wifi, open, answers,
                   arrived, applied, kept>>

PayloadFails ==
    /\ at = "payload" /\ wifi /\ method # "get"
    /\ Return(FALSE)
    /\ WriteFailed
    /\ UNCHANGED <<method, again, readerVars, wifi, applied>>

(* handleSendTimeout stops the connection by itself. *)
SendTimesOut ==
    /\ at = "payload" /\ wifi
    /\ Return(FALSE)
    /\ Stop
    /\ UNCHANGED <<method, again, readerVars, wifi, applied>>

-----------------------------------------------------------------------------
(* The wait for the first byte *)
AnswerSeen ==
    /\ at = "await"
    /\ arrived > 0 \/ ~wifi
    /\ at' = "receive"
    /\ UNCHANGED <<method, again, told, readerVars, wifi, lineVars, applied, kept>>

ReadTimesOutFed ==  \* slip: the timer is fed before the test, as in the loop below
    /\ at = "await" /\ arrived = 0 /\ wifi /\ Fed = 0
    /\ Return(FALSE)
    /\ Stop
    /\ UNCHANGED <<method, again, readerVars, wifi, applied>>

(* handleReadTimeout stops the connection. *)
ReadTimesOut ==
    /\ at = "await" /\ arrived = 0 /\ wifi /\ timer = 0
    /\ Return(FALSE)
    /\ Stop
    /\ UNCHANGED <<method, again, readerVars, wifi, applied>>

(* The loop of receive calls feeds the timer each time round, just before  *)
(* the test of it: its handleReadTimeout never finds it at zero.           *)
ReceiveNothing ==
    /\ at = "receive" /\ wifi /\ arrived = 0
    /\ timer' = Fed
    /\ UNCHANGED <<callVars, httpCode, reading, wifi, lineVars, applied, kept>>

HasPayloadAlways(part) == TRUE  \* slip: no look at the length
HasPayload(part) == part.more \/ httpCode = "bad"

(* The last part of the answer ends the call and leaves the connection; so *)
(* does what follows an error answer, once nothing more has come in.       *)
Finished(part) ==
    \/ reading = "header" /\ part.kind = "header" /\ ~HasPayload(part)
    \/ reading = "payload" /\ arrived = 1
    \/ reading = "beyond" /\ arrived = 1 /\ httpCode = "bad"

(* Until a status line turns up everything is skipped; until the header's  *)
(* end everything belongs to it; what follows the payload at once is read  *)
(* with it and, unless Finished, taken for the beginning of another header.*)
ReadingAfter(part) ==
    CASE reading = "status" -> IF part.kind = "status" THEN "header" ELSE "status"
      [] reading = "header" -> IF part.kind = "header" THEN "payload" ELSE "header"
      [] reading \in {"payload", "beyond"} ->
            IF arrived = 1 THEN "header" ELSE "beyond"

CodeAfter(part) ==
    IF reading = "status" /\ part.kind = "status" THEN part.code ELSE httpCode

SuccessWhenRead == TRUE  \* slip: an error answer is an answer
Success == httpCode = "ok"

Receive ==
    /\ at = "receive" /\ wifi /\ arrived > 0
    /\ answers' = Tail(answers) /\ arrived' = arrived - 1
    /\ timer' = Fed
    /\ httpCode' = CodeAfter(Head(answers))
    /\ IF Finished(Head(answers))
       THEN Return(Success) /\ UNCHANGED reading
       ELSE reading' = ReadingAfter(Head(answers)) /\ UNCHANGED <<at, told>>
    /\ UNCHANGED <<method, again, wifi, open, asked, half, applied, kept>>

-----------------------------------------------------------------------------
(* Between the calls loop() stops the socket every half minute. *)
StopWiFiClient ==
    /\ at = "idle" /\ open
    /\ Stop
    /\ UNCHANGED <<callVars, readerVars, wifi, applied>>

WifiChanges ==
    /\ wifi' = ~wifi
    /\ UNCHANGED <<callVars, readerVars, lineVars, applied, kept>>

Tick ==
    /\ at \in {"await", "receive"}
    /\ timer > 0 /\ timer' = timer - 1
    /\ UNCHANGED <<callVars, httpCode, reading, wifi, lineVars, applied, kept>>

(* A put is silent: it is answered with 204 and without a payload. *)
AnswerTo(request, code) ==
    LET more == code = "bad" \/ request.method # "put"
        part(kind) == [kind |-> kind, code |-> code, more |-> more]
    IN  <<part("status"), part("header")>>
            \o (IF more THEN <<part("payload")>> ELSE <<>>)

Serve ==
    /\ open /\ asked # <<>>
    /\ Len(answers) + 3 <= MaxParts
    /\ \E code \in (IF Head(asked).sound THEN Code ELSE {"bad"}) :
          /\ answers' = answers \o AnswerTo(Head(asked), code)
          /\ applied' = (applied \/ (Head(asked).own /\ code = "ok"))
    /\ asked' = Tail(asked)
    /\ UNCHANGED <<callVars, readerVars, wifi, open, half, arrived, kept>>

Transmit ==
    /\ open /\ arrived < Len(answers)
    /\ arrived' = arrived + 1
    /\ UNCHANGED <<callVars, readerVars, wifi, open, asked, half, answers,
                   applied, kept>>

(* The connection breaks; what had come in may still be read. *)
Break ==
    /\ open /\ open' = FALSE
    /\ asked' = <<>> /\ half' = FALSE
    /\ arrived' \in {0, arrived}
    /\ answers' = SubSeq(answers, 1, arrived')
    /\ UNCHANGED <<callVars, readerVars, wifi, applied, kept>>

-----------------------------------------------------------------------------
(* process() *)
Process ==
    \/ NetworkLost \/ Connect \/ WriteHeader \/ HeaderFails
    \/ SendPayload \/ PayloadFails \/ SendTimesOut
    \/ AnswerSeen \/ ReadTimesOut \/ ReceiveNothing \/ Receive

Gateway == (\E m \in Method : BeginCall(m)) \/ StopWiFiClient

Network == WifiChanges \/ Serve \/ Transmit \/ Break

Next == Process \/ Gateway \/ Network \/ Tick

Spec == Init /\ [][Next]_vars

(* The program goes on and time passes; neither the server nor the network *)
(* owes anything.                                                          *)
FairSpec == Spec /\ WF_vars(Process) /\ WF_vars(Tick)

-----------------------------------------------------------------------------
(* Between calls the connection carries nothing of the calls before, save  *)
(* where the network was lost in the middle of one: a time-out, an error   *)
(* answer and a failed write leave no late answer for the next call to take*)
(* for its own (AsyncClient.h:1758-1793).                                  *)
CleanBetweenCalls ==
    at = "idle" /\ open /\ ~kept =>
        asked = <<>> /\ ~half /\ answers = <<>>

(* A call that reports success was carried out by the server, save on a    *)
(* connection kept by a call that lost the network (RealtimeDatabase.h:918).*)
SuccessIsReal ==
    [][at # "idle" /\ Return(TRUE) /\ ~kept => applied]_vars

(* A call ends, or the first byte of an answer comes, or the network goes: *)
(* the sending and the wait for the answer have their time-outs            *)
(* (AsyncClient.h:2049-2098).                                              *)
WaitEnds == at # "idle" ~> at \in {"idle", "receive"}

(* A call whose answer has come in whole ends (AsyncClient.h:2106-2130). *)
AnsweredCallReturns ==
    (at = "receive" /\ ~kept /\ arrived > 0 /\ arrived = Len(answers)
        /\ asked = <<>>) ~> (at = "idle" \/ ~open)

(* A call ends, whatever the server and the network do: FAQ.md:109 of the  *)
(* library says the read time-out covers the time "used while processing   *)
(* the server response (header or payload)".                               *)
CallReturns == at # "idle" ~> at = "idle"
=============================================================================
