------------------------ MODULE DatabaseClient_proofs ------------------------
(***************************************************************************)
(* Type correctness of the blocking database call, and that an answer is   *)
(* never taken for another call's, on every connection that no call has    *)
(* left in the middle of its exchange, for every time-out.                 *)
(***************************************************************************)
EXTENDS DatabaseClient, SequenceTheorems, TLAPS

(* Nothing is under way before the header is written ... *)
Untouched == asked = <<>> /\ ~half /\ answers = <<>>

Quiet ==
    at \in {"idle", "connect", "header"} /\ open /\ ~kept => Untouched

(* ... nothing is read before process() comes to its last loop ... *)
Fresh ==
    at \in {"connect", "header", "payload", "await"} =>
        httpCode = "none" /\ reading = "status"

(* ... and the parts come in the order in which they are read. *)
Shaped ==
    \/ answers = <<>>
    \/ /\ reading = "status"
       /\ answers[1].kind = "status"
       /\ Len(answers) <= 3
       /\ Len(answers) >= 2 => answers[2].kind = "header"
       /\ Len(answers) = 3 => answers[2].more
    \/ /\ reading = "header"
       /\ answers[1].kind = "header"
       /\ Len(answers) <= 2
       /\ Len(answers) = 2 => answers[1].more
    \/ reading = "payload" /\ Len(answers) = 1

Earned ==
    /\ httpCode = "ok" => applied
    /\ \A i \in DOMAIN answers : answers[i].code = "ok" => applied

Sequential ==
    /\ half => at = "payload" /\ asked = <<>> /\ answers = <<>>
    /\ asked # <<>> => /\ Len(asked) = 1 /\ asked[1].own
                       /\ answers = <<>> /\ reading = "status"

Exchange ==
    at \in {"payload", "await", "receive"} /\ ~kept =>
        Shaped /\ Earned /\ Sequential

Inv == TypeOK /\ Quiet /\ Fresh /\ Exchange

-----------------------------------------------------------------------------
(* Facts about the sequences on the connection                             *)

LEMMA RequestsStay ==
    ASSUME NEW s \in Seq(Request)
    PROVE  LET t == [i \in DOMAIN s |-> [s[i] EXCEPT !.own = FALSE]]
           IN  t \in Seq(Request) /\ (s = <<>> => t = <<>>)
  <1> DEFINE t == [i \in DOMAIN s |-> [s[i] EXCEPT !.own = FALSE]]
  <1>1. DOMAIN s = 1..Len(s) /\ Len(s) \in Nat
    BY LenProperties
  <1>2. \A i \in 1..Len(s) : [s[i] EXCEPT !.own = FALSE] \in Request
    <2> TAKE i \in 1..Len(s)
    <2>1. s[i] \in Request
      BY ElementOfSeq
    <2> QED BY <2>1 DEF Request
  <1>3. t \in [1..Len(s) -> Request]
    BY <1>1, <1>2
  <1>4. t \in Seq(Request)
    BY <1>1, <1>3, SeqDef
  <1>5. ASSUME s = <<>> PROVE t = <<>>
    <2>1. DOMAIN t = 1..0
      BY <1>1, <1>5
    <2>2. Len(t) = 0
      BY <1>4, <2>1, LenProperties
    <2> QED BY <1>4, <2>2, EmptySeq
  <1> QED BY <1>4, <1>5

LEMMA AnswerParts ==
    ASSUME NEW request \in Request, NEW code \in Code
    PROVE  LET answer == AnswerTo(request, code)
           IN  /\ answer \in Seq(Part)
               /\ Len(answer) \in {2, 3}
               /\ answer[1].kind = "status"
               /\ answer[2].kind = "header"
               /\ Len(answer) = 3 => answer[2].more
               /\ \A i \in DOMAIN answer : answer[i].code = code
  <1> DEFINE more == code = "bad" \/ request.method # "put"
             part(kind) == [kind |-> kind, code |-> code, more |-> more]
             head == <<part("status"), part("header")>>
             tail == IF more THEN <<part("payload")>> ELSE <<>>
  <1>1. /\ part("status") \in Part /\ part("header") \in Part
        /\ part("payload") \in Part
    BY DEF Part
  <1>2. /\ head \in Seq(Part) /\ Len(head) = 2
        /\ head[1] = part("status") /\ head[2] = part("header")
    BY <1>1
  <1>3. /\ tail \in Seq(Part) /\ Len(tail) = IF more THEN 1 ELSE 0
        /\ more => tail[1] = part("payload")
    BY <1>1
  <1>4. AnswerTo(request, code) = head \o tail
    BY DEF AnswerTo
  <1>5. /\ head \o tail \in Seq(Part)
        /\ Len(head \o tail) = 2 + Len(tail)
        /\ \A i \in 1..2 + Len(tail) :
              (head \o tail)[i] = IF i <= 2 THEN head[i] ELSE tail[i - 2]
    BY <1>2, <1>3, ConcatProperties
  <1>6. DOMAIN (head \o tail) = 1..2 + Len(tail)
    BY <1>5, LenProperties
  <1>7. \A i \in 1..2 + Len(tail) : (head \o tail)[i].code = code
    <2> TAKE i \in 1..2 + Len(tail)
    <2>1. CASE i \in {1, 2}
      BY <2>1, <1>2, <1>5
    <2>2. CASE i = 3 /\ more
      BY <2>2, <1>3, <1>5
    <2> QED BY <2>1, <2>2, <1>3
  <1>8. /\ (head \o tail)[1].kind = "status"
        /\ (head \o tail)[2].kind = "header"
        /\ (head \o tail)[2].more = more
    BY <1>2, <1>3, <1>5
  <1>9. Len(head \o tail) \in {2, 3} /\ (Len(head \o tail) = 3 => more)
    BY <1>3, <1>5
  <1> HIDE DEF head, tail, more, part
  <1> QED BY <1>4, <1>5, <1>6, <1>7, <1>8, <1>9

LEMMA PrefixOfSeq ==
    ASSUME NEW S, NEW s \in Seq(S), NEW k \in 0..Len(s)
    PROVE  /\ SubSeq(s, 1, k) \in Seq(S)
           /\ Len(SubSeq(s, 1, k)) = k
           /\ \A i \in 1..k : SubSeq(s, 1, k)[i] = s[i]
  <1>1. Len(s) \in Nat /\ k \in Int /\ 1 \in Int
    BY LenProperties
  <1>2. \A i \in 1..k : s[i] \in S
    BY <1>1, ElementOfSeq
  <1>3. /\ SubSeq(s, 1, k) \in Seq(S)
        /\ Len(SubSeq(s, 1, k)) = IF 1 <= k THEN k - 1 + 1 ELSE 0
        /\ \A i \in 1..k - 1 + 1 : SubSeq(s, 1, k)[i] = s[1 + i - 1]
    BY <1>1, <1>2, SubSeqProperties
  <1> QED BY <1>1, <1>3

LEMMA InitInv == Init => Inv
  <1>1. ASSUME Init
        PROVE  /\ asked \in Seq(Request) /\ answers \in Seq(Part)
               /\ Len(answers) = 0
    BY <1>1, EmptySeq DEF Init
  <1>2. 0 \in 0..0 /\ 0 \in 0..ReadTimeout
    BY ClientAssumption
  <1> QED
    BY <1>1, <1>2
       DEF Init, Inv, TypeOK, Quiet, Fresh, Exchange, Untouched, Method, Code

LEMMA BeginCallKeepsInv ==
    ASSUME Inv, NEW m \in Method, BeginCall(m)
    PROVE  Inv'
  <1>1. asked' \in Seq(Request) /\ (asked = <<>> => asked' = <<>>)
    BY RequestsStay DEF Inv, TypeOK, BeginCall
  <1> QED BY <1>1 DEF Inv, TypeOK, Quiet, Fresh, Exchange, Untouched, BeginCall

LEMMA StopKeepsInv ==
    ASSUME Inv, Stop, at' \in {"idle", "connect"}, told' \in BOOLEAN,
           again' \in BOOLEAN, Fresh',
           UNCHANGED <<method, readerVars, wifi, applied>>
    PROVE  Inv'
  <1>1. /\ asked' \in Seq(Request) /\ answers' \in Seq(Part)
        /\ arrived' \in 0..Len(answers')
    <2>1. Len(answers') = 0 /\ arrived' = 0
      BY EmptySeq DEF Stop, Emptied
    <2> QED BY <2>1, EmptySeq DEF Stop, Emptied
  <1>2. TypeOK'
    BY <1>1 DEF Inv, TypeOK, Stop, Emptied, readerVars
  <1> QED BY <1>2 DEF Inv, Quiet, Exchange, Stop, Emptied
(* Steps that leave the connection, the reading and the history alone *)
LEMMA IdleStepKeepsInv ==
    ASSUME Inv, UNCHANGED <<method, again, told, httpCode, reading, lineVars,
                            applied, kept>>,
           wifi' \in BOOLEAN, timer' \in 0..ReadTimeout,
           at' = at \/ (at = "await" /\ at' = "receive")
    PROVE  Inv'
  BY DEF Inv, TypeOK, Quiet, Fresh, Exchange, Untouched, Shaped, Earned,
         Sequential, lineVars

LEMMA NetworkLostKeepsInv ==
    ASSUME Inv, NetworkLost
    PROVE  Inv'
  <1>1. TypeOK'
    BY DEF Inv, TypeOK, NetworkLost, Return, readerVars, lineVars
  <1>2. Quiet'
    BY DEF Inv, TypeOK, Quiet, Untouched, NetworkLost, Return, lineVars
  <1> QED BY <1>1, <1>2 DEF Inv, Fresh, Exchange, NetworkLost, Return

LEMMA ConnectKeepsInv ==
    ASSUME Inv, Connect
    PROVE  Inv'
  <1>1. Fresh' /\ Exchange'
    BY DEF Inv, Fresh, Exchange, Connect, Return, readerVars
  <1>2. CASE UNCHANGED <<lineVars, kept>>
    BY <1>1, <1>2
       DEF Inv, TypeOK, Quiet, Untouched, Connect, Return, readerVars, lineVars
  <1>3. CASE Emptied /\ open' /\ ~kept' /\ at' = "header" /\ UNCHANGED told
    <2>1. asked' \in Seq(Request) /\ answers' \in Seq(Part) /\ Len(answers') = 0
      BY <1>3, EmptySeq DEF Emptied
    <2>2. arrived' \in 0..Len(answers')
      BY <1>3, <2>1 DEF Emptied
    <2>3. TypeOK'
      BY <1>3, <2>1, <2>2 DEF Inv, TypeOK, Connect, Emptied, readerVars
    <2> QED BY <1>1, <1>3, <2>3 DEF Inv, Quiet, Untouched, Emptied
  <1> QED BY <1>2, <1>3 DEF Connect

LEMMA WriteHeaderKeepsInv ==
    ASSUME Inv, WriteHeader
    PROVE  Inv'
  <1>1. /\ [own |-> FALSE, method |-> "put", sound |-> FALSE] \in Request
        /\ [own |-> TRUE, method |-> "get", sound |-> TRUE] \in Request
    BY DEF Request, Method
  <1>2. \A r \in Request : /\ Append(asked, r) \in Seq(Request)
                           /\ asked = <<>> => /\ Len(Append(asked, r)) = 1
                                              /\ Append(asked, r)[1] = r
    BY DEF Inv, TypeOK
  <1>3. TypeOK'
    BY <1>1, <1>2 DEF Inv, TypeOK, WriteHeader, HeaderArrives, readerVars
  <1>4. ASSUME ~kept PROVE Untouched
    BY <1>4 DEF Inv, Quiet, WriteHeader
  <1>5. ASSUME ~kept' PROVE Shaped' /\ Earned' /\ Sequential'
    <2>1. Untouched /\ answers' = <<>> /\ httpCode' = "none" /\ reading' = "status"
      BY <1>4, <1>5 DEF Inv, Fresh, WriteHeader, Untouched, readerVars
    <2>2. DOMAIN answers' = {}
      BY <2>1
    <2> QED BY <1>1, <1>2, <2>1, <2>2
            DEF WriteHeader, HeaderArrives, Untouched, Shaped, Earned, Sequential
  <1> QED BY <1>3, <1>5 DEF Inv, Quiet, Fresh, Exchange, WriteHeader, readerVars

LEMMA SendPayloadKeepsInv ==
    ASSUME Inv, SendPayload
    PROVE  Inv'
  <1> DEFINE r == [own |-> TRUE, method |-> method, sound |-> TRUE]
  <1>1. r \in Request
    BY DEF Inv, TypeOK, Request
  <1>2. /\ Append(asked, r) \in Seq(Request)
        /\ asked = <<>> => Len(Append(asked, r)) = 1 /\ Append(asked, r)[1] = r
    BY <1>1 DEF Inv, TypeOK
  <1>3. r.own
    OBVIOUS
  <1> HIDE DEF r
  <1>4. asked' = IF half THEN Append(asked, r) ELSE asked
    BY DEF SendPayload, r
  <1>5. TypeOK'
    <2>1. asked' \in Seq(Request)
      BY <1>2, <1>4 DEF Inv, TypeOK
    <2>2. timer' \in 0..ReadTimeout
      BY ClientAssumption DEF SendPayload, Fed
    <2>3. /\ at' = "await" /\ half' = FALSE
          /\ UNCHANGED <<method, again, told, httpCode, reading, wifi, open,
                         answers, arrived, applied, kept>>
      BY DEF SendPayload
    <2> QED BY <2>1, <2>2, <2>3 DEF Inv, TypeOK
  <1>6. ASSUME ~kept' PROVE Shaped' /\ Earned' /\ Sequential'
    BY <1>2, <1>3, <1>4, <1>6
       DEF Inv, Fresh, Exchange, SendPayload, Shaped, Earned, Sequential
  <1> QED BY <1>5, <1>6 DEF Inv, Quiet, Fresh, Exchange, SendPayload

LEMMA StoppingKeepsInv ==
    ASSUME Inv,
           \/ HeaderFails \/ PayloadFails \/ SendTimesOut \/ ReadTimesOut
           \/ StopWiFiClient
    PROVE  Inv'
  <1>1. CASE HeaderFails
    <2>1. Fresh'
      BY <1>1 DEF Inv, Fresh, HeaderFails, Return, readerVars
    <2>2. at' \in {"idle", "connect"} /\ told' \in BOOLEAN /\ again' \in BOOLEAN
      BY <1>1 DEF Inv, TypeOK, HeaderFails, Return
    <2> QED BY <1>1, <2>1, <2>2, StopKeepsInv DEF HeaderFails, WriteFailed
  <1>2. CASE PayloadFails \/ SendTimesOut \/ ReadTimesOut \/ StopWiFiClient
    <2>1. /\ at' = "idle" /\ told' \in BOOLEAN /\ again' \in BOOLEAN
          /\ Stop /\ UNCHANGED <<method, readerVars, wifi, applied>>
      BY <1>2 DEF Inv, TypeOK, PayloadFails, SendTimesOut, ReadTimesOut,
                  StopWiFiClient, WriteFailed, Return, callVars
    <2>2. Fresh'
      BY <2>1 DEF Fresh
    <2> QED BY <2>1, <2>2, StopKeepsInv
  <1> QED BY <1>1, <1>2
LEMMA ReceiveKeepsInv ==
    ASSUME Inv, Receive
    PROVE  Inv' /\ (at' = "idle" /\ told' /\ ~kept => applied)
  <1>1. answers # <<>> /\ Len(answers) \in Nat \ {0} /\ answers \in Seq(Part)
    <2>1. answers \in Seq(Part) /\ Len(answers) > 0
      BY DEF Inv, TypeOK, Receive
    <2> QED BY <2>1, EmptySeq
  <1>2. /\ Head(answers) \in Part /\ Head(answers) = answers[1]
        /\ answers' \in Seq(Part)
        /\ Len(answers') = Len(answers) - 1
        /\ \A i \in 1..Len(answers') : answers'[i] = answers[i + 1]
    BY <1>1, HeadTailProperties DEF Receive
  <1>3. DOMAIN answers' = 1..Len(answers') /\ DOMAIN answers = 1..Len(answers)
    BY <1>1, <1>2, LenProperties
  <1>4. Len(answers) = 1 => answers' = <<>>
    BY <1>2, EmptySeq
  <1>5. TypeOK'
    <2>1. arrived' \in 0..Len(answers')
      BY <1>1, <1>2 DEF Inv, TypeOK, Receive
    <2>2. httpCode' \in Code \union {"none"}
      BY <1>2 DEF Inv, TypeOK, Receive, CodeAfter, Part
    <2>3. at' \in {"idle", "receive"} /\ told' \in BOOLEAN
      BY DEF Inv, TypeOK, Receive, Return, Success
    <2>4. reading' \in {"status", "header", "payload", "beyond"}
      BY DEF Inv, TypeOK, Receive, ReadingAfter
    <2>5. timer' \in 0..ReadTimeout
      BY ClientAssumption DEF Receive, Fed
    <2>6. UNCHANGED <<method, again, wifi, open, asked, half, applied, kept>>
      BY DEF Receive
    <2> QED BY <1>2, <2>1, <2>2, <2>3, <2>4, <2>5, <2>6 DEF Inv, TypeOK
  <1>6. ASSUME ~kept PROVE Shaped /\ Earned /\ Sequential
    BY <1>6 DEF Inv, Exchange, Receive
  <1>7. ASSUME ~kept PROVE Untouched' \/ ~Finished(Head(answers))
    <2> SUFFICES ASSUME Finished(Head(answers)) PROVE Untouched'
      OBVIOUS
    <2>1. Len(answers) = 1
      BY <1>1, <1>2, <1>6, <1>7 DEF Finished, HasPayload, Shaped
    <2>2. asked = <<>> /\ ~half
      BY <1>1, <1>6, <1>7 DEF Sequential, Inv, TypeOK, Receive
    <2> QED BY <1>4, <2>1, <2>2 DEF Untouched, Receive
  <1>8. ASSUME ~kept PROVE Earned'
    BY <1>1, <1>2, <1>3, <1>6, <1>8 DEF Earned, Receive, CodeAfter
  <1>9. ASSUME ~kept, ~Finished(Head(answers)) PROVE Shaped'
    <2>1. CASE reading = "status"
      BY <1>1, <1>2, <1>4, <1>6, <1>9, <2>1 DEF Shaped, Receive, ReadingAfter
    <2>2. CASE reading = "header"
      BY <1>1, <1>2, <1>4, <1>6, <1>9, <2>2 DEF Shaped, Receive, ReadingAfter
    <2>3. CASE reading = "payload"
      BY <1>1, <1>2, <1>4, <1>6, <1>9, <2>3
         DEF Shaped, Receive, ReadingAfter
    <2> QED BY <1>1, <1>6, <1>9, <2>1, <2>2, <2>3 DEF Shaped
  <1>10. ASSUME ~kept PROVE Sequential'
    BY <1>1, <1>6, <1>10 DEF Sequential, Receive, Inv, TypeOK
  <1>11. at' = IF Finished(Head(answers)) THEN "idle" ELSE "receive"
    BY DEF Receive, Return
  <1>12. Quiet' /\ Fresh' /\ Exchange'
    BY <1>7, <1>8, <1>9, <1>10, <1>11 DEF Quiet, Fresh, Exchange, Receive
  <1>13. ASSUME at' = "idle", told', ~kept PROVE applied
    BY <1>6, <1>11, <1>13 DEF Receive, Return, Success, Earned
  <1> QED BY <1>5, <1>12, <1>13 DEF Inv

LEMMA ServeKeepsInv ==
    ASSUME Inv, Serve
    PROVE  Inv'
  <1>1. asked \in Seq(Request) /\ asked # <<>> /\ answers \in Seq(Part)
    BY DEF Inv, TypeOK, Serve
  <1>2. /\ Head(asked) \in Request /\ Head(asked) = asked[1]
        /\ asked' \in Seq(Request) /\ Len(asked') = Len(asked) - 1
    BY <1>1, HeadTailProperties DEF Serve
  <1>3. PICK code \in Code :
          /\ answers' = answers \o AnswerTo(Head(asked), code)
          /\ applied' = (applied \/ (Head(asked).own /\ code = "ok"))
    BY DEF Serve, Code
  <1> DEFINE answer == AnswerTo(Head(asked), code)
  <1>4. /\ answer \in Seq(Part)
        /\ Len(answer) \in {2, 3}
        /\ answer[1].kind = "status"
        /\ answer[2].kind = "header"
        /\ Len(answer) = 3 => answer[2].more
        /\ \A i \in DOMAIN answer : answer[i].code = code
    BY <1>2, AnswerParts
  <1> HIDE DEF answer
  <1>5. answers' \in Seq(Part) /\ Len(answers') = Len(answers) + Len(answer)
    BY <1>1, <1>3, <1>4, ConcatProperties DEF answer
  <1>6. arrived' \in 0..Len(answers')
    BY <1>1, <1>4, <1>5, LenProperties DEF Inv, TypeOK, Serve
  <1>7. TypeOK'
    BY <1>2, <1>3, <1>5, <1>6 DEF Inv, TypeOK, Serve, callVars, readerVars
  <1>8. at \in {"idle", "connect", "header"} => kept
    BY <1>1 DEF Inv, Quiet, Untouched, Serve
  <1>9. ASSUME ~kept PROVE Shaped' /\ Earned' /\ Sequential'
    <2>1. Sequential /\ Earned
      BY <1>8, <1>9 DEF Inv, TypeOK, Exchange
    <2>2. /\ Len(asked) = 1 /\ Head(asked).own /\ answers = <<>>
          /\ reading = "status" /\ ~half
      BY <1>1, <1>2, <2>1 DEF Sequential
    <2>3. answers' = answer /\ asked' = <<>>
      BY <1>1, <1>2, <1>3, <1>4, <2>2, ConcatEmptySeq, EmptySeq DEF answer
    <2>4. Shaped'
      BY <1>4, <2>2, <2>3 DEF Shaped, Serve, readerVars
    <2>5. Earned'
      BY <1>3, <1>4, <2>1, <2>2, <2>3 DEF Earned, Serve, readerVars
    <2> QED BY <2>2, <2>3, <2>4, <2>5 DEF Sequential, Serve
  <1> QED BY <1>7, <1>8, <1>9
          DEF Inv, Quiet, Fresh, Exchange, Serve, callVars, readerVars

LEMMA TransmitKeepsInv ==
    ASSUME Inv, Transmit
    PROVE  Inv'
  <1>1. arrived' \in 0..Len(answers')
    BY LenProperties DEF Inv, TypeOK, Transmit
  <1> QED BY <1>1
          DEF Inv, TypeOK, Quiet, Fresh, Exchange, Untouched, Shaped, Earned,
              Sequential, Transmit, callVars, readerVars

LEMMA BreakKeepsInv ==
    ASSUME Inv, Break
    PROVE  Inv'
  <1>1. answers \in Seq(Part) /\ arrived' \in 0..Len(answers)
    BY LenProperties DEF Inv, TypeOK, Break
  <1>2. Len(answers) \in Nat /\ DOMAIN answers = 1..Len(answers)
    BY <1>1, LenProperties
  <1>4. /\ answers' \in Seq(Part) /\ Len(answers') = arrived'
        /\ \A i \in 1..arrived' : answers'[i] = answers[i]
    BY <1>1, PrefixOfSeq DEF Break
  <1>5. DOMAIN answers' = 1..arrived' /\ (arrived' = 0 => answers' = <<>>)
    BY <1>4, LenProperties, EmptySeq
  <1>6. answers = <<>> => answers' = <<>>
    BY <1>1, <1>5, EmptySeq
  <1>7. asked' = <<>> /\ asked' \in Seq(Request)
    BY EmptySeq DEF Break
  <1>8. TypeOK'
    <2>1. arrived' \in 0..Len(answers')
      BY <1>1, <1>2, <1>4
    <2> QED BY <1>4, <1>7, <2>1 DEF Inv, TypeOK, Break, callVars, readerVars
  <1>9. ASSUME at \in {"payload", "await", "receive"}, ~kept
        PROVE  Shaped' /\ Earned' /\ Sequential'
    <2>1. Shaped /\ Earned
      BY <1>9 DEF Inv, Exchange
    <2>2. Earned'
      BY <1>1, <1>2, <1>4, <1>5, <2>1 DEF Earned, Break, readerVars
    <2>3. Shaped'
      <3>1. reading' = reading /\ arrived' \in 0..Len(answers)
        BY <1>1 DEF Break, readerVars
      <3>2. CASE arrived' = 0
        BY <1>5, <3>2 DEF Shaped
      <3>3. CASE arrived' # 0 /\ answers = <<>>
        BY <1>6, <3>3 DEF Shaped
      <3>4. CASE arrived' # 0 /\ answers # <<>>
        <4>1. answers'[1] = answers[1]
          BY <1>1, <1>2, <1>4, <3>4
        <4>2. arrived' >= 2 => answers'[2] = answers[2]
          BY <1>1, <1>2, <1>4
        <4> QED BY <1>1, <1>2, <1>4, <2>1, <3>1, <3>4, <4>1, <4>2 DEF Shaped
      <3> QED BY <3>2, <3>3, <3>4
    <2> QED BY <1>7, <2>2, <2>3 DEF Sequential, Break
  <1> QED BY <1>8, <1>9
          DEF Inv, Quiet, Fresh, Exchange, Break, callVars, readerVars

-----------------------------------------------------------------------------
(* The invariant, and that success is earned, step by step *)
LEMMA StepKeepsInv ==
    ASSUME Inv, [Next]_vars
    PROVE  Inv' /\ (at # "idle" /\ Return(TRUE) /\ ~kept => applied)
  <1>1. CASE Receive
    BY <1>1, ReceiveKeepsInv DEF Return
  <1>2. CASE NetworkLost
    BY <1>2, NetworkLostKeepsInv DEF NetworkLost, Return
  <1>3. CASE Connect
    BY <1>3, ConnectKeepsInv DEF Connect, Return, Emptied
  <1>4. CASE HeaderFails \/ PayloadFails \/ SendTimesOut \/ ReadTimesOut
              \/ StopWiFiClient
    BY <1>4, StoppingKeepsInv
       DEF HeaderFails, PayloadFails, SendTimesOut, ReadTimesOut,
           StopWiFiClient, Return, callVars
  <1>5. CASE WriteHeader
    BY <1>5, WriteHeaderKeepsInv DEF WriteHeader, Return
  <1>6. CASE SendPayload
    BY <1>6, SendPayloadKeepsInv DEF SendPayload, Return
  <1>7. CASE \E m \in Method : BeginCall(m)
    BY <1>7, BeginCallKeepsInv DEF BeginCall
  <1>8. CASE AnswerSeen \/ ReceiveNothing \/ WifiChanges \/ Tick
    <2>1. UNCHANGED <<method, again, told, httpCode, reading, lineVars,
                      applied, kept>>
      BY <1>8 DEF AnswerSeen, ReceiveNothing, WifiChanges, Tick, callVars, readerVars
    <2>2. wifi' \in BOOLEAN /\ timer' \in 0..ReadTimeout
      <3>1. wifi \in BOOLEAN /\ timer \in 0..ReadTimeout
        BY DEF Inv, TypeOK
      <3>2. wifi' \in BOOLEAN
        BY <1>8, <3>1 DEF AnswerSeen, ReceiveNothing, WifiChanges, Tick
      <3>3. timer' = timer \/ timer' = ReadTimeout \/ (timer > 0 /\ timer' = timer - 1)
        BY <1>8 DEF AnswerSeen, ReceiveNothing, WifiChanges, Tick, Fed, readerVars
      <3> QED BY <3>1, <3>2, <3>3, ClientAssumption
    <2>3. at' = at \/ (at = "await" /\ at' = "receive")
      BY <1>8 DEF AnswerSeen, ReceiveNothing, WifiChanges, Tick, callVars
    <2> QED BY <2>1, <2>2, <2>3, IdleStepKeepsInv DEF Return
  <1>9. CASE Serve
    BY <1>9, ServeKeepsInv DEF Serve, callVars, Return
  <1>10. CASE Transmit
    BY <1>10, TransmitKeepsInv DEF Transmit, callVars, Return
  <1>11. CASE Break
    BY <1>11, BreakKeepsInv DEF Break, callVars, Return
  <1>12. CASE UNCHANGED vars
    BY <1>12, IdleStepKeepsInv
       DEF vars, callVars, readerVars, lineVars, Inv, TypeOK, Return
  <1> QED
    BY <1>1, <1>2, <1>3, <1>4, <1>5, <1>6, <1>7, <1>8, <1>9, <1>10, <1>11, <1>12
       DEF Next, Process, Gateway, Network

THEOREM ClientInv == Spec => []Inv
  BY InitInv, StepKeepsInv, PTL DEF Spec

(* Every reachable state of a call and of its connection is well typed. *)
THEOREM ClientTypeCorrect == Spec => []TypeOK
  <1>1. Inv => TypeOK
    BY DEF Inv
  <1> QED BY <1>1, ClientInv, PTL

(* No call leaves anything on a kept connection for the next one to read,  *)
(* unless it lost the network half way, whatever the time-out.             *)
THEOREM NothingIsLeft == Spec => []CleanBetweenCalls
  <1>1. Inv => CleanBetweenCalls
    BY DEF Inv, Quiet, Untouched, CleanBetweenCalls
  <1> QED BY <1>1, ClientInv, PTL

(* Success is reported only of what the server has carried out. *)
THEOREM SuccessIsEarned == Spec => SuccessIsReal
  <1>1. Inv /\ [Next]_vars =>
          [at # "idle" /\ Return(TRUE) /\ ~kept => applied]_vars
    BY StepKeepsInv
  <1> QED BY <1>1, ClientInv, PTL DEF Spec, SuccessIsReal
=============================================================================
