----------------------------- MODULE SoftSerial -----------------------------
(***************************************************************************)
(* The receiver of the software serial port on which node 1 hears its CO2  *)
(* sensor.  An interrupt records the time of every edge of the line; the   *)
(* program makes bytes of the recorded times when it asks for data.  Both  *)
(* are interrupted by node 1's LoRa handler, during which edges collapse   *)
(* into one, recorded late.                                                *)
(*                                                                         *)
(* Time is counted in bits: the line changes at bit boundaries, and the    *)
(* program's steps fall between them.                                      *)
(***************************************************************************)
EXTENDS Integers, Sequences, SequencesExt

CONSTANTS
    DataBits,  \* m_dataBits
    MaxEdges,  \* bound: the edges recorded and not decoded
    Pause,     \* the boundaries passing between two steps of a check, at most
    None       \* no byte

ASSUME SerialAssumption ==
    /\ DataBits \in Nat \ {0}
    /\ MaxEdges \in Nat \ {0}
    /\ Pause \in Nat
    /\ None \notin [1..DataBits -> {0, 1}]

PduBits == DataBits + 1  \* m_pduBits: no parity, one stop bit
Byte    == [1..DataBits -> {0, 1}]
Level   == {0, 1}
Long    == PduBits + 1   \* bound of an interval: what is longer decodes alike

VARIABLES
    frame,    \* the byte being sent, until its stop bit begins
    place,    \* the bit of it on the line; PduBits in the silence after it too
    since,    \* bits since the last edge was recorded
    edges,    \* m_isrBuffer: each edge with the bits since the one before
              \* and, as history, the bit that begins there, unless it is late
    masked,   \* whether the LoRa handler runs
    latched,  \* whether the line changed since it began
    lastLevel,  \* the level in m_isrLastTick
    ahead,    \* how far m_isrLastTick is beyond the last edge decoded
    lastBit,  \* m_rxLastBit
    cur,      \* m_rxCurByte: the data bits so far
    pc,       \* where rxBits is
    todo,     \* the edges for_each found and has not handed out
    waited,   \* boundaries passed in a check
    synced,   \* history: no late edge and no check interrupted since a silence
    awaited,  \* history: the byte whose start edge was decoded, if it is due
    wrong     \* history: a byte came out wrong, or not at all

lineVars    == <<frame, place>>
isrVars     == <<since, edges, masked, latched>>
decoderVars == <<lastLevel, ahead, lastBit, cur>>
historyVars == <<synced, awaited, wrong>>
readerVars  == <<pc, todo, waited>>
vars        == <<lineVars, isrVars, decoderVars, historyVars, readerVars>>

Edge == [gap : 0..Long, level : Level, late : BOOLEAN,
         frame : Byte \union {None}, place : 0..PduBits]

TypeOK ==
    /\ frame \in Byte \union {None} /\ place \in 0..PduBits
    /\ since \in -1..Long
    /\ edges \in Seq(Edge) /\ Len(edges) <= MaxEdges
    /\ masked \in BOOLEAN /\ latched \in BOOLEAN
    /\ lastLevel \in Level
    /\ ahead \in 0..PduBits
    /\ lastBit \in -1..PduBits - 1
    /\ cur \in BoundedSeq(Level, DataBits)
    /\ pc \in {"idle", "drain", "check"}
    /\ todo \in 0..MaxEdges
    /\ waited \in 0..Pause
    /\ synced \in BOOLEAN /\ wrong \in BOOLEAN
    /\ awaited \in Byte \union {None}

Init ==
    /\ frame = None /\ place = PduBits
    /\ since = 0 /\ edges = <<>> /\ masked = FALSE /\ latched = FALSE
    /\ lastLevel = 1 /\ ahead = 0 /\ lastBit = PduBits - 1 /\ cur = <<>>
    /\ pc = "idle" /\ todo = 0 /\ waited = 0
    /\ synced = TRUE /\ awaited = None /\ wrong = FALSE

-----------------------------------------------------------------------------
(* The line and the interrupts                                             *)

(* The bits of a frame: the start bit, the data bits, the stop bit.        *)
Bit(f, k) == IF k = 0 THEN 0 ELSE IF k = PduBits THEN 1 ELSE f[k]

line == Bit(frame, place)

Longer(n) == IF n < Long THEN n + 1 ELSE n

Recorded(gap, late) ==
    edges' = Append(edges, [gap |-> gap, level |-> line', late |-> late,
                            frame |-> IF late THEN None ELSE frame',
                            place |-> IF late THEN PduBits ELSE place'])

SameLevel ==
    /\ since' = Longer(since)
    /\ UNCHANGED <<edges, latched>>

(* rxBitISR, at once or, for the first of several, when the LoRa handler   *)
(* returns                                                                 *)
NewLevel ==
    IF masked
    THEN since' = Longer(since) /\ latched' = TRUE /\ UNCHANGED edges
    ELSE /\ Len(edges) < MaxEdges
         /\ Recorded(Longer(since), FALSE)
         /\ since' = 0
         /\ UNCHANGED latched

BoundaryPasses ==
    /\ pc = "check" /\ ~masked => waited < Pause
    /\ waited' = IF pc = "check" /\ ~masked THEN waited + 1 ELSE waited
    /\ UNCHANGED <<masked, decoderVars, historyVars, pc, todo>>

LineGoesOn ==
    /\ BoundaryPasses
    /\ place' = IF place < PduBits THEN place + 1 ELSE place
    /\ frame' = IF place' = PduBits THEN None ELSE frame
    /\ IF line' = line THEN SameLevel ELSE NewLevel

FrameBegins(b) ==
    /\ BoundaryPasses
    /\ place = PduBits
    /\ frame' = b
    /\ place' = 0
    /\ NewLevel

LoRaHandlerBegins ==
    /\ ~masked
    /\ masked' = TRUE
    /\ synced' = (synced /\ pc # "check")
    /\ awaited' = IF synced' THEN awaited ELSE None
    /\ UNCHANGED <<lineVars, since, edges, latched, decoderVars, wrong, readerVars>>

(* The late edge is stamped with the nearest boundary. *)
LoRaHandlerReturns ==
    /\ masked
    /\ masked' = FALSE
    /\ latched' = FALSE
    /\ UNCHANGED <<lineVars, decoderVars, historyVars, readerVars>>
    /\ IF latched
       THEN /\ Len(edges) < MaxEdges
            /\ \E up \in {0, 1} :
                /\ since + up >= 0
                /\ Recorded(IF up = 1 THEN Longer(since) ELSE since, TRUE)
                /\ since' = -up
       ELSE UNCHANGED <<edges, since>>

-----------------------------------------------------------------------------
(* rxBits(isrTick): bits of one level                                      *)

Lesser(a, b) == IF a <= b THEN a ELSE b

StartsFrame(level) == lastBit = PduBits - 1 /\ level = 0

Ignored(level, bits) == bits = 0 \/ (lastBit = PduBits - 1 /\ level = 1)

DataTakenAll(n, b) == n  \* slip: data bits not told from the bits after them
DataTaken(n, b) == Lesser(n, DataBits - 1 - b)

(* The byte that is complete, if one is. *)
Decode(level, bits) ==
    LET begun == StartsFrame(level)
        b     == IF begun THEN -1 ELSE lastBit
        n     == IF begun THEN bits - 1 ELSE bits
        data  == DataTaken(n, b)
        word  == cur \o [i \in 1..data |-> level]
    IN  IF Ignored(level, bits)
        THEN [lastBit |-> lastBit, cur |-> cur, byte |-> None]
        ELSE IF n > data
        THEN [lastBit |-> PduBits - 1, cur |-> <<>>,
              byte |-> IF level = 1 THEN word ELSE None]
        ELSE [lastBit |-> b + data, cur |-> word, byte |-> None]

(* A difference of times that is negative wraps and is a long one.         *)
BitsSince(gap) == IF gap >= ahead THEN gap - ahead ELSE Long

Starts(edge) == edge.place = 0 /\ ~edge.late

Judge(byte, edge) ==
    LET trusted == synced /\ \A i \in 1..Len(edges) : ~edges[i].late
        due     == byte # None \/ Starts(edge)
    IN  /\ wrong' = (wrong \/ (trusted /\ due /\ byte # awaited))
        /\ synced' = (~edge.late /\ (synced \/ (Starts(edge) /\ edge.gap = Long)))
        /\ awaited' = IF Starts(edge) /\ synced' THEN edge.frame
                      ELSE IF byte # None \/ edge.late THEN None ELSE awaited

-----------------------------------------------------------------------------
(* rxBits, which available and read call: the edges recorded so far, and   *)
(* then the end of a byte that no edge marks                               *)

RxBits ==
    /\ pc = "idle"
    /\ ~masked
    /\ pc' = "drain"
    /\ todo' = Len(edges)
    /\ UNCHANGED <<lineVars, isrVars, decoderVars, historyVars, waited>>

DecodeEdge ==
    /\ pc = "drain"
    /\ ~masked
    /\ todo > 0
    /\ LET edge   == Head(edges)
           result == Decode(lastLevel, BitsSince(edge.gap))
       IN  /\ lastBit' = result.lastBit
           /\ cur' = result.cur
           /\ lastLevel' = edge.level
           /\ Judge(result.byte, edge)
    /\ ahead' = 0
    /\ edges' = Tail(edges)
    /\ todo' = todo - 1
    /\ UNCHANGED <<lineVars, since, masked, latched, pc, waited>>

NothingNewSkipped == TRUE  \* slip: the edges recorded meanwhile not looked for
NothingNew == edges = <<>>

PendingLate == lastBit < PduBits - 2  \* slip: the stop bit itself not waited for
Pending == lastBit < PduBits - 1

Check ==
    /\ pc = "drain"
    /\ ~masked
    /\ todo = 0
    /\ pc' = IF Pending /\ NothingNew THEN "check" ELSE "idle"
    /\ UNCHANGED <<lineVars, isrVars, decoderVars, historyVars, todo, waited>>

Detection == PduBits - 1 - lastBit

(* microsToTicks(micros()) - m_isrLastTick, in whole bits *)
Elapsed == FoldSeq(LAMBDA e, n : e.gap + n, since, edges) - ahead

NoEdge == [gap |-> 0, level |-> 1, late |-> FALSE, frame |-> None, place |-> PduBits]

FauxStop ==
    /\ pc = "check"
    /\ ~masked
    /\ Elapsed >= Detection
    /\ LET result == Decode(lastLevel, Detection)
       IN  /\ lastBit' = result.lastBit
           /\ cur' = result.cur
           /\ Judge(result.byte, NoEdge)
    /\ lastLevel' = 1
    /\ ahead' = ahead + Detection
    /\ pc' = "idle"
    /\ waited' = 0
    /\ UNCHANGED <<lineVars, isrVars, todo>>

TooEarly ==
    /\ pc = "check"
    /\ ~masked
    /\ Elapsed < Detection
    /\ pc' = "idle"
    /\ waited' = 0
    /\ UNCHANGED <<lineVars, isrVars, decoderVars, historyVars, todo>>

-----------------------------------------------------------------------------
Reader == RxBits \/ DecodeEdge \/ Check \/ FauxStop \/ TooEarly

Next ==
    \/ LineGoesOn \/ (\E b \in Byte : FrameBegins(b))
    \/ LoRaHandlerBegins \/ LoRaHandlerReturns \/ Reader

Spec == Init /\ [][Next]_vars

Fairness == SF_vars(Reader) /\ WF_vars(LoRaHandlerReturns) /\ SF_vars(LineGoesOn)

FairSpec == Spec /\ Fairness

-----------------------------------------------------------------------------
(* From a silence of a frame's length until an edge is recorded late, the  *)
(* bytes that come out are those sent: none is wrong, missing or made up,  *)
(* whenever the program asks (SoftwareSerial.cpp:465-559).                 *)
BytesAreRight == ~wrong

(* A byte that ends on a silent line does not stay in the decoder          *)
(* (SoftwareSerial.cpp:475-490).                                           *)
NothingStaysPending ==
    <>[](place = PduBits /\ ~latched) => <>[](lastBit = PduBits - 1)
=============================================================================
