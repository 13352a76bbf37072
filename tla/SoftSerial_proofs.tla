-------------------------- MODULE SoftSerial_proofs --------------------------
(***************************************************************************)
(* Type correctness of the serial receiver, and that the bytes decoded are *)
(* those sent, for every number of data bits, every size of the edge       *)
(* buffer, whenever the program asks and the LoRa handler runs.            *)
(***************************************************************************)
EXTENDS SoftSerial, SequenceTheorems, TLAPS

(* The decoder has as many data bits as it has counted, and is beyond an   *)
(* edge only after a stop bit that it made up; for_each has found no more  *)
(* edges than there are; a frame is on the line until its stop bit.        *)
Counted ==
    /\ frame = None <=> place = PduBits
    /\ Len(cur) = IF lastBit = PduBits - 1 THEN 0 ELSE lastBit + 1
    /\ ahead # 0 => lastBit = PduBits - 1 /\ lastLevel = 1
    /\ pc = "drain" => todo <= Len(edges)
    /\ pc = "check" => Pending

TypeInv == TypeOK /\ Counted

(* At most one boundary passes while the program goes from available() to  *)
(* micros() (SoftwareSerial.cpp:485): a bit takes 104 microseconds.        *)
QuickCheck == Pause <= 1

(* Bits p to q of frame f are alike. *)
Steady(f, p, q) == \A k \in p..q : Bit(f, k) = Bit(f, p)

(* Edge e is the next that the line can make after bit p of frame f began  *)
(* with an edge: in that frame, or at the start of a later one.            *)
Follows(e, f, p) ==
    \/ /\ p < e.place
       /\ e.gap = e.place - p
       /\ e.place < PduBits => e.frame = f
       /\ Steady(f, p, e.place - 1)
    \/ /\ e.place = 0
       /\ e.gap >= PduBits + 1 - p
       /\ Steady(f, p, PduBits)

(* The line has kept its level since bit p of frame f began with an edge.  *)
Lasts(f, p) ==
    /\ place < PduBits => frame = f /\ p <= place /\ since = place - p
    /\ place = PduBits => since >= PduBits - p
    /\ Steady(f, p, place)

(* The edges of the buffer are those of the line, between late ones.       *)
LineInv ==
    /\ latched => masked
    /\ \A i \in 1..Len(edges) : ~edges[i].late =>
        /\ edges[i].level = Bit(edges[i].frame, edges[i].place)
        /\ edges[i].frame = None <=> edges[i].place = PduBits
        /\ i < Len(edges) /\ ~edges[i + 1].late =>
            Follows(edges[i + 1], edges[i].frame, edges[i].place)
        /\ i = Len(edges) /\ ~latched => Lasts(edges[i].frame, edges[i].place)

(* The decoder waits for a frame, and no other edge can come next ...      *)
Between ==
    /\ awaited = None
    /\ lastBit = PduBits - 1 /\ lastLevel = 1
    /\ edges = <<>> /\ ~latched => place = PduBits
    /\ edges # <<>> /\ ~edges[1].late => edges[1].place = 0

(* ... or has decoded the awaited one up to bit p, which began with the    *)
(* last edge.                                                              *)
Within(p) ==
    /\ awaited \in Byte
    /\ ahead = 0
    /\ lastLevel = Bit(awaited, p)
    /\ IF p = 0 THEN lastBit = PduBits - 1 ELSE lastBit = p - 2
    /\ \A i \in 1..Len(cur) : cur[i] = awaited[i]
    /\ edges = <<>> /\ ~latched => Lasts(awaited, p)
    /\ edges # <<>> /\ ~edges[1].late => Follows(edges[1], awaited, p)

DecoderInv == synced => Between \/ \E p \in 0..PduBits : Within(p)

(* A check that nothing interrupts has seen an empty buffer, and at most   *)
(* the boundary that just passed made an edge since.                       *)
CheckInv ==
    pc = "check" /\ synced =>
        /\ ~masked
        /\ waited = 0 => edges = <<>>
        /\ edges # <<>> => Len(edges) = 1 /\ since = 0 /\ ~edges[1].late

BytesInv == TypeInv /\ LineInv /\ DecoderInv /\ CheckInv /\ BytesAreRight

-----------------------------------------------------------------------------
(* The constants, and sequences of a bounded length.                       *)
LEMMA Widths ==
    /\ DataBits \in Nat /\ DataBits >= 1
    /\ PduBits \in Nat /\ PduBits = DataBits + 1
    /\ Long \in Nat /\ Long = PduBits + 1
    /\ None \notin Byte
  BY SerialAssumption DEF PduBits, Long, Byte

LEMMA BoundedSequences ==
    ASSUME NEW S, NEW n \in Nat, NEW s
    PROVE  s \in BoundedSeq(S, n) <=> s \in Seq(S) /\ Len(s) <= n
  <1>1. ASSUME s \in Seq(S), Len(s) <= n  PROVE s \in BoundedSeq(S, n)
    <2>1. Len(s) \in 0..n /\ s \in [1..Len(s) -> S]
      BY <1>1
    <2> QED BY <2>1 DEF BoundedSeq, SeqOf
  <1>2. ASSUME s \in BoundedSeq(S, n)  PROVE s \in Seq(S) /\ Len(s) <= n
    <2>1. PICK m \in 0..n : s \in [1..m -> S]
      BY <1>2 DEF BoundedSeq, SeqOf
    <2> QED BY <2>1
  <1> QED BY <1>1, <1>2

LEMMA NoBits ==
    /\ <<>> \in BoundedSeq(Level, DataBits)
    /\ Len(<<>>) = 0
    /\ PduBits - 1 \in -1..PduBits - 1
  <1>1. <<>> \in Seq(Level) /\ Len(<<>>) <= DataBits /\ Len(<<>>) = 0 /\ DataBits \in Nat
    BY Widths
  <1>2. <<>> \in BoundedSeq(Level, DataBits)
    BY <1>1, BoundedSequences
  <1> QED BY <1>1, <1>2, Widths

(* Decode, case by case: bits that do not count, those of a frame that     *)
(* begins, more data bits, and what completes a byte.                      *)
LEMMA DecodeCases ==
    ASSUME TypeInv, NEW level \in Level, NEW bits \in Nat
    PROVE  LET r == Decode(level, bits)
               left == DataBits - 1 - lastBit
           IN  /\ Ignored(level, bits) =>
                    r = [lastBit |-> lastBit, cur |-> cur, byte |-> None]
               /\ ~Ignored(level, bits) /\ lastBit = PduBits - 1 /\ bits <= PduBits =>
                    /\ r.lastBit = bits - 2 /\ r.byte = None
                    /\ r.cur \in Seq(Level) /\ Len(r.cur) = bits - 1
                    /\ \A i \in 1..Len(r.cur) : r.cur[i] = 0
               /\ ~Ignored(level, bits) /\ lastBit # PduBits - 1 /\ bits <= left =>
                    /\ r.lastBit = lastBit + bits /\ r.byte = None
                    /\ r.cur \in Seq(Level) /\ Len(r.cur) = lastBit + 1 + bits
                    /\ \A i \in 1..Len(r.cur) :
                         r.cur[i] = IF i <= lastBit + 1 THEN cur[i] ELSE level
               /\ ~Ignored(level, bits) /\ lastBit # PduBits - 1 /\ bits > left =>
                    r = [lastBit |-> PduBits - 1, cur |-> <<>>,
                         byte |-> IF level = 1
                                  THEN [i \in 1..DataBits |->
                                         IF i <= lastBit + 1 THEN cur[i] ELSE level]
                                  ELSE None]
               /\ ~Ignored(level, bits) /\ lastBit = PduBits - 1 /\ bits > PduBits =>
                    r = [lastBit |-> PduBits - 1, cur |-> <<>>, byte |-> None]
  <1> DEFINE r     == Decode(level, bits)
             begun == StartsFrame(level)
             b     == IF begun THEN -1 ELSE lastBit
             n     == IF begun THEN bits - 1 ELSE bits
             data  == DataTaken(n, b)
             more  == [i \in 1..data |-> level]
             word  == cur \o more
  <1>1. /\ lastBit \in -1..PduBits - 1 /\ cur \in Seq(Level) /\ Len(cur) <= DataBits
        /\ Len(cur) = IF lastBit = PduBits - 1 THEN 0 ELSE lastBit + 1
        /\ level \in {0, 1}
    BY Widths, BoundedSequences DEF TypeInv, TypeOK, Counted, Level
  <1>2. ASSUME ~Ignored(level, bits)
        PROVE  /\ bits >= 1 /\ b \in -1..DataBits - 1 /\ n \in Nat /\ Len(cur) = b + 1
               /\ begun <=> lastBit = PduBits - 1
               /\ begun => level = 0
               /\ data = IF n <= DataBits - 1 - b THEN n ELSE DataBits - 1 - b
               /\ data \in 0..DataBits
    BY <1>1, <1>2, Widths DEF Ignored, StartsFrame, DataTaken, Lesser
  <1>3. ASSUME ~Ignored(level, bits)
        PROVE  /\ word \in Seq(Level) /\ Len(word) = b + 1 + data
               /\ \A i \in 1..Len(word) : word[i] = IF i <= b + 1 THEN cur[i] ELSE level
    <2> HIDE DEF data, b, n, begun
    <2>1. more \in Seq(Level) /\ Len(more) = data /\ \A i \in 1..data : more[i] = level
      BY <1>2, <1>3
    <2> HIDE DEF more
    <2> QED BY <1>1, <1>2, <1>3, <2>1
  <1>4. r = IF Ignored(level, bits)
            THEN [lastBit |-> lastBit, cur |-> cur, byte |-> None]
            ELSE IF n > data
            THEN [lastBit |-> PduBits - 1, cur |-> <<>>,
                  byte |-> IF level = 1 THEN word ELSE None]
            ELSE [lastBit |-> b + data, cur |-> word, byte |-> None]
    BY DEF Decode
  <1>5. ASSUME ~Ignored(level, bits), lastBit = PduBits - 1, bits <= PduBits
        PROVE  /\ r.lastBit = bits - 2 /\ r.byte = None
               /\ r.cur \in Seq(Level) /\ Len(r.cur) = bits - 1
               /\ \A i \in 1..Len(r.cur) : r.cur[i] = 0
    <2>1. b = -1 /\ n = bits - 1 /\ level = 0
      BY <1>2, <1>5
    <2>2. data = n
      BY <1>2, <1>5, <2>1, Widths
    <2> HIDE DEF r, begun, b, n, data, word
    <2> QED BY <1>1, <1>2, <1>3, <1>4, <1>5, <2>1, <2>2
  <1>6. ASSUME ~Ignored(level, bits), lastBit # PduBits - 1, bits <= DataBits - 1 - lastBit
        PROVE  /\ r.lastBit = lastBit + bits /\ r.byte = None
               /\ r.cur \in Seq(Level) /\ Len(r.cur) = lastBit + 1 + bits
               /\ \A i \in 1..Len(r.cur) :
                    r.cur[i] = IF i <= lastBit + 1 THEN cur[i] ELSE level
    <2>1. b = lastBit /\ n = bits
      BY <1>2, <1>6
    <2>2. data = n
      BY <1>2, <1>6, <2>1, Widths
    <2> HIDE DEF r, begun, b, n, data, word
    <2> QED BY <1>1, <1>2, <1>3, <1>4, <1>6, <2>1, <2>2
  <1>7. ASSUME ~Ignored(level, bits), lastBit # PduBits - 1, bits > DataBits - 1 - lastBit
        PROVE  r = [lastBit |-> PduBits - 1, cur |-> <<>>,
                    byte |-> IF level = 1
                             THEN [i \in 1..DataBits |->
                                    IF i <= lastBit + 1 THEN cur[i] ELSE level]
                             ELSE None]
    <2>1. b = lastBit /\ n = bits
      BY <1>2, <1>7
    <2>2. data = DataBits - 1 - b /\ n > data
      BY <1>1, <1>2, <1>7, <2>1, Widths
    <2> HIDE DEF r, begun, b, n, data, word
    <2>3. word = [i \in 1..DataBits |-> IF i <= lastBit + 1 THEN cur[i] ELSE level]
      BY <1>1, <1>2, <1>3, <1>7, <2>1, <2>2, Widths
    <2> QED BY <1>4, <1>7, <2>2, <2>3
  <1>8. ASSUME ~Ignored(level, bits), lastBit = PduBits - 1, bits > PduBits
        PROVE  r = [lastBit |-> PduBits - 1, cur |-> <<>>, byte |-> None]
    <2>1. b = -1 /\ n = bits - 1 /\ level = 0
      BY <1>2, <1>8
    <2>2. n > data
      BY <1>2, <1>8, <2>1, Widths
    <2> HIDE DEF r, begun, b, n, data, word
    <2> QED BY <1>4, <1>8, <2>1, <2>2
  <1> QED BY <1>4, <1>5, <1>6, <1>7, <1>8

-----------------------------------------------------------------------------
(* Types                                                                   *)

LEMMA BitIsLevel ==
    ASSUME NEW f \in Byte \union {None}, NEW k \in 0..PduBits, f = None => k = PduBits
    PROVE  Bit(f, k) \in Level
  BY Widths DEF Bit, Byte, Level

(* Time passes at a boundary, with or without an edge. *)
LEMMA BoundaryTypes ==
    ASSUME TypeInv, BoundaryPasses, SameLevel \/ NewLevel,
           frame' \in Byte \union {None}, place' \in 0..PduBits,
           frame' = None <=> place' = PduBits
    PROVE  TypeInv'
  <1>1. line' \in Level
    BY BitIsLevel DEF line
  <1> DEFINE more == Longer(since)
  <1>2. more \in 0..Long /\ since' \in {0, more}
    <2>1. since \in -1..Long
      BY DEF TypeInv, TypeOK
    <2>2. more \in 0..Long
      BY <2>1, Widths DEF Longer
    <2> QED BY <2>2 DEF SameLevel, NewLevel
  <1> HIDE DEF more
  <1>3. edges' \in Seq(Edge) /\ Len(edges') <= MaxEdges /\ Len(edges') >= Len(edges)
    <2>1. edges \in Seq(Edge) /\ Len(edges) <= MaxEdges /\ MaxEdges \in Nat
      BY SerialAssumption DEF TypeInv, TypeOK
    <2>2. CASE UNCHANGED edges
      BY <2>1, <2>2
    <2>3. CASE Len(edges) < MaxEdges /\ Recorded(more, FALSE)
      BY <1>1, <1>2, <2>1, <2>3 DEF Recorded, Edge
    <2> QED BY <2>2, <2>3 DEF SameLevel, NewLevel, more
  <1>4. masked' \in BOOLEAN /\ latched' \in BOOLEAN
    BY DEF TypeInv, TypeOK, SameLevel, NewLevel, BoundaryPasses
  <1>5. waited' \in 0..Pause
    BY SerialAssumption DEF TypeInv, TypeOK, BoundaryPasses
  <1>6. since' \in -1..Long
    BY <1>2, Widths
  <1> QED BY <1>3, <1>4, <1>5, <1>6, SerialAssumption
          DEF TypeInv, TypeOK, Counted, Pending, BoundaryPasses, decoderVars, historyVars

LEMMA JudgeTypes ==
    ASSUME TypeInv, NEW byte, NEW edge \in Edge, Judge(byte, edge)
    PROVE  synced' \in BOOLEAN /\ wrong' \in BOOLEAN /\ awaited' \in Byte \union {None}
  <1>1. edge.late \in BOOLEAN /\ (Starts(edge) => edge.frame \in Byte \union {None})
    BY DEF Edge
  <1> QED BY <1>1 DEF Judge, TypeInv, TypeOK

(* What Decode leaves of the frame is well formed. *)
LEMMA DecodeTypes ==
    ASSUME TypeInv, NEW level \in Level, NEW bits \in Nat
    PROVE  LET r == Decode(level, bits)
           IN  /\ r.lastBit \in -1..PduBits - 1
               /\ r.cur \in BoundedSeq(Level, DataBits)
               /\ Len(r.cur) = IF r.lastBit = PduBits - 1 THEN 0 ELSE r.lastBit + 1
  <1> DEFINE r == Decode(level, bits)
  <1> HIDE DEF r
  <1>1. /\ lastBit \in -1..PduBits - 1 /\ cur \in Seq(Level) /\ Len(cur) <= DataBits
        /\ Len(cur) = IF lastBit = PduBits - 1 THEN 0 ELSE lastBit + 1
    BY Widths, BoundedSequences DEF TypeInv, TypeOK, Counted
  <1>2. CASE Ignored(level, bits)
    BY <1>1, <1>2, DecodeCases, Widths, BoundedSequences DEF r
  <1>3. CASE ~Ignored(level, bits)
    <2>1. bits >= 1
      BY <1>3 DEF Ignored
    <2>2. CASE lastBit = PduBits - 1 /\ bits <= PduBits
      <3>1. r.lastBit = bits - 2 /\ r.cur \in Seq(Level) /\ Len(r.cur) = bits - 1
        BY <1>3, <2>2, DecodeCases DEF r
      <3> QED BY <2>1, <2>2, <3>1, Widths, BoundedSequences DEF r
    <2>3. CASE lastBit # PduBits - 1 /\ bits <= DataBits - 1 - lastBit
      <3>1. r.lastBit = lastBit + bits /\ r.cur \in Seq(Level) /\ Len(r.cur) = lastBit + 1 + bits
        BY <1>3, <2>3, DecodeCases DEF r
      <3> QED BY <1>1, <2>1, <2>3, <3>1, Widths, BoundedSequences DEF r
    <2>4. CASE (lastBit # PduBits - 1 /\ bits > DataBits - 1 - lastBit)
                 \/ (lastBit = PduBits - 1 /\ bits > PduBits)
      <3>1. r.lastBit = PduBits - 1 /\ r.cur = <<>>
        BY <1>3, <2>4, DecodeCases DEF r
      <3> QED BY <3>1, NoBits DEF r
    <2> QED BY <1>1, <2>2, <2>3, <2>4, Widths
  <1> QED BY <1>2, <1>3

LEMMA GapTypes ==
    ASSUME TypeInv, NEW gap \in 0..Long
    PROVE  BitsSince(gap) \in Nat
  BY Widths DEF TypeInv, TypeOK, BitsSince

LEMMA TypeInvLine ==
    ASSUME TypeInv, LineGoesOn \/ \E b \in Byte : FrameBegins(b)
    PROVE  TypeInv'
  <1>1. CASE LineGoesOn
    <2>1. place' \in 0..PduBits /\ (frame' = None <=> place' = PduBits)
      BY <1>1, Widths DEF LineGoesOn, TypeInv, TypeOK, Counted
    <2> QED BY <1>1, <2>1, BoundaryTypes DEF LineGoesOn, TypeInv, TypeOK
  <1>2. ASSUME NEW b \in Byte, FrameBegins(b)  PROVE TypeInv'
    <2>1. frame' = b /\ place' = 0 /\ b # None /\ 0 \in 0..PduBits /\ 0 # PduBits
      BY <1>2, Widths DEF FrameBegins
    <2> QED BY <1>2, <2>1, BoundaryTypes DEF FrameBegins
  <1> QED BY <1>1, <1>2

LEMMA TypeInvHandler ==
    ASSUME TypeInv, LoRaHandlerBegins \/ LoRaHandlerReturns
    PROVE  TypeInv'
  <1>1. CASE LoRaHandlerBegins
    BY <1>1 DEF LoRaHandlerBegins, TypeInv, TypeOK, Counted, Pending, lineVars, decoderVars, readerVars
  <1>2. CASE LoRaHandlerReturns
    <2>1. CASE ~latched
      BY <1>2, <2>1 DEF LoRaHandlerReturns, TypeInv, TypeOK, Counted, Pending, lineVars,
                        decoderVars, historyVars, readerVars
    <2>2. CASE latched
      <3>1. PICK up \in {0, 1} :
                /\ since + up >= 0
                /\ Recorded(IF up = 1 THEN Longer(since) ELSE since, TRUE)
                /\ since' = -up
        BY <1>2, <2>2 DEF LoRaHandlerReturns
      <3> DEFINE gap == IF up = 1 THEN Longer(since) ELSE since
      <3>2. gap \in 0..Long /\ since' \in -1..Long
        BY <3>1, Widths DEF TypeInv, TypeOK, Longer
      <3>3. line' \in Level
        <4>1. line' = line
          BY <1>2 DEF LoRaHandlerReturns, lineVars, line, Bit
        <4> QED BY <4>1, BitIsLevel DEF line, TypeInv, TypeOK, Counted
      <3>4. PduBits \in 0..PduBits
        BY Widths
      <3> HIDE DEF gap
      <3>5. Recorded(gap, TRUE) /\ Len(edges) < MaxEdges /\ MaxEdges \in Nat /\ edges \in Seq(Edge)
        BY <1>2, <2>2, <3>1, SerialAssumption DEF gap, LoRaHandlerReturns, TypeInv, TypeOK
      <3>6. edges' \in Seq(Edge) /\ Len(edges') = Len(edges) + 1
        BY <3>2, <3>3, <3>4, <3>5 DEF Recorded, Edge
      <3>7. Len(edges') <= MaxEdges /\ Len(edges) <= Len(edges')
        BY <3>5, <3>6
      <3>8. /\ masked' = FALSE /\ latched' = FALSE
            /\ UNCHANGED <<frame, place, lastLevel, ahead, lastBit, cur, pc, todo, waited,
                           synced, awaited, wrong>>
        BY <1>2 DEF LoRaHandlerReturns, lineVars, decoderVars, historyVars, readerVars
      <3>9. TypeOK'
        BY <3>2, <3>6, <3>7, <3>8 DEF TypeInv, TypeOK
      <3>10. Counted'
        BY <3>5, <3>6, <3>7, <3>8 DEF TypeInv, TypeOK, Counted, Pending
      <3> QED BY <3>9, <3>10 DEF TypeInv
    <2> QED BY <2>1, <2>2
  <1> QED BY <1>1, <1>2

LEMMA TypeInvReader ==
    ASSUME TypeInv, Reader
    PROVE  TypeInv'
  <1>1. CASE RxBits
    BY <1>1 DEF RxBits, TypeInv, TypeOK, Counted, lineVars, isrVars, decoderVars, historyVars
  <1>2. CASE DecodeEdge
    <2> DEFINE edge   == Head(edges)
               result == Decode(lastLevel, BitsSince(edge.gap))
    <2>1. /\ edges \in Seq(Edge) /\ Len(edges) <= MaxEdges /\ todo \in 0..MaxEdges /\ todo > 0
          /\ todo <= Len(edges) /\ MaxEdges \in Nat
      BY <1>2, SerialAssumption DEF DecodeEdge, TypeInv, TypeOK, Counted
    <2>2. edge \in Edge
      BY <2>1
    <2>3. Tail(edges) \in Seq(Edge) /\ Len(Tail(edges)) = Len(edges) - 1
      BY <2>1
    <2>4. edge.gap \in 0..Long /\ edge.level \in Level
      BY <2>2 DEF Edge
    <2>5. /\ result.lastBit \in -1..PduBits - 1
          /\ result.cur \in BoundedSeq(Level, DataBits)
          /\ Len(result.cur) = IF result.lastBit = PduBits - 1 THEN 0 ELSE result.lastBit + 1
      BY <2>4, GapTypes, DecodeTypes DEF TypeInv, TypeOK
    <2>6. /\ lastBit' = result.lastBit /\ cur' = result.cur /\ lastLevel' = edge.level
          /\ Judge(result.byte, edge) /\ ahead' = 0 /\ edges' = Tail(edges) /\ todo' = todo - 1
          /\ pc = "drain"
          /\ UNCHANGED <<frame, place, since, masked, latched, pc, waited>>
      BY <1>2 DEF DecodeEdge, lineVars
    <2> HIDE DEF edge, result
    <2>7. synced' \in BOOLEAN /\ wrong' \in BOOLEAN /\ awaited' \in Byte \union {None}
      BY <2>2, <2>6, JudgeTypes
    <2>8. todo' \in 0..MaxEdges /\ todo' <= Len(edges') /\ Len(edges') <= MaxEdges
      BY <2>1, <2>3, <2>6
    <2>9. 0 \in 0..PduBits
      BY Widths
    <2> QED BY <2>3, <2>4, <2>5, <2>6, <2>7, <2>8, <2>9 DEF TypeInv, TypeOK, Counted
  <1>3. CASE Check
    BY <1>3 DEF Check, TypeInv, TypeOK, Counted, Pending, lineVars, isrVars, decoderVars, historyVars
  <1>4. CASE FauxStop
    <2> DEFINE result == Decode(lastLevel, Detection)
    <2>1. Detection \in Nat /\ ahead + Detection \in 0..PduBits
      BY <1>4, Widths DEF FauxStop, TypeInv, TypeOK, Counted, Pending, Detection
    <2>2. /\ result.lastBit = PduBits - 1
          /\ result.cur \in BoundedSeq(Level, DataBits) /\ Len(result.cur) = 0
      <3>1. lastBit # PduBits - 1 /\ Detection > DataBits - 1 - lastBit /\ Detection # 0
        BY <1>4, Widths DEF FauxStop, TypeInv, TypeOK, Counted, Pending, Detection
      <3>2. ~Ignored(lastLevel, Detection)
        BY <3>1 DEF Ignored
      <3>3. result.lastBit = PduBits - 1 /\ result.cur = <<>>
        BY <2>1, <3>1, <3>2, DecodeCases DEF TypeInv, TypeOK
      <3> HIDE DEF result
      <3> QED BY <3>3, NoBits
    <2>3. NoEdge \in Edge
      BY Widths DEF NoEdge, Edge, Level
    <2>4. synced' \in BOOLEAN /\ wrong' \in BOOLEAN /\ awaited' \in Byte \union {None}
      BY <1>4, <2>3, JudgeTypes DEF FauxStop
    <2>5. /\ lastBit' = PduBits - 1 /\ cur' \in BoundedSeq(Level, DataBits) /\ Len(cur') = 0
          /\ ahead' \in 0..PduBits /\ lastLevel' = 1 /\ pc' = "idle" /\ waited' = 0
          /\ UNCHANGED <<frame, place, since, edges, masked, latched, todo>>
      BY <1>4, <2>1, <2>2 DEF FauxStop, lineVars, isrVars
    <2>6. PduBits - 1 \in -1..PduBits - 1 /\ 1 \in Level /\ 0 \in 0..Pause
      BY Widths, SerialAssumption DEF Level
    <2> QED BY <2>4, <2>5, <2>6 DEF TypeInv, TypeOK, Counted
  <1>5. CASE TooEarly
    BY <1>5, SerialAssumption
       DEF TooEarly, TypeInv, TypeOK, Counted, lineVars, isrVars, decoderVars, historyVars
  <1> QED BY <1>1, <1>2, <1>3, <1>4, <1>5 DEF Reader

LEMMA TypeInvNext ==
    ASSUME TypeInv, [Next]_vars
    PROVE  TypeInv'
  <1>1. CASE UNCHANGED vars
    BY <1>1 DEF vars, lineVars, isrVars, decoderVars, historyVars, readerVars, TypeInv, TypeOK,
                Counted, Pending
  <1> QED BY <1>1, TypeInvLine, TypeInvHandler, TypeInvReader DEF Next

LEMMA TypeInvInit == Init => TypeInv
  <1> SUFFICES ASSUME Init PROVE TypeInv
    OBVIOUS
  <1>1. <<>> \in Seq(Edge)
    OBVIOUS
  <1>2. TypeOK
    <2>1. /\ PduBits \in 0..PduBits /\ 0 \in -1..Long /\ 0 \in 0..PduBits
          /\ 0 \in 0..MaxEdges /\ 0 \in 0..Pause
      BY Widths, SerialAssumption
    <2>2. Len(edges) <= MaxEdges
      BY <2>1, NoBits DEF Init
    <2> QED BY <1>1, <2>1, <2>2, NoBits DEF Init, TypeOK, Level
  <1>3. Counted
    BY NoBits DEF Init, Counted
  <1> QED BY <1>2, <1>3 DEF TypeInv

(* Type correctness, for every number of data bits, size of the edge       *)
(* buffer and pause.                                                       *)
THEOREM TypesAreKept == Spec => []TypeOK
  <1>1. TypeInv => TypeOK
    BY DEF TypeInv
  <1> QED BY <1>1, TypeInvInit, TypeInvNext, PTL DEF Spec

-----------------------------------------------------------------------------
(* The line                                                                *)

LEMMA StateTypes ==
    ASSUME TypeInv
    PROVE  /\ place \in 0..PduBits /\ (frame = None <=> place = PduBits)
           /\ since \in -1..Long
           /\ edges \in Seq(Edge) /\ Len(edges) \in Nat
           /\ masked \in BOOLEAN /\ latched \in BOOLEAN
           /\ \A i \in 1..Len(edges) : edges[i] \in Edge
  BY DEF TypeInv, TypeOK, Counted

LEMMA EndBits == \A f : Bit(f, 0) = 0 /\ Bit(f, PduBits) = 1
  BY Widths DEF Bit

(* The line goes on at the level it has had since bit p of frame f. *)
LEMMA LastsOn ==
    ASSUME TypeInv, LineGoesOn, line' = line, NEW f, NEW p \in 0..PduBits, Lasts(f, p)
    PROVE  Lasts(f, p)'
  <1>1. since' = Longer(since)
    BY DEF LineGoesOn, SameLevel
  <1>2. /\ place' = IF place < PduBits THEN place + 1 ELSE place
        /\ frame' = IF place' = PduBits THEN None ELSE frame
    BY DEF LineGoesOn
  <1>3. CASE place = PduBits
    <2>1. place' = place /\ since' >= since /\ since' \in Int
      BY <1>1, <1>2, <1>3, StateTypes, Widths DEF Longer
    <2> QED BY <1>3, <2>1, StateTypes, Widths DEF Lasts
  <1>4. CASE place < PduBits
    <2>1. place' = place + 1 /\ frame = f /\ p <= place /\ since = place - p
      BY <1>2, <1>4 DEF Lasts
    <2>2. since' = place' - p
      BY <1>1, <1>4, <2>1, StateTypes, Widths DEF Longer
    <2>3. Bit(f, place') = Bit(f, place)
      BY <1>2, <1>4, <2>1, EndBits DEF line
    <2>4. Bit(f, place) = Bit(f, p)
      BY <2>1, StateTypes DEF Lasts, Steady
    <2>5. Steady(f, p, place')
      BY <2>1, <2>3, <2>4, StateTypes DEF Lasts, Steady
    <2> QED BY <1>2, <1>4, <2>1, <2>2, <2>5, StateTypes, Widths DEF Lasts
  <1> QED BY <1>3, <1>4, StateTypes, Widths

(* The edge that the interrupt handler records at a boundary. *)
NewEdge == [gap |-> Longer(since), level |-> line', late |-> FALSE,
            frame |-> frame', place |-> place']

(* It follows bit p of frame f if the line has kept its level since ... *)
LEMMA NewEdgeFollows ==
    ASSUME TypeInv, (LineGoesOn /\ line' # line) \/ \E b \in Byte : FrameBegins(b),
           NEW f, NEW p \in 0..PduBits, Lasts(f, p)
    PROVE  Follows(NewEdge, f, p)
  <1>1. CASE LineGoesOn /\ line' # line
    <2>1. /\ place' = IF place < PduBits THEN place + 1 ELSE place
          /\ frame' = IF place' = PduBits THEN None ELSE frame
      BY <1>1 DEF LineGoesOn
    <2>2. place < PduBits
      BY <1>1, <2>1, StateTypes, EndBits, Widths DEF line
    <2>3. place' = place + 1 /\ frame = f /\ p <= place /\ since = place - p
      BY <2>1, <2>2 DEF Lasts
    <2>4. Longer(since) = place' - p
      BY <2>2, <2>3, StateTypes, Widths DEF Longer
    <2>5. place' - 1 = place
      BY <2>3, StateTypes
    <2> QED BY <2>1, <2>3, <2>4, <2>5, StateTypes DEF NewEdge, Follows, Lasts
  <1>2. CASE \E b \in Byte : FrameBegins(b)
    <2>1. place = PduBits /\ place' = 0
      BY <1>2 DEF FrameBegins
    <2>2. Longer(since) >= PduBits + 1 - p
      BY <2>1, StateTypes, Widths DEF Longer, Lasts
    <2> QED BY <2>1, <2>2 DEF NewEdge, Follows, Lasts
  <1> QED BY <1>1, <1>2

(* ... and a new interval begins with it. *)
LEMMA NewEdgeLasts ==
    ASSUME NEW f, NEW p \in 0..PduBits, since' = 0, frame' = f, place' = p
    PROVE  Lasts(f, p)'
  <1>1. Steady(f, p, p)
    BY DEF Steady
  <1>2. 0 >= PduBits - PduBits
    BY Widths
  <1> QED BY <1>1, <1>2 DEF Lasts

LEMMA LineInvAppend ==
    ASSUME TypeInv, LineInv, NEW e \in Edge, edges' = Append(edges, e), latched' => masked',
           ~e.late => /\ ~latched
                      /\ e.level = Bit(e.frame, e.place)
                      /\ e.frame = None <=> e.place = PduBits
                      /\ \A f : \A p \in 0..PduBits : Lasts(f, p) => Follows(e, f, p)
                      /\ Lasts(e.frame, e.place)'
    PROVE  LineInv'
  <1> DEFINE n == Len(edges)
  <1>1. /\ edges \in Seq(Edge) /\ n \in Nat /\ Len(edges') = n + 1
        /\ \A i \in 1..n : edges'[i] = edges[i] /\ edges[i] \in Edge
        /\ edges'[n + 1] = e
    BY StateTypes
  <1> HIDE DEF n
  <1>2. ASSUME NEW i \in 1..Len(edges'), ~edges'[i].late
        PROVE  /\ edges'[i].level = Bit(edges'[i].frame, edges'[i].place)
               /\ edges'[i].frame = None <=> edges'[i].place = PduBits
               /\ i < Len(edges') /\ ~edges'[i + 1].late =>
                    Follows(edges'[i + 1], edges'[i].frame, edges'[i].place)
               /\ i = Len(edges') /\ ~latched' => Lasts(edges[i].frame, edges[i].place)'
    <2>1. CASE i < n
      <3>1. edges'[i] = edges[i] /\ edges'[i + 1] = edges[i + 1] /\ i \in 1..n /\ i # Len(edges')
        BY <1>1, <2>1
      <3> QED BY <1>2, <2>1, <3>1 DEF LineInv, n
    <2>2. CASE i = n
      <3>1. edges'[i] = edges[i] /\ edges'[i + 1] = e /\ i \in 1..n /\ i # Len(edges')
        BY <1>1, <2>2
      <3>2. edges[i].place \in 0..PduBits
        BY <1>1, <3>1 DEF Edge
      <3> QED BY <1>2, <2>2, <3>1, <3>2 DEF LineInv, n
    <2>3. CASE i = n + 1
      <3>1. edges'[i] = e /\ ~(i < Len(edges'))
        BY <1>1, <2>3
      <3> QED BY <1>2, <3>1
    <2> QED BY <1>1, <2>1, <2>2, <2>3
  <1> QED BY <1>2 DEF LineInv

LEMMA LineInvLine ==
    ASSUME TypeInv, TypeInv', LineInv, LineGoesOn \/ \E b \in Byte : FrameBegins(b)
    PROVE  LineInv'
  <1>1. masked' = masked
    BY DEF LineGoesOn, FrameBegins, BoundaryPasses
  <1>2. CASE LineGoesOn /\ line' = line
    <2>1. edges' = edges /\ latched' = latched
      BY <1>2 DEF LineGoesOn, SameLevel
    <2>2. ASSUME NEW i \in 1..Len(edges), Lasts(edges[i].frame, edges[i].place)
          PROVE  Lasts(edges[i].frame, edges[i].place)'
      <3>1. edges[i].place \in 0..PduBits
        BY StateTypes DEF Edge
      <3>2. PICK f : f = edges[i].frame
        OBVIOUS
      <3>3. PICK p \in 0..PduBits : p = edges[i].place
        BY <3>1
      <3>4. Lasts(f, p)'
        BY <1>2, <2>2, <3>2, <3>3, LastsOn
      <3> QED BY <2>1, <3>2, <3>3, <3>4 DEF Lasts
    <2> QED BY <1>1, <2>1, <2>2 DEF LineInv
  <1>3. CASE (LineGoesOn /\ line' # line) \/ \E b \in Byte : FrameBegins(b)
    <2>1. NewLevel
      BY <1>3 DEF LineGoesOn, FrameBegins
    <2>2. CASE masked
      <3>1. latched' = TRUE /\ edges' = edges
        BY <2>1, <2>2 DEF NewLevel
      <3> QED BY <1>1, <2>2, <3>1 DEF LineInv
    <2>3. CASE ~masked
      <3>1. ~latched /\ latched' = latched
        BY <2>1, <2>3 DEF NewLevel, LineInv
      <3>2. PICK e : e = NewEdge
        OBVIOUS
      <3>3. edges' = Append(edges, e) /\ since' = 0
        BY <2>1, <2>3, <3>2 DEF NewLevel, Recorded, NewEdge
      <3>4. e.level = Bit(e.frame, e.place) /\ (e.frame = None <=> e.place = PduBits) /\ ~e.late
        BY <3>2 DEF NewEdge, line, TypeInv, Counted
      <3>5. \A f : \A p \in 0..PduBits : Lasts(f, p) => Follows(e, f, p)
        BY <1>3, <3>2, NewEdgeFollows
      <3>6. Lasts(e.frame, e.place)'
        <4>1. e.frame = frame' /\ e.place = place' /\ place' \in 0..PduBits
          BY <3>2 DEF NewEdge, TypeInv, TypeOK
        <4>2. frame' = e.frame /\ place' = e.place /\ e.place \in 0..PduBits
          BY <4>1
        <4> QED BY <3>3, <4>2, NewEdgeLasts
      <3>7. e \in Edge
        <4>1. edges' \in Seq(Edge) /\ Len(edges') = Len(edges) + 1 /\ edges'[Len(edges) + 1] = e
          BY <3>3, StateTypes DEF TypeInv, TypeOK
        <4> QED BY <4>1, StateTypes
      <3> QED BY <3>1, <3>3, <3>4, <3>5, <3>6, <3>7, LineInvAppend
    <2> QED BY <2>2, <2>3
  <1> QED BY <1>2, <1>3

LEMMA LineInvReturns ==
    ASSUME TypeInv, TypeInv', LineInv, LoRaHandlerReturns
    PROVE  LineInv'
  <1>1. ~latched' /\ UNCHANGED <<frame, place>>
    BY DEF LoRaHandlerReturns, lineVars
  <1>2. CASE latched
    <2>1. PICK e : edges' = Append(edges, e) /\ e.late
      BY <1>2 DEF LoRaHandlerReturns, Recorded
    <2>2. e \in Edge
      <3>1. edges' \in Seq(Edge) /\ Len(edges') = Len(edges) + 1 /\ edges'[Len(edges) + 1] = e
        BY <2>1, StateTypes DEF TypeInv, TypeOK
      <3> QED BY <3>1, StateTypes
    <2> QED BY <1>1, <2>1, <2>2, LineInvAppend
  <1>3. CASE ~latched
    <2>1. UNCHANGED <<edges, since>>
      BY <1>3 DEF LoRaHandlerReturns
    <2> QED BY <1>1, <1>3, <2>1 DEF LineInv, Lasts
  <1> QED BY <1>2, <1>3

LEMMA LineInvDecode ==
    ASSUME TypeInv, LineInv, DecodeEdge
    PROVE  LineInv'
  <1>1. UNCHANGED <<frame, place, since, masked, latched>> /\ edges' = Tail(edges)
    BY DEF DecodeEdge, lineVars
  <1>2. /\ edges \in Seq(Edge) /\ Len(edges) >= 1
        /\ Len(edges') = Len(edges) - 1
        /\ \A i \in 1..Len(edges') : edges'[i] = edges[i + 1] /\ i + 1 \in 1..Len(edges)
    <2>1. edges \in Seq(Edge) /\ Len(edges) >= todo /\ todo \in Nat /\ todo > 0
      BY DEF DecodeEdge, TypeInv, TypeOK, Counted
    <2> QED BY <1>1, <2>1
  <1>3. ASSUME NEW i \in 1..Len(edges'), ~edges'[i].late
        PROVE  /\ edges'[i].level = Bit(edges'[i].frame, edges'[i].place)
               /\ edges'[i].frame = None <=> edges'[i].place = PduBits
               /\ i < Len(edges') /\ ~edges'[i + 1].late =>
                    Follows(edges'[i + 1], edges'[i].frame, edges'[i].place)
               /\ i = Len(edges') /\ ~latched' => Lasts(edges[i].frame, edges[i].place)'
    <2>1. PICK j \in 1..Len(edges) : j = i + 1 /\ edges'[i] = edges[j]
      BY <1>2
    <2>2. i < Len(edges') => j < Len(edges) /\ edges'[i + 1] = edges[j + 1]
      BY <1>2, <2>1
    <2>3. i = Len(edges') => j = Len(edges)
      BY <1>2, <2>1
    <2>4. Lasts(edges[j].frame, edges[j].place) => Lasts(edges[i].frame, edges[i].place)'
      BY <1>1, <2>1 DEF Lasts
    <2> QED BY <1>1, <1>3, <2>1, <2>2, <2>3, <2>4 DEF LineInv
  <1> QED BY <1>1, <1>3 DEF LineInv

LEMMA LineInvNext ==
    ASSUME TypeInv, TypeInv', LineInv, [Next]_vars
    PROVE  LineInv'
  <1>1. CASE LoRaHandlerBegins
    BY <1>1 DEF LoRaHandlerBegins, lineVars, LineInv, Lasts
  <1>2. CASE RxBits \/ Check \/ FauxStop \/ TooEarly \/ UNCHANGED vars
    BY <1>2 DEF RxBits, Check, FauxStop, TooEarly, vars, lineVars, isrVars, LineInv, Lasts
  <1> QED BY <1>1, <1>2, LineInvLine, LineInvReturns, LineInvDecode DEF Next, Reader

-----------------------------------------------------------------------------
(* Decoding an awaited byte                                                *)

LEMMA DecoderTypes ==
    ASSUME TypeInv
    PROVE  /\ lastBit \in -1..PduBits - 1 /\ ahead \in 0..PduBits /\ lastLevel \in Level
           /\ cur \in Seq(Level) /\ Len(cur) \in Nat
           /\ Len(cur) = IF lastBit = PduBits - 1 THEN 0 ELSE lastBit + 1
  BY Widths, BoundedSequences DEF TypeInv, TypeOK, Counted

LEMMA DataBitsOf ==
    ASSUME NEW f \in Byte, NEW i \in 1..DataBits
    PROVE  Bit(f, i) = f[i] /\ f[i] \in Level
  BY Widths DEF Bit, Byte, Level

(* Up to the next edge of the same frame its bits are added ... *)
LEMMA DecodeOn ==
    ASSUME TypeInv, NEW p \in 0..PduBits, NEW q \in 0..PduBits, Within(p), p < q,
           Steady(awaited, p, q - 1)
    PROVE  LET r == Decode(lastLevel, q - p)
           IN  /\ r.byte = None /\ r.lastBit = q - 2
               /\ \A i \in 1..Len(r.cur) : r.cur[i] = awaited[i]
  <1> DEFINE r == Decode(lastLevel, q - p)
  <1>1. q - p \in Nat /\ q - p # 0 /\ q - 1 \in p..q - 1 /\ awaited \in Byte /\ lastLevel \in Level
    BY Widths, DecoderTypes DEF Within
  <1>2. CASE p = 0
    <2>1. lastBit = PduBits - 1 /\ lastLevel = 0
      BY <1>2, EndBits DEF Within
    <2>2. ~Ignored(lastLevel, q - p) /\ q - p <= PduBits
      BY <1>1, <1>2, <2>1 DEF Ignored
    <2>3. /\ r.lastBit = q - p - 2 /\ r.byte = None /\ Len(r.cur) = q - p - 1
          /\ \A i \in 1..Len(r.cur) : r.cur[i] = 0
      BY <1>1, <2>1, <2>2, DecodeCases
    <2> HIDE DEF r
    <2>4. ASSUME NEW i \in 1..Len(r.cur)  PROVE r.cur[i] = awaited[i]
      <3>1. i \in 1..DataBits /\ i \in p..q - 1
        BY <1>1, <1>2, <2>3, Widths
      <3>2. Bit(awaited, i) = 0
        BY <1>2, <3>1, EndBits DEF Steady
      <3> QED BY <1>1, <2>3, <3>1, <3>2, DataBitsOf
    <2> QED BY <1>2, <2>3, <2>4 DEF r
  <1>3. CASE p # 0
    <2>1. lastBit = p - 2 /\ lastBit # PduBits - 1 /\ q - p <= DataBits - 1 - lastBit
      BY <1>1, <1>3, Widths DEF Within
    <2>2. ~Ignored(lastLevel, q - p)
      BY <1>1, <2>1 DEF Ignored
    <2>3. /\ r.lastBit = lastBit + (q - p) /\ r.byte = None /\ Len(r.cur) = lastBit + 1 + (q - p)
          /\ \A i \in 1..Len(r.cur) :
                r.cur[i] = IF i <= lastBit + 1 THEN cur[i] ELSE lastLevel
      BY <1>1, <2>1, <2>2, DecodeCases
    <2> HIDE DEF r
    <2>4. ASSUME NEW i \in 1..Len(r.cur)  PROVE r.cur[i] = awaited[i]
      <3>1. CASE i <= lastBit + 1
        <4>1. i \in 1..Len(cur)
          BY <2>1, <3>1, DecoderTypes
        <4> QED BY <2>3, <3>1, <4>1 DEF Within
      <3>2. CASE ~(i <= lastBit + 1)
        <4>1. i \in 1..DataBits /\ i \in p..q - 1
          BY <1>1, <1>3, <2>1, <2>3, <3>2, Widths
        <4>2. Bit(awaited, i) = lastLevel
          BY <4>1 DEF Steady, Within
        <4> QED BY <1>1, <2>3, <3>2, <4>1, <4>2, DataBitsOf
      <3> QED BY <3>1, <3>2
    <2>5. r.lastBit = q - 2
      BY <1>1, <2>1, <2>3
    <2> QED BY <2>3, <2>4, <2>5 DEF r
  <1> QED BY <1>2, <1>3

(* ... and at the edge after the frame, or after its stop bit has been     *)
(* waited for, the byte is complete.                                       *)
LEMMA DecodeEnd ==
    ASSUME TypeInv, NEW p \in 0..PduBits, Within(p), Steady(awaited, p, PduBits),
           NEW bits \in Nat, bits >= PduBits + 1 - p
    PROVE  Decode(lastLevel, bits) =
               [lastBit |-> PduBits - 1, cur |-> <<>>, byte |-> awaited]
  <1>1. awaited \in Byte /\ lastLevel \in Level /\ PduBits \in p..PduBits
    BY Widths, DecoderTypes DEF Within
  <1>2. Bit(awaited, p) = 1 /\ lastLevel = 1
    BY <1>1, EndBits DEF Steady, Within
  <1>3. p # 0
    BY <1>2, EndBits
  <1>4. lastBit = p - 2 /\ lastBit # PduBits - 1 /\ bits > DataBits - 1 - lastBit /\ bits # 0
    BY <1>3, Widths DEF Within
  <1>5. ~Ignored(lastLevel, bits)
    BY <1>4 DEF Ignored
  <1> DEFINE word == [i \in 1..DataBits |-> IF i <= lastBit + 1 THEN cur[i] ELSE lastLevel]
  <1>6. Decode(lastLevel, bits) = [lastBit |-> PduBits - 1, cur |-> <<>>, byte |-> word]
    BY <1>1, <1>2, <1>4, <1>5, DecodeCases
  <1>7. ASSUME NEW i \in 1..DataBits  PROVE word[i] = awaited[i]
    <2>1. CASE i <= lastBit + 1
      <3>1. i \in 1..Len(cur)
        BY <1>4, <2>1, DecoderTypes
      <3> QED BY <2>1, <3>1 DEF Within
    <2>2. CASE ~(i <= lastBit + 1)
      <3>1. i \in p..PduBits
        BY <1>4, <2>2, Widths
      <3>2. Bit(awaited, i) = 1
        BY <1>2, <3>1 DEF Steady
      <3> QED BY <1>1, <1>2, <2>2, <3>2, DataBitsOf
    <2> QED BY <2>1, <2>2
  <1>8. word = awaited
    <2> HIDE DEF word
    <2>1. word = [i \in 1..DataBits |-> word[i]]
      BY DEF word
    <2>2. awaited = [i \in 1..DataBits |-> awaited[i]]
      BY <1>1 DEF Byte
    <2> QED BY <1>7, <2>1, <2>2
  <1> QED BY <1>6, <1>8

(* After a silence the decoder, whatever it made of the past, begins anew. *)
LEMMA DecodeSync ==
    ASSUME TypeInv
    PROVE  LET r == Decode(lastLevel, BitsSince(Long))
           IN  r.lastBit = PduBits - 1 /\ r.cur = <<>>
  <1> DEFINE bits == BitsSince(Long)
  <1>1. bits \in Nat /\ bits = Long - ahead /\ lastLevel \in Level
    BY Widths, DecoderTypes DEF BitsSince
  <1> HIDE DEF bits
  <1>2. CASE lastBit = PduBits - 1 /\ lastLevel = 1
    <2>1. Ignored(lastLevel, bits) /\ cur = <<>>
      BY <1>2, DecoderTypes DEF Ignored
    <2> QED BY <1>1, <1>2, <2>1, DecodeCases DEF bits
  <1>3. CASE ~(lastBit = PduBits - 1 /\ lastLevel = 1)
    <2>1. ahead = 0
      BY <1>3 DEF TypeInv, Counted
    <2>2. bits = PduBits + 1 /\ bits # 0 /\ bits > DataBits - 1 - lastBit
      BY <1>1, <2>1, Widths, DecoderTypes
    <2>3. ~Ignored(lastLevel, bits)
      BY <1>3, <2>2 DEF Ignored
    <2> QED BY <1>1, <2>2, <2>3, DecodeCases, Widths DEF bits
  <1> QED BY <1>2, <1>3

-----------------------------------------------------------------------------
(* Decoding an edge                                                        *)

(* What comes after the edge that is decoded. *)
LEMMA AfterHead ==
    ASSUME TypeInv, LineInv, DecodeEdge, ~edges[1].late
    PROVE  /\ edges' = <<>> /\ ~latched' => Lasts(edges[1].frame, edges[1].place)
           /\ edges' # <<>> /\ ~edges'[1].late =>
                Follows(edges'[1], edges[1].frame, edges[1].place)
  <1>1. edges \in Seq(Edge) /\ Len(edges) >= 1 /\ edges' = Tail(edges) /\ latched' = latched
    BY DEF DecodeEdge, TypeInv, TypeOK, Counted
  <1>2. CASE edges' = <<>>
    <2>1. Len(edges') = Len(edges) - 1 /\ Len(edges) \in Nat
      BY <1>1
    <2>2. Len(edges) = 1
      BY <1>2, <2>1, NoBits
    <2> QED BY <1>1, <1>2, <2>2 DEF LineInv
  <1>3. CASE edges' # <<>>
    <2>1. 1 < Len(edges) /\ 1 \in 1..Len(edges) /\ edges'[1] = edges[1 + 1]
      BY <1>1, <1>3
    <2> QED BY <1>3, <2>1 DEF LineInv
  <1> QED BY <1>2, <1>3

(* The stop bit is that of any frame. *)
LEMMA AfterStopBit ==
    ASSUME TypeInv, NEW f, NEW g
    PROVE  /\ Lasts(None, PduBits) => Lasts(f, PduBits)
           /\ \A e \in Edge : Follows(e, None, PduBits) => Follows(e, f, PduBits)
  <1>1. Steady(f, PduBits, PduBits)
    BY DEF Steady
  <1>2. \A e \in Edge : e.place \in 0..PduBits
    BY DEF Edge
  <1>3. Lasts(None, PduBits) => place = PduBits
    BY StateTypes, Widths DEF Lasts
  <1> QED BY <1>1, <1>2, <1>3, Widths DEF Lasts, Follows

LEMMA DecodedHead ==
    ASSUME TypeInv, DecodeEdge
    PROVE  LET r == Decode(lastLevel, BitsSince(edges[1].gap))
           IN  /\ edges[1] \in Edge /\ edges # <<>> /\ 1 \in 1..Len(edges)
               /\ lastBit' = r.lastBit /\ cur' = r.cur /\ lastLevel' = edges[1].level
               /\ ahead' = 0 /\ Judge(r.byte, edges[1])
               /\ edges' = Tail(edges)
               /\ UNCHANGED <<frame, place, since, masked, latched>>
  <1>1. edges \in Seq(Edge) /\ Len(edges) >= 1 /\ Len(edges) \in Nat
    BY DEF DecodeEdge, TypeInv, TypeOK, Counted
  <1>2. Head(edges) = edges[1] /\ edges[1] \in Edge /\ edges # <<>>
    BY <1>1
  <1> QED BY <1>1, <1>2 DEF DecodeEdge, lineVars

(* An edge that begins a frame: the byte before it, if one is due, is the  *)
(* awaited one, and the new one is awaited now.                            *)
LEMMA DecodeStartEdge ==
    ASSUME TypeInv, TypeInv', LineInv, DecoderInv, DecodeEdge, Starts(edges[1])
    PROVE  DecoderInv' /\ (~wrong => ~wrong')
  <1> DEFINE e == edges[1]
             r == Decode(lastLevel, BitsSince(e.gap))
  <1>1. /\ e \in Edge /\ edges # <<>> /\ e.place = 0 /\ ~e.late /\ e.gap \in 0..Long
        /\ e.frame \in Byte /\ e.level = 0
    <2>1. e \in Edge /\ edges # <<>> /\ e.place = 0 /\ ~e.late /\ 1 \in 1..Len(edges)
      BY DecodedHead DEF Starts
    <2>2. e.frame # None /\ e.level = 0
      BY <2>1, EndBits, Widths DEF LineInv
    <2> QED BY <2>1, <2>2 DEF Edge
  <1>2. ASSUME synced  PROVE r.lastBit = PduBits - 1 /\ r.cur = <<>> /\ r.byte = awaited
    <2>1. CASE Between
      <3>1. Ignored(lastLevel, BitsSince(e.gap)) /\ cur = <<>> /\ lastLevel \in Level
        BY <2>1, DecoderTypes DEF Between, Ignored
      <3> QED BY <1>1, <2>1, <3>1, DecodeCases, GapTypes DEF Between
    <2>2. ASSUME NEW p \in 0..PduBits, Within(p)
          PROVE  r.lastBit = PduBits - 1 /\ r.cur = <<>> /\ r.byte = awaited
      <3>1. e.gap >= PduBits + 1 - p /\ Steady(awaited, p, PduBits)
        BY <1>1, <2>2 DEF Within, Follows
      <3>2. BitsSince(e.gap) = e.gap
        BY <1>1, <2>2, Widths DEF BitsSince, Within
      <3>3. e.gap \in Nat
        BY <1>1, Widths
      <3> QED BY <2>2, <3>1, <3>2, <3>3, DecodeEnd
    <2> QED BY <1>2, <2>1, <2>2 DEF DecoderInv
  <1>3. ASSUME e.gap = Long  PROVE r.lastBit = PduBits - 1 /\ r.cur = <<>>
    BY <1>3, DecodeSync
  <1>4. /\ lastBit' = r.lastBit /\ cur' = r.cur /\ lastLevel' = 0 /\ ahead' = 0
        /\ Judge(r.byte, e)
        /\ UNCHANGED <<frame, place, since, masked, latched>>
    BY <1>1, DecodedHead
  <1> HIDE DEF r
  <1>5. ~wrong => ~wrong'
    BY <1>2, <1>4 DEF Judge
  <1>6. ASSUME synced'  PROVE Within(0)'
    <2>1. lastBit' = PduBits - 1 /\ cur' = <<>>
      BY <1>2, <1>3, <1>4, <1>6 DEF Judge
    <2>2. awaited' = e.frame
      BY <1>1, <1>4, <1>6 DEF Judge, Starts
    <2>3. edges' = <<>> /\ ~latched' => Lasts(e.frame, 0)
      BY <1>1, AfterHead
    <2>4. edges' # <<>> /\ ~edges'[1].late => Follows(edges'[1], e.frame, 0)
      BY <1>1, AfterHead
    <2>5. Len(cur') = 0
      BY <2>1
    <2>6. lastLevel' = Bit(awaited', 0)
      BY <1>4, EndBits
    <2> HIDE DEF e
    <2> QED BY <1>1, <1>4, <2>1, <2>2, <2>3, <2>4, <2>5, <2>6 DEF Within, Lasts
  <1>7. 0 \in 0..PduBits
    BY Widths
  <1> QED BY <1>5, <1>6, <1>7 DEF DecoderInv

(* An edge within a frame adds bits to the byte, and completes none. *)
LEMMA DecodeDataEdge ==
    ASSUME TypeInv, TypeInv', LineInv, DecoderInv, DecodeEdge, ~Starts(edges[1])
    PROVE  DecoderInv' /\ (~wrong => ~wrong')
  <1> DEFINE e == edges[1]
             r == Decode(lastLevel, BitsSince(e.gap))
  <1>1. e \in Edge /\ edges # <<>> /\ 1 \in 1..Len(edges)
    BY DecodedHead
  <1>2. Judge(r.byte, e)
    BY DecodedHead
  <1>3. CASE e.late \/ ~synced
    BY <1>1, <1>2, <1>3 DEF Judge, Starts, DecoderInv
  <1>4. CASE ~e.late /\ synced
    <2>1. e.place \in 1..PduBits /\ e.gap \in 0..Long
      BY <1>1, <1>4, Widths DEF Starts, Edge
    <2>2. PICK p \in 0..PduBits : Within(p)
      BY <1>1, <1>4 DEF DecoderInv, Between, Starts
    <2>3. /\ p < e.place /\ e.gap = e.place - p /\ Steady(awaited, p, e.place - 1)
          /\ e.place < PduBits => e.frame = awaited
      BY <1>1, <1>4, <2>1, <2>2 DEF Within, Follows
    <2>4. BitsSince(e.gap) = e.place - p
      BY <2>1, <2>2, <2>3, Widths DEF BitsSince, Within
    <2>5. PICK q \in 0..PduBits : q = e.place
      BY <2>1
    <2>6. r.byte = None /\ r.lastBit = q - 2 /\ \A i \in 1..Len(r.cur) : r.cur[i] = awaited[i]
      BY <2>2, <2>3, <2>4, <2>5, DecodeOn
    <2>7. /\ lastBit' = r.lastBit /\ cur' = r.cur /\ lastLevel' = e.level /\ ahead' = 0
          /\ UNCHANGED <<frame, place, since, masked, latched>>
      BY DecodedHead
    <2> HIDE DEF r
    <2>8. wrong' = wrong /\ awaited' = awaited
      BY <1>2, <1>4, <2>6 DEF Judge, TypeInv, TypeOK
    <2>9. e.level = Bit(awaited, q) /\ (q = PduBits \/ e.frame = awaited)
      <3>1. e.level = Bit(e.frame, e.place)
        BY <1>1, <1>4 DEF LineInv
      <3>2. CASE q = PduBits
        BY <2>5, <3>1, <3>2, EndBits
      <3>3. CASE q # PduBits
        <4>1. e.place < PduBits
          BY <2>1, <2>5, <3>3, Widths
        <4> QED BY <2>3, <2>5, <3>1, <4>1
      <3> QED BY <3>2, <3>3
    <2>10. e.place = PduBits => e.frame = None
      BY <1>1, <1>4 DEF LineInv
    <2>11. edges' = <<>> /\ ~latched' => Lasts(awaited, q)
      BY <1>4, <2>5, <2>9, <2>10, AfterHead, AfterStopBit
    <2>12. edges' # <<>> /\ ~edges'[1].late => Follows(edges'[1], awaited, q)
      <3>1. edges' # <<>> => edges'[1] \in Edge
        BY DEF TypeInv, TypeOK
      <3> QED BY <1>4, <2>5, <2>9, <2>10, <3>1, AfterHead, AfterStopBit
    <2>13. Within(q)'
      <3>1. q # 0 /\ awaited \in Byte
        BY <2>1, <2>2, <2>5 DEF Within
      <3> HIDE DEF e
      <3> QED BY <2>6, <2>7, <2>8, <2>9, <2>11, <2>12, <3>1 DEF Within, Lasts
    <2> QED BY <2>8, <2>13 DEF DecoderInv
  <1> QED BY <1>3, <1>4

-----------------------------------------------------------------------------
(* The end of a byte that no edge marks                                    *)

(* The fold of Elapsed, over the sets of edges it runs through. *)
Summed(sum) ==
    sum = [s \in SUBSET DOMAIN edges |->
             IF s = {} THEN since
             ELSE edges[CHOOSE x \in s : TRUE].gap + sum[s \ {CHOOSE x \in s : TRUE}]]

LEMMA ElapsedIsSummed ==
    Elapsed = (CHOOSE sum : Summed(sum))[DOMAIN edges] - ahead
  <1>1. FoldSeq(LAMBDA e, n : e.gap + n, since, edges) = (CHOOSE sum : Summed(sum))[DOMAIN edges]
    BY Zenon DEF FoldSeq, FoldFunction, FoldFunctionOnSet, MapThenFoldSet, Summed
  <1> QED BY <1>1 DEF Elapsed

LEMMA ElapsedNoEdge == ASSUME edges = <<>> PROVE Elapsed = since - ahead
  <1>1. Summed([s \in SUBSET DOMAIN edges |-> since])
    BY DEF Summed
  <1> DEFINE sum == CHOOSE sum : Summed(sum)
  <1>2. Summed(sum)
    BY <1>1
  <1> HIDE DEF sum
  <1>3. DOMAIN edges = {}
    OBVIOUS
  <1>4. sum[{}] = since
    BY <1>2, <1>3 DEF Summed
  <1> QED BY <1>3, <1>4, ElapsedIsSummed DEF sum

LEMMA ElapsedOneEdge ==
    ASSUME DOMAIN edges = {1}, edges[1].gap \in Int, since \in Int
    PROVE  Elapsed = (edges[1].gap + since) - ahead
  <1>1. (CHOOSE x \in {1} : TRUE) = 1 /\ {1} \ {1} = {} /\ SUBSET {1} = {{}, {1}}
    OBVIOUS
  <1> DEFINE both    == [s \in SUBSET DOMAIN edges |->
                           IF s = {} THEN since ELSE edges[1].gap + since]
             next(s) == IF s = {} THEN since
                        ELSE edges[CHOOSE x \in s : TRUE].gap
                               + both[s \ {CHOOSE x \in s : TRUE}]
  <1>2. Summed(both)
    <2>1. both[{}] = next({})
      OBVIOUS
    <2>2. both[{1}] = next({1})
      BY <1>1
    <2>3. \A s \in SUBSET DOMAIN edges : both[s] = next(s)
      BY <1>1, <2>1, <2>2
    <2>4. both = [s \in SUBSET DOMAIN edges |-> next(s)]
      <3> HIDE DEF next
      <3> QED BY <2>3
    <2> QED BY <2>4 DEF Summed
  <1> DEFINE sum == CHOOSE sum : Summed(sum)
  <1>3. Summed(sum)
    BY <1>2
  <1> HIDE DEF sum, both, next
  <1>4. sum[{}] = since
    BY <1>3 DEF Summed
  <1>5. sum[{1}] = edges[1].gap + since
    BY <1>1, <1>3, <1>4 DEF Summed
  <1>6. Elapsed = sum[DOMAIN edges] - ahead
    BY ElapsedIsSummed DEF sum
  <1>7. sum[DOMAIN edges] = edges[1].gap + since
    BY <1>5, Zenon
  <1> QED BY <1>6, <1>7

(* The stop bit made up is one that the line has had, and the byte it ends *)
(* is the awaited one.                                                     *)
LEMMA FauxStopIsReal ==
    ASSUME TypeInv, LineInv, DecoderInv, CheckInv, FauxStop
    PROVE  DecoderInv' /\ (~wrong => ~wrong')
  <1> DEFINE r == Decode(lastLevel, Detection)
  <1>1. /\ pc = "check" /\ ~masked /\ Elapsed >= Detection
        /\ lastBit' = r.lastBit /\ cur' = r.cur /\ lastLevel' = 1
        /\ Judge(r.byte, NoEdge)
        /\ UNCHANGED <<frame, place, since, edges, masked, latched>>
    BY DEF FauxStop, lineVars, isrVars
  <1>2. NoEdge.place = PduBits /\ ~NoEdge.late /\ ~Starts(NoEdge)
    BY Widths DEF NoEdge, Starts
  <1> HIDE DEF r
  <1>3. CASE ~synced
    BY <1>1, <1>2, <1>3 DEF Judge, DecoderInv
  <1>4. CASE synced
    <2>1. Pending
      BY <1>1 DEF TypeInv, Counted
    <2>2. PICK p \in 0..PduBits : Within(p)
      BY <1>4, <2>1, Widths DEF DecoderInv, Between, Pending
    <2>3. p # 0 /\ lastBit = p - 2 /\ ahead = 0 /\ Detection = PduBits + 1 - p
      BY <2>1, <2>2, Widths DEF Within, Pending, Detection
    <2>4. ~latched
      BY <1>1 DEF LineInv
    <2>5. /\ Steady(awaited, p, PduBits)
          /\ edges = <<>> => place = PduBits
          /\ edges # <<>> /\ ~edges[1].late => edges[1].place = 0
      <3>1. CASE edges = <<>>
        <4>1. Lasts(awaited, p) /\ since >= PduBits + 1 - p
          BY <1>1, <2>2, <2>3, <2>4, <3>1, ElapsedNoEdge, StateTypes DEF Within
        <4>2. place = PduBits
          BY <4>1, StateTypes, Widths DEF Lasts
        <4> QED BY <3>1, <4>1, <4>2 DEF Lasts
      <3>2. CASE edges # <<>>
        <4>1. Len(edges) = 1 /\ since = 0 /\ ~edges[1].late
          BY <1>1, <1>4, <3>2 DEF CheckInv
        <4>2. DOMAIN edges = {1} /\ edges[1] \in Edge
          BY <4>1, StateTypes
        <4>3. edges[1].gap \in Int /\ edges[1].place \in 0..PduBits
          BY <4>2, Widths DEF Edge
        <4>4. edges[1].gap >= PduBits + 1 - p
          BY <1>1, <2>3, <4>1, <4>2, <4>3, ElapsedOneEdge
        <4>5. Follows(edges[1], awaited, p)
          BY <2>2, <3>2, <4>1 DEF Within
        <4> QED BY <3>2, <4>3, <4>4, <4>5, Widths DEF Follows
      <3> QED BY <3>1, <3>2
    <2>6. r = [lastBit |-> PduBits - 1, cur |-> <<>>, byte |-> awaited]
      <3>1. Detection \in Nat
        BY <2>3, Widths
      <3> QED BY <2>2, <2>3, <2>5, <3>1, DecodeEnd, Widths DEF r
    <2>7. awaited # None /\ r.byte = awaited
      BY <2>2, <2>6, Widths DEF Within
    <2>8. wrong' = wrong /\ awaited' = None
      BY <1>1, <1>2, <2>7 DEF Judge, TypeInv, TypeOK
    <2>9. Between'
      BY <1>1, <2>5, <2>6, <2>8 DEF Between
    <2> QED BY <2>8, <2>9 DEF DecoderInv
  <1> QED BY <1>3, <1>4

-----------------------------------------------------------------------------
(* The other steps                                                         *)

LEMMA DecoderInvLine ==
    ASSUME TypeInv, TypeInv', LineInv, DecoderInv,
           LineGoesOn \/ \E b \in Byte : FrameBegins(b)
    PROVE  DecoderInv'
  <1>1. UNCHANGED <<masked, lastLevel, ahead, lastBit, cur, synced, awaited, wrong>>
    BY DEF LineGoesOn, FrameBegins, BoundaryPasses, decoderVars, historyVars
  <1>2. CASE LineGoesOn /\ line' = line
    <2>1. edges' = edges /\ latched' = latched
      BY <1>2 DEF LineGoesOn, SameLevel
    <2>2. Between => Between'
      BY <1>1, <1>2, <2>1, Widths DEF Between, LineGoesOn
    <2>3. ASSUME NEW p \in 0..PduBits, Within(p)  PROVE Within(p)'
      <3>1. Lasts(awaited, p) => Lasts(awaited, p)'
        <4>1. PICK f : f = awaited
          OBVIOUS
        <4>2. Lasts(f, p) => Lasts(f, p)'
          BY <1>2, LastsOn
        <4> QED BY <1>1, <4>1, <4>2 DEF Lasts
      <3> QED BY <1>1, <2>1, <2>3, <3>1 DEF Within
    <2> QED BY <1>1, <2>2, <2>3 DEF DecoderInv
  <1>3. CASE (LineGoesOn /\ line' # line) \/ \E b \in Byte : FrameBegins(b)
    <2>1. NewLevel
      BY <1>3 DEF LineGoesOn, FrameBegins
    <2>2. CASE masked
      <3>1. latched' = TRUE /\ edges' = edges
        BY <2>1, <2>2 DEF NewLevel
      <3> QED BY <1>1, <3>1 DEF DecoderInv, Between, Within
    <2>3. CASE ~masked
      <3>1. PICK e : e = NewEdge
        OBVIOUS
      <3>2. edges' = Append(edges, e) /\ ~latched
        BY <2>1, <2>3, <3>1 DEF NewLevel, Recorded, NewEdge, LineInv
      <3>3. /\ edges' # <<>>
            /\ edges # <<>> => edges'[1] = edges[1]
            /\ edges = <<>> => edges'[1] = e
        BY <3>2, StateTypes
      <3>4. Between => Between'
        <4>1. CASE edges = <<>>
          <5>1. Between => e.place = 0
            <6>1. ASSUME Between  PROVE FrameBegins(frame')
              <7>1. place = PduBits
                BY <3>2, <4>1, <6>1 DEF Between
              <7>2. ~(LineGoesOn /\ line' # line)
                BY <7>1, EndBits, Widths DEF LineGoesOn, line
              <7> QED BY <1>3, <7>2 DEF FrameBegins
            <6> QED BY <3>1, <6>1 DEF FrameBegins, NewEdge
          <5> QED BY <1>1, <3>3, <4>1, <5>1 DEF Between
        <4>2. CASE edges # <<>>
          BY <1>1, <3>3, <4>2 DEF Between
        <4> QED BY <4>1, <4>2
      <3>5. ASSUME NEW p \in 0..PduBits, Within(p)  PROVE Within(p)'
        <4>1. Lasts(awaited, p) => Follows(e, awaited, p)
          BY <1>3, <3>1, NewEdgeFollows
        <4> QED BY <1>1, <3>2, <3>3, <3>5, <4>1 DEF Within
      <3> QED BY <1>1, <3>4, <3>5 DEF DecoderInv
    <2> QED BY <2>2, <2>3
  <1> QED BY <1>2, <1>3

LEMMA DecoderInvHandler ==
    ASSUME TypeInv, LineInv, DecoderInv, LoRaHandlerBegins \/ LoRaHandlerReturns
    PROVE  DecoderInv'
  <1>1. CASE LoRaHandlerBegins
    <2>1. UNCHANGED <<frame, place, since, edges, latched, lastLevel, ahead, lastBit, cur>>
      BY <1>1 DEF LoRaHandlerBegins, lineVars, decoderVars
    <2>2. synced' => synced /\ awaited' = awaited
      BY <1>1 DEF LoRaHandlerBegins
    <2> QED BY <2>1, <2>2 DEF DecoderInv, Between, Within, Lasts
  <1>2. CASE LoRaHandlerReturns
    <2>1. UNCHANGED <<frame, place, lastLevel, ahead, lastBit, cur, synced, awaited>>
      BY <1>2 DEF LoRaHandlerReturns, lineVars, decoderVars, historyVars
    <2>2. CASE latched
      <3>1. PICK e : edges' = Append(edges, e) /\ e.late
        BY <1>2, <2>2 DEF LoRaHandlerReturns, Recorded
      <3>2. /\ edges' # <<>>
            /\ edges # <<>> => edges'[1] = edges[1]
            /\ edges = <<>> => edges'[1].late
        BY <3>1, StateTypes
      <3> QED BY <2>1, <3>2 DEF DecoderInv, Between, Within
    <2>3. CASE ~latched
      <3>1. UNCHANGED <<edges, since>>
        BY <1>2, <2>3 DEF LoRaHandlerReturns
      <3> QED BY <2>1, <2>3, <3>1 DEF DecoderInv, Between, Within, Lasts
    <2> QED BY <2>2, <2>3
  <1> QED BY <1>1, <1>2

LEMMA CheckInvNext ==
    ASSUME QuickCheck, TypeInv, TypeInv', LineInv, CheckInv, [Next]_vars
    PROVE  CheckInv'
  <1>1. CASE LineGoesOn \/ \E b \in Byte : FrameBegins(b)
    <2>1. ASSUME pc' = "check", synced'
          PROVE  /\ ~masked' /\ waited' = 1
                 /\ edges' # <<>> => Len(edges') = 1 /\ since' = 0 /\ ~edges'[1].late
      <3>1. BoundaryPasses /\ (SameLevel \/ NewLevel)
        BY <1>1 DEF LineGoesOn, FrameBegins
      <3>2. pc = "check" /\ synced /\ ~masked /\ ~masked'
        BY <2>1, <3>1 DEF BoundaryPasses, CheckInv, historyVars
      <3>3. waited = 0 /\ waited' = 1
        BY <3>1, <3>2, SerialAssumption DEF BoundaryPasses, QuickCheck, TypeInv, TypeOK
      <3>4. edges = <<>>
        BY <3>2, <3>3 DEF CheckInv
      <3>5. CASE SameLevel
        BY <3>2, <3>3, <3>4, <3>5 DEF SameLevel
      <3>6. CASE NewLevel
        <4>1. PICK e : edges' = Append(edges, e) /\ ~e.late /\ since' = 0
          BY <3>2, <3>6 DEF NewLevel, Recorded
        <4>2. Len(edges') = 1 /\ edges'[1] = e
          BY <3>4, <4>1
        <4> QED BY <3>2, <3>3, <4>1, <4>2
      <3> QED BY <3>1, <3>5, <3>6
    <2> QED BY <2>1 DEF CheckInv
  <1>2. CASE LoRaHandlerBegins
    BY <1>2 DEF LoRaHandlerBegins, readerVars, CheckInv
  <1>3. CASE LoRaHandlerReturns
    BY <1>3 DEF LoRaHandlerReturns, readerVars, historyVars, CheckInv
  <1>4. CASE Check
    BY <1>4 DEF Check, NothingNew, isrVars, CheckInv
  <1>5. CASE RxBits \/ DecodeEdge \/ FauxStop \/ TooEarly
    BY <1>5 DEF RxBits, DecodeEdge, FauxStop, TooEarly, CheckInv
  <1>6. CASE UNCHANGED vars
    BY <1>6 DEF vars, isrVars, historyVars, readerVars, CheckInv
  <1> QED BY <1>1, <1>2, <1>3, <1>4, <1>5, <1>6 DEF Next, Reader

LEMMA BytesInvNext ==
    ASSUME QuickCheck, BytesInv, [Next]_vars
    PROVE  BytesInv'
  <1> USE DEF BytesInv
  <1>1. TypeInv'
    BY TypeInvNext
  <1>2. LineInv'
    BY <1>1, LineInvNext
  <1>3. CheckInv'
    BY <1>1, CheckInvNext
  <1>4. DecoderInv' /\ (~wrong => ~wrong')
    <2>1. CASE LineGoesOn \/ \E b \in Byte : FrameBegins(b)
      BY <1>1, <2>1, DecoderInvLine DEF LineGoesOn, FrameBegins, BoundaryPasses, historyVars
    <2>2. CASE LoRaHandlerBegins \/ LoRaHandlerReturns
      <3>1. wrong' = wrong
        BY <2>2 DEF LoRaHandlerBegins, LoRaHandlerReturns, historyVars
      <3> QED BY <2>2, <3>1, DecoderInvHandler
    <2>3. CASE DecodeEdge
      BY <1>1, <2>3, DecodeStartEdge, DecodeDataEdge
    <2>4. CASE FauxStop
      BY <2>4, FauxStopIsReal
    <2>5. CASE RxBits \/ Check \/ TooEarly \/ UNCHANGED vars
      BY <2>5 DEF RxBits, Check, TooEarly, vars, lineVars, isrVars, decoderVars, historyVars,
                  DecoderInv, Between, Within, Lasts
    <2> QED BY <2>1, <2>2, <2>3, <2>4, <2>5 DEF Next, Reader
  <1> QED BY <1>1, <1>2, <1>3, <1>4 DEF BytesAreRight

LEMMA BytesInvInit == Init => BytesInv
  <1> SUFFICES ASSUME Init PROVE BytesInv
    OBVIOUS
  <1>1. Between
    BY DEF Init, Between
  <1>2. LineInv
    BY NoBits DEF Init, LineInv
  <1> QED BY <1>1, <1>2, TypeInvInit DEF Init, BytesInv, DecoderInv, CheckInv, BytesAreRight

(* From a silence until an edge is recorded late, the bytes decoded are    *)
(* those sent, whenever the program asks: for every number of data bits    *)
(* and size of the edge buffer (SoftwareSerial.cpp:465-559).               *)
THEOREM BytesAreTheSent == QuickCheck /\ Spec => []BytesAreRight
  <1> SUFFICES ASSUME QuickCheck  PROVE Spec => []BytesAreRight
    OBVIOUS
  <1>1. BytesInv => BytesAreRight
    BY DEF BytesInv
  <1>2. BytesInv /\ [Next]_vars => BytesInv'
    BY BytesInvNext
  <1> QED BY <1>1, <1>2, BytesInvInit, PTL DEF Spec
=============================================================================
