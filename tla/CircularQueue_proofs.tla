------------------------ MODULE CircularQueue_proofs ------------------------
(***************************************************************************)
(* The serial library's ring buffer is a bounded queue, for every size of  *)
(* buffer, every kind of value and every batch.                            *)
(***************************************************************************)
EXTENDS CircularQueue, SequenceTheorems, TLAPS

(* How far q is ahead of p on the ring. *)
Ahead(p, q) == Corrected(q - p)

(* What the producer has stored lies behind m_inPos, in the order given,   *)
(* and there is room for all of it.                                        *)
ProducerInv ==
    pushing # <<>> =>
        /\ Len(pushing) <= AvailableForPush
        /\ next = Wrap(inPos + Len(pushing))
        /\ block = Lesser(Len(pushing), BufSize - inPos)
        /\ written <= Len(pushing)
        /\ \A i \in 1..Len(pushing) :
               i <= written => buffer[Wrap(inPos + i - 1)] = pushing[i]

(* What the consumer has read is what the queue begins with, and what it   *)
(* will take is there.                                                     *)
PopInv ==
    op = "pop" =>
        /\ want \in 1..Available
        /\ Len(got) <= want
        /\ \A i \in 1..Len(got) : got[i] = buffer[Wrap(outPos + i - 1)]

EachInv ==
    op = "each" =>
        /\ Ahead(outPos, stop) \in 1..Available
        /\ got # <<>> => Len(got) = 1 /\ got[1] = buffer[outPos]

FlushInv == op = "flush" => Ahead(outPos, stop) \in 0..Available

Inv == TypeOK /\ ProducerInv /\ PopInv /\ EachInv /\ FlushInv

-----------------------------------------------------------------------------
(* Arithmetic of the positions                                             *)

LEMMA PositionsInRange ==
    ASSUME TypeOK
    PROVE  /\ Available \in 0..BufSize - 1
           /\ AvailableForPush \in 0..BufSize - 1
           /\ Available + AvailableForPush = BufSize - 1
  BY QueueAssumption, SMT DEF TypeOK, Available, AvailableForPush, Corrected, Pos

LEMMA WrapInRange ==
    ASSUME TypeOK, NEW p \in Pos, NEW k \in 0..BufSize
    PROVE  Wrap(p + k) \in Pos
  BY QueueAssumption, SMT DEF Wrap, Pos

(* The slots in the queue and the free ones are apart.                     *)
LEMMA SlotsApart ==
    ASSUME TypeOK, NEW i \in 1..Available, NEW k \in 0..AvailableForPush
    PROVE  Wrap(outPos + i - 1) # Wrap(inPos + k)
  BY QueueAssumption, SMT
     DEF TypeOK, Available, AvailableForPush, Corrected, Pos, Wrap

LEMMA SlotsDiffer ==
    ASSUME TypeOK, NEW p \in Pos, NEW i \in 0..BufSize - 1, NEW k \in 0..BufSize - 1,
           i # k
    PROVE  Wrap(p + i) # Wrap(p + k)
  BY QueueAssumption, SMT DEF Pos, Wrap

(* push_n takes all it is given or all there is room for: as               *)
(* available_for_push says (circular_queue.h:121-126, 282-305).            *)
LEMMA RoomIsUsed == TypeOK => PushTakesAll
  BY QueueAssumption, SMT
     DEF TypeOK, PushTakesAll, FirstBlock, SecondBlock, AvailableForPush,
         Corrected, Lesser, Pos, Wrap

(* Where the blocks of push_n lie. *)
LEMMA BlocksFit ==
    ASSUME TypeOK, NEW n \in Nat, FirstBlock(n) > 0
    PROVE  LET taken == FirstBlock(n) + SecondBlock(n)
           IN  /\ taken \in 1..n
               /\ taken <= AvailableForPush
               /\ FirstBlock(n) = Lesser(taken, BufSize - inPos)
               /\ Wrap(inPos + FirstBlock(n)) + SecondBlock(n) = Wrap(inPos + taken)
  BY QueueAssumption, SMT
     DEF TypeOK, FirstBlock, SecondBlock, AvailableForPush,
         Corrected, Lesser, Pos, Wrap

LEMMA BatchIsSeq ==
    ASSUME NEW values \in Batches
    PROVE  values \in Seq(Value) /\ Len(values) \in 1..MaxPush
  BY QueueAssumption DEF Batches

-----------------------------------------------------------------------------
(* Each part of the invariant is kept                                      *)

LEMMA InvInit == Init => Inv
  BY QueueAssumption
     DEF Init, Inv, TypeOK, ProducerInv, PopInv, EachInv, FlushInv, Pos

LEMMA PushKeepsInv ==
    ASSUME Inv, NEW value \in Value, Push(value)
    PROVE  Inv'
  <1>1. /\ pushing' = <<value>> /\ Len(pushing') = 1 /\ pushing' \in Seq(Value)
        /\ written' = 0 /\ block' = 1
    BY DEF Push
  <1>2. next' = Wrap(inPos + 1) /\ Wrap(inPos + 1) \in Pos
    BY QueueAssumption, WrapInRange DEF Push, Inv, TypeOK
  <1>3. TypeOK'
    BY <1>1, <1>2 DEF Inv, TypeOK, Push, consumerVars
  <1>4. AvailableForPush >= 1 /\ 1 = Lesser(1, BufSize - inPos)
    BY QueueAssumption, SMT
       DEF Inv, TypeOK, Push, NotFull, AvailableForPush, Corrected, Wrap, Lesser, Pos
  <1>5. ProducerInv'
    BY <1>1, <1>2, <1>4 DEF ProducerInv, Push, consumerVars, AvailableForPush
  <1>6. (PopInv /\ EachInv /\ FlushInv)'
    BY DEF Inv, PopInv, EachInv, FlushInv, Push, consumerVars, Available, Ahead
  <1> QED BY <1>3, <1>5, <1>6 DEF Inv

LEMMA PushNKeepsInv ==
    ASSUME Inv, NEW values \in Batches, PushN(values)
    PROVE  Inv'
  <1> DEFINE taken == FirstBlock(Len(values)) + SecondBlock(Len(values))
  <1>1. values \in Seq(Value) /\ Len(values) \in Nat
    BY BatchIsSeq, QueueAssumption
  <1>2. /\ taken \in 1..Len(values)
        /\ taken <= AvailableForPush
        /\ FirstBlock(Len(values)) = Lesser(taken, BufSize - inPos)
        /\ Wrap(inPos + FirstBlock(Len(values))) + SecondBlock(Len(values))
               = Wrap(inPos + taken)
    BY <1>1, BlocksFit DEF PushN, Inv
  <1>3. pushing' = SubSeq(values, 1, taken)
    BY DEF PushN
  <1>4. pushing' \in Seq(Value) /\ Len(pushing') = taken
    <2>1. \A i \in 1..taken : values[i] \in Value
      BY <1>1, <1>2
    <2>2. SubSeq(values, 1, taken) \in Seq(Value) /\ Len(SubSeq(values, 1, taken)) = taken
      BY <1>2, <2>1, SubSeqProperties
    <2> QED BY <1>3, <2>2
  <1>5. taken \in 0..BufSize /\ AvailableForPush \in 0..BufSize - 1
    BY <1>2, PositionsInRange, QueueAssumption DEF Inv
  <1>6. Wrap(inPos + taken) \in Pos
    BY <1>5, WrapInRange DEF Inv, TypeOK
  <1>7. next' = Wrap(inPos + taken) /\ written' = 0 /\ block' = Lesser(taken, BufSize - inPos)
    BY <1>2 DEF PushN
  <1>8. block' \in Nat
    BY <1>5, <1>7, QueueAssumption DEF Inv, TypeOK, Lesser, Pos
  <1> HIDE DEF taken
  <1>9. TypeOK'
    BY <1>4, <1>6, <1>7, <1>8 DEF Inv, TypeOK, PushN, consumerVars
  <1>10. ProducerInv'
    BY <1>2, <1>4, <1>7 DEF ProducerInv, PushN, consumerVars, AvailableForPush
  <1>11. (PopInv /\ EachInv /\ FlushInv)'
    BY DEF Inv, PopInv, EachInv, FlushInv, PushN, consumerVars, Available, Ahead
  <1> QED BY <1>9, <1>10, <1>11 DEF Inv

(* Where the next value is stored: the slot after those stored, a free one. *)
LEMMA StoreSlot ==
    ASSUME Inv, written < Len(pushing)
    PROVE  /\ pushing # <<>>
           /\ written + 1 \in 1..Len(pushing)
           /\ written \in 0..AvailableForPush /\ written < BufSize - 1
           /\ (IF written < block THEN inPos + written ELSE written - block)
                  = Wrap(inPos + written)
           /\ Wrap(inPos + written) \in Pos
  <1>1. pushing # <<>> /\ Len(pushing) \in Nat /\ written + 1 \in 1..Len(pushing)
    BY DEF Inv, TypeOK
  <1>2. /\ Len(pushing) <= AvailableForPush
        /\ block = Lesser(Len(pushing), BufSize - inPos)
    BY <1>1 DEF Inv, ProducerInv
  <1>3. AvailableForPush \in 0..BufSize - 1
    BY PositionsInRange DEF Inv
  <1>4. written \in 0..AvailableForPush /\ written < BufSize - 1
    BY <1>1, <1>2, <1>3, QueueAssumption DEF Inv, TypeOK
  <1>5. Wrap(inPos + written) \in Pos
    BY <1>4, WrapInRange, QueueAssumption DEF Inv, TypeOK
  <1>6. (IF written < block THEN inPos + written ELSE written - block)
            = Wrap(inPos + written)
    BY <1>1, <1>2, <1>4, QueueAssumption, SMT DEF Inv, TypeOK, Lesser, Wrap, Pos
  <1> QED BY <1>1, <1>4, <1>5, <1>6

LEMMA StoreLeavesQueue ==
    ASSUME Inv, Store, NEW i \in 1..Available
    PROVE  buffer'[Wrap(outPos + i - 1)] = buffer[Wrap(outPos + i - 1)]
  <1>1. written < Len(pushing)
    BY DEF Store
  <1>2. /\ written \in 0..AvailableForPush
        /\ (IF written < block THEN inPos + written ELSE written - block)
               = Wrap(inPos + written)
    BY <1>1, StoreSlot
  <1>3. Wrap(outPos + i - 1) # Wrap(inPos + written)
    BY <1>2, SlotsApart DEF Inv
  <1>4. buffer' = [buffer EXCEPT ![Wrap(inPos + written)] = pushing[written + 1]]
    BY <1>2 DEF Store
  <1> QED BY <1>3, <1>4 DEF Inv, TypeOK

LEMMA StoreKeepsInv ==
    ASSUME Inv, Store
    PROVE  Inv'
  <1>1. /\ pushing # <<>>
        /\ written + 1 \in 1..Len(pushing)
        /\ written < BufSize - 1
        /\ (IF written < block THEN inPos + written ELSE written - block)
               = Wrap(inPos + written)
        /\ Wrap(inPos + written) \in Pos
    BY StoreSlot DEF Store
  <1>2. /\ buffer' = [buffer EXCEPT ![Wrap(inPos + written)] = pushing[written + 1]]
        /\ written' = written + 1
        /\ UNCHANGED <<inPos, pushing, block, next, outPos, op, want, got, stop, handed>>
    BY <1>1 DEF Store, consumerVars
  <1>3. pushing[written + 1] \in Value
    BY <1>1 DEF Inv, TypeOK
  <1>4. TypeOK'
    BY <1>1, <1>2, <1>3 DEF Inv, TypeOK
  <1>5. ASSUME NEW i \in 1..Len(pushing), i <= written + 1
        PROVE  buffer'[Wrap(inPos + i - 1)] = pushing[i]
    <2>1. CASE i = written + 1
      BY <1>1, <1>2, <2>1 DEF Inv, TypeOK
    <2>2. CASE i # written + 1
      <3>1. i <= written /\ i - 1 \in 0..BufSize - 1 /\ written \in 0..BufSize - 1
            /\ i - 1 # written
        BY <1>1, <1>5, <2>2, QueueAssumption DEF Inv, TypeOK
      <3>2. Wrap(inPos + (i - 1)) # Wrap(inPos + written)
        BY <3>1, SlotsDiffer DEF Inv, TypeOK
      <3>3. inPos + (i - 1) = inPos + i - 1
        BY <3>1 DEF Inv, TypeOK, Pos
      <3>4. buffer'[Wrap(inPos + i - 1)] = buffer[Wrap(inPos + i - 1)]
        BY <1>2, <3>2, <3>3 DEF Inv, TypeOK
      <3> QED BY <1>1, <3>1, <3>4 DEF Inv, ProducerInv
    <2> QED BY <2>1, <2>2
  <1>6. ProducerInv'
    BY <1>1, <1>2, <1>5 DEF Inv, ProducerInv, AvailableForPush
  <1>7. \A i \in 1..Available :
            buffer'[Wrap(outPos + i - 1)] = buffer[Wrap(outPos + i - 1)]
    BY StoreLeavesQueue
  <1>8. PopInv'
    <2>1. SUFFICES ASSUME op = "pop"  PROVE PopInv'
      BY <1>2 DEF PopInv
    <2>2. want \in 1..Available /\ Len(got) <= want /\ Len(got) \in Nat
      BY <2>1 DEF Inv, PopInv, TypeOK
    <2>3. Available \in Nat
      BY PositionsInRange, QueueAssumption DEF Inv
    <2>4. 1..Len(got) \subseteq 1..Available
      BY <2>2, <2>3
    <2> QED BY <1>2, <1>7, <2>1, <2>2, <2>4 DEF Inv, PopInv, Available
  <1>9. EachInv'
    <2>1. SUFFICES ASSUME op = "each"  PROVE EachInv'
      BY <1>2 DEF EachInv
    <2>2. 1 \in 1..Available
      BY <2>1, PositionsInRange, QueueAssumption DEF Inv, EachInv
    <2>3. Wrap(outPos + 1 - 1) = outPos
      BY QueueAssumption DEF Inv, TypeOK, Wrap, Pos
    <2>4. buffer'[outPos] = buffer[outPos]
      BY <1>7, <2>2, <2>3
    <2> QED BY <1>2, <2>1, <2>4 DEF Inv, EachInv, Available, Ahead
  <1>10. FlushInv'
    BY <1>2 DEF Inv, FlushInv, Available, Ahead
  <1> QED BY <1>4, <1>6, <1>8, <1>9, <1>10 DEF Inv

LEMMA PublishKeepsInv ==
    ASSUME Inv, Publish
    PROVE  Inv' /\ Available' = Available + Len(pushing)
  <1>1. /\ pushing # <<>> /\ pushing' = <<>> /\ inPos' = next
        /\ UNCHANGED <<buffer, written, block, next, outPos, op, want, got, stop, handed>>
    BY DEF Publish, consumerVars
  <1>2. /\ Len(pushing) \in Nat
        /\ Len(pushing) <= AvailableForPush
        /\ next = Wrap(inPos + Len(pushing))
    BY <1>1 DEF Inv, TypeOK, ProducerInv
  <1>3. TypeOK'
    BY <1>1 DEF Inv, TypeOK
  <1>4. Available' = Available + Len(pushing)
    BY <1>1, <1>2, QueueAssumption, SMT
       DEF Inv, TypeOK, Available, AvailableForPush, Corrected, Wrap, Pos
  <1>5. Available \in Nat /\ Available' \in Nat /\ Available <= Available'
    BY <1>2, <1>4, PositionsInRange, QueueAssumption DEF Inv
  <1>6. ProducerInv'
    BY <1>1 DEF ProducerInv
  <1>7. PopInv'
    BY <1>1, <1>5 DEF Inv, PopInv
  <1>8. (EachInv /\ FlushInv)'
    BY <1>1, <1>5 DEF Inv, EachInv, FlushInv, Ahead
  <1> QED BY <1>3, <1>4, <1>6, <1>7, <1>8 DEF Inv

(* What the consumer does not release leaves the producer as it was.       *)
LEMMA ReadingKeepsProducer ==
    ASSUME ProducerInv, UNCHANGED <<producerVars, outPos>>
    PROVE  ProducerInv' /\ Available' = Available
  BY DEF ProducerInv, producerVars, AvailableForPush, Available

LEMMA BeginningKeepsInv ==
    ASSUME Inv, (\E n \in 1..BufSize : PopN(n)) \/ ForEach \/ Flush
    PROVE  Inv'
  <1>1. Available \in 0..BufSize - 1 /\ BufSize \in Nat
    BY PositionsInRange, QueueAssumption DEF Inv
  <1>2. UNCHANGED <<producerVars, outPos, handed>>
    BY DEF PopN, ForEach, Flush
  <1>3. ProducerInv' /\ Available' = Available
    BY <1>2, ReadingKeepsProducer DEF Inv
  <1>4. Ahead(outPos, inPos) = Available
    BY DEF Ahead, Available
  <1>5. CASE \E n \in 1..BufSize : PopN(n)
    <2>1. PICK n \in 1..BufSize : PopN(n)
      BY <1>5
    <2>2. op' = "pop" /\ got' = <<>> /\ want' \in 1..Available /\ UNCHANGED stop
      BY <1>1, <2>1 DEF PopN, Lesser
    <2>3. TypeOK'
      BY <1>1, <1>2, <2>2 DEF Inv, TypeOK, producerVars
    <2> QED BY <1>3, <2>2, <2>3 DEF Inv, PopInv, EachInv, FlushInv
  <1>6. CASE ForEach
    <2>1. op' = "each" /\ got' = <<>> /\ stop' = inPos /\ UNCHANGED want /\ outPos # inPos
      BY <1>6 DEF ForEach
    <2>2. Available \in 1..Available
      BY <1>1, <2>1 DEF Available, Corrected, Inv, TypeOK, Pos
    <2>3. TypeOK'
      BY <1>2, <2>1 DEF Inv, TypeOK, producerVars
    <2>4. Ahead(outPos, stop)' = Available
      BY <1>2, <1>4, <2>1 DEF Ahead
    <2> QED BY <1>3, <2>1, <2>2, <2>3, <2>4 DEF Inv, PopInv, EachInv, FlushInv
  <1>7. CASE Flush
    <2>1. op' = "flush" /\ stop' = inPos /\ UNCHANGED <<want, got>>
      BY <1>7 DEF Flush
    <2>2. TypeOK'
      BY <1>2, <2>1 DEF Inv, TypeOK, producerVars
    <2>3. Ahead(outPos, stop)' = Available
      BY <1>2, <1>4, <2>1 DEF Ahead
    <2> QED BY <1>1, <1>3, <2>1, <2>2, <2>3 DEF Inv, PopInv, EachInv, FlushInv
  <1> QED BY <1>5, <1>6, <1>7

LEMMA PopReadKeepsInv ==
    ASSUME Inv, PopRead
    PROVE  Inv'
  <1> DEFINE k == Len(got)
             slot == IF k < Lesser(want, BufSize - outPos)
                     THEN outPos + k ELSE k - Lesser(want, BufSize - outPos)
  <1>1. /\ op = "pop" /\ k < want /\ got' = Append(got, buffer[slot])
        /\ UNCHANGED <<producerVars, outPos, op, want, stop, handed>>
    BY DEF PopRead
  <1>2. /\ want \in 1..Available /\ k \in Nat /\ got \in Seq(Value)
        /\ \A i \in 1..k : got[i] = buffer[Wrap(outPos + i - 1)]
    BY <1>1 DEF Inv, PopInv, TypeOK
  <1>3. Available \in 0..BufSize - 1 /\ BufSize \in Nat
    BY PositionsInRange, QueueAssumption DEF Inv
  <1>4. slot = Wrap(outPos + k)
    BY <1>1, <1>2, <1>3, SMT DEF Inv, TypeOK, Lesser, Wrap, Pos
  <1>5. Wrap(outPos + k) \in Pos
    BY <1>1, <1>2, <1>3, WrapInRange DEF Inv, TypeOK
  <1>6. buffer[slot] \in Value
    BY <1>4, <1>5 DEF Inv, TypeOK
  <1>7. /\ got' \in Seq(Value) /\ Len(got') = k + 1
        /\ \A i \in 1..k : got'[i] = got[i]
        /\ got'[k + 1] = buffer[slot]
    BY <1>1, <1>2, <1>6
  <1>8. TypeOK'
    BY <1>1, <1>7 DEF Inv, TypeOK, producerVars
  <1>9. outPos + (k + 1) - 1 = outPos + k
    BY <1>2 DEF Inv, TypeOK, Pos
  <1>10. \A i \in 1..k + 1 : got'[i] = buffer[Wrap(outPos + i - 1)]
    <2>1. TAKE i \in 1..k + 1
    <2>2. CASE i = k + 1
      BY <1>4, <1>7, <1>9, <2>2
    <2>3. CASE i # k + 1
      BY <1>2, <1>7, <2>3
    <2> QED BY <2>2, <2>3
  <1> HIDE DEF k, slot
  <1>11. ProducerInv' /\ Available' = Available
    BY <1>1, ReadingKeepsProducer DEF Inv
  <1>12. k + 1 <= want
    BY <1>1, <1>2, <1>3
  <1>13. PopInv'
    BY <1>1, <1>2, <1>7, <1>10, <1>11, <1>12 DEF PopInv, producerVars
  <1> QED BY <1>1, <1>8, <1>11, <1>13 DEF Inv, EachInv, FlushInv

(* Releasing n of the values in the queue. *)
LEMMA ReleaseShrinks ==
    ASSUME Inv, NEW n \in 0..Available, outPos' = Wrap(outPos + n),
           UNCHANGED producerVars
    PROVE  /\ outPos' \in Pos
           /\ Available' = Available - n
           /\ ProducerInv'
           /\ \A i \in 1..Available - n :
                  Wrap(outPos' + i - 1) = Wrap(outPos + (i + n) - 1)
  <1>1. Available \in 0..BufSize - 1 /\ BufSize \in Nat
    BY PositionsInRange, QueueAssumption DEF Inv
  <1>2. outPos' \in Pos
    BY <1>1, WrapInRange DEF Inv, TypeOK
  <1>3. Available' = Available - n /\ AvailableForPush' = AvailableForPush + n
    BY <1>1, SMT DEF Inv, TypeOK, producerVars, Available, AvailableForPush, Corrected, Wrap, Pos
  <1>4. \A i \in 1..Available - n :
            Wrap(outPos' + i - 1) = Wrap(outPos + (i + n) - 1)
    BY <1>1, SMT DEF Inv, TypeOK, Available, Corrected, Wrap, Pos
  <1>5. AvailableForPush \in Nat
    BY PositionsInRange, QueueAssumption DEF Inv
  <1>6. ProducerInv'
    <2>1. SUFFICES ASSUME pushing # <<>>  PROVE ProducerInv'
      BY DEF ProducerInv, producerVars
    <2>2. Len(pushing) <= AvailableForPush /\ Len(pushing) \in Nat
      BY <2>1 DEF Inv, ProducerInv, TypeOK
    <2>3. Len(pushing) <= AvailableForPush'
      BY <1>3, <1>5, <2>2
    <2> QED BY <2>1, <2>3 DEF Inv, ProducerInv, producerVars
  <1> QED BY <1>2, <1>3, <1>4, <1>6

LEMMA PopReleaseKeepsInv ==
    ASSUME Inv, PopRelease
    PROVE  Inv'
  <1>1. /\ op = "pop" /\ op' = "idle" /\ outPos' = Wrap(outPos + want) /\ handed' = got
        /\ UNCHANGED <<producerVars, want, got, stop>>
    BY DEF PopRelease
  <1>2. want \in 0..Available
    BY <1>1 DEF Inv, PopInv
  <1>3. outPos' \in Pos /\ ProducerInv'
    BY <1>1, <1>2, ReleaseShrinks
  <1>4. TypeOK'
    BY <1>1, <1>3 DEF Inv, TypeOK, producerVars
  <1> QED BY <1>1, <1>3, <1>4 DEF Inv, PopInv, EachInv, FlushInv

LEMMA EachReadKeepsInv ==
    ASSUME Inv, EachRead
    PROVE  Inv'
  <1>1. /\ op = "each" /\ got' = <<buffer[outPos]>>
        /\ UNCHANGED <<producerVars, outPos, op, want, stop, handed>>
    BY DEF EachRead
  <1>2. buffer[outPos] \in Value
    BY DEF Inv, TypeOK
  <1>3. Len(got') = 1 /\ got'[1] = buffer[outPos] /\ got' \in Seq(Value)
    BY <1>1, <1>2
  <1>4. TypeOK'
    BY <1>1, <1>3 DEF Inv, TypeOK, producerVars
  <1>5. ProducerInv' /\ Available' = Available
    BY <1>1, ReadingKeepsProducer DEF Inv
  <1>6. EachInv'
    BY <1>1, <1>3, <1>5 DEF Inv, EachInv, producerVars, Ahead
  <1> QED BY <1>1, <1>4, <1>5, <1>6 DEF Inv, PopInv, FlushInv

LEMMA EachReleaseKeepsInv ==
    ASSUME Inv, EachRelease
    PROVE  Inv'
  <1>1. /\ op = "each" /\ outPos' = Wrap(outPos + 1) /\ handed' = got /\ got' = <<>>
        /\ op' = IF Drained(Wrap(outPos + 1)) THEN "idle" ELSE "each"
        /\ UNCHANGED <<producerVars, want, stop>>
    BY DEF EachRelease
  <1>2. Available \in 0..BufSize - 1 /\ BufSize \in Nat
    BY PositionsInRange, QueueAssumption DEF Inv
  <1>3. Ahead(outPos, stop) \in 1..Available
    BY <1>1 DEF Inv, EachInv
  <1>4. 1 \in 0..Available
    BY <1>2, <1>3
  <1>5. outPos' \in Pos /\ ProducerInv' /\ Available' = Available - 1
    BY <1>1, <1>4, ReleaseShrinks
  <1>6. TypeOK'
    BY <1>1, <1>5 DEF Inv, TypeOK, producerVars
  <1>7. op' = "each" => Ahead(outPos', stop') = Ahead(outPos, stop) - 1
    BY <1>1, <1>2, <1>3, SMT DEF Drained, Ahead, Corrected, Wrap, Inv, TypeOK, Pos
  <1>8. op' = "each" => Ahead(outPos', stop') # 0
    BY <1>1, <1>2, <1>5, SMT DEF Drained, Ahead, Corrected, Inv, TypeOK, Pos
  <1>9. EachInv'
    BY <1>1, <1>2, <1>3, <1>5, <1>7, <1>8 DEF EachInv
  <1> QED BY <1>1, <1>5, <1>6, <1>9 DEF Inv, PopInv, FlushInv

LEMMA FlushReleaseKeepsInv ==
    ASSUME Inv, FlushRelease
    PROVE  Inv'
  <1>1. /\ op = "flush" /\ op' = "idle" /\ outPos' = stop
        /\ UNCHANGED <<producerVars, want, got, stop, handed>>
    BY DEF FlushRelease
  <1>2. Ahead(outPos, stop) \in 0..Available
    BY <1>1 DEF Inv, FlushInv
  <1>3. stop = Wrap(outPos + Ahead(outPos, stop))
    BY QueueAssumption, SMT DEF Ahead, Corrected, Wrap, Inv, TypeOK, Pos
  <1>4. outPos' \in Pos /\ ProducerInv'
    BY <1>1, <1>2, <1>3, ReleaseShrinks
  <1>5. TypeOK'
    BY <1>1, <1>4 DEF Inv, TypeOK, producerVars
  <1> QED BY <1>1, <1>4, <1>5 DEF Inv, PopInv, EachInv, FlushInv

LEMMA InvStep == Inv /\ [Next]_vars => Inv'
  <1> SUFFICES ASSUME Inv, [Next]_vars  PROVE Inv'
    OBVIOUS
  <1>1. CASE Producer
    BY <1>1, PushKeepsInv, PushNKeepsInv, StoreKeepsInv, PublishKeepsInv DEF Producer
  <1>2. CASE Consumer
    BY <1>2, BeginningKeepsInv, PopReadKeepsInv, PopReleaseKeepsInv, EachReadKeepsInv,
       EachReleaseKeepsInv, FlushReleaseKeepsInv DEF Consumer, ConsumerGoesOn
  <1>3. CASE UNCHANGED vars
    BY <1>3 DEF vars, producerVars, consumerVars, Inv, TypeOK, ProducerInv, PopInv, EachInv,
                FlushInv, Available, AvailableForPush, Ahead
  <1> QED BY <1>1, <1>2, <1>3 DEF Next

LEMMA InvAlways == Spec => []Inv
  BY InvInit, InvStep, PTL DEF Spec

-----------------------------------------------------------------------------
(* Every reachable state of the ring buffer is well typed                  *)
(* (circular_queue.h:55-120).                                              *)
THEOREM QueueTypeCorrect == Spec => []TypeOK
  BY InvAlways, PTL DEF Inv

(* push_n always takes all it is given or all there is room for            *)
(* (circular_queue.h:282-305).                                             *)
THEOREM RoomIsAlwaysUsed == Spec => []PushTakesAll
  BY InvAlways, RoomIsUsed, PTL DEF Inv

-----------------------------------------------------------------------------
(* Every step is one of the bounded queue's, or stutters                   *)

LEMMA ContentsIsSeq ==
    ASSUME Inv
    PROVE  /\ Contents \in Seq(Value)
           /\ Len(Contents) = Available
           /\ \A i \in 1..Available : Contents[i] = buffer[Wrap(outPos + i - 1)]
  <1>1. Available \in Nat /\ Available <= BufSize - 1 /\ BufSize \in Nat
    BY PositionsInRange, QueueAssumption DEF Inv
  <1>2. \A i \in 1..Available : buffer[Wrap(outPos + i - 1)] \in Value
    <2>1. TAKE i \in 1..Available
    <2>2. Wrap(outPos + (i - 1)) \in Pos
      BY <1>1, WrapInRange DEF Inv, TypeOK
    <2>3. outPos + (i - 1) = outPos + i - 1
      BY DEF Inv, TypeOK, Pos
    <2> QED BY <2>2, <2>3 DEF Inv, TypeOK
  <1>3. Contents \in [1..Available -> Value]
    BY <1>2 DEF Contents
  <1> QED BY <1>1, <1>3 DEF Contents

LEMMA ContentsAlwaysSeq == Inv => Contents \in Seq(Value) /\ Len(Contents) = Available
  BY ContentsIsSeq

LEMMA InitIsInit == Init => Fifo!Init
  <1> SUFFICES ASSUME Init  PROVE Fifo!Init
    OBVIOUS
  <1>1. Inv
    BY InvInit
  <1>2. Available = 0
    BY QueueAssumption DEF Init, Available, Corrected
  <1>3. Contents \in Seq(Value) /\ Len(Contents) = 0
    BY <1>1, <1>2, ContentsIsSeq
  <1>4. Contents = <<>>
    BY <1>3, EmptySeq
  <1> QED BY <1>4 DEF Init, Fifo!Init

(* A step that leaves the queue and what was handed out alone. *)
LEMMA SameContents ==
    ASSUME Inv, Inv', Available' = Available, UNCHANGED <<outPos, handed>>,
           \A i \in 1..Available :
               buffer'[Wrap(outPos + i - 1)] = buffer[Wrap(outPos + i - 1)]
    PROVE  UNCHANGED <<Contents, handed>>
  BY DEF Contents

LEMMA StutterSteps ==
    ASSUME Inv, Inv',
           \/ \E value \in Value : Push(value)
           \/ \E values \in Batches : PushN(values)
           \/ Store
           \/ \E n \in 1..BufSize : PopN(n)
           \/ ForEach \/ Flush \/ PopRead \/ EachRead
    PROVE  UNCHANGED <<Contents, handed>>
  <1>1. UNCHANGED <<inPos, outPos, handed>>
    BY DEF Push, PushN, Store, PopN, ForEach, Flush, PopRead, EachRead,
           producerVars, consumerVars
  <1>2. Available' = Available
    BY <1>1 DEF Available
  <1>3. \A i \in 1..Available :
            buffer'[Wrap(outPos + i - 1)] = buffer[Wrap(outPos + i - 1)]
    <2>1. CASE Store
      BY <2>1, StoreLeavesQueue
    <2>2. CASE ~Store
      <3>1. UNCHANGED buffer
        BY <2>2 DEF Push, PushN, PopN, ForEach, Flush, PopRead, EachRead,
                    producerVars, consumerVars
      <3> QED BY <3>1
    <2> QED BY <2>1, <2>2
  <1> QED BY <1>1, <1>2, <1>3, SameContents

(* The slots behind m_inPos become the end of the queue. *)
LEMMA PublishIsPut ==
    ASSUME Inv, Publish
    PROVE  Fifo!Next
  <1> DEFINE n == Len(pushing)
  <1>1. /\ pushing # <<>> /\ written = n
        /\ UNCHANGED <<buffer, outPos, handed>>
    BY DEF Publish, consumerVars
  <1>2. Inv' /\ Available' = Available + n
    BY PublishKeepsInv
  <1>3. /\ pushing \in Seq(Value) /\ n \in Nat \ {0} /\ n <= AvailableForPush
        /\ \A i \in 1..n : buffer[Wrap(inPos + i - 1)] = pushing[i]
    BY <1>1, EmptySeq DEF Inv, TypeOK, ProducerInv
  <1>4. /\ Available \in Nat /\ AvailableForPush \in Nat /\ BufSize \in Nat
        /\ Available + AvailableForPush = BufSize - 1
    BY PositionsInRange, QueueAssumption DEF Inv
  <1>5. /\ Contents \in Seq(Value) /\ Len(Contents) = Available
        /\ \A i \in 1..Available : Contents[i] = buffer[Wrap(outPos + i - 1)]
    BY ContentsIsSeq
  <1>6. /\ Contents' \in Seq(Value) /\ Len(Contents') = Available + n
        /\ \A i \in 1..Available + n : Contents'[i] = buffer[Wrap(outPos + i - 1)]
    <2>1. (Contents \in Seq(Value) /\ Len(Contents) = Available)'
      BY <1>2, ContentsAlwaysSeq, PTL
    <2>2. Contents' = [i \in 1..Available + n |-> buffer[Wrap(outPos + i - 1)]]
      BY <1>1, <1>2 DEF Contents
    <2> QED BY <1>2, <2>1, <2>2
  <1>7. \A i \in 1..n : Wrap(outPos + (Available + i) - 1) = Wrap(inPos + i - 1)
    BY <1>3, <1>4, QueueAssumption, SMT
       DEF Inv, TypeOK, Available, AvailableForPush, Corrected, Wrap, Pos
  <1>8. /\ Contents \o pushing \in Seq(Value)
        /\ Len(Contents \o pushing) = Available + n
        /\ \A i \in 1..Available + n : (Contents \o pushing)[i] =
               IF i <= Available THEN Contents[i] ELSE pushing[i - Available]
    BY <1>3, <1>5, ConcatProperties
  <1>9. ASSUME NEW i \in 1..Available + n
        PROVE  Contents'[i] = (Contents \o pushing)[i]
    <2>1. CASE i <= Available
      <3>1. i \in 1..Available
        BY <1>4, <2>1
      <3> QED BY <1>5, <1>6, <1>8, <2>1, <3>1
    <2>2. CASE ~(i <= Available)
      <3>1. i - Available \in 1..n /\ Available + (i - Available) = i
        BY <1>3, <1>4, <2>2
      <3>2. Wrap(outPos + i - 1) = Wrap(inPos + (i - Available) - 1)
        BY <1>7, <3>1
      <3> QED BY <1>3, <1>6, <1>8, <2>2, <3>1, <3>2
    <2> QED BY <2>1, <2>2
  <1>10. Contents' = Contents \o pushing
    BY <1>6, <1>8, <1>9, SeqEqual
  <1>11. n \in 1..BufSize - 1 /\ pushing \in [1..n -> Value]
         /\ Len(Contents) + n <= BufSize - 1
    BY <1>3, <1>4, <1>5
  <1> QED BY <1>1, <1>10, <1>11 DEF Fifo!Next, Fifo!Put

(* The first n slots leave the queue. *)
LEMMA ReleaseIsRest ==
    ASSUME Inv, Inv', NEW n \in 0..Available, outPos' = Wrap(outPos + n),
           UNCHANGED producerVars
    PROVE  Contents' = Fifo!Rest(n) /\ n \in 0..Len(Contents)
  <1>1. /\ Available' = Available - n
        /\ \A i \in 1..Available - n :
               Wrap(outPos' + i - 1) = Wrap(outPos + (i + n) - 1)
    BY ReleaseShrinks
  <1>2. /\ Len(Contents) = Available
        /\ \A i \in 1..Available : Contents[i] = buffer[Wrap(outPos + i - 1)]
    BY ContentsIsSeq
  <1>3. Available \in Nat
    BY PositionsInRange, QueueAssumption DEF Inv
  <1>4. \A i \in 1..Available - n : i + n \in 1..Available
    BY <1>3
  <1>5. Contents' = [i \in 1..Available - n |-> buffer[Wrap(outPos' + i - 1)]]
    BY <1>1 DEF Contents, producerVars
  <1>6. Fifo!Rest(n) = [i \in 1..Available - n |-> Contents[i + n]]
    BY <1>2 DEF Fifo!Rest
  <1>7. \A i \in 1..Available - n : Contents[i + n] = buffer[Wrap(outPos' + i - 1)]
    BY <1>1, <1>2, <1>4
  <1> QED BY <1>2, <1>5, <1>6, <1>7

LEMMA PopReleaseIsTake ==
    ASSUME Inv, Inv', PopRelease
    PROVE  Fifo!Next
  <1>1. /\ op = "pop" /\ Len(got) = want /\ outPos' = Wrap(outPos + want) /\ handed' = got
        /\ UNCHANGED producerVars
    BY DEF PopRelease
  <1>2. /\ want \in 1..Available
        /\ \A i \in 1..want : got[i] = buffer[Wrap(outPos + i - 1)]
        /\ got \in Seq(Value)
    BY <1>1 DEF Inv, PopInv, TypeOK
  <1>3. Available \in Nat
    BY PositionsInRange, QueueAssumption DEF Inv
  <1>4. want \in 0..Available
    BY <1>2, <1>3
  <1>5. Contents' = Fifo!Rest(want) /\ want \in 0..Len(Contents)
    BY <1>1, <1>4, ReleaseIsRest
  <1>6. \A i \in 1..want : got[i] = Contents[i]
    BY <1>2, <1>3, ContentsIsSeq
  <1>7. got = [i \in 1..want |-> Contents[i]]
    BY <1>1, <1>2, <1>6
  <1>8. Fifo!Take(want)
    BY <1>1, <1>5, <1>7 DEF Fifo!Take
  <1> QED BY <1>5, <1>8 DEF Fifo!Next

LEMMA EachReleaseIsTake ==
    ASSUME Inv, Inv', EachRelease
    PROVE  Fifo!Next
  <1>1. /\ op = "each" /\ got # <<>> /\ outPos' = Wrap(outPos + 1) /\ handed' = got
        /\ UNCHANGED producerVars
    BY DEF EachRelease
  <1>2. /\ Ahead(outPos, stop) \in 1..Available
        /\ Len(got) = 1 /\ got[1] = buffer[outPos] /\ got \in Seq(Value)
    BY <1>1 DEF Inv, EachInv, TypeOK
  <1>3. Available \in Nat
    BY PositionsInRange, QueueAssumption DEF Inv
  <1>4. 1 \in 0..Available /\ 1 \in 1..Available
    BY <1>2, <1>3
  <1>5. Contents' = Fifo!Rest(1) /\ 1 \in 0..Len(Contents)
    BY <1>1, <1>4, ReleaseIsRest
  <1>6. Wrap(outPos + 1 - 1) = outPos
    BY QueueAssumption DEF Inv, TypeOK, Wrap, Pos
  <1>7. Contents[1] = got[1]
    BY <1>2, <1>4, <1>6, ContentsIsSeq
  <1>8. got = [i \in 1..1 |-> Contents[i]]
    BY <1>2, <1>7
  <1>9. Fifo!Take(1)
    BY <1>1, <1>5, <1>8 DEF Fifo!Take
  <1> QED BY <1>5, <1>9 DEF Fifo!Next

LEMMA FlushReleaseIsDiscard ==
    ASSUME Inv, Inv', FlushRelease
    PROVE  Fifo!Next
  <1>1. op = "flush" /\ outPos' = stop /\ UNCHANGED producerVars /\ UNCHANGED handed
    BY DEF FlushRelease
  <1>2. Ahead(outPos, stop) \in 0..Available
    BY <1>1 DEF Inv, FlushInv
  <1>3. stop = Wrap(outPos + Ahead(outPos, stop))
    BY QueueAssumption, SMT DEF Ahead, Corrected, Wrap, Inv, TypeOK, Pos
  <1>4. /\ Contents' = Fifo!Rest(Ahead(outPos, stop))
        /\ Ahead(outPos, stop) \in 0..Len(Contents)
    BY <1>1, <1>2, <1>3, ReleaseIsRest
  <1> QED BY <1>1, <1>4 DEF Fifo!Next, Fifo!Discard

LEMMA StepIsStep == Inv /\ Inv' /\ [Next]_vars => [Fifo!Next]_<<Contents, handed>>
  <1> SUFFICES ASSUME Inv, Inv', [Next]_vars  PROVE [Fifo!Next]_<<Contents, handed>>
    OBVIOUS
  <1>1. CASE Producer
    BY <1>1, StutterSteps, PublishIsPut DEF Producer
  <1>2. CASE Consumer
    BY <1>2, StutterSteps, PopReleaseIsTake, EachReleaseIsTake, FlushReleaseIsDiscard
       DEF Consumer, ConsumerGoesOn
  <1>3. CASE UNCHANGED vars
    BY <1>3 DEF vars, producerVars, consumerVars, Contents, Available
  <1> QED BY <1>1, <1>2, <1>3 DEF Next

(* The lock-free ring buffer implements the bounded queue                  *)
(* (circular_queue.h:175-364).                                             *)
THEOREM RingIsFifo == Spec => FirstInFirstOut
  <1>1. Inv /\ [Next]_vars => Inv'
    BY InvStep
  <1>2. Inv /\ Inv' /\ [Next]_vars => [Fifo!Next]_<<Contents, handed>>
    BY StepIsStep
  <1> QED BY InitIsInit, InvInit, <1>1, <1>2, PTL DEF Spec, FirstInFirstOut, Fifo!Spec
=============================================================================
