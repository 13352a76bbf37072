--------------------------- MODULE CircularQueue ---------------------------
(***************************************************************************)
(* The lock-free ring buffer between the serial library's receive          *)
(* interrupt and the program (circular_queue.h): one producer and one      *)
(* consumer, which share the buffer and two positions and interleave at    *)
(* every load and store of them.                                           *)
(***************************************************************************)
EXTENDS Integers, Sequences

CONSTANTS
    Value,
    BufSize,  \* m_bufSize, one more than the capacity
    MaxPush   \* bound: how many values one push_n is given

ASSUME QueueAssumption ==
    /\ BufSize \in Nat \ {0}
    /\ MaxPush \in Nat \ {0}

VARIABLES
    buffer, inPos, outPos,  \* m_buffer, m_inPos, m_outPos
    pushing,  \* the values the producer is storing, none when it is idle
    written,  \* how many of them it has stored
    block,    \* how many of them go before the end of the buffer
    next,     \* where m_inPos will be
    op,       \* what the consumer does
    want,     \* how many values it will take
    got,      \* those it has read
    stop,     \* the m_inPos it has loaded
    handed    \* history: what it got by its last store of m_outPos

producerVars == <<buffer, inPos, pushing, written, block, next>>
consumerVars == <<outPos, op, want, got, stop, handed>>
vars         == <<producerVars, consumerVars>>

Pos == 0..BufSize - 1

(* p % m_bufSize, for a position that has gone around at most once.        *)
WrapLate(p) == IF p > BufSize THEN p - BufSize ELSE p  \* slip: > for >=
Wrap(p) == IF p >= BufSize THEN p - BufSize ELSE p

Lesser(a, b) == IF a <= b THEN a ELSE b

(* A difference of positions is made signed and corrected by m_bufSize.    *)
Corrected(d)     == IF d < 0 THEN d + BufSize ELSE d
Available        == Corrected(inPos - outPos)
AvailableForPush == Corrected(outPos - inPos - 1)

Batches == UNION {[1..n -> Value] : n \in 1..MaxPush}

TypeOK ==
    /\ buffer \in [Pos -> Value]
    /\ inPos \in Pos /\ outPos \in Pos /\ next \in Pos /\ stop \in Pos
    /\ pushing \in Seq(Value)
    /\ got \in Seq(Value)
    /\ handed \in Seq(Value)
    /\ written \in Nat /\ block \in Nat /\ want \in Nat
    /\ op \in {"idle", "pop", "each", "flush"}

Init ==
    /\ buffer \in [Pos -> Value]
    /\ inPos = 0 /\ outPos = 0
    /\ pushing = <<>> /\ written = 0 /\ block = 0 /\ next = 0
    /\ op = "idle" /\ want = 0 /\ got = <<>> /\ stop = 0
    /\ handed = <<>>

-----------------------------------------------------------------------------
(* The producer                                                            *)

NotFullLate(p) == TRUE  \* slip: the position left free not kept free
NotFull(p) == p # outPos

Push(value) ==
    /\ pushing = <<>>
    /\ NotFull(Wrap(inPos + 1))
    /\ pushing' = <<value>>
    /\ written' = 0
    /\ block' = 1
    /\ next' = Wrap(inPos + 1)
    /\ UNCHANGED <<buffer, inPos, consumerVars>>

(* The room up to the end of the buffer or up to the consumer.             *)
FirstBlockFull(n) ==  \* slip: up to the end, where the consumer stands at 0
    Lesser(n, IF outPos > inPos THEN outPos - 1 - inPos ELSE BufSize - inPos)
FirstBlock(n) ==
    Lesser(n, IF outPos > inPos THEN outPos - 1 - inPos
              ELSE IF outPos = 0 THEN BufSize - 1 - inPos
              ELSE BufSize - inPos)

(* What is left over goes to the start of the buffer.  If nothing is left  *)
(* over, the room computed for it does not matter: it may have wrapped.    *)
SecondBlockTight(n) == 0  \* slip: nothing stored beyond the end
SecondBlock(n) ==
    LET first == FirstBlock(n)
        room  == IF outPos > 1 THEN outPos - Wrap(inPos + first) - 1 ELSE 0
    IN  IF n = first THEN 0 ELSE Lesser(n - first, room)

PushN(values) ==
    LET n     == Len(values)
        first == FirstBlock(n)
        rest  == SecondBlock(n)
    IN  /\ pushing = <<>>
        /\ first > 0
        /\ pushing' = SubSeq(values, 1, first + rest)
        /\ written' = 0
        /\ block' = first
        /\ next' = Wrap(inPos + first) + rest
        /\ UNCHANGED <<buffer, inPos, consumerVars>>

Store ==
    /\ written < Len(pushing)
    /\ buffer' = [buffer EXCEPT ![IF written < block THEN inPos + written
                                  ELSE written - block] = pushing[written + 1]]
    /\ written' = written + 1
    /\ UNCHANGED <<inPos, pushing, block, next, consumerVars>>

Publish ==
    /\ pushing # <<>>
    /\ written = Len(pushing)
    /\ inPos' = next
    /\ pushing' = <<>>
    /\ UNCHANGED <<buffer, written, block, next, consumerVars>>

-----------------------------------------------------------------------------
(* The consumer                                                            *)

(* pop is pop_n of one value. *)
PopN(n) ==
    /\ op = "idle"
    /\ Lesser(n, Available) > 0
    /\ op' = "pop"
    /\ want' = Lesser(n, Available)
    /\ got' = <<>>
    /\ UNCHANGED <<outPos, stop, handed, producerVars>>

PopRead ==
    LET first == Lesser(want, BufSize - outPos)
        k     == Len(got)
    IN  /\ op = "pop"
        /\ k < want
        /\ got' = Append(got, buffer[IF k < first THEN outPos + k ELSE k - first])
        /\ UNCHANGED <<outPos, op, want, stop, handed, producerVars>>

PopRelease ==
    /\ op = "pop"
    /\ Len(got) = want
    /\ outPos' = Wrap(outPos + want)
    /\ handed' = got
    /\ op' = "idle"
    /\ UNCHANGED <<want, got, stop, producerVars>>

ForEach ==
    /\ op = "idle"
    /\ outPos # inPos
    /\ op' = "each"
    /\ stop' = inPos
    /\ got' = <<>>
    /\ UNCHANGED <<outPos, want, handed, producerVars>>

EachRead ==
    /\ op = "each"
    /\ got = <<>>
    /\ got' = <<buffer[outPos]>>
    /\ UNCHANGED <<outPos, op, want, stop, handed, producerVars>>

DrainedNow(p) == p = inPos  \* slip: m_inPos loaded again every time
Drained(p) == p = stop

EachRelease ==
    /\ op = "each"
    /\ got # <<>>
    /\ outPos' = Wrap(outPos + 1)
    /\ handed' = got
    /\ got' = <<>>
    /\ op' = IF Drained(Wrap(outPos + 1)) THEN "idle" ELSE "each"
    /\ UNCHANGED <<want, stop, producerVars>>

Flush ==
    /\ op = "idle"
    /\ op' = "flush"
    /\ stop' = inPos
    /\ UNCHANGED <<outPos, want, got, handed, producerVars>>

FlushRelease ==
    /\ op = "flush"
    /\ outPos' = stop
    /\ op' = "idle"
    /\ UNCHANGED <<want, got, stop, handed, producerVars>>

-----------------------------------------------------------------------------
Producer ==
    \/ \E value \in Value : Push(value)
    \/ \E values \in Batches : PushN(values)
    \/ Store
    \/ Publish

ConsumerGoesOn ==
    PopRead \/ PopRelease \/ EachRead \/ EachRelease \/ FlushRelease

Consumer ==
    \/ \E n \in 1..BufSize : PopN(n)
    \/ ForEach
    \/ Flush
    \/ ConsumerGoesOn

Next == Producer \/ Consumer

Spec == Init /\ [][Next]_vars

FairSpec == Spec /\ WF_vars(ConsumerGoesOn)

-----------------------------------------------------------------------------
(* The ring buffer is a bounded queue: nothing is lost, repeated, torn or  *)
(* reordered, and no slot is overwritten while it is read, whatever the    *)
(* two sides interleave (circular_queue.h:175-364).                        *)
Contents ==
    [i \in 1..Available |-> buffer[Wrap(outPos + i - 1)]]

Fifo == INSTANCE BoundedFifo
    WITH queue <- Contents, Capacity <- BufSize - 1

FirstInFirstOut == Fifo!Spec

(* push_n takes all it is given or all there is room for, which is what    *)
(* available_for_push told its caller (circular_queue.h:121-126, 282-305). *)
PushTakesAll ==
    \A n \in 0..BufSize :
        FirstBlock(n) + SecondBlock(n) = Lesser(n, AvailableForPush)

(* for_each ends, however fast the producer goes on                        *)
(* (circular_queue.h:347-364).                                             *)
DrainEnds == op = "each" ~> op = "idle"
=============================================================================
