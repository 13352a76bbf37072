-------------------------- MODULE CO2Sensor_proofs --------------------------
(***************************************************************************)
(* How much node 1's reader can leave in its serial buffer: for every      *)
(* combination of faults never more than a response, and never less than it*)
(* had left before, unless the response lacks something.                   *)
(***************************************************************************)
EXTENDS CO2Sensor, TLAPS

(* A response, whole or with a byte missing, is a sequence of places. *)
LEMMA ResponseShape ==
    /\ Response \in Seq(Place) /\ Len(Response) = 9
    /\ \A p \in Place : Without(p) \in Seq(Place) /\ Len(Without(p)) = 8
  <1>1. Response \in [1..9 -> Place]
    BY DEF Response, Place
  <1>2. ASSUME NEW p \in Place PROVE Without(p) \in [1..8 -> Place]
    BY DEF Without, Place
  <1> QED
    BY <1>1, <1>2 DEF Response, Without

(* What the reader does to the lengths. *)
LEMMA TailLength ==
    ASSUME NEW s \in Seq(Place), s # <<>>
    PROVE  Tail(s) \in Seq(Place) /\ Len(Tail(s)) = Len(s) - 1 /\ Head(s) \in Place
  OBVIOUS

(* What a reading may leave, with how far it has come. *)
BacklogInv ==
    /\ CO2TypeOK
    /\ Len(line) <= 9
    /\ pc = "rest" => Backlog <= 9
    /\ pc = "wait" => Backlog <= 18 /\ i = 0
    /\ pc = "read" => Backlog + i <= 18

THEOREM BacklogInvInit == Init => BacklogInv
  BY DEF Init, BacklogInv, CO2TypeOK, Backlog, Place

LEMMA RequestKeeps == BacklogInv /\ Request => BacklogInv'
  <1> SUFFICES ASSUME BacklogInv, Request PROVE BacklogInv'
    OBVIOUS
  <1>1. line' \in Seq(Place) /\ Len(line') <= 9
    <2>1. CASE line' = Response
      BY <2>1, ResponseShape
    <2>2. CASE line' = <<>>
      BY <2>2
    <2>3. CASE \E p \in Place : line' = Without(p)
      <3>1. PICK p \in Place : line' = Without(p)
        BY <2>3
      <3>2. Without(p) \in Seq(Place) /\ Len(Without(p)) = 8
        BY ResponseShape
      <3> QED
        BY <3>1, <3>2
    <2> QED
      BY <2>1, <2>2, <2>3 DEF Request
  <1>2. Len(rx) <= 9 /\ Len(rx) \in Nat
    BY DEF Request, BacklogInv, CO2TypeOK, Backlog
  <1> QED
    BY <1>1, <1>2 DEF Request, BacklogInv, CO2TypeOK, Backlog, Place

LEMMA ArriveKeeps == BacklogInv /\ Arrive => BacklogInv'
  <1> SUFFICES ASSUME BacklogInv, Arrive PROVE BacklogInv'
    OBVIOUS
  <1>1. /\ line' \in Seq(Place) /\ Len(line') = Len(line) - 1
        /\ rx' \in Seq(Place) /\ Len(rx') = Len(rx) + 1
    BY TailLength DEF Arrive, BacklogInv, CO2TypeOK
  <1>2. Backlog' = Backlog
    BY <1>1 DEF Backlog, BacklogInv, CO2TypeOK
  <1> QED
    BY <1>1, <1>2 DEF Arrive, BacklogInv, CO2TypeOK

(* An iteration that takes a byte lowers the backlog by one. *)
LEMMA IterationTakes ==
    ASSUME BacklogInv, NEW assigned \in SUBSET {"hi", "lo"}, Iteration(assigned)
    PROVE  /\ rx' \in Seq(Place) /\ Backlog' = Backlog - 1
           /\ Backlog \in Nat /\ kept' \subseteq {"hi", "lo"}
  <1>1. rx' \in Seq(Place) /\ Len(rx') = Len(rx) - 1
    BY TailLength DEF Iteration, BacklogInv, CO2TypeOK
  <1>2. kept' \subseteq {"hi", "lo"}
    BY DEF Iteration, BacklogInv, CO2TypeOK
  <1> QED
    BY <1>1, <1>2 DEF Iteration, Backlog, BacklogInv, CO2TypeOK

LEMMA ReadingKeeps ==
    BacklogInv /\ (ReadHigh \/ ReadLow \/ ReadPast \/ ReadLast) => BacklogInv'
  <1> SUFFICES ASSUME BacklogInv, ReadHigh \/ ReadLow \/ ReadPast \/ ReadLast
               PROVE  BacklogInv'
    OBVIOUS
  <1>1. PICK assigned \in SUBSET {"hi", "lo"} : Iteration(assigned)
    BY DEF ReadHigh, ReadLow, ReadPast, ReadLast
  <1>2. /\ rx' \in Seq(Place) /\ Backlog' = Backlog - 1
        /\ Backlog \in Nat /\ kept' \subseteq {"hi", "lo"}
    BY <1>1, IterationTakes
  <1>3. CASE ReadLast
    BY <1>1, <1>2, <1>3 DEF ReadLast, LastIndex, Iteration, BacklogInv, CO2TypeOK, Place
  <1>4. CASE ReadHigh \/ ReadLow \/ ReadPast
    BY <1>1, <1>2, <1>4
       DEF ReadHigh, ReadLow, ReadPast, LastIndex, Iteration, BacklogInv, CO2TypeOK, Place
  <1> QED
    BY <1>3, <1>4

LEMMA ReadNothingKeeps == BacklogInv /\ ReadNothing => BacklogInv'
  BY DEF ReadNothing, BacklogInv, CO2TypeOK, Backlog, Place

THEOREM BacklogInvStep == BacklogInv /\ [Next]_vars => BacklogInv'
  <1> SUFFICES ASSUME BacklogInv, [Next]_vars PROVE BacklogInv'
    OBVIOUS
  <1>1. CASE WaitIsOver
    BY <1>1 DEF WaitIsOver, BacklogInv, CO2TypeOK, Backlog
  <1>2. CASE UNCHANGED vars
    BY <1>2 DEF vars, BacklogInv, CO2TypeOK, Backlog
  <1> QED
    BY <1>1, <1>2, RequestKeeps, ArriveKeeps, ReadingKeeps, ReadNothingKeeps DEF Next

(* Between two readings node 1 is never more than one response behind, and *)
(* its serial buffer never holds more than two (NODE1 main.cpp:104-130).   *)
THEOREM BacklogIsBounded == Spec => []BacklogBounded
  <1>1. BacklogInv => BacklogBounded
    BY DEF BacklogInv, BacklogBounded, CO2TypeOK, Backlog, Place
  <1> QED
    BY <1>1, BacklogInvInit, BacklogInvStep, PTL DEF Spec

(* The reader's variables keep their types, under any faults.              *)
THEOREM CO2TypeCorrect == Spec => []CO2TypeOK
  <1>1. BacklogInv => CO2TypeOK
    BY DEF BacklogInv
  <1> QED
    BY <1>1, BacklogInvInit, BacklogInvStep, PTL DEF Spec

-----------------------------------------------------------------------------
(* What the last request found is still there, or was replaced one for one.*)
BehindInv ==
    /\ pc = "rest" => Backlog >= behind
    /\ pc \in {"wait", "read"} => Backlog + i = behind + 9

LEMMA BehindStep ==
    ASSUME BacklogInv, BehindInv, [Next]_vars
    PROVE  BehindInv'
  <1> USE DEF BehindInv
  <1>1. CASE Request
    <2>1. Len(line') \in Nat /\ Len(rx) \in Nat
      BY <1>1, RequestKeeps DEF BacklogInv, CO2TypeOK
    <2>2. Backlog' = Len(rx) + Len(line')
      BY <1>1 DEF Request, Backlog
    <2> QED
      BY <1>1, <2>1, <2>2 DEF Request
  <1>2. CASE WaitIsOver
    BY <1>2 DEF WaitIsOver, BacklogInv, Backlog
  <1>3. CASE Arrive
    <2>1. Len(line') = Len(line) - 1 /\ Len(rx') = Len(rx) + 1
      BY <1>3, TailLength DEF Arrive, BacklogInv, CO2TypeOK
    <2>2. Backlog' = Backlog
      BY <2>1 DEF Backlog, BacklogInv, CO2TypeOK
    <2> QED
      BY <1>3, <2>2 DEF Arrive
  <1>4. CASE ReadHigh \/ ReadLow \/ ReadPast \/ ReadLast
    <2>1. PICK assigned \in SUBSET {"hi", "lo"} : Iteration(assigned)
      BY <1>4 DEF ReadHigh, ReadLow, ReadPast, ReadLast
    <2>2. Backlog' = Backlog - 1 /\ Backlog \in Nat
      BY <2>1, IterationTakes
    <2>3. pc = "read" /\ UNCHANGED behind /\ behind \in Int /\ i \in Nat
      BY <2>1 DEF Iteration, BacklogInv, CO2TypeOK, Place
    <2>4. CASE ReadLast
      BY <2>2, <2>3, <2>4 DEF ReadLast, LastIndex
    <2>5. CASE ReadHigh \/ ReadLow \/ ReadPast
      BY <2>2, <2>3, <2>5 DEF ReadHigh, ReadLow, ReadPast
    <2> QED
      BY <1>4, <2>4, <2>5
  <1>5. CASE ReadNothing
    BY <1>5 DEF ReadNothing, Backlog, BacklogInv, CO2TypeOK, Place
  <1>6. CASE UNCHANGED vars
    BY <1>6 DEF vars, Backlog
  <1> QED
    BY <1>1, <1>2, <1>3, <1>4, <1>5, <1>6 DEF Next

(* A late response is never made up for by more than a later response      *)
(* lacks (NODE1 main.cpp:101-130).                                         *)
THEOREM LatenessStays == Spec => []NeverCatchesUp
  <1>1. Init => BacklogInv /\ BehindInv
    BY BacklogInvInit DEF Init, BehindInv, Backlog
  <1>2. BacklogInv /\ BehindInv /\ [Next]_vars => (BacklogInv /\ BehindInv)'
    BY BacklogInvStep, BehindStep
  <1>3. BacklogInv /\ BehindInv => NeverCatchesUp
    BY DEF BehindInv, NeverCatchesUp
  <1> QED
    BY <1>1, <1>2, <1>3, PTL DEF Spec
=============================================================================
