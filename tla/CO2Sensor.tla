----------------------------- MODULE CO2Sensor -----------------------------
(***************************************************************************)
(* Node 1's reading of its CO2 sensor over a serial line: Data_CO2.        *)
(*                                                                         *)
(* The sensor answers a request with a response of nine bytes.  The reader *)
(* waits half a second and then takes nine bytes from the receive buffer,  *)
(* or gives up where it finds the buffer empty.  It neither clears the     *)
(* buffer nor looks for the start of a response.  A byte is modelled by    *)
(* its place in its response; places 2 and 3 are the measurement.          *)
(***************************************************************************)
EXTENDS Integers, Sequences

CONSTANT Faults  \* subset of {"late", "silent", "loses"}

ASSUME FaultsAssumption == Faults \subseteq {"late", "silent", "loses"}

VARIABLES
    pc,       \* where the reader is
    i,        \* its loop counter
    rx,       \* the bytes received and not read
    line,     \* the bytes still to be received
    kept,     \* which of hi and lo hold what this reading put there
    result,   \* what it returned last
    behind    \* history: what the last request found left over, less what its
              \* response lacks

vars == <<pc, i, rx, line, kept, result, behind>>

Place      == 0..8
Response   == [n \in 1..9 |-> n - 1]
Without(p) == [n \in 1..8 |-> IF n <= p THEN n - 1 ELSE n]  \* place p lost
Backlog    == Len(rx) + Len(line)

CO2TypeOK ==
    /\ pc \in {"rest", "wait", "read"}
    /\ i \in Place
    /\ rx \in Seq(Place)
    /\ line \in Seq(Place)
    /\ kept \subseteq {"hi", "lo"}
    /\ result \in {"none", "error", "value"}
    /\ behind \in Int

Init ==
    /\ pc = "rest"
    /\ i = 0
    /\ rx = <<>>
    /\ line = <<>>
    /\ kept = {}
    /\ result = "none"
    /\ behind = 0

-----------------------------------------------------------------------------
(* The next request comes a sampling interval, seven seconds, after the    *)
(* last; by then nothing of a response is outstanding.  A response may be  *)
(* missing, or one byte of it.                                             *)
Request ==
    /\ pc = "rest"
    /\ line = <<>>
    /\ \/ line' = Response
       \/ "silent" \in Faults /\ line' = <<>>
       \/ "loses" \in Faults /\ \E p \in Place : line' = Without(p)
    /\ pc' = "wait"
    /\ i' = 0
    /\ behind' = Len(rx) + Len(line') - 9
    /\ kept' = {}
    /\ UNCHANGED <<rx, result>>

(* delay(500) is enough for a response that is not late. *)
WaitIsOver ==
    /\ pc = "wait"
    /\ line = <<>> \/ "late" \in Faults
    /\ pc' = "read"
    /\ UNCHANGED <<i, rx, line, kept, result, behind>>

(* The serial library's interrupt, at any time. *)
Arrive ==
    /\ line # <<>>
    /\ rx' = Append(rx, Head(line))
    /\ line' = Tail(line)
    /\ UNCHANGED <<pc, i, kept, result, behind>>

-----------------------------------------------------------------------------
LastIndexEarly == 7  \* slip: the check sum not read
LastIndexLate  == 9  \* slip: a byte of the next response read
LastIndex == 8

(* An iteration that takes a byte and assigns the variables in assigned.   *)
(* hi and lo are declared in the body of the loop: one that it does not    *)
(* assign holds what the iteration before left, or anything.               *)
Iteration(assigned) ==
    /\ pc = "read"
    /\ rx # <<>>
    /\ rx' = Tail(rx)
    /\ kept' \in {k \union assigned : k \in SUBSET kept}
    /\ UNCHANGED <<line, behind>>

ReadHigh ==
    /\ Iteration({"hi"})
    /\ i = 2
    /\ i' = i + 1
    /\ UNCHANGED <<pc, result>>

ReadLow ==
    /\ Iteration({"lo"})
    /\ i = 3
    /\ i' = i + 1
    /\ UNCHANGED <<pc, result>>

ReadPast ==
    /\ Iteration({})
    /\ i \notin {2, 3, LastIndex}
    /\ i' = i + 1
    /\ UNCHANGED <<pc, result>>

(* CO2 = hi * 256 + lo *)
ReadLast ==
    /\ Iteration({})
    /\ i = LastIndex
    /\ i' = 0
    /\ result' = "value"
    /\ pc' = "rest"

ReadNothing ==
    /\ pc = "read"
    /\ rx = <<>>
    /\ result' = "error"
    /\ i' = 0
    /\ pc' = "rest"
    /\ UNCHANGED <<rx, line, kept, behind>>

Next ==
    \/ Request \/ WaitIsOver \/ Arrive
    \/ ReadHigh \/ ReadLow \/ ReadPast \/ ReadLast \/ ReadNothing

Spec == Init /\ [][Next]_vars

-----------------------------------------------------------------------------
(* The reader takes at most as much as was asked for and leaves the rest,  *)
(* so bytes can pile up; but between two readings it is never more than    *)
(* one response behind, and the library's buffer of 64 bytes never fills   *)
(* (NODE1 main.cpp:104-130).                                               *)
BacklogBounded == Backlog <= IF pc = "rest" THEN 9 ELSE 18

(* A reader that fell behind one late response stays behind: a reading     *)
(* makes up for it by no more than its own response lacks.  While the      *)
(* sensor answers in full, every later value is cut from two responses or  *)
(* is one response old.                                                    *)
NeverCatchesUp == pc = "rest" => Backlog >= behind

(* The comment at NODE1 main.cpp:121: the value combines the two bytes. *)
CombinesBytes == [][ReadLast => kept' = {"hi", "lo"}]_vars
=============================================================================
