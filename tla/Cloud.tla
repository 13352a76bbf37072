------------------------------- MODULE Cloud -------------------------------
(***************************************************************************)
(* The Firebase entries the gateway and the phone application share, as    *)
(* the gateway's blocking get and set calls see them.                      *)
(*                                                                         *)
(* get<bool> returns true only for the JSON literal true: a failed call, a *)
(* missing entry and a quoted string all read as false.                    *)
(***************************************************************************)
EXTENDS LoRaFrames

CONSTANT CloudOutcomes  \* whether a call may succeed (TRUE) or fail (FALSE)

ASSUME CloudOutcomesAssumption ==
    CloudOutcomes \in SUBSET BOOLEAN /\ CloudOutcomes # {}

VARIABLE cloud

Entry == {"true", "false", "quoted"}

CloudTypeOK ==
    cloud \in [mode    : Entry,             \* "/MODE/"
               led1    : Entry,             \* "led1"
               device1 : Entry,             \* "/Device1"
               stt     : [Node -> {0, 1}]]  \* "STT NODE ERROR/n"

Literal(b) == IF b THEN "true" ELSE "false"

CloudInit ==
    cloud = [mode |-> "true", led1 |-> "false", device1 |-> "false",
             stt |-> [n \in Node |-> 1]]

(* What get<bool> of an entry may return. *)
BoolReadInverted(entry) ==  \* slip: strcmp taken for equality
    {ok /\ entry # "true" : ok \in CloudOutcomes}
BoolRead(entry) ==
    {ok /\ entry = "true" : ok \in CloudOutcomes}

MarkedLate(stt, n, v) == [stt EXCEPT ![NextNode(n)] = v]  \* slip: stored once the turn moved on
Marked(stt, n, v) == [stt EXCEPT ![n] = v]

(* set<int> of "STT NODE ERROR/n". *)
PutStatus(n, v) ==
    \E stored \in CloudOutcomes :
        cloud' = IF stored THEN [cloud EXCEPT !.stt = Marked(@, n, v)] ELSE cloud

(* set<String>: the value is stored as a quoted string. *)
PutModeString ==
    \E stored \in CloudOutcomes :
        cloud' = IF stored THEN [cloud EXCEPT !.mode = "quoted"] ELSE cloud

(* A call that is told it failed may have been carried out all the same,   *)
(* if only its answer was lost.                                            *)
Outcome == {o \in [told : CloudOutcomes, stored : BOOLEAN] : o.told => o.stored}

(* set<bool> of "/Device1" and, when that succeeded, of "led1". *)
PutDevice(b) ==
    \E o1 \in Outcome, o2 \in Outcome :
        cloud' = [cloud EXCEPT !.device1 = IF o1.stored THEN Literal(b) ELSE @,
                               !.led1 = IF o1.told /\ o2.stored THEN Literal(b) ELSE @]

(* The phone application writes JSON booleans. *)
AppPutsMode(b) == cloud' = [cloud EXCEPT !.mode = Literal(b)]
AppPutsLed(b)  == cloud' = [cloud EXCEPT !.led1 = Literal(b)]
=============================================================================
