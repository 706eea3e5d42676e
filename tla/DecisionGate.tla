---------------------------- MODULE DecisionGate ----------------------------
(***************************************************************************)
(* What decision holds promise, without processes: a question is asked at  *)
(* most once and settled at most once, and every answer, and nothing else, *)
(* is owed to a planner until it is handed over.                           *)
(***************************************************************************)
CONSTANT Holds

VARIABLES
  decision,  \* decision[h]: "absent", "open" or how the question was settled
  owed       \* answered holds whose resume message is still to be handed over

GateInit ==
  /\ decision = [h \in Holds |-> "absent"]
  /\ owed = {}

Ask(h) ==
  /\ decision[h] = "absent"
  /\ decision' = [decision EXCEPT ![h] = "open"]
  /\ UNCHANGED owed

Settle(h) ==
  /\ decision[h] = "open"
  /\ \/ /\ decision' = [decision EXCEPT ![h] = "answered"]
        /\ owed' = owed \cup {h}
     \/ /\ decision' = [decision EXCEPT ![h] = "cancelled"]
        /\ UNCHANGED owed

Lapse(S) ==
  /\ \A h \in S : decision[h] = "open"
  /\ decision' = [h \in Holds |-> IF h \in S THEN "expired" ELSE decision[h]]
  /\ UNCHANGED owed

HandOver(S) ==
  /\ owed' = owed \ S
  /\ UNCHANGED decision

GateNext ==
  \/ \E h \in Holds : Ask(h) \/ Settle(h)
  \/ \E S \in SUBSET Holds : Lapse(S) \/ HandOver(S)

GateSpec == GateInit /\ [][GateNext]_<<decision, owed>>
=============================================================================
