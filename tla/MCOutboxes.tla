----------------------------- MODULE MCOutboxes -----------------------------
(* The two outboxes of the database, the answers to decision holds and the   *)
(* effects of a Playbook, each over the processes that write and drain it.   *)
(* Neither writes the other's tables: a behaviour is of one or of the other, *)
(* chosen at its start, while the other keeps its initial state.             *)
EXTENDS DecisionHolds, PlaybookRuntime

CONSTANT Part
VARIABLE part

\* A small Playbook: `scope' asks for an approval, `cancel' sends a notification
\* and competes with it to leave the first state; blocked is terminal, as in
\* playbooks/default.yaml.
MCFrom == [t \in Transitions |-> IF t = "scope" THEN {"received"} ELSE {"received", "waiting"}]
MCTo == [t \in Transitions |-> IF t = "scope" THEN "waiting" ELSE "received"]
MCEffects == [t \in Transitions |-> IF t = "scope" THEN {"approve"} ELSE {"notify"}]
MCKind == [e \in EffectIds |-> IF e = "approve" THEN "human_approval" ELSE "external"]

\* In a calm behaviour nobody dies and adapters report before their leases end.
Calm == INSTANCE PlaybookRuntime WITH MayDie <- {}, MayLapse <- FALSE

MCInit == part \in Part /\ HoldInit /\ PlaybookInit

MCNext ==
  /\ UNCHANGED part
  /\ \/ part = "answers" /\ HoldNext /\ UNCHANGED pbVars
     \/ part = "rough" /\ PlaybookNext /\ UNCHANGED vars
     \/ part = "calm" /\ Calm!PlaybookNext /\ UNCHANGED vars

\* AdapterFairness, in the behaviours it is assumed of.
CalmFairness ==
  \A k \in EffectKeys :
    /\ WF_pbVars(part = "calm" /\ \E a \in Adapters : Claim(a, k))
    /\ \A a \in Adapters : WF_pbVars(part = "calm" /\ Report(a, k))

MCSpec ==
  /\ MCInit /\ [][MCNext]_<<part, vars, pbVars>>
  /\ HoldFairness /\ CalmFairness

\* With adapters that report before their leases end, every external effect is
\* delivered or dead-lettered after a bounded number of attempts.
CalmEffectsSettle == part = "calm" => EffectsSettle
=============================================================================
