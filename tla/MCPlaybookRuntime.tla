------------------------- MODULE MCPlaybookRuntime -------------------------
(* A small Playbook: `scope' asks for an approval and sends a notification, *)
(* `cancel' sends a notification and competes with it to leave the first    *)
(* state; blocked is terminal, as in playbooks/default.yaml.                *)
EXTENDS PlaybookRuntime

MCFrom == [t \in Transitions |-> IF t = "scope" THEN {"received"} ELSE {"received", "waiting"}]
MCTo == [t \in Transitions |-> IF t = "scope" THEN "waiting" ELSE "received"]
MCEffects == [t \in Transitions |-> IF t = "scope" THEN {"approve", "notify"} ELSE {"notify"}]
MCKind == [e \in EffectIds |-> IF e = "approve" THEN "human_approval" ELSE "external"]
============================================================================
