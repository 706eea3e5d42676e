---------------------------- MODULE PlaybookGate ----------------------------
(***************************************************************************)
(* What the runtime of a Playbook promises, without processes, rows and    *)
(* leases: the state moves by declared transitions whose evidence is       *)
(* there, each of which emits its effects with its new generation; an      *)
(* effect is settled once and for good, an approval only by a human, and   *)
(* none is given up in silence.                                            *)
(***************************************************************************)
EXTENDS Integers

CONSTANTS
  States, Initial, Blocked, Transitions, From, To, Effects,
  Approvals   \* effects that need a human

VARIABLES
  state, generation,
  proved,     \* transitions whose evidence is there
  emitted,    \* <<transition, generation, effect>>
  approved,   \* those that a human approved
  delivered,
  dead,       \* given up
  active      \* the run goes on

gateVars == <<state, generation, proved, emitted, approved, delivered, dead, active>>

PlaybookGateInit ==
  /\ state = Initial /\ generation = 0 /\ active = TRUE
  /\ proved = {} /\ emitted = {} /\ approved = {} /\ delivered = {} /\ dead = {}

Prove(t) ==
  /\ proved' = proved \cup {t}
  /\ UNCHANGED <<state, generation, emitted, approved, delivered, dead, active>>

Apply(t) ==
  /\ state \in From[t] /\ t \in proved
  /\ state' = To[t] /\ generation' = generation + 1
  /\ emitted' = emitted \cup {<<t, generation + 1, e>> : e \in Effects[t]}
  /\ UNCHANGED <<proved, approved, delivered, dead, active>>

Approve(k) ==
  /\ k \in emitted \ approved /\ k[3] \in Approvals
  /\ approved' = approved \cup {k}
  /\ UNCHANGED <<state, generation, proved, emitted, delivered, dead, active>>

Unsettled == emitted \ (delivered \cup dead)

Deliver(k) ==
  /\ k \in Unsettled /\ (k[3] \in Approvals => k \in approved)
  /\ delivered' = delivered \cup {k}
  /\ UNCHANGED <<state, generation, proved, emitted, approved, dead, active>>

\* The Playbook is blocked, in a generation of its own, or else the run fails.
GiveUp(k) ==
  /\ k \in Unsettled
  /\ dead' = dead \cup {k}
  /\ IF Blocked \in States /\ state # Blocked
       THEN state' = Blocked /\ generation' = generation + 1 /\ UNCHANGED active
       ELSE active' = FALSE /\ UNCHANGED <<state, generation>>
  /\ UNCHANGED <<proved, emitted, approved, delivered>>

Close ==
  /\ active' = FALSE
  /\ UNCHANGED <<state, generation, proved, emitted, approved, delivered, dead>>

PlaybookGateNext ==
  \/ \E t \in Transitions : Prove(t) \/ Apply(t)
  \/ \E k \in emitted : Approve(k) \/ Deliver(k) \/ GiveUp(k)
  \/ Close

PlaybookGateSpec == PlaybookGateInit /\ [][PlaybookGateNext]_gateVars
=============================================================================
