--------------------------- MODULE PlaybookRuntime ---------------------------
(***************************************************************************)
(* The runtime of the Playbook bound to one run: playbook_transition moves *)
(* the persisted state and writes the effects of the transition into an    *)
(* outbox; adapters take effects from the outbox under a lease, and report *)
(* failure or acknowledge; an effect of kind human_approval opens a        *)
(* decision hold and is only acknowledged when the hold was answered.      *)
(*                                                                         *)
(* claim, fail, ack and the resolution of a hold are BEGIN IMMEDIATE       *)
(* blocks, hence one step each.  transitionPlaybook reads and checks       *)
(* before its block: `checked' holds what a process has read.              *)
(***************************************************************************)
EXTENDS Integers

CONSTANTS
  States, Initial,  \* the Playbook's states and the first of them
  Blocked,          \* the state id "blocked", a member of States or not
  Transitions, From, To,
  EffectIds,
  Effects,          \* Effects[t]: ids of the effects of transition t
  Kind,             \* Kind[e]: "audit", "human_approval" or "external"
                    \* (mqtt_event, notification)
  Movers,           \* processes that apply transitions
  Adapters,         \* processes whose role is effect-adapter
  NoOwner,          \* lease_owner IS NULL
  MaxGeneration,    \* bound: the last generation a transition may produce
  MaxAttempts,      \* bound: the largest max_attempts a failure passes
  MayDie,           \* processes that may die
  MayLapse          \* TRUE: a lease may end before its holder reports

Parties == Movers \cup Adapters

ASSUME PlaybookAssumption ==
  /\ Initial \in States
  /\ From \in [Transitions -> SUBSET States] /\ To \in [Transitions -> States]
  /\ Effects \in [Transitions -> SUBSET EffectIds]
  /\ Kind \in [EffectIds -> {"audit", "human_approval", "external"}]
ASSUME PartyAssumption ==
  /\ Movers \cap Adapters = {} /\ NoOwner \notin Parties
  /\ MayDie \subseteq Parties /\ MayLapse \in BOOLEAN
ASSUME BoundAssumption == MaxGeneration \in Nat /\ MaxAttempts \in Nat \ {0}

VARIABLES
  runtime,     \* playbook_runtime_state: state_id and generation
  evidence,    \* transitions whose `requires' all have persisted evidence
  run,         \* runs.status
  effectRows,  \* playbook_effect_outbox by (transition, generation, effect)
  hold,        \* hold[k]: the decision hold of approval effect k
  checked,     \* checked[p]: the transition process p checked, not yet wrote
  working      \* working[a]: effects whose lease token a remembers

pbVars == <<runtime, evidence, run, effectRows, hold, checked, working>>

\* dedupe_key: the effect, the transition that emits it and its generation.
EffectKeys == {k \in Transitions \X (1..MaxGeneration) \X EffectIds : k[3] \in Effects[k[1]]}
AtRest == [op |-> "idle"]

Row == [delivery: {"absent", "pending", "leased", "failed", "delivered", "dead_letter"},
        owner: Adapters \cup {NoOwner}, lapsed: BOOLEAN, attempts: 0..MaxAttempts]

PlaybookTypeOK ==
  /\ runtime \in [state: States, generation: 0..(MaxGeneration + 1)]
  /\ evidence \subseteq Transitions
  /\ run \in {"active", "failed", "closed"}
  /\ effectRows \in [EffectKeys -> Row]
  /\ hold \in [EffectKeys -> {"none", "open", "answered", "cancelled", "expired"}]
  /\ checked \in [Movers ->
                   {AtRest} \cup [op: {"transition"}, t: Transitions,
                                  generation: 0..(MaxGeneration - 1)]]
  /\ working \in [Parties -> SUBSET EffectKeys]

\* The defaults of the table: no lease, no attempts.
NewRow(delivery) ==
  [delivery |-> delivery, owner |-> NoOwner, lapsed |-> FALSE, attempts |-> 0]

PlaybookInit ==
  /\ runtime = [state |-> Initial, generation |-> 0]
  /\ evidence = {}
  /\ run = "active"
  /\ effectRows = [k \in EffectKeys |-> NewRow("absent")]
  /\ hold = [k \in EffectKeys |-> "none"]
  /\ checked = [p \in Movers |-> AtRest]
  /\ working = [a \in Parties |-> {}]
-----------------------------------------------------------------------------
(* playbook_transition *)

RecordEvidence(t) ==
  /\ t \notin evidence
  /\ evidence' = evidence \cup {t}
  /\ UNCHANGED <<runtime, run, effectRows, hold, checked, working>>

TransitionRead(p, t) ==
  /\ checked[p] = AtRest
  /\ runtime.state \in From[t]
  /\ t \in evidence
  /\ runtime.generation < MaxGeneration    \* bound
  /\ checked' = [checked EXCEPT ![p] = [op |-> "transition", t |-> t,
                                        generation |-> runtime.generation]]
  /\ UNCHANGED <<runtime, evidence, run, effectRows, hold, working>>

\* The rows of transition t at generation g; an approval's hold is opened.
Emitted(t, g) == {k \in EffectKeys : k[1] = t /\ k[2] = g}

Emit(t, g) ==
  /\ effectRows' = [k \in EffectKeys |->
       IF k \in Emitted(t, g) /\ effectRows[k].delivery = "absent"
         THEN NewRow("pending") ELSE effectRows[k]]
  /\ hold' = [k \in EffectKeys |->
       IF k \in Emitted(t, g) /\ Kind[k[3]] = "human_approval" /\ hold[k] = "none"
         THEN "open" ELSE hold[k]]

\* Faulty variant: the UPDATE without AND generation = ?.
TransitionUnfenced(p) ==
  /\ checked[p].op = "transition"
  /\ LET t == checked[p].t
         g == checked[p].generation + 1
     IN runtime' = [state |-> To[t], generation |-> g] /\ Emit(t, g)
  /\ checked' = [checked EXCEPT ![p] = AtRest]
  /\ UNCHANGED <<evidence, run, working>>

\* ... WHERE run_id = ? AND generation = ?, or nothing is written.
TransitionWrite(p) ==
  /\ checked[p].op = "transition"
  /\ LET t == checked[p].t
         g == checked[p].generation + 1
     IN IF runtime.generation = checked[p].generation
          THEN runtime' = [state |-> To[t], generation |-> g] /\ Emit(t, g)
          ELSE UNCHANGED <<runtime, effectRows, hold>>
  /\ checked' = [checked EXCEPT ![p] = AtRest]
  /\ UNCHANGED <<evidence, run, working>>
-----------------------------------------------------------------------------
(* playbook_effect_claim, playbook_effect_fail, playbook_effect_ack.       *)
(* next_attempt_at only delays a claim: the claim is not taken until then. *)

Dispatching == run = "active" /\ runtime.state # Blocked

Lease(a, k) ==
  /\ effectRows' = [effectRows EXCEPT ![k] =
       [@ EXCEPT !.delivery = "leased", !.owner = a, !.lapsed = FALSE]]
  /\ working' = [working EXCEPT ![a] = @ \cup {k}]

\* Faulty variant: a lease past its lease_until is taken over.
ClaimTakesOver(a, k) ==
  /\ Dispatching
  /\ \/ effectRows[k].delivery \in {"pending", "failed"}
     \/ effectRows[k].delivery = "leased" /\ effectRows[k].lapsed
  /\ Lease(a, k)
  /\ UNCHANGED <<runtime, evidence, run, hold, checked>>

Claim(a, k) ==
  /\ Dispatching
  /\ effectRows[k].delivery \in {"pending", "failed"}
  /\ Lease(a, k)
  /\ UNCHANGED <<runtime, evidence, run, hold, checked>>

LeaseLapses(k) ==
  /\ MayLapse
  /\ effectRows[k].delivery = "leased" /\ ~effectRows[k].lapsed
  /\ effectRows' = [effectRows EXCEPT ![k].lapsed = TRUE]
  /\ UNCHANGED <<runtime, evidence, run, hold, checked, working>>

\* A dead letter blocks the Playbook, or fails the run when it cannot.
DeadLetter ==
  IF Blocked \in States /\ runtime.state # Blocked
    THEN /\ runtime' = [state |-> Blocked, generation |-> runtime.generation + 1]
         /\ UNCHANGED run
    ELSE /\ run' = IF run = "active" THEN "failed" ELSE run
         /\ UNCHANGED runtime

Leases(a, k) ==
  effectRows[k].delivery = "leased" /\ effectRows[k].owner = a /\ ~effectRows[k].lapsed

\* Faulty variant: the attempts are counted, never compared.
FailForEver(a, k, max) ==
  /\ k \in working[a] /\ Leases(a, k)
  /\ effectRows' = [effectRows EXCEPT ![k] =
       [delivery |-> "failed", owner |-> NoOwner, lapsed |-> FALSE,
        attempts |-> IF @.attempts < MaxAttempts THEN @.attempts + 1 ELSE @.attempts]]
  /\ working' = [working EXCEPT ![a] = @ \ {k}]
  /\ UNCHANGED <<runtime, evidence, run, hold, checked>>

Fail(a, k, max) ==
  /\ k \in working[a] /\ Leases(a, k)
  /\ LET attempts == effectRows[k].attempts + 1
         dead == attempts >= max
     IN /\ effectRows' = [effectRows EXCEPT ![k] =
             [delivery |-> IF dead THEN "dead_letter" ELSE "failed",
              owner |-> NoOwner, lapsed |-> FALSE, attempts |-> attempts]]
        /\ IF dead THEN DeadLetter ELSE UNCHANGED <<runtime, run>>
  /\ working' = [working EXCEPT ![a] = @ \ {k}]
  /\ UNCHANGED <<evidence, hold, checked>>

\* "lease fencing rejected": nothing is written, the adapter drops the effect.
FailRejected(a, k) ==
  /\ k \in working[a] /\ ~Leases(a, k)
  /\ working' = [working EXCEPT ![a] = @ \ {k}]
  /\ UNCHANGED <<runtime, evidence, run, effectRows, hold, checked>>

MarkDelivered(c, k) ==
  /\ effectRows' = [effectRows EXCEPT ![k] =
       [@ EXCEPT !.delivery = "delivered", !.owner = NoOwner, !.lapsed = FALSE]]
  /\ working' = [working EXCEPT ![c] = @ \ {k}]

MayAck(c, k) ==
  /\ effectRows[k].delivery \notin {"absent", "dead_letter", "delivered"}
  /\ Kind[k[3]] = "external" => c \in Adapters

\* Faulty variant: any resolution of the hold lets the approval through.
AckResolved(c, k) ==
  /\ MayAck(c, k)
  /\ Kind[k[3]] = "human_approval" => hold[k] # "open"
  /\ MarkDelivered(c, k)
  /\ UNCHANGED <<runtime, evidence, run, hold, checked>>

\* The lease is not asked for: whoever has the role may acknowledge.
Ack(c, k) ==
  /\ MayAck(c, k)
  /\ Kind[k[3]] = "human_approval" => hold[k] = "answered"
  /\ MarkDelivered(c, k)
  /\ UNCHANGED <<runtime, evidence, run, hold, checked>>
-----------------------------------------------------------------------------
(* Approval holds, the rest of the run, and crashes *)

\* decision_hold_answer, decision_hold_cancel, expireDecisionHolds.
ResolveHold(k, to) ==
  /\ hold[k] = "open"
  /\ hold' = [hold EXCEPT ![k] = to]
  /\ UNCHANGED <<runtime, evidence, run, effectRows, checked, working>>

\* The ticket layer or the operator closes the run.
CloseRun ==
  /\ run = "active"
  /\ run' = "closed"
  /\ UNCHANGED <<runtime, evidence, effectRows, hold, checked, working>>

PlannerCrash(p) ==
  /\ checked[p] # AtRest
  /\ checked' = [checked EXCEPT ![p] = AtRest]
  /\ UNCHANGED <<runtime, evidence, run, effectRows, hold, working>>

AdapterCrash(a) ==
  /\ working[a] # {}
  /\ working' = [working EXCEPT ![a] = {}]
  /\ UNCHANGED <<runtime, evidence, run, effectRows, hold, checked>>

\* What an adapter does with an effect it works on.
Report(a, k) ==
  \/ \E max \in 1..MaxAttempts : Fail(a, k, max)
  \/ FailRejected(a, k)
  \/ k \in working[a] /\ Ack(a, k)

PlaybookNext ==
  \/ \E t \in Transitions : RecordEvidence(t)
  \/ \E p \in Movers : TransitionWrite(p) \/ \E t \in Transitions : TransitionRead(p, t)
  \/ \E a \in Adapters, k \in EffectKeys : Claim(a, k) \/ Report(a, k)
  \/ \E c \in Parties, k \in EffectKeys : Ack(c, k)
  \/ \E k \in EffectKeys : LeaseLapses(k)
  \/ \E k \in EffectKeys, to \in {"answered", "cancelled", "expired"} : ResolveHold(k, to)
  \/ CloseRun
  \/ \E p \in Movers \cap MayDie : PlannerCrash(p)
  \/ \E a \in Adapters \cap MayDie : AdapterCrash(a)

PlaybookSpec == PlaybookInit /\ [][PlaybookNext]_pbVars

\* Adapters are programs outside the repository: they are assumed to take
\* effects that are offered and to report on those they took.  A lease that
\* may lapse does, in time.
AdapterFairness ==
  \A k \in EffectKeys :
    /\ WF_pbVars(\E a \in Adapters : Claim(a, k))
    /\ WF_pbVars(LeaseLapses(k))
    /\ \A a \in Adapters : WF_pbVars(Report(a, k))

FairPlaybookSpec == PlaybookSpec /\ AdapterFairness
-----------------------------------------------------------------------------
(* What the runtime guarantees *)

\* Two processes that read the same generation never both win: the effects of
\* one generation come from one transition.
OneTransitionPerGeneration ==
  \A k, l \in EffectKeys :
    /\ effectRows[k].delivery # "absent" /\ effectRows[l].delivery # "absent"
    /\ k[2] = l[2]
    => k[1] = l[1]

\* A transition is applied only from a state the Playbook declares for it,
\* although the state was checked before the transaction and may have moved
\* since: in particular a planner never undoes a `blocked' it has not seen.
TransitionsStartWhereDeclared ==
  [][\A p \in Movers :
       checked[p].op = "transition" /\ checked'[p] = AtRest /\ runtime' # runtime
       => runtime.state \in From[checked[p].t]]_pbVars

\* An approval effect counts as delivered only if a human answered: a hold
\* that was cancelled, that expired, or that is still open never lets it by.
ApprovalGates ==
  \A k \in EffectKeys :
    Kind[k[3]] = "human_approval" /\ effectRows[k].delivery = "delivered"
      => hold[k] = "answered"

\* No two adapters ever work on the same effect, whatever leases lapse, fail
\* or are acknowledged by others meanwhile.
ExclusiveExecutor ==
  \A a, b \in Adapters, k \in EffectKeys : k \in working[a] /\ k \in working[b] => a = b

\* The rows, leases, holds and the check before the transaction implement the
\* abstract Playbook: whoever races, dies or lets a lease lapse, a transition is
\* applied where it is declared and emits its effects with it, and each effect is
\* settled once, an approval by an answer, a dead letter by blocking or failing.
Gathered(S) == {k \in EffectKeys : effectRows[k].delivery \in S}
Promise == INSTANCE PlaybookGate
  WITH Approvals <- {e \in EffectIds : Kind[e] = "human_approval"},
       state <- runtime.state, generation <- runtime.generation,
       proved <- evidence,
       emitted <- Gathered({"pending", "leased", "failed", "delivered", "dead_letter"}),
       approved <- {k \in EffectKeys : hold[k] = "answered"},
       delivered <- Gathered({"delivered"}), dead <- Gathered({"dead_letter"}),
       active <- (run = "active")
ImplementsPlaybook == Promise!PlaybookGateSpec

\* Retries are bounded: while the run is dispatching, an external effect is in
\* the end delivered or dead-lettered.
Settled(k) == effectRows[k].delivery \in {"delivered", "dead_letter"}
EffectsSettle ==
  \A k \in EffectKeys :
    effectRows[k].delivery # "absent" /\ Kind[k[3]] = "external"
      ~> Settled(k) \/ ~Dispatching
=============================================================================
