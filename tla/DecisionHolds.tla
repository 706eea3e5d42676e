---------------------------- MODULE DecisionHolds ----------------------------
(***************************************************************************)
(* The human decision holds of one database: decision_hold_create, _answer *)
(* and _cancel called by planners and by `user' instances, approvals       *)
(* opened by a Playbook, and the two blocks at the start of the watchdog's *)
(* sweep that expire holds and hand the answers to a planner.              *)
(*                                                                         *)
(* Resolutions are BEGIN IMMEDIATE blocks, one step each.  Creation,       *)
(* expiry and the drain of the resume outbox SELECT first and write in a   *)
(* second statement or block: `step' holds what a process has selected.    *)
(***************************************************************************)
EXTENDS Naturals

CONSTANTS
  Holds,      \* ids of holds that may exist: derived from the key of the create
  Approvals,  \* those whose id a human_approval effect determines
  Expiring,   \* those with an expires_at
  Keys,       \* idempotency keys of answers and cancellations
  Planners,   \* instances whose role is planner: they also sweep
  Users,      \* instances whose role is user
  MayCrash    \* instances that may die

Callers == Planners \cup Users

ASSUME HoldAssumption == Approvals \subseteq Holds /\ Expiring \subseteq Holds
ASSUME HoldCallerAssumption == Planners \cap Users = {} /\ MayCrash \subseteq Callers

VARIABLES
  status,    \* decision_holds.status
  due,       \* holds whose expires_at has passed
  ops,       \* decision_hold_operations of resolutions: <<hold, operation, key>>
  outbox,    \* decision_hold_outbox by <<hold, key>>, its dedupe_key
  step,      \* step[c]: the synchronous stretch instance c is in
  notified,  \* history: notified[h], notifications that the human is awaited
  told,      \* history: told[p][r], resume messages of row r planner p was sent
  lost       \* history: rows a planner selected and failed to deliver

vars == <<status, due, ops, outbox, step, notified, told, lost>>

Rows == Holds \X Keys
Idle == [op |-> "idle"]

Steps ==
  {Idle}
    \cup [op: {"create", "notify"}, h: Holds]
    \cup [op: {"expire"}, now: SUBSET Holds]
    \cup [op: {"drain", "deliver"}, rows: SUBSET Rows]

HoldTypeOK ==
  /\ status \in [Holds -> {"absent", "open", "answered", "cancelled", "expired"}]
  /\ due \subseteq Holds
  /\ ops \subseteq Holds \X {"answered", "cancelled"} \X Keys
  /\ outbox \in [Rows -> {"absent", "pending", "dispatched"}]
  /\ step \in [Callers -> Steps]
  /\ notified \in [Holds -> Nat]
  /\ told \in [Planners -> [Rows -> Nat]]
  /\ lost \subseteq Rows

Go(c, s) == step' = [step EXCEPT ![c] = s]

HoldInit ==
  /\ status = [h \in Holds |-> "absent"]
  /\ due = {}
  /\ ops = {}
  /\ outbox = [r \in Rows |-> "absent"]
  /\ step = [c \in Callers |-> Idle]
  /\ notified = [h \in Holds |-> 0]
  /\ told = [p \in Planners |-> [r \in Rows |-> 0]]
  /\ lost = {}
-----------------------------------------------------------------------------
(* decision_hold_create: a SELECT, then the INSERT; whoever finds the id   *)
(* taken, before or by then, returns the hold of the other.                *)

CreateRead(c, h) ==
  /\ step[c] = Idle
  /\ status[h] = "absent"
  /\ Go(c, [op |-> "create", h |-> h])
  /\ UNCHANGED <<status, due, ops, outbox, notified, told, lost>>

\* Faulty variant: a creation that lost the race reports `created' as well.
CreateClaimsBoth(c) ==
  /\ step[c].op = "create"
  /\ LET h == step[c].h IN
       /\ status' = [status EXCEPT ![h] = IF @ = "absent" THEN "open" ELSE @]
       /\ Go(c, [op |-> "notify", h |-> h])
  /\ UNCHANGED <<due, ops, outbox, notified, told, lost>>

CreateWrite(c) ==
  /\ step[c].op = "create"
  /\ LET h == step[c].h IN
       IF status[h] = "absent"
         THEN /\ status' = [status EXCEPT ![h] = "open"]
              /\ Go(c, [op |-> "notify", h |-> h])
         ELSE /\ Go(c, Idle)
              /\ UNCHANGED status
  /\ UNCHANGED <<due, ops, outbox, notified, told, lost>>

Notify(c) ==
  /\ step[c].op = "notify"
  /\ notified' = [notified EXCEPT ![step[c].h] = @ + 1]
  /\ Go(c, Idle)
  /\ UNCHANGED <<status, due, ops, outbox, told, lost>>

\* The INSERT OR IGNORE of a transition with a human_approval effect.
OpenApproval(h) ==
  /\ h \in Approvals /\ status[h] = "absent"
  /\ status' = [status EXCEPT ![h] = "open"]
  /\ UNCHANGED <<due, ops, outbox, step, notified, told, lost>>
-----------------------------------------------------------------------------
(* decision_hold_answer, decision_hold_cancel.  A replay (the operation and *)
(* its key are recorded), a wrong generation or checksum and a resolved    *)
(* hold write nothing.                                                     *)

\* The resume row of an answer, INSERT OR IGNORE on its dedupe_key.
Enqueue(h, k) == outbox' = [outbox EXCEPT ![<<h, k>>] = IF @ = "absent" THEN "pending" ELSE @]

\* Faulty variant: the status of the hold is not looked at.
ResolveAgain(c, h, to, k) ==
  /\ step[c] = Idle
  /\ <<h, to, k>> \notin ops
  /\ status[h] # "absent"
  /\ ops' = ops \cup {<<h, to, k>>}
  /\ status' = [status EXCEPT ![h] = to]
  /\ IF to = "answered" THEN Enqueue(h, k) ELSE UNCHANGED outbox
  /\ UNCHANGED <<due, step, notified, told, lost>>

Resolve(c, h, to, k) ==
  /\ step[c] = Idle
  /\ <<h, to, k>> \notin ops
  /\ status[h] = "open"
  /\ ops' = ops \cup {<<h, to, k>>}
  /\ status' = [status EXCEPT ![h] = to]
  /\ IF to = "answered" THEN Enqueue(h, k) ELSE UNCHANGED outbox
  /\ UNCHANGED <<due, step, notified, told, lost>>
-----------------------------------------------------------------------------
(* expireDecisionHolds: SELECT the overdue holds, then one UPDATE with the *)
(* same condition and the same `now'.                                      *)

FallDue(h) ==
  /\ h \in Expiring \ due
  /\ due' = due \cup {h}
  /\ UNCHANGED <<status, ops, outbox, step, notified, told, lost>>

Overdue(now) == {h \in now : status[h] = "open"}

ExpireRead(p) ==
  /\ step[p] = Idle
  /\ Overdue(due) # {}
  /\ Go(p, [op |-> "expire", now |-> due])
  /\ UNCHANGED <<status, due, ops, outbox, notified, told, lost>>

\* Faulty variant: the UPDATE without AND status = 'open'.
ExpireAny(p) ==
  /\ step[p].op = "expire"
  /\ status' = [h \in Holds |-> IF h \in step[p].now /\ status[h] # "absent"
                                  THEN "expired" ELSE status[h]]
  /\ Go(p, Idle)
  /\ UNCHANGED <<due, ops, outbox, notified, told, lost>>

\* Faulty variant: the holds are reported expired and not updated.
ExpireReports(p) ==
  /\ step[p].op = "expire"
  /\ Go(p, Idle)
  /\ UNCHANGED <<status, due, ops, outbox, notified, told, lost>>

ExpireWrite(p) ==
  /\ step[p].op = "expire"
  /\ status' = [h \in Holds |-> IF h \in Overdue(step[p].now) THEN "expired" ELSE status[h]]
  /\ Go(p, Idle)
  /\ UNCHANGED <<due, ops, outbox, notified, told, lost>>
-----------------------------------------------------------------------------
(* drainDecisionHoldOutbox: the SELECT is outside the block, and the rows  *)
(* it returned are delivered whoever dispatched them meanwhile.            *)

Pending == {r \in Rows : outbox[r] = "pending"}

DrainRead(p) ==
  /\ step[p] = Idle
  /\ Pending # {}
  /\ Go(p, [op |-> "drain", rows |-> Pending])
  /\ UNCHANGED <<status, due, ops, outbox, notified, told, lost>>

\* Faulty variant: rows are dispatched when the message has gone, not before.
DrainUnmarked(p) ==
  /\ step[p].op = "drain"
  /\ Go(p, [op |-> "deliver", rows |-> step[p].rows])
  /\ UNCHANGED <<status, due, ops, outbox, notified, told, lost>>

\* Faulty variant: the rows are dispatched and not delivered.
DrainForgets(p) ==
  /\ step[p].op = "drain"
  /\ outbox' = [r \in Rows |-> IF r \in step[p].rows THEN "dispatched" ELSE outbox[r]]
  /\ Go(p, Idle)
  /\ UNCHANGED <<status, due, ops, notified, told, lost>>

DrainWrite(p) ==
  /\ step[p].op = "drain"
  /\ outbox' = [r \in Rows |-> IF r \in step[p].rows /\ outbox[r] = "pending"
                                 THEN "dispatched" ELSE outbox[r]]
  /\ Go(p, [op |-> "deliver", rows |-> step[p].rows])
  /\ UNCHANGED <<status, due, ops, notified, told, lost>>

Deliver(p) ==
  /\ step[p].op = "deliver"
  /\ \E r \in step[p].rows :
       /\ told' = [told EXCEPT ![p][r] = @ + 1]
       /\ Go(p, IF step[p].rows = {r} THEN Idle ELSE [step[p] EXCEPT !.rows = @ \ {r}])
  /\ UNCHANGED <<status, due, ops, outbox, notified, lost>>

\* sendMessage throws: the row stays dispatched.
DeliveryFails(p) ==
  /\ step[p].op = "deliver"
  /\ \E r \in step[p].rows :
       /\ lost' = lost \cup {r}
       /\ Go(p, IF step[p].rows = {r} THEN Idle ELSE [step[p] EXCEPT !.rows = @ \ {r}])
  /\ UNCHANGED <<status, due, ops, outbox, notified, told>>

\* A process dies, or SQLITE_BUSY ends its stretch: what it selected is gone.
HoldCrash(c) ==
  /\ step[c] # Idle
  /\ lost' = IF step[c].op = "deliver" THEN lost \cup step[c].rows ELSE lost
  /\ Go(c, Idle)
  /\ UNCHANGED <<status, due, ops, outbox, notified, told>>
-----------------------------------------------------------------------------
HoldCall(c) ==
  \E h \in Holds :
    \/ CreateRead(c, h)
    \/ \E to \in {"answered", "cancelled"}, k \in Keys : Resolve(c, h, to, k)

HoldContinue(c) ==
  \/ CreateWrite(c) \/ Notify(c)
  \/ c \in Planners /\ (ExpireWrite(c) \/ DrainWrite(c) \/ Deliver(c))

HoldNext ==
  \/ \E c \in Callers : HoldCall(c) \/ HoldContinue(c)
  \/ \E p \in Planners : ExpireRead(p) \/ DrainRead(p)
  \/ \E h \in Holds : OpenApproval(h) \/ FallDue(h)
  \/ \E c \in MayCrash : HoldCrash(c)
  \/ \E p \in Planners \cap MayCrash : DeliveryFails(p)

HoldSpec == HoldInit /\ [][HoldNext]_vars

\* A stretch is synchronous: it goes on, or the process dies in it.  The watchdog
\* of a live planner fires again and again, and finds it between two tool calls
\* each time.
HoldFairness ==
  /\ \A c \in Callers \ MayCrash : WF_vars(HoldContinue(c))
  /\ \A c \in MayCrash : WF_vars(HoldContinue(c) \/ HoldCrash(c))
  /\ \A p \in Planners \ MayCrash : SF_vars(DrainRead(p)) /\ SF_vars(ExpireRead(p))

FairHoldSpec == HoldSpec /\ HoldFairness
-----------------------------------------------------------------------------
(* Properties *)

\* "AT MOST ONE `waiting for your reply' notification for its entire lifetime":
\* however many processes race to create a hold, and crash while they do, the
\* human is notified at most once of it.
OneNotification == \A h \in Holds : notified[h] <= 1

\* One answer per hold: a hold is answered exactly when one resume row of it
\* exists, whatever keys and processes raced and whatever expired meanwhile.
OneAnswer ==
  \A h \in Holds :
    /\ status[h] = "answered" <=> \E k \in Keys : outbox[<<h, k>>] # "absent"
    /\ \A k, l \in Keys :
         outbox[<<h, k>>] # "absent" /\ outbox[<<h, l>>] # "absent" => k = l

\* A planner is never told twice to resume after the same answer, although
\* two planners that select the same rows both deliver them.
ResumedOncePerPlanner == \A p \in Planners, r \in Rows : told[p][r] <= 1

\* The holds implement their abstract specification: asked once, settled once
\* and for good, and owed to a planner exactly while the row is pending.
Gate == INSTANCE DecisionGate
  WITH decision <- status,
       owed <- {h \in Holds : \E k \in Keys : outbox[<<h, k>>] = "pending"}
ImplementsGate == Gate!GateSpec

\* With one planner that does not fail, every answer is told to a planner,
\* unless another planner had selected it and failed before delivering it.
AnswersAreTold ==
  \A h \in Holds :
    []<>(status[h] # "answered" \/
           \E k \in Keys : <<h, k>> \in lost \/ \E p \in Planners : told[p][<<h, k>>] > 0)

\* With one planner that does not fail, an overdue hold does not stay open.
OverdueHoldsClose == \A h \in Holds : []<>~(status[h] = "open" /\ h \in due)
=============================================================================
