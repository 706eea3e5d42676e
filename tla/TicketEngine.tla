---------------------------- MODULE TicketEngine ----------------------------
(***************************************************************************)
(* One run of the ticket/DAG layer: the rows of orchestrator.db that       *)
(* ticket_create, ticket_claim, ticket_complete, ticket_requeue and the    *)
(* shell command `yano end` read and write, as several processes see them. *)
(*                                                                         *)
(* Every Pi instance is an operating-system process with its own SQLite    *)
(* connection.  A tool handler is synchronous between two awaits, so one   *)
(* process never interleaves with itself inside such a stretch, but only a *)
(* single SQL statement, or a BEGIN IMMEDIATE block, is atomic against the *)
(* other processes.  `step' holds, per process, the stretch it is in: what *)
(* it has read and not yet written.  `awaiting' holds the completions      *)
(* whose handler is suspended on an MQTT publish.                          *)
(***************************************************************************)
EXTENDS Naturals, FiniteSets

CONSTANTS
  Tickets,     \* ticket ids that may ever be created
  Planners,    \* instances whose role is planner
  Workers,     \* instances of every other role
  Operator,    \* the shell process of `yano end'
  NoAgent,     \* assigned_instance IS NULL
  Qualified,   \* Qualified[t]: workers whose role, skills and playbook satisfy t
  MaxRetries,  \* bound: the largest max_retries a requeue passes
  CloseAs,     \* bound: the --status values `yano end' is asked for
  MayCrash     \* processes that may die between two steps

Agents == Planners \cup Workers
Procs  == Agents \cup {Operator}

ASSUME RetriesAssumption == MaxRetries \in Nat \ {0}
ASSUME ProcAssumption ==
  /\ Planners \cap Workers = {}
  /\ Operator \notin Agents
  /\ NoAgent \notin Procs
  /\ MayCrash \subseteq Procs
ASSUME CloseAssumption == CloseAs \subseteq {"completed", "cancelled", "failed"}
ASSUME QualifiedAssumption == Qualified \in [Tickets -> SUBSET Workers]

VARIABLES
  ticket,    \* ticket[t].status and ticket[t].holder (assigned_instance)
  deps,      \* rows of ticket_dependencies: <<ticket_id, depends_on_id>>
  run,       \* run.status and run.final (finalization_status)
  recovery,  \* rows of ticket_recovery_state
  step,      \* step[p]: the synchronous stretch process p is in
  awaiting   \* awaiting[a]: completions of a whose publish is awaited

vars == <<ticket, deps, run, recovery, step, awaiting>>
-----------------------------------------------------------------------------
(* Domains *)

TicketStatus == {"absent", "pending", "running", "done", "failed"}
RunStatus    == {"active", "completed", "failed", "cancelled"}
Finalization == {"not_started", "pending_finalize", "not_applicable"}
RetryCap     == MaxRetries + 1     \* bound: retry_count saturates here

Idle == [op |-> "idle"]

Steps ==
  {Idle}
    \cup [op: {"create"}, t: Tickets, rest: SUBSET Tickets]
    \cup [op: {"claim"}, t: Tickets]
    \cup [op: {"complete"}, t: Tickets, to: {"done", "failed"},
          holder: Agents \cup {NoAgent}]
    \cup [op: {"finish"}]
    \cup [op: {"requeue"}, t: Tickets, max: 1..MaxRetries]
    \cup [op: {"close"}, to: CloseAs]

TypeOK ==
  /\ ticket \in [Tickets -> [status: TicketStatus, holder: Agents \cup {NoAgent}]]
  /\ deps \subseteq Tickets \X Tickets
  /\ run \in [status: RunStatus, final: Finalization]
  /\ recovery \in [Tickets -> [retries: 0..RetryCap, generation: Nat,
                               escalated: BOOLEAN, exhausted: BOOLEAN]]
  /\ step \in [Procs -> Steps]
  /\ awaiting \in [Agents -> SUBSET Tickets]
-----------------------------------------------------------------------------
(* What the handlers compute from the rows they read *)

Created    == {t \in Tickets : ticket[t].status # "absent"}
DepsOf(t)  == {d \in Tickets : <<t, d>> \in deps}
Done(t)    == ticket[t].status = "done"

\* "Ready" is computed, never stored.
Ready(t)   == ticket[t].status = "pending" /\ \A d \in DepsOf(t) : Done(d)

AllDone    == Created # {} /\ \A t \in Created : Done(t)

Go(p, s)   == step' = [step EXCEPT ![p] = s]

\* Storage statements.
InsertTicket(t) ==
  ticket' = [ticket EXCEPT ![t] = [status |-> "pending", holder |-> NoAgent]]

UpdateTicket(t, status, holder) ==
  ticket' = [ticket EXCEPT ![t] = [status |-> status, holder |-> holder]]

UpdateRunStatus(s) ==
  run' = [status |-> s,
          final  |-> CASE s = "completed" -> "pending_finalize"
                       [] s = "active"    -> "not_started"
                       [] OTHER           -> "not_applicable"]

\* Faulty variant: the UPDATE without its condition on status.
ReturnUnconditionally(t) == UpdateTicket(t, "pending", NoAgent)

\* ... WHERE id = ? AND status = 'failed'
ReturnToPending(t) ==
  IF ticket[t].status = "failed"
    THEN UpdateTicket(t, "pending", NoAgent)
    ELSE UNCHANGED ticket
-----------------------------------------------------------------------------
Init ==
  /\ ticket   = [t \in Tickets |-> [status |-> "absent", holder |-> NoAgent]]
  /\ deps     = {}
  /\ run      = [status |-> "active", final |-> "not_started"]
  /\ recovery = [t \in Tickets |-> [retries |-> 0, generation |-> 0,
                                    escalated |-> FALSE, exhausted |-> FALSE]]
  /\ step     = [p \in Procs |-> Idle]
  /\ awaiting = [a \in Agents |-> {}]
-----------------------------------------------------------------------------
(* ticket_create: the row first, then one INSERT per dependency.           *)

\* Faulty variant: depends_on is not validated before the INSERTs.
CreateUnvalidated(p, t, ds) ==
  /\ step[p] = Idle
  /\ ticket[t].status = "absent"
  /\ InsertTicket(t)
  /\ Go(p, IF ds = {} THEN Idle ELSE [op |-> "create", t |-> t, rest |-> ds])
  /\ UNCHANGED <<deps, run, recovery, awaiting>>

CreateTicket(p, t, ds) ==
  /\ step[p] = Idle
  /\ ticket[t].status = "absent"
  /\ ds \subseteq Created
  /\ InsertTicket(t)
  /\ Go(p, IF ds = {} THEN Idle ELSE [op |-> "create", t |-> t, rest |-> ds])
  /\ UNCHANGED <<deps, run, recovery, awaiting>>

AddDependency(p) ==
  /\ step[p].op = "create"
  /\ \E d \in step[p].rest :
       /\ deps' = deps \cup {<<step[p].t, d>>}
       /\ Go(p, IF step[p].rest = {d} THEN Idle
                ELSE [step[p] EXCEPT !.rest = @ \ {d}])
  /\ UNCHANGED <<ticket, run, recovery, awaiting>>
-----------------------------------------------------------------------------
(* ticket_claim: the readiness check reads, the UPDATE has no condition.   *)

ClaimRead(w, t) ==
  /\ step[w] = Idle
  /\ Ready(t)
  /\ w \in Qualified[t]
  /\ Go(w, [op |-> "claim", t |-> t])
  /\ UNCHANGED <<ticket, deps, run, recovery, awaiting>>

ClaimWrite(w) ==
  /\ step[w].op = "claim"
  /\ UpdateTicket(step[w].t, "running", w)
  /\ Go(w, Idle)
  /\ UNCHANGED <<deps, run, recovery, awaiting>>
-----------------------------------------------------------------------------
(* ticket_complete: check, unconditional UPDATE, awaited publish, then the *)
(* "is every ticket done" check and the run's own UPDATE.                  *)

CompleteRead(a, t, to) ==
  /\ step[a] = Idle
  /\ awaiting[a] = {}    \* bound: one suspended completion per process
  /\ ticket[t].status = "running"
  /\ ticket[t].holder = a \/ a \in Planners
  /\ Go(a, [op |-> "complete", t |-> t, to |-> to, holder |-> ticket[t].holder])
  /\ UNCHANGED <<ticket, deps, run, recovery, awaiting>>

\* Faulty variant: only the assignee looks whether the run is finished.
CompleteForgetsOverride(a) ==
  /\ step[a].op = "complete"
  /\ LET s == step[a] IN
       /\ UpdateTicket(s.t, s.to, s.holder)
       /\ awaiting' = IF s.to = "done" /\ s.holder = a
                        THEN [awaiting EXCEPT ![a] = @ \cup {s.t}]
                        ELSE awaiting
  /\ Go(a, Idle)
  /\ UNCHANGED <<deps, run, recovery>>

\* updateTicketStatus reads the row once more and writes assigned_instance
\* back: either the value of the check or the one in the row now.
CompleteWrite(a) ==
  /\ step[a].op = "complete"
  /\ LET s == step[a] IN
       /\ \E h \in {s.holder, ticket[s.t].holder} : UpdateTicket(s.t, s.to, h)
       /\ awaiting' = IF s.to = "done"
                        THEN [awaiting EXCEPT ![a] = @ \cup {s.t}]
                        ELSE awaiting
  /\ Go(a, Idle)
  /\ UNCHANGED <<deps, run, recovery>>

CompleteCheck(a, t) ==
  /\ step[a] = Idle
  /\ t \in awaiting[a]
  /\ awaiting' = [awaiting EXCEPT ![a] = @ \ {t}]
  /\ Go(a, IF AllDone THEN [op |-> "finish"] ELSE Idle)
  /\ UNCHANGED <<ticket, deps, run, recovery>>

\* Faulty variant: run_completed is announced, the row is not updated.
FinishOnlyAnnounces(a) ==
  /\ step[a].op = "finish"
  /\ Go(a, Idle)
  /\ UNCHANGED <<ticket, deps, run, recovery, awaiting>>

FinishRun(a) ==
  /\ step[a].op = "finish"
  /\ UpdateRunStatus("completed")
  /\ Go(a, Idle)
  /\ UNCHANGED <<ticket, deps, recovery, awaiting>>
-----------------------------------------------------------------------------
(* ticket_requeue: the status check is outside the transaction.            *)

RequeueRead(p, t, max) ==
  /\ step[p] = Idle
  /\ ticket[t].status = "failed"
  /\ Go(p, [op |-> "requeue", t |-> t, max |-> max])
  /\ UNCHANGED <<ticket, deps, run, recovery, awaiting>>

\* Faulty variant: the comparison of the retries is off by one.
BudgetOffByOne(r, max) == r.exhausted \/ r.retries > max

\* The comparison of replan_round with max_replans is left out: nothing
\* increments replan_round, and max_replans is at least 1.
BudgetExhausted(r, max) == r.exhausted \/ r.retries + 1 > max

\* Faulty variant: the run is left active.
GiveUpKeepsRun(t) ==
  /\ recovery' = [recovery EXCEPT
                    ![t].retries   = IF @ < RetryCap THEN @ + 1 ELSE @,
                    ![t].exhausted = TRUE]
  /\ UNCHANGED <<run, ticket>>

RequeueGiveUp(t) ==
  /\ recovery' = [recovery EXCEPT
                    ![t].retries   = IF @ < RetryCap THEN @ + 1 ELSE @,
                    ![t].exhausted = TRUE]
  /\ IF run.status = "active" THEN UpdateRunStatus("failed") ELSE UNCHANGED run
  /\ UNCHANGED ticket

\* Faulty variant: the escalation also reactivates the run.
EscalateReopensRun(t) ==
  /\ recovery' = [recovery EXCEPT ![t] = [retries |-> 0, generation |-> @.generation + 1,
                                          escalated |-> TRUE, exhausted |-> FALSE]]
  /\ ReturnToPending(t)
  /\ UpdateRunStatus("active")

RequeueEscalate(t) ==
  /\ recovery' = [recovery EXCEPT ![t] = [retries |-> 0, generation |-> @.generation + 1,
                                          escalated |-> TRUE, exhausted |-> FALSE]]
  /\ ReturnToPending(t)
  /\ UNCHANGED run

RequeueRetry(t) ==
  /\ recovery' = [recovery EXCEPT ![t].retries    = @ + 1,
                                  ![t].generation = @ + 1,
                                  ![t].exhausted  = FALSE]
  /\ ReturnToPending(t)
  /\ UNCHANGED run

RequeueTxn(p) ==
  /\ step[p].op = "requeue"
  /\ LET t == step[p].t
         r == recovery[t]
         spent == BudgetExhausted(r, step[p].max)
     IN \/ spent /\ r.escalated  /\ RequeueGiveUp(t)
        \/ spent /\ ~r.escalated /\ RequeueEscalate(t)
        \/ ~spent /\ RequeueRetry(t)
  /\ Go(p, Idle)
  /\ UNCHANGED <<deps, awaiting>>
-----------------------------------------------------------------------------
(* `yano end': lists the active run, asks for confirmation, then UPDATEs   *)
(* runs.status alone.                                                      *)

EndRead(to) ==
  /\ step[Operator] = Idle
  /\ run.status = "active"
  /\ Go(Operator, [op |-> "close", to |-> to])
  /\ UNCHANGED <<ticket, deps, run, recovery, awaiting>>

EndDecline(to) ==
  /\ step[Operator] = [op |-> "close", to |-> to]
  /\ Go(Operator, Idle)
  /\ UNCHANGED <<ticket, deps, run, recovery, awaiting>>

EndWrite(to) ==
  /\ step[Operator] = [op |-> "close", to |-> to]
  /\ run' = [run EXCEPT !.status = to]
  /\ Go(Operator, Idle)
  /\ UNCHANGED <<ticket, deps, recovery, awaiting>>
-----------------------------------------------------------------------------
(* A process dies: what it had read, and its suspended handlers, are gone. *)
(* A handler that SQLITE_BUSY throws out of between two of its statements  *)
(* loses its stretch in the same way.                                      *)

Crash(a) ==
  /\ step[a] # Idle \/ awaiting[a] # {}
  /\ Go(a, Idle)
  /\ awaiting' = [awaiting EXCEPT ![a] = {}]
  /\ UNCHANGED <<ticket, deps, run, recovery>>

\* What the JavaScript event loop of agent a does by itself once it started.
Continue(a) ==
  \/ AddDependency(a)
  \/ ClaimWrite(a)
  \/ CompleteWrite(a)
  \/ \E t \in Tickets : CompleteCheck(a, t)
  \/ FinishRun(a)
  \/ RequeueTxn(a)

PlannerCall(p) ==
  \/ \E t \in Tickets, ds \in SUBSET Tickets : CreateTicket(p, t, ds)
  \/ \E t \in Tickets, max \in 1..MaxRetries : RequeueRead(p, t, max)

WorkerCall(w) == \E t \in Tickets : ClaimRead(w, t)

AgentCall(a) ==
  \E t \in Tickets, to \in {"done", "failed"} : CompleteRead(a, t, to)

End == \E to \in CloseAs : EndRead(to) \/ EndDecline(to) \/ EndWrite(to)

Next ==
  \/ \E p \in Planners : PlannerCall(p)
  \/ \E w \in Workers : WorkerCall(w)
  \/ \E a \in Agents : AgentCall(a) \/ Continue(a)
  \/ \E a \in Agents \cap MayCrash : Crash(a)
  \/ End

Spec == Init /\ [][Next]_vars

\* A started stretch runs to its end because it is synchronous; the awaited
\* publish (QoS 0, queued while offline) settles provided the MQTT client's
\* endless reconnect loop finds the broker again.
Fairness == \A a \in Agents : WF_vars(Continue(a))

FairSpec == Spec /\ Fairness
-----------------------------------------------------------------------------
(* Safety *)

\* A persisted recovery budget really bounds the requeues of a ticket, however
\* many planners race on it: at most MaxRetries normal ones, one escalation
\* and MaxRetries more; and only an escalated ticket is given up
\* (requeueTicketForRecovery: "no infinite escalation loop").
RecoveryBudget ==
  \A t \in Tickets :
    /\ recovery[t].generation <= 2 * MaxRetries + 1
    /\ recovery[t].exhausted => recovery[t].escalated

\* A ticket whose recovery is exhausted never sits in an active run: giving
\* up closes the run in the same transaction and nothing activates it again.
ExhaustedClosesRun ==
  \A t \in Tickets : recovery[t].exhausted => run.status # "active"

\* No sequence of tool calls, stale writes or crashes makes a closed run
\* active again (run_create is the only writer of 'active').
NeverReopened ==
  [][run.status # "active" => run'.status # "active"]_vars

\* Only a failed ticket goes back to pending: a requeue decided on a stale
\* read of "failed" never takes a running or finished ticket from its holder.
OnlyFailedIsRequeued ==
  [][\A t \in Tickets :
       /\ ticket[t].status \notin {"absent", "pending"}
       /\ ticket'[t].status = "pending"
       => ticket[t].status = "failed"]_vars

\* Edges promised by a ticket_create that is still inserting them.
Promised(t) ==
  UNION {step[p].rest : p \in {q \in Procs : step[q].op = "create" /\ step[q].t = t}}

\* The dependency graph, with the edges still being inserted, has no cycle,
\* so the execution waves always exist, although nothing checks for cycles
\* when a ticket is created.
DependenciesAcyclic ==
  \A S \in SUBSET Tickets :
    S # {} => \E t \in S : (DepsOf(t) \cup Promised(t)) \cap S = {}

\* A running ticket is held by a worker that satisfies its capabilities and
\* playbook, never by a planner, even when its write was based on an old read.
HeldByQualified ==
  \A t \in Tickets : ticket[t].status = "running" => ticket[t].holder \in Qualified[t]

\* With no crash, a run whose tickets are all done is closed or some process
\* still owes it the closing UPDATE: no pair of completions racing on the
\* last two tickets leaves the run active for ever.
Owes(a) == awaiting[a] # {} \/ step[a].op = "finish"
CompletionOwed ==
  AllDone => run.status # "active" \/ \E a \in Agents : Owes(a)
-----------------------------------------------------------------------------
(* Liveness *)

\* Under FairSpec and with no crash, a run whose tickets are all done is
\* eventually closed, or a ticket is added or put back to work.
CompletesEventually == []<>~(AllDone /\ run.status = "active")
-----------------------------------------------------------------------------
(* What a tool description promises and a race breaks *)

\* ticket_claim "Refuses if the ticket isn't READY (blocked on dependencies,
\* already running, done, etc.)": a claim only ever takes a pending ticket.
ClaimTakesPending ==
  [][\A w \in Workers :
       step[w].op = "claim" /\ step'[w] = Idle /\ ticket' # ticket
       => ticket[step[w].t].status = "pending"]_vars
=============================================================================
