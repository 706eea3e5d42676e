------------------------ MODULE TicketEngine_proofs ------------------------
(***************************************************************************)
(* Theorems about TicketEngine, for any sets of tickets, planners and      *)
(* workers and any MaxRetries: its types and budgets, who holds a running  *)
(* ticket, who owes a finished run its closing UPDATE, the shape of the    *)
(* dependency graph; and one about Supervision, which extends it.          *)
(***************************************************************************)
EXTENDS Supervision, TLAPS

\* One row of ticket_recovery_state: how retries, generation and escalation
\* are tied together.  It is what makes RecoveryBudget inductive.
LedgerRow(r) ==
  /\ ~r.exhausted => r.retries <= MaxRetries
  /\ r.exhausted => r.escalated /\ r.generation <= 2 * MaxRetries + 1
  /\ ~r.exhausted /\ ~r.escalated => r.generation <= r.retries
  /\ ~r.exhausted /\ r.escalated => r.generation <= MaxRetries + 1 + r.retries

RecoveryLedger == \A t \in Tickets : LedgerRow(recovery[t])

IInv == TypeOK /\ RecoveryLedger /\ ExhaustedClosesRun

Recoveries == [retries: 0..RetryCap, generation: Nat,
               escalated: BOOLEAN, exhausted: BOOLEAN]
-----------------------------------------------------------------------------
USE RetriesAssumption, ProcAssumption, CloseAssumption, QualifiedAssumption

\* Moving a process to a well-typed stretch keeps `step' well typed.
LEMMA GoType ==
  ASSUME TypeOK, NEW p \in Procs, NEW s \in Steps, Go(p, s)
  PROVE  step' \in [Procs -> Steps]
  BY DEF TypeOK, Go

LEMMA IdleType == Idle \in Steps
  BY DEF Steps

LEMMA UpdateTicketType ==
  ASSUME TypeOK, NEW t \in Tickets, NEW s \in TicketStatus,
         NEW h \in Agents \cup {NoAgent}, UpdateTicket(t, s, h)
  PROVE  ticket' \in [Tickets -> [status: TicketStatus, holder: Agents \cup {NoAgent}]]
  BY DEF TypeOK, UpdateTicket

LEMMA ReturnToPendingType ==
  ASSUME TypeOK, NEW t \in Tickets, ReturnToPending(t)
  PROVE  ticket' \in [Tickets -> [status: TicketStatus, holder: Agents \cup {NoAgent}]]
  BY UpdateTicketType DEF TypeOK, ReturnToPending, TicketStatus

LEMMA UpdateRunType ==
  ASSUME NEW s \in RunStatus, UpdateRunStatus(s)
  PROVE  /\ run' \in [status: RunStatus, final: Finalization]
         /\ run'.status = s
  BY DEF UpdateRunStatus, RunStatus, Finalization

\* What a process that is not idle has in its hands.
LEMMA StepFields ==
  ASSUME TypeOK, NEW p \in Procs
  PROVE  /\ step[p] \in Steps
         /\ step[p].op = "create" =>
              /\ step[p].t \in Tickets /\ step[p].rest \subseteq Tickets
              /\ \A d \in Tickets : [step[p] EXCEPT !.rest = @ \ {d}] \in Steps
         /\ step[p].op = "claim" => step[p].t \in Tickets
         /\ step[p].op = "complete" =>
              /\ step[p].t \in Tickets /\ step[p].to \in {"done", "failed"}
              /\ step[p].holder \in Agents \cup {NoAgent}
         /\ step[p].op = "requeue" => step[p].t \in Tickets /\ step[p].max \in 1..MaxRetries
         /\ step[p].op = "close" => step[p].to \in CloseAs
  BY DEF TypeOK, Steps, Idle
-----------------------------------------------------------------------------
(* The requeue transaction, the only writer of the recovery rows. *)

LEMMA GiveUpStep ==
  ASSUME IInv, NEW t \in Tickets, recovery[t].escalated, RequeueGiveUp(t)
  PROVE  /\ recovery' \in [Tickets -> Recoveries]
         /\ run' \in [status: RunStatus, final: Finalization]
         /\ RecoveryLedger'
         /\ ExhaustedClosesRun'
<1> DEFINE n == IF recovery[t].retries < RetryCap THEN recovery[t].retries + 1
                ELSE recovery[t].retries
<1>1. recovery' \in [Tickets -> Recoveries]
  <2>1. recovery \in [Tickets -> Recoveries]
    BY DEF IInv, TypeOK, Recoveries
  <2>2. n \in 0..RetryCap
    BY <2>1 DEF Recoveries, RetryCap
  <2>3. recovery' = [recovery EXCEPT ![t] = [recovery[t] EXCEPT !.retries = n, !.exhausted = TRUE]]
    BY <2>1 DEF RequeueGiveUp, Recoveries
  <2> HIDE DEF n
  <2>4. [recovery[t] EXCEPT !.retries = n, !.exhausted = TRUE] \in Recoveries
    BY <2>1, <2>2 DEF Recoveries
  <2>5. QED
    BY <2>1, <2>3, <2>4
<1>2. /\ run' \in [status: RunStatus, final: Finalization]
      /\ run'.status # "active"
  BY UpdateRunType DEF IInv, TypeOK, RequeueGiveUp, RunStatus
<1>3. RecoveryLedger'
  BY DEF IInv, TypeOK, RequeueGiveUp, RecoveryLedger, LedgerRow, RetryCap
<1>4. QED
  BY <1>1, <1>2, <1>3 DEF ExhaustedClosesRun

LEMMA EscalateStep ==
  ASSUME IInv, NEW t \in Tickets, ~recovery[t].escalated, RequeueEscalate(t)
  PROVE  /\ recovery' \in [Tickets -> Recoveries]
         /\ run' \in [status: RunStatus, final: Finalization]
         /\ RecoveryLedger'
         /\ ExhaustedClosesRun'
<1>1. recovery' \in [Tickets -> Recoveries]
  BY DEF IInv, TypeOK, RequeueEscalate, Recoveries, RetryCap
<1>2. RecoveryLedger'
  BY DEF IInv, TypeOK, RequeueEscalate, RecoveryLedger, LedgerRow, RetryCap
<1>3. QED
  BY <1>1, <1>2 DEF IInv, TypeOK, RequeueEscalate, ExhaustedClosesRun

LEMMA RetryStep ==
  ASSUME IInv, NEW t \in Tickets, NEW max \in 1..MaxRetries,
         ~BudgetExhausted(recovery[t], max), RequeueRetry(t)
  PROVE  /\ recovery' \in [Tickets -> Recoveries]
         /\ run' \in [status: RunStatus, final: Finalization]
         /\ RecoveryLedger'
         /\ ExhaustedClosesRun'
<1>1. ~recovery[t].exhausted /\ recovery[t].retries + 1 <= max
  BY DEF IInv, TypeOK, BudgetExhausted
<1>2. recovery' \in [Tickets -> Recoveries]
  BY <1>1 DEF IInv, TypeOK, RequeueRetry, Recoveries, RetryCap
<1>3. RecoveryLedger'
  BY <1>1 DEF IInv, TypeOK, RequeueRetry, RecoveryLedger, LedgerRow, RetryCap
<1>4. QED
  BY <1>1, <1>2, <1>3 DEF IInv, TypeOK, RequeueRetry, ExhaustedClosesRun

LEMMA RequeueStep ==
  ASSUME IInv, NEW p \in Procs, RequeueTxn(p)
  PROVE  IInv'
<1> DEFINE t == step[p].t
           max == step[p].max
<1>1. t \in Tickets /\ max \in 1..MaxRetries
  BY StepFields DEF IInv, RequeueTxn
<1>2. /\ step' \in [Procs -> Steps]
      /\ deps' \subseteq Tickets \X Tickets
      /\ awaiting' \in [Agents -> SUBSET Tickets]
  BY GoType, IdleType DEF IInv, TypeOK, RequeueTxn
<1>3. CASE recovery[t].escalated /\ RequeueGiveUp(t)
  <2>1. ticket' = ticket
    BY <1>3 DEF RequeueGiveUp
  <2>2. QED
    BY <1>1, <1>2, <1>3, <2>1, GiveUpStep DEF IInv, TypeOK, Recoveries
<1>4. CASE ~recovery[t].escalated /\ RequeueEscalate(t)
  <2>1. ticket' \in [Tickets -> [status: TicketStatus, holder: Agents \cup {NoAgent}]]
    BY <1>1, <1>4, ReturnToPendingType DEF IInv, RequeueEscalate
  <2>2. QED
    BY <1>1, <1>2, <1>4, <2>1, EscalateStep DEF IInv, TypeOK, Recoveries
<1>5. CASE ~BudgetExhausted(recovery[t], max) /\ RequeueRetry(t)
  <2>1. ticket' \in [Tickets -> [status: TicketStatus, holder: Agents \cup {NoAgent}]]
    BY <1>1, <1>5, ReturnToPendingType DEF IInv, RequeueRetry
  <2>2. QED
    BY <1>1, <1>2, <1>5, <2>1, RetryStep DEF IInv, TypeOK, Recoveries
<1>6. QED
  BY <1>3, <1>4, <1>5 DEF RequeueTxn
-----------------------------------------------------------------------------
(* Every other action leaves the recovery rows alone; two write the run.   *)

\* All an action that does not touch recovery must show to preserve IInv.
LEMMA Untouched ==
  ASSUME IInv, recovery' = recovery,
         ticket' \in [Tickets -> [status: TicketStatus, holder: Agents \cup {NoAgent}]],
         deps' \subseteq Tickets \X Tickets,
         run' \in [status: RunStatus, final: Finalization],
         run.status # "active" => run'.status # "active",
         step' \in [Procs -> Steps],
         awaiting' \in [Agents -> SUBSET Tickets]
  PROVE  IInv'
  BY DEF IInv, TypeOK, RecoveryLedger, LedgerRow, ExhaustedClosesRun

LEMMA PlannerStep ==
  ASSUME IInv, NEW p \in Planners, PlannerCall(p)
  PROVE  IInv'
<1>1. CASE \E t \in Tickets, ds \in SUBSET Tickets : CreateTicket(p, t, ds)
  <2>1. PICK t \in Tickets, ds \in SUBSET Tickets : CreateTicket(p, t, ds)
    BY <1>1
  <2>2. [op |-> "create", t |-> t, rest |-> ds] \in Steps
    BY DEF Steps
  <2>3. step' \in [Procs -> Steps]
    BY <2>1, <2>2, GoType, IdleType DEF CreateTicket, IInv, Procs, Agents
  <2>4. ticket' \in [Tickets -> [status: TicketStatus, holder: Agents \cup {NoAgent}]]
    BY <2>1 DEF CreateTicket, InsertTicket, IInv, TypeOK, TicketStatus
  <2>5. QED
    BY <2>1, <2>3, <2>4, Untouched DEF CreateTicket, IInv, TypeOK
<1>2. CASE \E t \in Tickets, max \in 1..MaxRetries : RequeueRead(p, t, max)
  <2>1. PICK t \in Tickets, max \in 1..MaxRetries : RequeueRead(p, t, max)
    BY <1>2
  <2>2. [op |-> "requeue", t |-> t, max |-> max] \in Steps
    BY DEF Steps
  <2>3. step' \in [Procs -> Steps]
    BY <2>1, <2>2, GoType DEF RequeueRead, IInv, Procs, Agents
  <2>4. QED
    BY <2>1, <2>3, Untouched DEF RequeueRead, IInv, TypeOK
<1>3. QED
  BY <1>1, <1>2 DEF PlannerCall

LEMMA CallStep ==
  ASSUME IInv, NEW a \in Agents, WorkerCall(a) \/ AgentCall(a)
  PROVE  IInv'
<1>1. CASE WorkerCall(a)
  <2>1. PICK t \in Tickets : ClaimRead(a, t)
    BY <1>1 DEF WorkerCall
  <2>2. [op |-> "claim", t |-> t] \in Steps
    BY DEF Steps
  <2>3. step' \in [Procs -> Steps]
    BY <2>1, <2>2, GoType DEF ClaimRead, IInv, Procs
  <2>4. QED
    BY <2>1, <2>3, Untouched DEF ClaimRead, IInv, TypeOK
<1>2. CASE AgentCall(a)
  <2>1. PICK t \in Tickets, to \in {"done", "failed"} : CompleteRead(a, t, to)
    BY <1>2 DEF AgentCall
  <2>2. [op |-> "complete", t |-> t, to |-> to, holder |-> ticket[t].holder] \in Steps
    BY DEF Steps, IInv, TypeOK
  <2>3. step' \in [Procs -> Steps]
    BY <2>1, <2>2, GoType DEF CompleteRead, IInv, Procs
  <2>4. QED
    BY <2>1, <2>3, Untouched DEF CompleteRead, IInv, TypeOK
<1>3. QED
  BY <1>1, <1>2

LEMMA ContinueStep ==
  ASSUME IInv, NEW a \in Agents, Continue(a)
  PROVE  IInv'
<1> USE DEF Procs
<1>1. CASE AddDependency(a)
  <2>1. PICK d \in step[a].rest :
          /\ deps' = deps \cup {<<step[a].t, d>>}
          /\ Go(a, IF step[a].rest = {d} THEN Idle ELSE [step[a] EXCEPT !.rest = @ \ {d}])
    BY <1>1 DEF AddDependency
  <2>2. /\ step[a].t \in Tickets /\ d \in Tickets
        /\ [step[a] EXCEPT !.rest = @ \ {d}] \in Steps
    BY <1>1, StepFields DEF AddDependency, IInv
  <2>3. step' \in [Procs -> Steps]
    BY <2>1, <2>2, GoType, IdleType DEF IInv
  <2>4. QED
    BY <1>1, <2>1, <2>2, <2>3, Untouched DEF AddDependency, IInv, TypeOK
<1>2. CASE ClaimWrite(a)
  <2>1. step[a].t \in Tickets
    BY <1>2, StepFields DEF ClaimWrite, IInv
  <2>2. ticket' \in [Tickets -> [status: TicketStatus, holder: Agents \cup {NoAgent}]]
    BY <1>2, <2>1, UpdateTicketType DEF ClaimWrite, IInv, TicketStatus
  <2>3. step' \in [Procs -> Steps]
    BY <1>2, GoType, IdleType DEF ClaimWrite, IInv
  <2>4. QED
    BY <1>2, <2>2, <2>3, Untouched DEF ClaimWrite, IInv, TypeOK
<1>3. CASE CompleteWrite(a)
  <2>1. /\ step[a].t \in Tickets /\ step[a].to \in {"done", "failed"}
        /\ step[a].holder \in Agents \cup {NoAgent}
        /\ ticket[step[a].t].holder \in Agents \cup {NoAgent}
    BY <1>3, StepFields DEF CompleteWrite, IInv, TypeOK
  <2>2. PICK h \in {step[a].holder, ticket[step[a].t].holder} :
          UpdateTicket(step[a].t, step[a].to, h)
    BY <1>3 DEF CompleteWrite
  <2>3. ticket' \in [Tickets -> [status: TicketStatus, holder: Agents \cup {NoAgent}]]
    BY <2>1, <2>2, UpdateTicketType DEF IInv, TicketStatus
  <2>4. awaiting' \in [Agents -> SUBSET Tickets]
    BY <1>3, <2>1 DEF CompleteWrite, IInv, TypeOK
  <2>5. step' \in [Procs -> Steps]
    BY <1>3, GoType, IdleType DEF CompleteWrite, IInv
  <2>6. QED
    BY <1>3, <2>3, <2>4, <2>5, Untouched DEF CompleteWrite, IInv, TypeOK
<1>4. CASE \E t \in Tickets : CompleteCheck(a, t)
  <2>1. PICK t \in Tickets : CompleteCheck(a, t)
    BY <1>4
  <2>2. [op |-> "finish"] \in Steps
    BY DEF Steps
  <2>3. step' \in [Procs -> Steps]
    BY <2>1, <2>2, GoType, IdleType DEF CompleteCheck, IInv
  <2>4. awaiting' \in [Agents -> SUBSET Tickets]
    BY <2>1 DEF CompleteCheck, IInv, TypeOK
  <2>5. QED
    BY <2>1, <2>3, <2>4, Untouched DEF CompleteCheck, IInv, TypeOK
<1>5. CASE FinishRun(a)
  <2>1. /\ run' \in [status: RunStatus, final: Finalization]
        /\ run'.status = "completed"
    BY <1>5, UpdateRunType DEF FinishRun, RunStatus
  <2>2. step' \in [Procs -> Steps]
    BY <1>5, GoType, IdleType DEF FinishRun, IInv
  <2>3. QED
    BY <1>5, <2>1, <2>2, Untouched DEF FinishRun, IInv, TypeOK
<1>6. CASE RequeueTxn(a)
  BY <1>6, RequeueStep
<1>7. QED
  BY <1>1, <1>2, <1>3, <1>4, <1>5, <1>6 DEF Continue

LEMMA EndStep ==
  ASSUME IInv, End
  PROVE  IInv'
<1>0. Operator \in Procs
  BY DEF Procs
<1> PICK to \in CloseAs : EndRead(to) \/ EndDecline(to) \/ EndWrite(to)
  BY DEF End
<1>1. CASE EndRead(to)
  <2>2. [op |-> "close", to |-> to] \in Steps
    BY DEF Steps
  <2>3. step' \in [Procs -> Steps]
    BY <1>0, <1>1, <2>2, GoType DEF EndRead, IInv
  <2>4. QED
    BY <1>1, <2>3, Untouched DEF EndRead, IInv, TypeOK
<1>2. CASE EndDecline(to)
  <2>1. step' \in [Procs -> Steps]
    BY <1>0, <1>2, GoType, IdleType DEF EndDecline, IInv
  <2>2. QED
    BY <1>2, <2>1, Untouched DEF EndDecline, IInv, TypeOK
<1>3. CASE EndWrite(to)
  <2>1. step' \in [Procs -> Steps]
    BY <1>0, <1>3, GoType, IdleType DEF EndWrite, IInv
  <2>3. /\ run' \in [status: RunStatus, final: Finalization]
        /\ run'.status # "active"
    BY <1>3 DEF EndWrite, IInv, TypeOK, RunStatus
  <2>4. QED
    BY <1>3, <2>1, <2>3, Untouched DEF EndWrite, IInv, TypeOK
<1>4. QED
  BY <1>1, <1>2, <1>3

LEMMA CrashStep ==
  ASSUME IInv, NEW a \in Agents, Crash(a)
  PROVE  IInv'
<1>1. step' \in [Procs -> Steps]
  BY GoType, IdleType DEF Crash, IInv, Procs
<1>2. awaiting' \in [Agents -> SUBSET Tickets]
  BY DEF Crash, IInv, TypeOK
<1>3. QED
  BY <1>1, <1>2, Untouched DEF Crash, IInv, TypeOK
-----------------------------------------------------------------------------
LEMMA Initially == Init => IInv
<1> SUFFICES ASSUME Init PROVE IInv
  OBVIOUS
<1>1. TypeOK
  BY IdleType DEF Init, TypeOK, TicketStatus, RunStatus, Finalization, RetryCap
<1>2. RecoveryLedger /\ ExhaustedClosesRun
  BY DEF Init, RecoveryLedger, LedgerRow, ExhaustedClosesRun
<1>3. QED
  BY <1>1, <1>2 DEF IInv

LEMMA Inductive == IInv /\ [Next]_vars => IInv'
<1> SUFFICES ASSUME IInv, [Next]_vars PROVE IInv'
  OBVIOUS
<1>1. CASE \E p \in Planners : PlannerCall(p)
  BY <1>1, PlannerStep
<1>2. CASE \E w \in Workers : WorkerCall(w)
  BY <1>2, CallStep DEF Agents
<1>3. CASE \E a \in Agents : AgentCall(a) \/ Continue(a)
  BY <1>3, CallStep, ContinueStep
<1>4. CASE \E a \in Agents \cap MayCrash : Crash(a)
  BY <1>4, CrashStep
<1>5. CASE End
  BY <1>5, EndStep
<1>6. CASE UNCHANGED vars
  BY <1>6 DEF vars, IInv, TypeOK, RecoveryLedger, LedgerRow, ExhaustedClosesRun
<1>7. QED
  BY <1>1, <1>2, <1>3, <1>4, <1>5, <1>6 DEF Next

THEOREM Invariance == Spec => []IInv
  BY Initially, Inductive, PTL DEF Spec

\* Every reachable state is well typed: no stale write, crash or close leaves
\* a row or a suspended handler outside the values the code handles.
THEOREM TypeCorrect == Spec => []TypeOK
<1>1. IInv => TypeOK
  BY DEF IInv
<1>2. QED
  BY <1>1, Invariance, PTL

\* However many planners race on ticket_requeue, a ticket goes back to work at
\* most 2 * MaxRetries + 1 times and is given up only after its escalation.
THEOREM BudgetHolds == Spec => []RecoveryBudget
<1>1. ASSUME IInv PROVE RecoveryBudget
  <2> SUFFICES ASSUME NEW t \in Tickets
               PROVE  /\ recovery[t].generation <= 2 * MaxRetries + 1
                      /\ recovery[t].exhausted => recovery[t].escalated
    BY DEF RecoveryBudget
  <2>1. recovery[t] \in Recoveries /\ LedgerRow(recovery[t])
    BY <1>1 DEF IInv, TypeOK, RecoveryLedger, Recoveries
  <2>2. QED
    BY <2>1 DEF LedgerRow, Recoveries, RetryCap
<1>2. QED
  BY <1>1, Invariance, PTL

\* Giving a ticket up closes its run in the same transaction, and no later
\* write of any process activates the run again.
THEOREM ExhaustedCloses == Spec => []ExhaustedClosesRun
<1>1. IInv => ExhaustedClosesRun
  BY DEF IInv
<1>2. QED
  BY <1>1, Invariance, PTL
-----------------------------------------------------------------------------
(* Action properties *)

LEMMA ContinueKeepsClosed ==
  ASSUME IInv, NEW a \in Agents, Continue(a), run.status # "active"
  PROVE  run'.status # "active"
<1>1. CASE FinishRun(a)
  BY <1>1, UpdateRunType DEF FinishRun, RunStatus
<1>2. CASE RequeueTxn(a)
  <2>1. run' = run
    BY <1>2 DEF RequeueTxn, RequeueGiveUp, RequeueEscalate, RequeueRetry
  <2>2. QED
    BY <2>1
<1>3. QED
  BY <1>1, <1>2
  DEF Continue, AddDependency, ClaimWrite, CompleteWrite, CompleteCheck

\* Whatever is called, written late or lost in a crash, a run that left
\* "active" is never active again.
THEOREM ClosedRunStaysClosed == Spec => NeverReopened
<1>1. ASSUME IInv, [Next]_vars, run.status # "active"
      PROVE  run'.status # "active"
  <2>1. CASE \E a \in Agents : Continue(a)
    BY <1>1, <2>1, ContinueKeepsClosed
  <2>2. CASE \E to \in CloseAs : EndWrite(to)
    BY <1>1, <2>2 DEF EndWrite, IInv, TypeOK
  <2>3. CASE UNCHANGED run
    BY <1>1, <2>3
  <2>4. QED
    BY <1>1, <2>1, <2>2, <2>3
    DEF Next, PlannerCall, WorkerCall, AgentCall, End, Crash, CreateTicket, RequeueRead,
        ClaimRead, CompleteRead, EndRead, EndDecline, vars
<1>2. QED
  BY <1>1, Invariance, PTL DEF Spec, NeverReopened

\* A step of agent a that leaves ticket alone, or writes it as a handler does.
LEMMA TicketWrites ==
  ASSUME IInv, NEW a \in Agents, Continue(a)
  PROVE  \/ ticket' = ticket
         \/ \E t \in Tickets, s \in {"running", "done", "failed"}, h \in Agents \cup {NoAgent} :
              UpdateTicket(t, s, h)
         \/ \E t \in Tickets : ticket[t].status = "failed" /\ UpdateTicket(t, "pending", NoAgent)
<1>0. a \in Procs
  BY DEF Procs
<1>1. CASE ClaimWrite(a)
  BY <1>0, <1>1, StepFields DEF ClaimWrite, IInv
<1>2. CASE CompleteWrite(a)
  <2>1. /\ step[a].t \in Tickets /\ step[a].to \in {"done", "failed"}
        /\ step[a].holder \in Agents \cup {NoAgent}
        /\ ticket[step[a].t].holder \in Agents \cup {NoAgent}
    BY <1>0, <1>2, StepFields DEF CompleteWrite, IInv, TypeOK
  <2>2. QED
    BY <1>2, <2>1 DEF CompleteWrite
<1>3. CASE RequeueTxn(a)
  <2>1. step[a].t \in Tickets
    BY <1>0, <1>3, StepFields DEF RequeueTxn, IInv
  <2>2. QED
    BY <1>3, <2>1 DEF RequeueTxn, RequeueGiveUp, RequeueEscalate, RequeueRetry, ReturnToPending
<1>4. QED
  BY <1>1, <1>2, <1>3 DEF Continue, AddDependency, CompleteCheck, FinishRun

\* A requeue decided on a stale read never takes a running or finished ticket
\* from its holder: the status test is repeated inside the UPDATE.
THEOREM RequeueTakesOnlyFailed == Spec => OnlyFailedIsRequeued
<1> DEFINE P(t) == /\ ticket[t].status \notin {"absent", "pending"}
                   /\ ticket'[t].status = "pending"
                   => ticket[t].status = "failed"
<1>1. ASSUME IInv, [Next]_vars PROVE \A t \in Tickets : P(t)
  <2>1. CASE \E a \in Agents : Continue(a)
    <3>1. PICK a \in Agents : Continue(a)
      BY <2>1
    <3>2. CASE ticket' = ticket
      BY <3>2
    <3>3. CASE \E t \in Tickets, s \in {"running", "done", "failed"}, h \in Agents \cup {NoAgent} :
                 UpdateTicket(t, s, h)
      BY <1>1, <3>3 DEF UpdateTicket, IInv, TypeOK
    <3>4. CASE \E t \in Tickets : ticket[t].status = "failed" /\ UpdateTicket(t, "pending", NoAgent)
      BY <1>1, <3>4 DEF UpdateTicket, IInv, TypeOK
    <3>5. QED
      BY <1>1, <3>1, <3>2, <3>3, <3>4, TicketWrites
  <2>2. CASE \E p \in Planners, t \in Tickets, ds \in SUBSET Tickets : CreateTicket(p, t, ds)
    BY <1>1, <2>2 DEF CreateTicket, InsertTicket, IInv, TypeOK
  <2>3. CASE UNCHANGED ticket
    BY <2>3
  <2>4. QED
    BY <1>1, <2>1, <2>2, <2>3
    DEF Next, PlannerCall, WorkerCall, AgentCall, End, Crash, RequeueRead, ClaimRead,
        CompleteRead, EndRead, EndDecline, EndWrite, vars
<1>2. QED
  BY <1>1, Invariance, PTL DEF Spec, OnlyFailedIsRequeued
-----------------------------------------------------------------------------
(* HeldByQualified: a claim carries its qualification check in `step', and *)
(* qualification does not change between the check and the write.          *)

ClaimsQualified ==
  \A w \in Agents : step[w].op = "claim" => w \in Qualified[step[w].t]

HInv == IInv /\ ClaimsQualified /\ HeldByQualified

LEMMA HeldStep == HInv /\ [Next]_vars => HInv'
<1> SUFFICES ASSUME HInv, [Next]_vars PROVE ClaimsQualified' /\ HeldByQualified'
  BY Inductive DEF HInv
<1> USE DEF HInv, IInv, TypeOK, Procs
<1>1. ASSUME NEW a \in Agents, Continue(a)
      PROVE  ClaimsQualified' /\ HeldByQualified'
  <2>1. \A w \in Agents : step'[w].op = "claim" => step'[w] = step[w]
    <3>1. CASE AddDependency(a)
      <4>1. step[a] \in [op: {"create"}, t: Tickets, rest: SUBSET Tickets]
        BY <3>1 DEF AddDependency, Steps, Idle
      <4>2. \A d : [step[a] EXCEPT !.rest = @ \ {d}].op = "create"
        BY <4>1
      <4>3. QED
        BY <3>1, <4>2 DEF AddDependency, Go, Idle
    <3>2. CASE \E s \in {Idle, [op |-> "finish"]} : Go(a, s)
      BY <3>2 DEF Go, Idle
    <3>3. QED
      BY <1>1, <3>1, <3>2
      DEF Continue, ClaimWrite, CompleteWrite, CompleteCheck, FinishRun, RequeueTxn
  <2>2. CASE ClaimWrite(a)
    <3>1. step[a].t \in Tickets
      BY <2>2, StepFields DEF ClaimWrite
    <3>2. ticket' = [ticket EXCEPT ![step[a].t] = [status |-> "running", holder |-> a]]
      BY <2>2 DEF ClaimWrite, UpdateTicket
    <3>3. a \in Qualified[step[a].t]
      BY <2>2 DEF ClaimWrite, ClaimsQualified
    <3>4. QED
      BY <2>1, <3>1, <3>2, <3>3 DEF ClaimsQualified, HeldByQualified
  <2>3. CASE CompleteWrite(a)
    <3>1. step[a].t \in Tickets /\ step[a].to \in {"done", "failed"}
      BY <2>3, StepFields DEF CompleteWrite
    <3>2. QED
      BY <2>1, <2>3, <3>1 DEF CompleteWrite, UpdateTicket, ClaimsQualified, HeldByQualified
  <2>4. CASE RequeueTxn(a)
    <3>1. step[a].t \in Tickets
      BY <2>4, StepFields DEF RequeueTxn
    <3>2. QED
      BY <2>1, <2>4, <3>1 DEF RequeueTxn, RequeueGiveUp, RequeueEscalate, RequeueRetry,
                              ReturnToPending, UpdateTicket, ClaimsQualified, HeldByQualified
  <2>5. QED
    BY <1>1, <2>1, <2>2, <2>3, <2>4
    DEF Continue, AddDependency, CompleteCheck, FinishRun, ClaimsQualified, HeldByQualified
<1>2. CASE \E p \in Planners : PlannerCall(p)
  <2>1. CASE \E p \in Planners, t \in Tickets, ds \in SUBSET Tickets : CreateTicket(p, t, ds)
    <3>1. ClaimsQualified'
      BY <2>1 DEF CreateTicket, Go, Idle, ClaimsQualified
    <3>2. HeldByQualified'
      BY <2>1 DEF CreateTicket, InsertTicket, HeldByQualified
    <3>3. QED
      BY <3>1, <3>2
  <2>2. CASE \E p \in Planners, t \in Tickets, max \in 1..MaxRetries : RequeueRead(p, t, max)
    BY <2>2 DEF RequeueRead, Go, ClaimsQualified, HeldByQualified
  <2>3. QED
    BY <1>2, <2>1, <2>2 DEF PlannerCall
<1>3. CASE \E w \in Workers : WorkerCall(w)
  BY <1>3 DEF WorkerCall, ClaimRead, Go, ClaimsQualified, HeldByQualified
<1>4. CASE \E a \in Agents : AgentCall(a)
  BY <1>4 DEF AgentCall, CompleteRead, Go, ClaimsQualified, HeldByQualified
<1>5. CASE End \/ \E a \in Agents \cap MayCrash : Crash(a)
  BY <1>5 DEF End, EndRead, EndDecline, EndWrite, Crash, Go, Idle, ClaimsQualified,
              HeldByQualified
<1>6. CASE UNCHANGED vars
  BY <1>6 DEF vars, ClaimsQualified, HeldByQualified
<1>7. QED
  BY <1>1, <1>2, <1>3, <1>4, <1>5, <1>6 DEF Next

\* The holder of a running ticket satisfies its capabilities and playbook,
\* even when its claim was written on an old read: two workers may race for
\* the ticket, an unqualified one never wins.
THEOREM RunningIsQualified == Spec => []HeldByQualified
<1>1. Init => HInv
  <2> SUFFICES ASSUME Init PROVE ClaimsQualified /\ HeldByQualified
    BY Initially DEF HInv
  <2>1. QED
    BY DEF Init, ClaimsQualified, HeldByQualified, Procs, Idle
<1>2. HInv => HeldByQualified
  BY DEF HInv
<1>3. QED
  BY <1>1, <1>2, HeldStep, PTL DEF Spec
-----------------------------------------------------------------------------
(* CompletionOwed needs no strengthening beyond the type invariant, but it *)
(* needs every agent to survive.                                           *)

LEMMA OwedByContinue ==
  ASSUME IInv, CompletionOwed, NEW a \in Agents, Continue(a), AllDone', run'.status = "active"
  PROVE  \E b \in Agents : Owes(b)'
<1> USE DEF IInv, TypeOK, Procs
<1>1. run.status = "active"
  BY ContinueKeepsClosed
<1>2. CASE CompleteWrite(a) /\ step[a].to = "done"
  <2>1. step[a].t \in awaiting'[a]
    BY <1>2, StepFields DEF CompleteWrite
  <2>2. QED
    BY <2>1 DEF Owes
<1>3. CASE CompleteWrite(a) /\ step[a].to # "done"
  <2>1. step[a].t \in Tickets /\ step[a].to = "failed"
    BY <1>3, StepFields DEF CompleteWrite
  <2>2. ticket'[step[a].t].status = "failed"
    BY <1>3, <2>1 DEF CompleteWrite, UpdateTicket
  <2>3. QED
    BY <2>1, <2>2 DEF AllDone, Created, Done
<1>4. CASE ClaimWrite(a)
  <2>1. step[a].t \in Tickets
    BY <1>4, StepFields DEF ClaimWrite
  <2>2. ticket'[step[a].t].status = "running"
    BY <1>4, <2>1 DEF ClaimWrite, UpdateTicket
  <2>3. QED
    BY <2>1, <2>2 DEF AllDone, Created, Done
<1>5. CASE RequeueTxn(a)
  <2>1. step[a].t \in Tickets
    BY <1>5, StepFields DEF RequeueTxn
  <2>2. ticket' = ticket \/ ticket'[step[a].t].status = "pending"
    BY <1>5, <2>1 DEF RequeueTxn, RequeueGiveUp, RequeueEscalate, RequeueRetry, ReturnToPending,
                      UpdateTicket
  <2>3. ticket' = ticket
    BY <2>1, <2>2 DEF AllDone, Created, Done
  <2>4. PICK b \in Agents : Owes(b)
    BY <1>1, <2>3 DEF CompletionOwed, AllDone, Created, Done
  <2>5. Owes(b)'
    BY <1>5, <2>4 DEF RequeueTxn, Go, Owes
  <2>6. QED
    BY <2>5
<1>6. CASE AddDependency(a) \/ (\E t \in Tickets : CompleteCheck(a, t))
  <2>1. ticket' = ticket /\ AllDone
    BY <1>6 DEF AddDependency, CompleteCheck, AllDone, Created, Done
  <2>2. PICK b \in Agents : Owes(b)
    BY <1>1, <2>1 DEF CompletionOwed
  <2>3. CASE AddDependency(a)
    BY <2>2, <2>3 DEF AddDependency, Go, Owes
  <2>4. CASE \E t \in Tickets : CompleteCheck(a, t)
    BY <2>1, <2>4 DEF CompleteCheck, Go, Owes
  <2>5. QED
    BY <1>6, <2>3, <2>4
<1>7. CASE FinishRun(a)
  BY <1>7, UpdateRunType DEF FinishRun, RunStatus
<1>8. QED
  BY <1>2, <1>3, <1>4, <1>5, <1>6, <1>7 DEF Continue

\* As long as no agent dies, no pair of completions racing on the last two
\* tickets leaves the run active with nobody left to close it.
THEOREM CompletionIsOwed ==
  ASSUME MayCrash \cap Agents = {}
  PROVE  Spec => []CompletionOwed
<1>1. Init => CompletionOwed
  BY DEF Init, CompletionOwed, AllDone, Created
<1>2. ASSUME IInv, CompletionOwed, [Next]_vars PROVE CompletionOwed'
  <2> SUFFICES ASSUME AllDone', run'.status = "active" PROVE \E b \in Agents : Owes(b)'
    BY DEF CompletionOwed
  <2> USE DEF IInv, TypeOK, Procs
  <2>1. CASE \E a \in Agents : Continue(a)
    BY <1>2, <2>1, OwedByContinue
  <2>2. CASE \E p \in Planners, t \in Tickets, ds \in SUBSET Tickets : CreateTicket(p, t, ds)
    <3>1. PICK p \in Planners, t \in Tickets, ds \in SUBSET Tickets : CreateTicket(p, t, ds)
      BY <2>2
    <3>2. ticket'[t].status = "pending"
      BY <1>2, <3>1 DEF CreateTicket, InsertTicket
    <3>3. QED
      BY <3>2 DEF AllDone, Created, Done
  <2>3. CASE \E to \in CloseAs : EndWrite(to)
    BY <1>2, <2>3 DEF EndWrite
  <2>4. CASE /\ ticket' = ticket /\ run' = run /\ awaiting' = awaiting
             /\ \A b \in Agents : step[b].op = "finish" => step'[b] = step[b]
    <3>1. AllDone
      BY <2>4 DEF AllDone, Created, Done
    <3>2. QED
      BY <1>2, <2>4, <3>1 DEF CompletionOwed, Owes
  <2>5. ASSUME NEW p \in Planners, NEW t \in Tickets, NEW max \in 1..MaxRetries,
               RequeueRead(p, t, max)
        PROVE  \E b \in Agents : Owes(b)'
    BY <1>2, <2>4, <2>5 DEF RequeueRead, Go, Idle
  <2>6. ASSUME NEW w \in Agents, WorkerCall(w) \/ AgentCall(w)
        PROVE  \E b \in Agents : Owes(b)'
    BY <1>2, <2>4, <2>6 DEF WorkerCall, ClaimRead, AgentCall, CompleteRead, Go, Idle
  <2>7. ASSUME \E to \in CloseAs : EndDecline(to) \/ EndRead(to)
        PROVE  \E b \in Agents : Owes(b)'
    BY <1>2, <2>4, <2>7 DEF EndRead, EndDecline, Go
  <2>8. CASE UNCHANGED vars
    BY <2>4, <2>8 DEF vars
  <2>9. QED
    BY <1>2, <2>1, <2>2, <2>3, <2>5, <2>6, <2>7, <2>8 DEF Next, PlannerCall, End, Agents
<1>3. QED
  BY <1>1, <1>2, Invariance, PTL DEF Spec
-----------------------------------------------------------------------------
(* DependenciesAcyclic: edges only join tickets that exist, so a new       *)
(* ticket is nobody's dependency, and its own edges are final.             *)

Edges(t) == DepsOf(t) \cup Promised(t)

EdgesExist == \A t, d \in Tickets : d \in Edges(t) => t \in Created /\ d \in Created

GInv == IInv /\ EdgesExist /\ DependenciesAcyclic

\* A step that loses no ticket and adds no edge preserves both parts.
LEMMA FewerEdges ==
  ASSUME GInv, Created \subseteq Created', \A t \in Tickets : Edges(t)' \subseteq Edges(t)
  PROVE  EdgesExist' /\ DependenciesAcyclic'
<1>1. EdgesExist'
  BY DEF GInv, EdgesExist
<1>2. DependenciesAcyclic'
  <2> SUFFICES ASSUME NEW S \in SUBSET Tickets, S # {}
               PROVE  \E t \in S : Edges(t)' \cap S = {}
    BY DEF DependenciesAcyclic, Edges
  <2>1. PICK t \in S : Edges(t) \cap S = {}
    BY DEF GInv, DependenciesAcyclic, Edges
  <2>2. QED
    BY <2>1
<1>3. QED
  BY <1>1, <1>2

\* The only step that adds edges: those of a ticket that did not exist.
LEMMA NewEdges ==
  ASSUME GInv, NEW p \in Planners, NEW t \in Tickets, NEW ds \in SUBSET Tickets,
         CreateTicket(p, t, ds)
  PROVE  EdgesExist' /\ DependenciesAcyclic'
<1> USE DEF GInv, IInv, TypeOK, Procs, Agents
<1>1. t \notin Created /\ ds \subseteq Created
  BY DEF CreateTicket, Created
<1>2. Created' = Created \cup {t}
  BY DEF CreateTicket, InsertTicket, Created
<1>3. \A u \in Tickets : u # t => Edges(u)' \subseteq Edges(u)
  <2> SUFFICES ASSUME NEW u \in Tickets, u # t, NEW d \in Edges(u)'
               PROVE  d \in Edges(u)
    OBVIOUS
  <2>1. CASE d \in DepsOf(u)'
    BY <2>1 DEF CreateTicket, DepsOf, Edges
  <2>2. CASE d \in Promised(u)'
    <3>1. PICK q \in Procs : step'[q].op = "create" /\ step'[q].t = u /\ d \in step'[q].rest
      BY <2>2 DEF Promised
    <3>2. q # p
      BY <3>1 DEF CreateTicket, Go, Idle
    <3>3. QED
      BY <3>1, <3>2 DEF CreateTicket, Go, Promised, Edges
  <2>3. QED
    BY <2>1, <2>2 DEF Edges
<1>4. Edges(t)' \subseteq ds
  <2> SUFFICES ASSUME NEW d \in Edges(t)' PROVE d \in ds
    OBVIOUS
  <2>1. \A q \in Procs : step[q].op = "create" /\ step[q].t = t => step[q].rest = {}
    <3> SUFFICES ASSUME NEW q \in Procs, step[q].op = "create", step[q].t = t,
                        NEW e \in step[q].rest
                 PROVE  FALSE
      OBVIOUS
    <3>1. e \in Tickets /\ e \in Edges(t)
      BY StepFields DEF Edges, Promised
    <3>2. QED
      BY <1>1, <3>1 DEF EdgesExist
  <2>2. CASE d \in DepsOf(t)'
    BY <1>1, <2>2 DEF CreateTicket, DepsOf, EdgesExist, Edges
  <2>3. CASE d \in Promised(t)'
    <3>1. PICK q \in Procs : step'[q].op = "create" /\ step'[q].t = t /\ d \in step'[q].rest
      BY <2>3 DEF Promised
    <3>2. CASE q = p
      BY <3>1, <3>2 DEF CreateTicket, Go, Idle
    <3>3. CASE q # p
      BY <2>1, <3>1, <3>3 DEF CreateTicket, Go
    <3>4. QED
      BY <3>2, <3>3
  <2>4. QED
    BY <2>2, <2>3 DEF Edges
<1>5. EdgesExist'
  <2> SUFFICES ASSUME NEW u \in Tickets, NEW d \in Tickets, d \in Edges(u)'
               PROVE  u \in Created' /\ d \in Created'
    BY DEF EdgesExist
  <2>1. CASE u = t
    BY <1>1, <1>2, <1>4, <2>1
  <2>2. CASE u # t
    BY <1>2, <1>3, <2>2 DEF EdgesExist
  <2>3. QED
    BY <2>1, <2>2
<1>6. DependenciesAcyclic'
  <2> SUFFICES ASSUME NEW S \in SUBSET Tickets, S # {}
               PROVE  \E u \in S : Edges(u)' \cap S = {}
    BY DEF DependenciesAcyclic, Edges
  <2>1. CASE S = {t}
    BY <1>1, <1>4, <2>1
  <2>2. CASE S # {t}
    <3>1. S \ {t} # {}
      BY <2>2
    <3>2. PICK u \in S \ {t} : Edges(u) \cap (S \ {t}) = {}
      BY <3>1 DEF DependenciesAcyclic, Edges
    <3>3. t \notin Edges(u)
      BY <1>1 DEF EdgesExist
    <3>4. Edges(u)' \cap S = {}
      BY <1>3, <3>2, <3>3
    <3>5. QED
      BY <3>2, <3>4
  <2>3. QED
    BY <2>1, <2>2
<1>7. QED
  BY <1>5, <1>6

\* No ticket stops existing, whatever a running handler does.
LEMMA ContinueCreated ==
  ASSUME IInv, NEW a \in Agents, Continue(a)
  PROVE  Created \subseteq Created'
<1>1. CASE ticket' = ticket
  BY <1>1 DEF Created
<1>2. CASE \E t \in Tickets, s \in {"running", "done", "failed"}, h \in Agents \cup {NoAgent} :
             UpdateTicket(t, s, h)
  BY <1>2 DEF UpdateTicket, Created, IInv, TypeOK
<1>3. CASE \E t \in Tickets : ticket[t].status = "failed" /\ UpdateTicket(t, "pending", NoAgent)
  BY <1>3 DEF UpdateTicket, Created, IInv, TypeOK
<1>4. QED
  BY <1>1, <1>2, <1>3, TicketWrites

\* An agent that moves to a stretch other than a create promises nothing more.
LEMMA NothingPromised ==
  ASSUME IInv, NEW p \in Procs, NEW s, Go(p, s), s.op # "create", deps' = deps, NEW t \in Tickets
  PROVE  Edges(t)' \subseteq Edges(t)
<1> SUFFICES ASSUME NEW d \in Promised(t)' PROVE d \in Promised(t)
  BY DEF Edges, DepsOf
<1>1. PICK q \in Procs : step'[q].op = "create" /\ step'[q].t = t /\ d \in step'[q].rest
  BY DEF Promised
<1>2. q # p
  BY <1>1 DEF Go, IInv, TypeOK
<1>3. step'[q] = step[q]
  BY <1>1, <1>2 DEF Go, IInv, TypeOK
<1>4. QED
  BY <1>1, <1>3 DEF Promised

LEMMA InsertedEdge ==
  ASSUME IInv, NEW a \in Agents, AddDependency(a), NEW t \in Tickets
  PROVE  Edges(t)' \subseteq Edges(t)
<1> USE DEF IInv, TypeOK, Procs
<1>1. step[a] \in [op: {"create"}, t: Tickets, rest: SUBSET Tickets]
  BY DEF AddDependency, Steps, Idle
<1>2. PICK e \in step[a].rest :
        /\ deps' = deps \cup {<<step[a].t, e>>}
        /\ Go(a, IF step[a].rest = {e} THEN Idle ELSE [step[a] EXCEPT !.rest = @ \ {e}])
  BY DEF AddDependency
<1>3. step[a].t = t => step[a].rest \subseteq Promised(t)
  BY <1>1 DEF Promised
<1>4. DepsOf(t)' \subseteq Edges(t)
  BY <1>2, <1>3 DEF DepsOf, Edges
<1>5. Promised(t)' \subseteq Edges(t)
  <2> SUFFICES ASSUME NEW d \in Promised(t)' PROVE d \in Promised(t)
    BY DEF Edges
  <2>1. PICK q \in Procs : step'[q].op = "create" /\ step'[q].t = t /\ d \in step'[q].rest
    BY DEF Promised
  <2>2. CASE q = a
    <3>1. step'[a] = [step[a] EXCEPT !.rest = @ \ {e}]
      BY <1>2, <2>1, <2>2 DEF Go, Idle
    <3>2. step[a].t = t /\ d \in step[a].rest
      BY <1>1, <2>1, <2>2, <3>1
    <3>3. QED
      BY <1>3, <3>2
  <2>3. CASE q # a
    BY <1>2, <2>1, <2>3 DEF Go, Promised
  <2>4. QED
    BY <2>2, <2>3
<1>6. QED
  BY <1>4, <1>5 DEF Edges

LEMMA GraphStep == GInv /\ [Next]_vars => GInv'
<1> SUFFICES ASSUME GInv, [Next]_vars PROVE EdgesExist' /\ DependenciesAcyclic'
  BY Inductive DEF GInv
<1>0. IInv
  BY DEF GInv
<1>1. CASE \E p \in Planners, t \in Tickets, ds \in SUBSET Tickets : CreateTicket(p, t, ds)
  BY <1>1, NewEdges
<1>2. CASE \E a \in Agents : AddDependency(a)
  BY <1>0, <1>2, FewerEdges, InsertedEdge DEF AddDependency, Created
<1>3. ASSUME NEW p \in Procs, NEW s, Go(p, s), s.op # "create", deps' = deps,
             Created \subseteq Created'
      PROVE  EdgesExist' /\ DependenciesAcyclic'
  BY <1>0, <1>3, FewerEdges, NothingPromised
<1>4. ASSUME NEW a \in Agents, Continue(a), ~AddDependency(a)
      PROVE  EdgesExist' /\ DependenciesAcyclic'
  <2>1. Created \subseteq Created'
    BY <1>0, <1>4, ContinueCreated
  <2>2. \E s \in {Idle, [op |-> "finish"]} : Go(a, s) /\ deps' = deps
    BY <1>4 DEF Continue, ClaimWrite, CompleteWrite, CompleteCheck, FinishRun, RequeueTxn
  <2>3. \A s \in {Idle, [op |-> "finish"]} : s.op # "create"
    BY DEF Idle
  <2>4. QED
    BY <1>3, <2>1, <2>2, <2>3 DEF Procs
<1>5. CASE \E p \in Planners, t \in Tickets, max \in 1..MaxRetries : RequeueRead(p, t, max)
  BY <1>3, <1>5 DEF RequeueRead, Created, Procs, Agents
<1>6. CASE \E a \in Agents : WorkerCall(a) \/ AgentCall(a)
  BY <1>3, <1>6 DEF WorkerCall, AgentCall, ClaimRead, CompleteRead, Created, Procs
<1>7. CASE End \/ \E a \in Agents \cap MayCrash : Crash(a)
  BY <1>3, <1>7 DEF End, EndRead, EndDecline, EndWrite, Crash, Created, Procs, Idle
<1>8. CASE UNCHANGED vars
  <2>1. \A t \in Tickets : Edges(t)' = Edges(t)
    BY <1>8 DEF vars, Edges, DepsOf, Promised
  <2>2. QED
    BY <1>8, <2>1, FewerEdges DEF vars, Created
<1>9. QED
  BY <1>1, <1>2, <1>4, <1>5, <1>6, <1>7, <1>8 DEF Next, PlannerCall, Agents

\* ticket_create only accepts dependencies that exist, so the graph of any
\* number of tickets, created by any number of planners at once, with the
\* edges they are still inserting, has no cycle.
THEOREM GraphIsAcyclic == Spec => []DependenciesAcyclic
<1>1. Init => GInv
  <2> SUFFICES ASSUME Init PROVE EdgesExist /\ DependenciesAcyclic
    BY Initially DEF GInv
  <2>1. \A t \in Tickets : Edges(t) = {}
    BY DEF Init, Edges, DepsOf, Promised, Idle
  <2>2. QED
    BY <2>1 DEF EdgesExist, DependenciesAcyclic, Edges
<1>2. GInv => DependenciesAcyclic
  BY DEF GInv
<1>3. QED
  BY <1>1, <1>2, GraphStep, PTL DEF Spec
-----------------------------------------------------------------------------
(* Supervision                                                             *)

\* A sweep that still has tickets to fail was started with no open hold: one that
\* is open now was opened since.
SweepsUnheld ==
  /\ orphans \in [Planners -> SUBSET Tickets]
  /\ \A p \in Planners : orphans[p] # {} /\ hold => p \in beset

\* Steps that start no sweep and open no hold.
LEMMA SweepShrinks ==
  ASSUME SweepsUnheld, orphans' \in [Planners -> SUBSET Tickets],
         \A p \in Planners : orphans'[p] \subseteq orphans[p],
         hold' => hold, UNCHANGED beset \/ SweepsOn
  PROVE  SweepsUnheld'
  BY DEF SweepsUnheld, SweepsOn

LEMMA SweepStep ==
  ASSUME SweepsUnheld, NEW p \in Planners, Sweep(p)
  PROVE  SweepsUnheld'
<1>1. CASE SweepRead(p)
  <2>1. Orphaned(p) \ alerted[p] \in SUBSET Tickets
    BY DEF Orphaned
  <2>2. QED
    BY <1>1, <2>1 DEF SweepRead, SweepsUnheld, holding
<1>2. CASE \E t \in Tickets : SweepWrite(p, t) \/ SweepBusy(p, t)
  BY <1>2, SweepShrinks DEF SweepWrite, SweepBusy, SweepsUnheld
<1>3. QED
  BY <1>1, <1>2 DEF Sweep

LEMMA NetworkStep ==
  ASSUME SweepsUnheld, Network
  PROVE  SweepsUnheld'
<1>1. CASE UNCHANGED <<orphans, hold, beset>>
  BY <1>1, SweepShrinks DEF SweepsUnheld
<1>2. CASE \E p \in Planners : PlannerRestarts(p)
  BY <1>2, SweepShrinks DEF PlannerRestarts, SweepsUnheld
<1>3. QED
  BY <1>1, <1>2
  DEF Network, Drop, Reconnect, Start, Heartbeat, WillFires, SeeCard, StalePrune, WorkerDies,
      ShutDown, holding

LEMMA HoldStep ==
  ASSUME SweepsUnheld, [SupNext]_svars
  PROVE  SweepsUnheld'
<1>1. CASE \E a \in Openers : OpenHold(a)
  BY <1>1 DEF OpenHold, SweepsUnheld
<1>2. CASE \E p \in Planners : Sweep(p)
  BY <1>2, SweepStep
<1>3. CASE Network
  BY <1>3, NetworkStep
<1>4. CASE UNCHANGED <<orphans, hold, beset>>
  BY <1>4, SweepShrinks DEF SweepsUnheld
<1>5. CASE ResolveHold
  BY <1>5 DEF ResolveHold, SweepsUnheld
<1>6. CASE UNCHANGED svars
  BY <1>4, <1>6 DEF svars, supervision
<1>7. QED
  BY <1>1, <1>2, <1>3, <1>4, <1>5, <1>6
  DEF SupNext, AgentCalls, AgentContinues, WritesTicket, PublishSettles, Progress, supervision,
      holding

\* With any number of planners, and whichever processes open holds, whatever
\* dies, reconnects, is answered or opened again in between, a sweep fails a
\* ticket while a decision hold of the run is open only if a hold was opened
\* after the sweep had read them.
THEOREM HoldsPauseTheSweep == SupSpec => HoldPausesSweep
<1>1. SupInit => SweepsUnheld
  BY DEF SupInit, SweepsUnheld
<1>2. SweepsUnheld /\ [SupNext]_svars => SweepsUnheld'
  BY HoldStep
<1>3. ASSUME SweepsUnheld
      PROVE  \A p \in Planners, t \in Tickets : SweepFails(p, t) /\ hold => p \in beset
  BY <1>3 DEF SweepsUnheld, SweepFails
<1>4. QED
  BY <1>1, <1>2, <1>3, PTL DEF SupSpec, HoldPausesSweep
=============================================================================
