# A TLA+ model of yano-orchestrator

yano-orchestrator runs a team of Pi instances (a planner, coders, reviewers,
effect adapters) on one project. Every instance is an operating-system process
that loads `extensions/orchestrator.ts`; the processes share one SQLite file and
talk over an MQTT broker. This directory models the part of it that decides who
works on what and when a piece of work is over: tickets, runs, recovery,
supervision, the Playbook runtime, the decisions asked of a human, the
delegations between instances, and the services around them: the scheduler, the
feedback queue, the worktrees, the files that coordinate a task, the watcher that
brings a missing planner back, the auto-improver and the architect of Playbooks.

## Inventory

| Component | State | Operations | Hard part |
|---|---|---|---|
| Ticket engine (`orchestrator-tools/tickets.ts`, `ticket-scheduling.ts`, `end-project.mjs`) | rows of `tickets`, `ticket_dependencies`, `ticket_recovery_state`, `runs` | `ticket_create`, `ticket_claim`, `ticket_complete`, `ticket_requeue`, `yano end` | each handler is several SQL statements, and other processes run between them; one awaits a publish in the middle |
| Watchdog (`watcher/watchdog-sweep.ts`) | alerted episodes per planner | sweep: expire holds, drain the outbox, alert stalled tickets, fail orphaned ones, terminate (opt-in) | decides with presence cards that may be out of date; swallows storage errors |
| Presence (`extensions/orchestrator.ts`) | retained card of each instance, last will, map of cards in each process | connect, heartbeat, stale timer, clean shutdown | lost connections on either side, late wills |
| Decision holds (`decision-holds.ts`, storage) | `decision_holds`, operations, resume outbox | create, answer, cancel, escalate, expire, drain | races between answer and expiry, delivery of the resume message |
| Playbook runtime (`playbooks.ts`, storage) | runtime state and generation, evidence, effect outbox | bind, evidence, transition, claim, fail, ack, reconcile | checks outside the transaction, leases, retries, dead letters |
| Plan gate and file locks (`plan.ts`, `plan-gate.ts`) | plan JSON, lock JSON in a worktree | `plan_set`, `plan_advance`, `file_claim`, `file_release` | read-modify-write of files by several processes |
| Messaging (`agents.ts`, host) | pending replies, seen assignments, inbound queue | `agent_send`, `agent_await`, `agent_get`, delivery of commands and responses | answers before registration, timeouts, redelivery |
| Identity lease (host) | lock file per instance name | acquire, release | takeover of a stale lock by two processes |
| Worktrees (`worktree.ts`) | git worktrees, finalization status | create, finalize, abandon | crash between merge and status |
| Scheduler (`scripts/yano-scheduler.mjs`) | `jobs.json`, lock file | one-minute passes, `yano schedule ...` | passes that outlive their lock; commands that write the registry without it |
| Feedback queue (`scripts/yano-feedback.mjs`, `yano-watcher-registry.mjs`, host) | `feedback` rows, commands under way | create, notify, claim, edit, close; supervision by the watcher | SELECT then UPDATE from several processes; planners that vanish |
| Watcher registry (`scripts/yano-watcher-registry.mjs`, `watcher/planner-health.mjs`) | `watcher_projects`, supervisor lock | passes of the supervisor, `yano watcher init, start, pause, resume, leave, status`; recovery of planners | everything is decided on a snapshot of Herdr and a row read before; two entry points recover one planner; Herdr lags behind the processes |
| Auto-improver (`scripts/yano-auto-improver.mjs`) | row of `auto_projects`, pid file of the daemon, tab of the agent | `yano auto-improve init, run, start, resume, pause, stop, complete`, the daemon's loop, the crontab's closing of tabs and `supervise` | operators, daemon, agent and crontab overwrite one status; launches fail half-way |
| Architect (`scripts/yano-architect.mjs`, `yano-catalog.mjs`) | rows and files of proposals, their checks, interviews and evidence; the catalog of Playbooks | propose, import, interview, answer, provision, verify, capability, validation, feedback, revise, promote; remove, purge | a command is a process that writes rows and files one after another, or waits minutes for another program; none is fenced against the others |
| Governance, retention, capability cards | proposal, policy and card rows | propose, approve, apply | small |
| External watcher (`watch-stalls.mjs`), CLI, dashboards, trace, notifications, agent memory | logs, configuration, HTML | observe, launch, render | heuristics and input/output |

How they interact. Tools run inside a Pi process and call the storage class
synchronously; between two `await`s a handler is not interrupted by its own
process, but every SQL statement outside a `BEGIN IMMEDIATE` block is a point where other
processes get in. Publishes go through the broker and are awaited. The watchdog
of a planner runs on a timer in the same event loop. The operator's `yano end`
is a separate process on the same file.

What makes each part correct is stated below with the properties; what is hard to
test is listed, with its line, under `hazards` in `PROJECT.json`.

## Plan

Done, in this order:

1. `TicketEngine`, its proofs in `TicketEngine_proofs` (types, recovery, closing,
   qualification, completion, dependency graph);
2. `Supervision`, which EXTENDS `TicketEngine` and adds processes that die,
   links, presence cards, holds and the sweep; proofs at the end of `TicketEngine_proofs`;
3. `PlaybookGate`, the abstract specification of a Playbook, and `PlaybookRuntime`, which
   implements it; proofs, refinement included, in `Outboxes_proofs`;
4. `DecisionGate`, the abstract specification of decision holds, and
   `DecisionHolds`, which implements it; proofs, refinement included, in
   `Outboxes_proofs`;
5. `Messaging`: delegations between instances; proofs in `Messaging_proofs`.

6. `Scheduler` (proofs in `Scheduler_proofs`), `FeedbackQueue` (in `Services_proofs`),
   `Worktrees` and `TaskFiles` (both in `Worktrees_proofs`), checked together in
   `MCServices`;
7. `PlannerRecovery` and `AutoImprover`, proofs in `PlannerRecovery_proofs`, checked beside
   the recovery of tickets in `MCRecovery`;
8. `Architect`, checked with the services; proofs in `Architect_proofs`.

To do:

9. `Scheduling`: `yanoComputeReadyBlocked` and `yanoComputeExecutionWaves` as
   recursive functions, compared with a reference definition of the waves on
   all graphs of a few tickets, failed dependencies and cycles included; an
   invariant about `Ready` in terms of the waves.
10. `IdentityLease`: two starters on a stale lock.
11. `GovernanceProposals`; the auto-terminate block of the
   sweep in `Supervision`; `playbook_reconcile` in `PlaybookRuntime`.
12. An abstract run (`active`, then closed once) that `TicketEngine` implements
    where it does, with the refinement proved.

## Modules

### TicketEngine

One run of the ticket layer. `ticket`, `deps`, `run` and `recovery` are the rows;
`step[p]` is the synchronous stretch process `p` is in, with what it read
(its local variables); `awaiting[a]` are completions suspended in the awaited
publish of `ticket_complete`. One action per atomic piece of a handler:

| Code | Actions |
|---|---|
| `ticket_create` | `CreateTicket` (validation, INSERT of the row), `AddDependency` (one INSERT each) |
| `ticket_claim` | `ClaimRead` (READY, capabilities, playbook), `ClaimWrite` (UPDATE without condition) |
| `ticket_complete` | `CompleteRead`, `CompleteWrite`, then after the publish `CompleteCheck` (every ticket done?), `FinishRun` |
| `ticket_requeue` | `RequeueRead` (status check), `RequeueTxn` (the transaction: retry, escalate or give up) |
| `yano end` | `EndRead`, `EndDecline`, `EndWrite` |
| death of a process, or an exception between two statements | `Crash` |

Role, skills and playbook checks of `ticket_claim` compare values that never
change during a run; they are the constant `Qualified`. Events, logs and checkpoints
are left out: nothing here reads them. `newly_ready` only publishes.
`retry_count` saturates one above its largest bound, which no comparison can tell.

### Supervision

Adds `alive`, `online`, `will`, `card` (retained at the broker), `seen[p]` (the
`presence` map of planner `p`), the orphans a running sweep still has to mark (`orphans`),
handled episodes (`alerted`) and whether the run has an open decision hold; `beset` is
history: the planners in whose present sweep somebody opened a hold. Holds are opened and
resolved by any of the `Openers`, which may be other processes than the one that sweeps.
`SweepRead` and `SweepWrite` are the orphan block of `watchdogSweep`: one read of
runs, holds and tickets, then one UPDATE per orphan, during which the planner
does nothing else. An episode key is the ticket with `updated_at`; `NewEpisode`
is any write of the row, `touchTicketProgress` (`Progress`) included.
`PublishSettles` makes the awaited publish wait for the connection. Cards are
delivered in any order with the actions of the planner and may be skipped, which covers loss,
duplication and delay of presence messages; only the newest retained card counts.
A planner that sweeps sees no card and no timer in between, for its sweep awaits nothing.
`ShutDown` is the clean end of a process: it leaves an offline card and cancels
its will. The broker and the death of processes are external: they are modelled from the
connection options and handlers of `orchestrator.ts`.

### PlaybookGate and PlaybookRuntime

The Playbook bound to one run: `runtime` (state and generation), `evidence`,
`effectRows` (one row per transition, generation and effect: its `dedupe_key`), the
`hold` of each approval, and per process what it read (`checked`) or which leases it
remembers (`working`). `TransitionRead` and `TransitionWrite` are the two halves of
`transitionPlaybook`: checks, then the transaction whose UPDATE compares the
generation. `Claim`, `Fail`, `Ack` and `ResolveHold` are single transactions.
Lease times are `LeaseLapses`; `next_attempt_at` only postpones a claim. Adapters are
programs outside the repository that call the tools.

The Playbook itself is CONSTANTS: `States`, `Transitions`, `From`, `To`,
`Effects`, `Kind`. The loader guarantees `PlaybookAssumption`. Evidence is one
flag per transition: all of its `requires` persisted.

`PlaybookGate` is what the runtime promises, without processes, rows and leases: `Apply` moves
the state by a declared and proved transition and emits its effects with the new generation in
one step; an effect is settled once, by `Deliver` (an approval only after `Approve`) or by
`GiveUp`, which blocks the Playbook in a generation of its own or fails the run. The mapping
(`Promise`) reads the state and the generation from the row, `emitted`, `delivered` and
`dead` from the `delivery` of the rows, and `approved` from the holds. Leases, attempts and
what a process has read do not appear in it: that they never matter is what
`ImplementsPlaybook` says.

### DecisionGate and DecisionHolds

`DecisionGate` is what holds promise, without processes: a question is asked
(`Ask`) and settled (`Settle`, `Lapse`) at most once, and every answer is owed to
a planner until it is handed over (`HandOver`). `DecisionHolds` is the code:
`status` of the rows, the recorded operations `ops`, the resume `outbox`, and per
process what it has selected (`step`). `notified`, `told` and `lost` are history.

| Code | Actions |
|---|---|
| `decision_hold_create` | `CreateRead` (SELECT), `CreateWrite` (INSERT, or the other's row), `Notify` |
| `human_approval` effect of a transition | `OpenApproval` |
| `decision_hold_answer`, `decision_hold_cancel` | `Resolve`: one transaction, the resume row of an answer included (`Enqueue`) |
| `expireDecisionHolds` | `ExpireRead` (SELECT), `ExpireWrite` (UPDATE with the same `now`) |
| `drainDecisionHoldOutbox` and the loop of the sweep | `DrainRead` (SELECT), `DrainWrite` (transaction), `Deliver` or `DeliveryFails` per row |
| death of a process, a locked database | `HoldCrash` |

The id of a hold is derived from the key of its creation, so keys of creations do
not appear; keys of resolutions do, because the resume row carries them. A hold
belongs to one generation that never changes, so a wrong generation is a call
that writes nothing, as are a wrong checksum or principal. Time is `due`: a hold
whose `expires_at` has passed. The refinement maps `decision` to `status` and
`owed` to the holds with a pending row.

### Messaging

A delegation and its answer. The sender's side is `sent[a]` (how far `agent_send`
is), its entry of `pendingReplies` (`pendingReplies`, `awaited`, and `waiter`:
a call of `agent_await` is in its race). The target's side is `seenAssignments`
(oldest first), `inboundQueue`, `currentInbound`, the messages Pi holds
(`mail`), what the turn in progress handles (`turn`), the answer being published
(`ending`) and `reload`. `commands` and `replies` are deliveries under way at the broker.
`outcomes`, `told` and `taken` are history.

| Code | Actions |
|---|---|
| `agent_send` | `AgentSend` (hop limit, route, start of the publish), then `Registered` or `SendFails` |
| `agent_await` | `AwaitStarts`; it ends in `AwaitTimesOut` or in `Resolve` |
| `handleResponse`; the timer of an entry; `scheduleEviction` | `HandleResponse`; `Timeout`; `Evict` |
| `handleCommand` | `HandleCommand` (hop limit and reload barrier, duplicates, `TakeIn`) |
| `agent_end` | `EndTurn` (what is answered, with which text) and `AnswerSent` or `AnswerFails`; `EndUnanswered` |
| `reload_prepare`, `reload_cancel` | `ReloadPrepare`, `ReloadCancel` |
| Pi: turns and follow-up messages; death of a process | `TakeMail`, `OwnTurn`; `Restarts` |

A handler runs to its next await, so that a step of the event loop is one action;
the awaits are the publishes and the race of `agent_await`. When `resolve` is called the
waiter resumes before the next message or timer, hence `Resolve` also ends the wait.
The text of an answer is the assignment its turn was about. Assumptions on what
is outside: Pi awaits `agent_end`, so there is one at a time; a command is not
delivered again while its own answer is being published; a model has one
`agent_await` on an entry at a time. The phase gate of `agent_send` refuses some
calls, which a model that makes fewer of them covers.

### Scheduler

`store` is `jobs.json`, `lock` is `supervise.lock`, `memory[w]` the copy of the
registry a pass or a command works on. A pass (`Start` ... `Release`) takes the
lock, or unlinks one it takes for stale (`Unlink`, `Reclaim`); re-creates the digest
(`Boot`); answers what planners completed (`Read`), repeats failures (`RetryFailed`) and
stale dispatches (`Recover`), and writes (`Save`); dispatches what is due (`TickRead`,
`TickDispatch`, `TickWrite`); and writes its own entry (`Refresh`, `Rewrite`).
Commands of the operator (`Command`, `CommandDispatch`, `CommandWrite`) read, change and
write without the lock. A job is a record with the last minute it ran for, its open
dispatches and its repetitions. Cron expressions are the constant `Due`; the history
variables say which writes undid another's, and what each minute was dispatched for. A
dispatch may throw: the launch of a `planner:` job calls `launchDetachedPlanner`
(`yano-scheduler.mjs:320`), which is defined nowhere, after the job's script has run. The
exception leaves a tick before its write and goes to the `finally` that unlinks the lock
(`TickThrows`, `Release`), or ends a `yano schedule run` (`CommandThrows`); `unnoted` is
history: what such a tick had dispatched. The history of a job is of one registration: a job that is removed and added again, or removed and re-created
by `Boot`, has lost the minute it last ran for, and may be dispatched for it again (`Forgets`).

### FeedbackQueue

`status` of each row, `creating` for the stretches of `createFeedback` and
`feedback_create`, `wake[p]` for `wakeNextQueuedFeedback` of planner `p`, `mail` for the
`feedback_received` commands, `watch` for a pass of the watcher. Creation is `Insert`,
`Notify`, `Settle`, `ReportClaim`; a planner looks (`TurnEnds`, `Receives`), picks the head
(`Pick`) and claims it (`PickClaim`); the watcher lists, announces and claims
(`ListQueue`, `Announce`, `ClaimAnnounced`) and returns what nobody healthy holds
(`ListOrphans`, `Return`). `told` is history: whose model knows of an item.

### Worktrees

`tree`, `branches`, work that is `loose`, `committed` or in `main`; `merging` is the
conflicted merge open in the main checkout; `call[c]` is where the call of process
`c` is. Every git command is awaited, so there is an action for each: `Finalize`,
`LookAtMain`, `LookAtTree`, `CommitRest`, `Merge`, `AbortMerge`, `RemoveMerged`,
`MarkDone`; `Abandon`, `RemoveLeft`, `DeleteBranch`. Agents write and commit in between,
and the user edits the main checkout at any time (`UserEdits`), and aborts or commits a
merge that is open there (`UserSettles`). `git merge --abort` may fail over such edits
(`AbortMerge`, `resisted`); the call swallows that (`worktree.ts:434`) and reports the
conflict as if the checkout were clean. Git itself is external. Files that git ignores,
which the look at a worktree does not see and its removal takes along, are outside the model.

### TaskFiles

The plan file and the lock file of a task. A call computes what the file
becomes (`PlanSet`, `PlanAdvance`, `FileClaim`, `FileRelease`) and writes it with
`writeFileSync`, which empties the file (`Empties`) before it fills it (`Fills`): a reader
in between, or after the writer's death, finds no file. `Handoff` is the phase gate
of `agent_send`, `LocksRemoved` what `worktree_finalize` does to the lock file. `mine[m]` is
what member `m` was told it holds. Two things that overlap have different consequences, and
the history keeps them apart: a call is `crossed` when another one changes the locks while
it is under way, and what a member was told is `torn` when it was told so by a crossed call, or
when somebody has read or opened the file since while a writer had it open, or it was lost.

### PlannerRecovery

One registered project. `row` is its row of `watcher_projects`, with `since` for
`planner_unhealthy_since` and `cooling` for the last recovery while it is younger than its
cooldown; `loop` is the tab of the polling loop; `pane[t]` what runs in a tab labelled as
the planner's, `listed` the tabs in Herdr's `agents` projection; `work` and `waiting` what
the project's database says. A healer `h` is a pass of the supervisor or a `yano watcher
status`: `copy[h]`, `seen[h]` and `now[h]` are the row and the snapshots it decides on,
which may be old, `intent[h]` the recovery under way. `kept` is history: the tabs whose
planner has answered since the pass began.

| Code | Actions |
|---|---|
| `withSupervisorLock`, `supervise`, `runSupervisePass` | `Begins` (the SELECT, under the lock or not), `Looks` (the snapshot), `Ends`, `Killed` (a lock two minutes old) |
| `activateDefaultWorkers`, `doStart` | `Activates` |
| `doStatusForRow`, `launchHerdrWorker` | `Checks`, `Repairs` |
| `ensureRegisteredPlanner` | `AwaitsUser`, `FindsHealthy`, `FindsStale`, `FindsWedged`, `FindsUnlisted`, `FindsNone`, then `Closes` |
| `recoverPlanner` | `Recovers` (is Pi there?), `Clears`, `Finds` (a pane or a new tab), `Types` (`yano start`) or `Throws`, and `Notes` in its callers |
| `reconcileProjectRun` | `OwesNothing`, `WakesForReady`, `WakesForOrphans`, `Reconciles` (into `recoverPlanner`) |
| `assertAgentIdentityAvailable`, `acquireIdentityLease` | `Boots` |
| `doInit`, `doStart` and `doResume`, `doPause`, `doLeave` | `Initializes`, `Starts`, `Pause`, `Leave` |
| Herdr, users, the operating system | `Lists`, `Rests`, `Refuses`, `UserCloses`, `UserStarts`, `Fails`, `StartFails`, `LoopUpset`, `ProbeBreaks`, `ProbeWorks` |

Each call of `herdr` and each statement of SQLite is where the world gets in; probes of
processes (`panePiProcessState`, `agent explain`) are made at the step that uses them. A
probe may fail: `broken[t]` says which calls of Herdr about a tab do (`ProbeBreaks`,
`ProbeWorks`). A failing `pane process-info` is a pane without Pi, a failing `agent explain`
a planner that does not answer, as in `planner-health.mjs`; a fault lasts at least a step.
A project has one workspace, and its root stays where it is. Runs that wait differ only in the
reason they give: `Works` are the classes of `reconcileProjectRun`.

### AutoImprover

One project. `project` is its row of `auto_projects`: the status, `next_run_at` against the
clock and whether a tab is recorded; `agent` says that an agent works on an audit in that
tab, `point[c]` where a process is between its statements, `daemon` and `pidFile` what
runs and what `scheduler.pid` names. `suspended` is history: the operators' last word.

| Code | Actions |
|---|---|
| `daemonLoop` | `Choose` (the SELECT), then as `runAudit`, and `RecordFailure` (`blocked`) |
| `runAudit` | `CreateAudit` (moves `next_run_at`), `LaunchWorker` (Herdr, which may fail), `RecordLaunch` |
| `doRunOrStart`, `doResume`, `doPauseOrStop` | `RunOrStart` (also `--dry-run`: `rehearse`), `DoResume`, `PauseOrStop` |
| `completeAudit` | `CompleteAudit`; `AgentDies` when it never comes to that |
| `closeTerminalAutoImproverSessions` | `PassBegins` (the SELECT), `CloseTab`, `ForgetTab` |
| `superviseAutoImprover`, `startDaemon` | `StartDaemon` (the pid file is read), `SpawnDaemon` (the child, and the pid file) |

Audits, events and recommendations are a log that no operation decides on, the marks
`superseded` included. A pid file that names another program's process is not modelled.

### Architect

Generated Playbooks. `proposal[p]` is the row, `manifest[p]` and `ready[p]` what
`manifest.json` and `readiness.json` say, `checks[p]` the rows of `architect_capabilities`,
`evidence[p]` whether there is a passed validation and positive feedback,
`interview[p]` an open interview, `catalog[k]` the directory of a Playbook: versions
copied and described, and what `current.json` names. `command[c]` is where a process of the
command line is. A content is a version and a task; `Needs` says which capabilities a task's
Playbook declares. `proven`, `blurred`, `razed`, `late`, `unverified` and `doubted` are history.

| Code | Actions |
|---|---|
| `createProposal`, `createImport`, `createInterview`, `answerInterview` | `Propose`, `Ask`; `Import`, `CheckCapabilities`, `StageImport`, `LaunchForImport`; `Interview`, `AnswerInterview` |
| `provision` (`verify` is the same) | `Provision` (the row), `CheckCapabilities` (other programs run), `RecordChecks` (checks, status), `LaunchAgents` (minutes) |
| `recordCapability`, `recordValidation`, `recordFeedback` | one action each |
| `revise` | `Revise` (the row, playbook.yaml), `WriteManifest`, `UpdateProposal`, `DropChecks` |
| `promote` | `Promote` (the row), `PassGate` (checks, validations, feedback), `CopyPlaybook`, `Describe` (the manifest that is there now, roles), `Publish` (`current.json`, status) |
| `removePlaybook`, `purgePlaybook` | `RemovePlaybook`, `PurgePlaybook` |
| a command ends between two steps | `Interrupt` |

Statements between which a command neither starts a program nor could leave something
that the properties speak of are one step. Statuses that no command decides on are one,
`settled`. `--dry-run` and failed launches are the refusing branch of `LaunchAgents`.

### Compositions

`MCServices`, `MCOutboxes`, `MCRecovery` and `MCSupervision` put components that share no state in one
instance: `part`, chosen at the start, says which of them a behaviour is of. Each
behaviour is one of that component alone, so nothing is lost, and the fairness of a
part is that of the whole, since the actions it speaks of are disabled in the other
parts or guarded by `part`. `MCSupervision` has `calm` in the same way: in calm
behaviours the planner stays up and the database is never locked; and `MCOutboxes`, where nobody
dies in a calm behaviour and no lease ends before its holder reports.

## Runs

Bounds are the constants of the cfg files. Every run is complete.

| Run | Instance | What it shows |
|---|---|---|
| `recovery` | tickets: 1 ticket, 2 planners, 1 worker, `yano end`, crashes, MaxRetries 2; planner: 2 tabs, a supervisor and a status command, runs that have ready tickets, 1 upset, `Watched`; auto-improver: 2 daemons, of which one may die, an operator who runs, rehearses, resumes and pauses, the crontab | `RecoveryBudget`, `ExhaustedClosesRun`, `NeverReopened`, `OnlyFailedIsRequeued`: two planners reach the escalation, the give-up and stale requeues; `LiveSpared`, `PlannerReturns`; `DueIsAudited` |
| `board` | 2 tickets, 1 planner, 2 workers (one qualified for one ticket only), no crash | `CompletionOwed`, `DependenciesAcyclic`, `CompletesEventually`: the last two completions race; edges are inserted one by one |
| `supervision` | 1 ticket, 1 planner, 1 worker, crashes, drops, locked database (not in calm behaviours); messages: 2 assignments of the worker to the planner, which may crash, refuse and reload, 1 seen entry, one hop, one command and its answers delivered twice | `HoldPausesSweep`, with holds opened by either process, and `CalmRescue`: in calm behaviours an orphan is rescued; `CurrentIsOpen`, `TakenOnce`, `ToldOnce`, `ReadyTakesNothing`, `AlwaysWoken` |
| `outboxes` | answers: 2 holds (one expires, one is an approval's), 2 keys, 2 planners, one of which may fail; effects: 2 competing transitions with an approval and a notification, 2 processes that apply them, 2 adapters, 2 generations, 2 attempts, crashes and lapses (not in calm behaviours) | `OneNotification`, `OneAnswer`, `ResumedOncePerPlanner`, `ImplementsGate`, `AnswersAreTold`, `OverdueHoldsClose`; `ImplementsPlaybook`, `ApprovalGates`, `ExclusiveExecutor`; `CalmEffectsSettle`: in calm behaviours `EffectsSettle` |
| `services` | scheduler: 4 jobs (one of them a `planner:` job, whose dispatch throws), 2 crontab entries (one may die), 3 minutes, 1 command; feedback: 2 bugs, 1 planner that may vanish; worktrees: 2 tasks, 2 callers (one may die), 1 piece of work in each; files: 2 planners (one may die), 3 plans, 2 files, one of which only one of them claims; architect: 1 proposal for one of 2 tasks with different needs, 2 processes (one may be interrupted), one revision of an import | `OncePerSlot`, `StaleBudget`, `PassesExclude`; `ItemsDrain`, `OrphansReturn`; `LostOnlyLate`, `MainLeftClean`, `FinalizedIsMerged`; `PlanInOrder`, `ClaimsExclude`; `CapabilityGate`, `CatalogSound` |

One ticket is enough for recovery, since the recovery rows of different tickets
do not interact except through the run's status, which only goes one way; two
planners are needed for stale requeues. Two tickets are enough for the last
completions to race. Longer cycles
of dependencies and crashes while edges are inserted are covered by the theorem
`GraphIsAcyclic`, for any number of tickets. Two generations let a planner be one and two transitions late. Holds meet only in the drain and
the expiry, which take several at once: two holds show that. Two keys make a
retry differ from a second answer.
In the messages of `supervision` a cap of one entry makes the second assignment push the first out of the
map, so that a late delivery of the first is taken in again, which `TakenOnce` allows
only then; the theorems are for any cap and any number of assignments. The other
direction of delegation is the same code with the roles exchanged.

In `recovery`, everything a user or an operator does, every fault and every status command is an
upset: with one of them the planner is missing at the start, lost, wedged or closed, or a probe of it fails, at any
step of a pass, started by hand beside one, or looked after by two healers at once, which
is what the code's comments are about. Two tabs are what it takes to close another
planner's. The constraint `Watched` leaves out one thing only: while both healers are at work, no
planner shows as done in Herdr (`Rests`), which multiplies the states and which a single healer meets
in every phase of its pass. A second daemon is what takes over from one that died, or races with it.
The planner's part was repeated by hand with runs that are orphaned as well, and
with two upsets, three tabs and one healer, with the same result; `LiveSpared` is
proved for any number of all of them.

In `services` the constraint `Watched` cuts behaviours after what their properties
exclude or cannot depend on: a lost update of the registry, a lock taken from a live
pass, a minute dispatched for twice, a file told to two members, a second lock lapsed or torn, a second task finalized, abandoned or left by a death, a proposal or a Playbook
that the guarantees of the architect no longer cover, a second version promoted, an interview
opened after a proposal was judged; only the process that may be interrupted promotes; and one behaviour writes the plan or the locks, which no
call relates. Three minutes are what a
dispatch needs to go stale and be repeated once; two passes are enough for a
take-over. Two tasks meet in the main checkout only, and one of them conflicts. Two
writers and plans with and without a common phase are what `PlanInOrder` needs: a
plan computed from an old one is written over a newer one. Two files are what it takes for a
call on one of them to drop the lock of somebody else on the other. One revision puts a manifest
with other needs under checks of the first; the architect's part was repeated by hand
with two, where two revisions may write the same version.

Seven more runs are violations: each checks one sentence of a tool description,
comment or document, and TLC shows how the program departs from it (see `findings`):

| Run | Checks | Counterexample |
|---|---|---|
| `double_claim` | `ClaimTakesPending` | two workers read the same ready ticket; the second UPDATE replaces the first claim |
| `false_orphan` | `OrphansAreGone` | a planner has seen a worker's card, loses its own link, prunes the card for want of heartbeats and fails the ticket of the worker, which is connected all the time |
| `adapter_crash` | `EffectsSettle` | an adapter dies with a lease; the row stays leased, and nothing can claim or fail it again |
| `answers` | `AnswersMatch` | a second command arrives during a turn about the first: the second sender gets the text about the first |
| `second_command` | `NoSecondCommand` | one pass finds no planner and types `yano start`; for a run that waits it does so again, in the pane where the first is starting, for its snapshot and its row are from before |
| `suspended` | `PauseSuspends` | an operator pauses a project during an audit; the completion writes `idle`, and the daemon audits the project when it is due |
| `lost_feedback` | `FindsOut` | the watcher claims an item while its planner is parked or busy; the planner drops the command, and nobody was told |

The same modules show other departures, which no run checks:

- a ticket can be claimed between its INSERT and the INSERTs of its dependencies,
  which are separate statements (`tickets.ts:99`);
- a ticket created and claimed between the all-done check and `FinishRun` is
  running when the run becomes completed (`tickets.ts:303`);
- completing the last ticket of a run that `yano end` cancelled makes it completed
  (`tickets.ts:305`);
- a process that dies, or stays disconnected, in the publish awaited before the
  all-done check leaves a run active with all its tickets done (`tickets.ts:275`);
- one SQLITE_BUSY (`SweepBusy`) makes every later sweep skip that orphan
  (`watchdog-sweep.ts:224`);
- a ready ticket can be claimed during a hold (`tickets.ts:210`), and a hold
  that another process opens inside a sweep, after it has looked for holds, does not stop its
  UPDATE (`orchestrator.ts:1133`): hence `beset` in `HoldPausesSweep`;
- an answer is lost when the planner that dispatched its row dies, or
  `sendMessage` throws, before it is delivered (`yano-orchestrator-storage.ts:1249`,
  `watchdog-sweep.ts:147`): hence `lost` in `AnswersAreTold`;
- two planners that select the same rows both deliver them
  (`yano-orchestrator-storage.ts:1237`): hence *per planner* in `ResumedOncePerPlanner`;
- a hold answered between the SELECT and the UPDATE of the expiry stays answered
  and is reported as expired (`yano-orchestrator-storage.ts:1234`);
- a human is never notified of a hold whose creator died before the
  notification, for every later call finds the row (`decision-holds.ts:55`);
- an answer that arrives while `agent_send` still awaits its publish is ignored as
  stale, and the sender is told of a timeout instead (`orchestrator.ts:1856`);
- `agent_await` after an answer that came later than the timeout still returns the
  timeout, for its promise is resolved once, while `agent_get` returns the answer
  (`agents.ts:358`);
- a command whose `sendMessage` threw stays in `seenAssignments`, so that its
  redelivery is dropped (`orchestrator.ts:1752`);
- hops are inherited from the newest assignment taken in, or from none, and not from the
  one the turn handles (`agents.ts:537`);
- an answer whose publish throws is sent only when another turn ends
  (`orchestrator.ts:3133`); `reloadReady` does not see a send that is still being
  published (`orchestrator.ts:1381`).
- a pass that starts late in a minute, or after a long one, ticks for that minute
  only: a pass that was refused the lock leaves its minute to a pass of an earlier
  minute or to the next one, neither of which looks for it (`yano-scheduler.mjs:423`),
  though `:140` and `:724` say that the next minute's pass picks the work up;
- recoverable failures are repeated every minute without a bound
  (`yano-scheduler.mjs:396`), unlike stale dispatches;
- a command and a pass each write the registry they read: one undoes the other
  (`clobbered`), and what a pass dispatched is dispatched again: hence the condition in
  `OncePerSlot`;
- a dispatch that throws loses the `last_run_slot` of every job its tick has dispatched
  (`yano-scheduler.mjs:425`, `:435`), and the next pass of the same minute runs them again:
  hence `unnoted` in `OncePerSlot`. A `planner:` job that is due always throws, though the
  header (`:18`) says its script runs and then the planner is woken;
- two passes that find the same stale lock: the second unlinks the first one's new
  lock (`robbed`): hence the condition in `PassesExclude`;
- a planner whose pick was claimed by somebody else in the meantime still tells its
  model of it, for `processing` is what it asks for (`yano-feedback.mjs`,
  `claimFeedback`); the UPDATE at the end of a creation and the one that returns an orphan
  write over whatever the status has become; an item in `retry` is announced again and
  again and never claimed; one left in `received` is not seen by the watcher;
- a worktree that is removed with `--force` takes along what an agent wrote after
  the call had looked, though the comment at `worktree.ts:459` says that nothing
  meaningful can be there: hence `late` in `LostOnlyLate`; a call that dies between its
  merge and the status leaves a run that is merged and never marked, and its
  repetition finds no worktree; `merge --abort` aborts whatever merge is open,
  and a failing one is swallowed (`:434`): hence `resisted` in `MainLeftClean`;
- `worktree_finalize` removes the lock file before it knows that the merge succeeds;
- while the plan file is being written, or after its writer's death, the phase gate lets
  everything through, and `plan_set` forgets what was complete (`plan.ts:43`); declaring a
  plan again may leave phase 1 open beside a complete phase 2, and an unlocked phase
  that is unchanged may be locked again;
- two processes that claim a file at a time are both told that they hold it
  (`plan.ts:349`), and a call that reads or opens the locks while they are being written takes
  away what others were told: hence `torn` in `ClaimsExclude`;
- a start that finds the identity lease taken leaves Pi running without an identity
  (`orchestrator.ts:2087`); if it is listed when the planner that holds the lease is gone, the watcher
  takes it for the planner for ever, for `agent explain` calls it idle
  (`yano-watcher-registry.mjs:315`): hence the exception in `PlannerReturns`;
- a pass with a row read before a `yano watcher pause` or `leave` launches the loop again and
  sets the project running, or registers it anew (`yano-watcher-registry.mjs:1045`, `:1122`,
  `:193`), although the note of `doPause` says that the supervisor leaves it alone;
- the cooldown compares only the last reason: two recoveries with different reasons
  overwrite each other's note and neither cools down (`yano-watcher-registry.mjs:670`); a
  recovery that was deferred is noted as well (`:354`), and planners without a worker are told of
  orphans at every pass (`:828`);
- an escalation closes every planner that was listed, also one that answers
  (`yano-watcher-registry.mjs:349`), and so does a pass whose probe of a live planner fails
  (`planner-health.mjs:135`, `:111`), although `yano-watcher-registry.mjs:281` says that
  live processes are never force-closed: hence the exception in `LiveSpared`, and *of whom
  no probe has failed*;
- a project whose loop runs in the foreground gets no planner back
  (`yano-watcher-registry.mjs:1012`): hence `foreground` in `Owed`;
- the auto-improver's agent that ends without completing its audit leaves its project
  `running` for ever, and no daemon looks at it again (`yano-auto-improver.mjs:723`): hence
  `Resting` in `DueIsAudited`; an agent that completes before its launch is recorded does too (`:713`);
- the crontab closes a tab that was idle when it looked, also if an operator or the daemon has
  launched the next audit in it since (`:155`), and forgets a tab that was recorded after
  it closed the last (`:157`), which then is never closed;
- two processes that find no daemon each start one, and both go on (`:700`);
- the completion of an audit marks later audits `superseded` as well, though the comment at
  `:649` speaks of earlier ones; the teardown of the architect's tabs forgets a tab that
  could not be closed, unlike this one (`yano-architect.mjs:129`).

- a provision that began before a revision and ends after it writes its checks and a
  readiness that is true under the new manifest (`yano-architect.mjs:1061`), though
  `architect-provisioning.yaml` (`capability_gate`) says that nothing generated is operational
  before all it declares is verified; so does a revision cut short before its DELETE
  (`:1172`) for a promotion: hence `blurred` in `CapabilityGate`;
- a promotion reads the manifest again after its gate (`:1124`): a revision that comes in
  between puts capabilities in the catalog that nobody verified, under the version the
  gate was passed for; so does a gate that reads the checks of such a proposal: hence `doubted`
  in `CatalogSound`;
- a promotion takes validations and feedback of any version of the proposal
  (`yano-architect.mjs:1112`), though `ephemeral_until_approved` asks for those of the
  artifact, and looks at no status; another proposal of the same id and version overwrites
  what was promoted (`:1123`), in spite of `immutable_promoted_versions`;
- a validation or feedback ends `awaiting_user_input` without an answer (`:1080`), and
  `provision --dry-run` of a ready proposal leaves it blocked (`:1046`), whose tabs
  the crontab then closes, although the comment at `:1029` keeps the architect to repair it;
- a first promotion that is cut short after its copy is offered all the same, for a
  Playbook without `current.json` is taken in version 0.1.0 (`yano-catalog.mjs:48`);
- `purgePlaybook` removes every version of a role one version of which belongs to the
  Playbook, also if another Playbook uses it, although the comment at `yano-catalog.mjs:88`
  says it is preserved.

CHECK_DEADLOCK is off everywhere: a run whose tickets are all done, or a
Playbook at its last generation, really stops.

### Fairness

What must happen eventually is stated as `[]<>`: the state in which it is still owed does not
last for ever (`[]<>~Owed`, or `[]<>` of its being settled), as the program's loops have it, which
may owe the same thing again later. `AnswersAreTold` and its like say it for each hold or message.

- `Fairness` (TicketEngine): a handler that has started goes on, for it is
  synchronous; its publish settles as long as the MQTT client reconnects, which
  it tries for ever (`reconnectPeriod`). Nobody is obliged to call a tool.
- `SupFairness`: the same per process, and the timers of a live planner fire; `SweepRead`
  needs strong fairness, for the planner is busy with a tool call now and then, but
  not for ever. The broker publishes a will. No fairness for reconnecting, for
  restarts, or for a human who answers.
- `AdapterFairness`: an assumption about programs outside the repository: an
  offered effect is taken by some adapter and an adapter reports on what it took.

- `HoldFairness`: a stretch goes on or its process dies in it; the watchdog of a
  planner that does not fail fires again and again, and finds it between two tool calls
  each time (strong fairness of its two SELECTs). Nobody is obliged to create, answer or
  cancel.

- `MsgFairness`: the publish of `agent_send` settles, and a timer that is set and not
  cleared fires. Nothing is assumed of the broker, of the target or of Pi: `AlwaysWoken`
  rests on the sender's timer alone.

- `QueueRunsOn` and `Watches` (FeedbackQueue): a creation ends or its process dies, a
  planner that looks at the queue goes on, fifteen minutes pass, and cron starts the
  watcher again. Nobody is obliged to end a turn, to close an item or to become
  healthy.

- `PlannerFairness`: cron starts a supervisor every minute, a pass goes on (every call of
  `herdr` and SQLite returns), a start of Pi comes to an end and Herdr lists what runs. The
  cooldown and the grace period pass between two passes, hence strong fairness. A status
  command, an operator and a user are obliged to nothing.

- `AutoImproverFairness`: the crontab starts its pass every minute, and the daemon's loop comes
  round; a call of Herdr returns, one way or the other. Operators and agents are obliged to
  nothing.

Without fairness `adapter_crash` would show nothing: its counterexample is a fair
behaviour that is stuck after a crash.

## Proofs

All theorems hold for every value of the constants that satisfies the named
assumptions (`ProcAssumption`, `QualifiedAssumption`, `RetriesAssumption`,
`CloseAssumption`; `LinkAssumption`, `OpenerAssumption`; `PlaybookAssumption`,
`PartyAssumption`, `BoundAssumption`; `HoldAssumption`, `HoldCallerAssumption`;
`SenderAssumption`, `RoutesAssumption`, `TaskAssumption`, `LimitAssumption`;
`WorktreeAssumption`; `TaskFilesAssumption`; `SchedulerAssumption`, `OperatorAssumption`;
`FeedbackAssumption`; `ArchitectAssumption`; `SupervisorAssumption`, `WorksAssumption`,
`UpsetAssumption`; `AutoImproverAssumption`). Every invariant below was checked by TLC as well, on
the instance of its run; TLAPS found what such an instance cannot show, for example that
the theorems of `Architect` need a Playbook to declare at least one capability, as each does
(git, `yano-architect.mjs:364`).

- `TicketEngine_proofs`. The inductive invariant is `TypeOK`, `RecoveryLedger`
  and `ExhaustedClosesRun`. `RecoveryBudget` alone is not inductive: the ledger
  ties generation, retries and the escalation flag together (before the
  escalation the generation is the number of retries; after it, at most one more than
  MaxRetries plus the retries). `NeverReopened` and `OnlyFailedIsRequeued` follow from it by
  cases on the actions.
  A write carries what its read saw, so
  `HeldByQualified` needs the invariant that a pending claim is of a qualified worker and
  that the holder a completion remembers is harmless. `CompletionOwed`, for
  agents that do not crash, needs that a done ticket was written by a process
  that then still owes its check. `DependenciesAcyclic` is proved with the order of creation:
  a ticket's edges, written or promised, lead to tickets created before it.
  Of `Supervision`: `HoldPausesSweep`, for any number of planners and openers: while a planner
  is in a sweep and there is an open hold, the hold was opened after the sweep had looked
  (`beset`), since it looked and listed its orphans in one synchronous stretch.
- `Outboxes_proofs`. Of `PlaybookRuntime`: `FencedInv` adds to the types that rows and reads are
  never ahead of the state's generation (`Generations`), and that a read of the current
  generation still describes the current state (`ReadsAreFenced`): this is why the
  compare-and-set is enough although state, evidence and actor are checked before the
  transaction. `LeasingInv` adds that a remembered lease is of a leased or
  delivered row (`WorkIsTaken`). `RuntimeImplementsPlaybook` is the refinement: every step of `PlaybookNext` is a
  step of `PlaybookGate` or changes nothing that it speaks of. Beside the fence it needs
  `AskedInv`: what a process checked stays proved, and a hold is opened only with the row of an
  approval.
  Of `DecisionHolds`: `NotificationOwed` says who still has to notify: the one
  process whose INSERT succeeded. `SelectionIsFenced` says that what a planner
  delivers is dispatched and not yet told by it, so that it cannot select it
  again. `HoldsImplementGate` is the refinement: every step of `HoldNext` is a step of
  `DecisionGate` or leaves `status` and the pending rows alone; `OneAnswer` is needed
  to know that an answer adds exactly its own hold to `owed`.
- `Messaging_proofs`. `ToldOnce` needs that an entry is awaited exactly while a call is in its
  race: with one side out of step an outcome is told twice or not at all.
  `TakenOnce` ties the map to the history: `seenAssignments` is the window of the last SeenCap
  assignments taken in, so what is taken in is not in that window.
  `CurrentIsOpen` is inductive with the types: an answer removes only what it answers
  from the queue, and clears `currentInbound` only then.
- `Worktrees_proofs`. `LostOnlyLate` needs `LooseIsLate`: what lies loose in a
  worktree from the moment a call has looked at it was written late, for every call
  at once. `BranchIsMerged` (what is on the branch after the merge and not on main was
  committed from there) gives `FinalizedIsMerged` at the last step of a finalization.
  Of `TaskFiles`: `PlansAdvance` says of every plan, the file's and those that a call is about to
  write, that exactly the first open phase is unlocked; it is inductive because each
  handler recomputes the locks from the plan that it read, however old. `HoldersKept` says
  what overlapping calls leave: what a member was told and is not torn is in every text that
  is about to be written, and in the file unless that is open (`SoundKept`); a call
  that none crossed is the only one, and its text gives what it claims to nobody else
  (`AloneKept`); once two had the file open, all that was told is torn (`MixedKept`).
- `PlannerRecovery_proofs`. `LiveSpared` is an action property of one pass, whose steps
  others interleave with. `KeptAnswer` says that a planner counted as answering still
  does, and so do the probes of it; `Judged` what a healer has concluded when it is about to close tabs, and that
  nobody else's step can make it false: when it replaces, that none of the listed runs Pi, or
  that one of them does not answer; when it clears, that none of them is kept. The types of
  `AutoImprover` are proved in the same module.
- `Scheduler_proofs`. `SchInv` has four parts beside the types. `Times`: nothing ran for a minute
  to come, and a pass that stands before the lock is of the current minute. `LockKept`: unless a
  lock was taken from a live pass, the pass that is inside is the one that the lock
  names, and nobody dispatched for a later minute (`PassesExclude` follows). `Copies`: a copy
  of the registry that was not overtaken agrees with the file on what it will write back.
  `SlotsNoted` and `TriesCounted`: what was dispatched for the minute, but by a tick that an
  exception left (`unnoted`), and every repetition, is
  noted in the file, or, inside a pass, in the copy that it will write. `OncePerSlot`
  and `StaleBudget` say that the note holds; the other parts say why it cannot be lost. TLC
  refuted the first form of `SlotsNoted`: a job that is removed and added again in
  one minute, or that `boot` creates again, has forgotten what it ran for. `Forgets` now counts this
  among the mishaps.
- `Architect_proofs`. `ArInv` says how a readiness that is true came about. `ReadyIsProven` and
  `RowsAreSound`: its checks were made for what it declares; `ChecksOfManifest`: what a command is about to
  write about a manifest is about the one that is there, unless a revision came between.
  `CatalogComplete`: what enters the catalog unverified is `doubted`: its promotion was under way
  when the manifest was replaced, or passed its gate on rows in doubt; and what `current.json`
  names has its description, which has to be known of a promotion between its copy and
  its publication too. `blurred`, `doubted` and `razed` are where the code guarantees nothing.
- `Services_proofs`. The types of the feedback queue need that the watcher's pass has an item in
  hand when it claims one. `ServicesAreApart`: a behaviour of `MCServices` is one of each of the
  five services, so that the theorems about each hold of the whole (`ServicesTyped`).

Three of the theorems are about properties that no run checks any more, since they are
proved: `HeldByQualified`, `TransitionsStartWhereDeclared` and `OneTransitionPerGeneration`; what
the last two say of states and effects is part of `ImplementsPlaybook`.

Only model-checked: liveness (`CompletesEventually`, `CalmRescue`,
`CalmEffectsSettle`, `AnswersAreTold`, `OverdueHoldsClose`, `AlwaysWoken`, `ItemsDrain`, `OrphansReturn`, `PlannerReturns`,
`DueIsAudited`): temporal reasoning with fairness and ENABLED is out of the prover's reach. Every
invariant and every action property that a passing run checks is a theorem.
Every module's types are proved. The properties of the runs that end in a counterexample are false.

## Not modelled

Several runs in one database (rows of different runs do not meet in these
tools), the text of events, prompts and notifications, schema migrations, and the
components the table of `PROJECT.json` marks so. Of the modelled components: stalled-ticket
alerts (they only notify), the opt-in auto-terminate block,
`playbook_reconcile`, capability cards, escalation of holds; in the watcher's pass the clean-up of
agents' tabs, the repair of tab labels, moved roots, global services and log sizes; of the
architect `assess` and `team`, which change nothing that the others read, the tabs of its agents, the
files of roles.
