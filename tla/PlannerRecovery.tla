--------------------------- MODULE PlannerRecovery ---------------------------
(***************************************************************************)
(* The external watcher and the planner of one registered project.  A pass *)
(* of the supervisor, every minute under its lock, and every `yano watcher *)
(* status`, under no lock at all, read the project's row of the registry,  *)
(* look at Herdr, and then relaunch what they miss: the polling loop and   *)
(* the planner, which a pass may try twice, once because it must be there  *)
(* and once because a run waits for it.                                    *)
(*                                                                         *)
(* A healer is one synchronous process: between two of its steps the tabs, *)
(* the registry and the other healer move.  What it decides on is its copy *)
(* of the row and of Herdr's snapshot; processes are probed when asked, and *)
(* a probe that fails counts as a `no`.                                    *)
(***************************************************************************)
EXTENDS Naturals, FiniteSets

CONSTANTS
  Tabs,        \* Herdr tabs labelled as the planner's, with their panes
  Healers,     \* processes that heal
  Supervisors, \* those of them that are passes of the supervisor
  Works,       \* what the project's database may show
  MaxUpsets    \* bound: what users, operators and faults do in a behaviour

ASSUME SupervisorAssumption == Supervisors \subseteq Healers
ASSUME WorksAssumption ==
  Works \subseteq {"none", "open", "stalled", "orphaned", "ready"} /\ Works # {}
ASSUME UpsetAssumption == MaxUpsets \in Nat

VARIABLES
  pane,    \* pane[t]: what runs in the tab's pane; "none" when there is no tab
  listed,  \* tabs whose pane is in Herdr's `agents` projection
  broken,  \* broken[t]: probes of the tab's pane that fail
  row,     \* the row of watcher_projects
  loop,    \* the tab of the polling loop
  work,    \* the project's runs
  waiting, \* projectUserWait: a question to the user is open
  at,      \* at[h]: the step a healer is at
  copy,    \* copy[h]: the row as the healer read it
  seen,    \* seen[h]: the snapshot of its pass
  now,     \* now[h]: the snapshot recoverPlanner works on
  intent,  \* intent[h]: the recovery under way
  kept,    \* history: tabs whose planner has answered since the pass began, for
           \* whom Herdr has answered as well
  upsets

world == <<pane, listed, broken, row, loop, work, waiting, upsets>>
mind == <<at, copy, seen, now, intent, kept>>
prVars == <<world, mind>>

Pi == {"live", "quiet", "wedged", "nameless"}   \* what `pane process-info` shows as Pi
Answering == {"live", "quiet", "nameless"}      \* what `agent explain` shows as well
Probes == {"process-info", "explain"}
Reasons == {"missing_or_stale", "missing", "stalled", "handoff", "ready_queue"}
Special == {"handoff", "ready_queue"}

Rows == [status: {"left", "stopped", "running", "foreground", "paused"},
         since: {"never", "recent", "past"},  \* planner_unhealthy_since
         cooling: Reasons \cup {"no"}]        \* last recovery, while it cools
Snapshots == [tabs: SUBSET Tabs, agents: SUBSET Tabs, well: SUBSET Tabs,
              idle: BOOLEAN, lost: BOOLEAN, clash: BOOLEAN]
Intents == [for: {"presence", "run"}, why: Reasons, force: BOOLEAN, into: SUBSET Tabs]
HealerSteps == {"idle", "look", "activate", "check", "ensure", "close", "recover", "clear",
          "find", "type", "note", "reconcile", "repair", "end"}

NewRow == [status |-> "stopped", since |-> "never", cooling |-> "no"]
Blank == [tabs |-> {}, agents |-> {}, well |-> {}, idle |-> FALSE, lost |-> FALSE,
          clash |-> FALSE]
NoIntent == [for |-> "presence", why |-> "missing_or_stale", force |-> FALSE, into |-> {}]

PlannerTypeOK ==
  /\ pane \in [Tabs -> {"none", "shell", "starting"} \cup Pi]
  /\ listed \subseteq Tabs
  /\ broken \in [Tabs -> SUBSET Probes]
  /\ row \in Rows
  /\ loop \in {"absent", "current", "outdated"}
  /\ work \in {"none", "open", "stalled", "orphaned", "ready"}
  /\ waiting \in BOOLEAN
  /\ at \in [Healers -> HealerSteps]
  /\ copy \in [Healers -> Rows]
  /\ seen \in [Healers -> Snapshots]
  /\ now \in [Healers -> Snapshots]
  /\ intent \in [Healers -> Intents]
  /\ kept \in [Healers -> SUBSET Tabs]
  /\ upsets \in 0..MaxUpsets

PlannerInit ==
  /\ pane = [t \in Tabs |-> "none"]
  /\ listed = {}
  /\ broken = [t \in Tabs |-> {}]
  /\ row \in {[NewRow EXCEPT !.status = s] : s \in {"left", "stopped", "running", "foreground"}}
  /\ loop = IF row.status = "running" THEN "current" ELSE "absent"
  /\ work \in Works
  /\ waiting = FALSE
  /\ at = [h \in Healers |-> "idle"]
  /\ copy = [h \in Healers |-> NewRow]
  /\ seen = [h \in Healers |-> Blank]
  /\ now = [h \in Healers |-> Blank]
  /\ intent = [h \in Healers |-> NoIntent]
  /\ kept = [h \in Healers |-> {}]
  /\ upsets = 0

Registered == row.status # "left"

(***************************************************************************)
(* What Herdr shows and what a probe of a pane finds                       *)
(***************************************************************************)
\* A nameless planner looks well as long as the planner it was taken for writes
\* the heartbeat file.
HerdrSnapshot(idle) ==
  [tabs |-> {t \in Tabs : pane[t] # "none"},
   agents |-> listed,
   well |-> {t \in listed : \/ pane[t] = "live"
                            \/ pane[t] = "nameless" /\ \E u \in Tabs : pane[u] = "live"},
   idle |-> idle,
   lost |-> loop = "absent",
   clash |-> Cardinality({t \in listed : pane[t] # "quiet"}) > 1]

\* paneHasLivePiProcess: a `pane process-info` that fails is a pane without Pi.
Running(tabs) == {t \in tabs : pane[t] \in Pi /\ "process-info" \notin broken[t]}

\* plannerLooksHealthyViaExplain: so is an `agent explain` that fails.
Explained(t) == pane[t] \in Answering /\ "explain" \notin broken[t]

\* agent_status is part of the snapshot, the process and `explain` are probed.
Healthy(s) == {t \in Running(s.agents \cap s.well) : pane[t] # "quiet" /\ Explained(t)}

\* Tabs whose planner answers, and Herdr for it.
Heard == {t \in Tabs : pane[t] \in Answering /\ broken[t] = {}}

\* The tabs are gone, and nothing of them is kept.
CloseTabs(tabs) ==
  /\ pane' = [t \in Tabs |-> IF t \in tabs THEN "none" ELSE pane[t]]
  /\ listed' = listed \ tabs
  /\ kept' = [g \in Healers |-> kept[g] \ tabs]

Goes(h, step) == at' = [at EXCEPT ![h] = step]

\* UPDATE watcher_projects ... WHERE project_key: nothing when the row is gone.
Writes(r) == row' = IF Registered THEN r ELSE row

\* ensureRegisteredPlanner returns: doStatusForRow goes on to the runs, when
\* the copy of the row says that the project is watched.
Leaves(h) ==
  Goes(h, IF copy[h].status = "running" /\ intent[h].for = "presence"
          THEN "reconcile" ELSE "end")

\* The process ends, and with it what it knew; its lock is removed.
Forgets(h) ==
  /\ Goes(h, "idle")
  /\ copy' = [copy EXCEPT ![h] = NewRow]
  /\ seen' = [seen EXCEPT ![h] = Blank]
  /\ now' = [now EXCEPT ![h] = Blank]
  /\ intent' = [intent EXCEPT ![h] = NoIntent]
  /\ kept' = [kept EXCEPT ![h] = {}]

(***************************************************************************)
(* A pass                                                                  *)
(***************************************************************************)
Upset == upsets < MaxUpsets /\ upsets' = upsets + 1

\* SELECT * FROM watcher_projects: a supervisor has its lock, and somebody asked
\* for the status.
Begins(h) ==
  /\ at[h] = "idle" /\ Registered
  /\ IF h \in Supervisors THEN (\A g \in Supervisors : at[g] = "idle") /\ UNCHANGED upsets
     ELSE Upset
  /\ copy' = [copy EXCEPT ![h] = row]
  /\ kept' = [kept EXCEPT ![h] = Heard]
  /\ Goes(h, "look")
  /\ UNCHANGED <<pane, listed, broken, row, loop, work, waiting, seen, now, intent>>

\* herdrSnapshot, after the global services and the scheduler were seen to.
Looks(h) ==
  /\ at[h] = "look"
  /\ \E idle \in BOOLEAN :
       /\ idle => listed # {}
       /\ seen' = [seen EXCEPT ![h] = HerdrSnapshot(idle)]
  /\ Goes(h, IF h \in Supervisors /\ copy[h].status = "stopped" THEN "activate" ELSE "check")
  /\ UNCHANGED <<world, copy, now, intent, kept>>

\* doStart registers the project again when it is no longer there, and leaves a
\* loop alone that is running; the pass keeps its copy.
StartLoop ==
  IF row.status \in {"running", "foreground"}
  THEN UNCHANGED <<row, loop>>
  ELSE /\ row' = [(IF Registered THEN row ELSE NewRow) EXCEPT !.status = "running"]
       /\ loop' = "current"

Activates(h) ==
  /\ at[h] = "activate"
  /\ StartLoop
  /\ Goes(h, "check")
  /\ UNCHANGED <<pane, listed, broken, work, waiting, upsets, copy, seen, now, intent, kept>>

\* doStatusForRow: a loop in the foreground is not Herdr's to see.
Checks(h) ==
  /\ at[h] = "check"
  /\ Goes(h, CASE copy[h].status = "foreground" -> "end"
               [] copy[h].status = "running" /\ (seen[h].lost \/ loop = "outdated") -> "repair"
               [] OTHER -> "ensure")
  /\ UNCHANGED <<world, copy, seen, now, intent, kept>>

\* A loop that is gone, or that runs with another cadence, is launched again,
\* and the runs are seen to with a new snapshot.
Repairs(h) ==
  /\ at[h] = "repair"
  /\ loop' = "current"
  /\ Writes([row EXCEPT !.status = "running"])
  /\ \E idle \in BOOLEAN :
       /\ idle => listed # {}
       /\ seen' = [seen EXCEPT ![h] = [HerdrSnapshot(idle) EXCEPT !.lost = FALSE]]
  /\ Goes(h, "reconcile")
  /\ UNCHANGED <<pane, listed, broken, work, waiting, upsets, copy, now, intent, kept>>

(***************************************************************************)
(* ensureRegisteredPlanner                                                 *)
(***************************************************************************)
AwaitsUser(h) ==
  /\ at[h] = "ensure" /\ waiting
  /\ Leaves(h)
  /\ UNCHANGED <<world, copy, seen, now, intent, kept>>

\* A healthy planner: the other tabs of planners are closed, unless Pi is seen
\* to run in them.
FindsHealthy(h) ==
  /\ at[h] = "ensure" /\ ~waiting
  /\ \E t \in Healthy(seen[h]) :
       CloseTabs(((seen[h].agents \cap seen[h].tabs) \ Running(Tabs)) \ {t})
  /\ IF copy[h].since = "never" THEN UNCHANGED row ELSE Writes([row EXCEPT !.since = "never"])
  /\ Leaves(h)
  /\ UNCHANGED <<broken, loop, work, waiting, upsets, copy, seen, now, intent>>

Unhealthy(h) == at[h] = "ensure" /\ ~waiting /\ Healthy(seen[h]) = {}

\* Faulty variants: age alone is held against a planner; nothing ever is.
EscalatesBlindly(h, t) == copy[h].since = "past"
EscalatesNever(h, t) == FALSE

\* The first agent that runs Pi counts, and only a long silence that `explain`
\* confirms is held against it.
Escalates(h, t) == copy[h].since = "past" /\ ~Explained(t)

FindsStale(h) ==
  /\ Unhealthy(h)
  /\ \E t \in Running(seen[h].agents) : ~Escalates(h, t)
  /\ IF copy[h].since = "never" THEN Writes([row EXCEPT !.since = "recent"]) ELSE UNCHANGED row
  /\ Leaves(h)
  /\ UNCHANGED <<pane, listed, broken, loop, work, waiting, upsets, copy, seen, now, intent, kept>>

\* recoveryCoolingDown, of the row as it was read.
Replaces(h, force) ==
  IF copy[h].cooling = "missing_or_stale"
  THEN Leaves(h) /\ UNCHANGED intent
  ELSE /\ Goes(h, "close")
       /\ intent' = [intent EXCEPT ![h] = [NoIntent EXCEPT !.force = force]]

FindsWedged(h) ==
  /\ Unhealthy(h)
  /\ \E t \in Running(seen[h].agents) : Escalates(h, t)
  /\ Writes([row EXCEPT !.since = "never"])
  /\ Replaces(h, TRUE)
  /\ UNCHANGED <<pane, listed, broken, loop, work, waiting, upsets, copy, seen, now, kept>>

\* A planner's pane that is live before Herdr lists its agent.
FindsUnlisted(h) ==
  /\ Unhealthy(h)
  /\ Running(seen[h].agents) = {} /\ Running(seen[h].tabs) # {}
  /\ Leaves(h)
  /\ UNCHANGED <<world, copy, seen, now, intent, kept>>

FindsNone(h) ==
  /\ Unhealthy(h)
  /\ Running(seen[h].agents \cup seen[h].tabs) = {}
  /\ Replaces(h, FALSE)
  /\ UNCHANGED <<world, copy, seen, now, kept>>

\* Every planner of the snapshot goes, not only the one that was looked at.
Closes(h) ==
  /\ at[h] = "close"
  /\ CloseTabs(seen[h].agents \cap seen[h].tabs)
  /\ Goes(h, "recover")
  /\ UNCHANGED <<broken, row, loop, work, waiting, upsets, copy, seen, now, intent>>

(***************************************************************************)
(* recoverPlanner: on a new snapshot when the planner must be there, on    *)
(* that of the pass when a run waits for it                                *)
(***************************************************************************)
Recovers(h) ==
  /\ at[h] = "recover"
  /\ now' = [now EXCEPT ![h] =
       IF intent[h].for = "presence" THEN HerdrSnapshot(FALSE) ELSE seen[h]]
  /\ Goes(h, IF Running(now'[h].agents \cup now'[h].tabs) # {} THEN "note" ELSE "clear")
  /\ UNCHANGED <<world, copy, seen, intent, kept>>

Clears(h) ==
  /\ at[h] = "clear"
  /\ CloseTabs({t \in now[h].agents \cap now[h].tabs :
                  intent[h].why \in Special \/ t \notin Healthy(now[h])})
  /\ Goes(h, "find")
  /\ UNCHANGED <<broken, row, loop, work, waiting, upsets, copy, seen, now, intent>>

\* The pane of a listed agent, else of a planner's tab, else of a new tab.
Unused(t) ==
  /\ pane[t] = "none"
  /\ \A g \in Healers : t \notin seen[g].tabs \cup now[g].tabs \cup intent[g].into

Finds(h) ==
  /\ at[h] = "find"
  /\ now' = [now EXCEPT ![h] = HerdrSnapshot(FALSE)]
  /\ \E t \in Tabs :
       /\ IF listed # {} THEN t \in listed
          ELSE IF \E u \in Tabs : pane[u] # "none" THEN pane[t] # "none"
          ELSE Unused(t)
       /\ pane' = [pane EXCEPT ![t] = IF @ = "none" THEN "shell" ELSE @]
       /\ intent' = [intent EXCEPT ![h].into = {t}]
  /\ Goes(h, "type")
  /\ UNCHANGED <<listed, broken, row, loop, work, waiting, upsets, copy, seen, kept>>

\* `herdr pane run` types `yano start`: a shell runs it, what already runs in
\* the pane gets it as its input.
Types(h) ==
  /\ at[h] = "type"
  /\ IF Healthy(now[h]) # {} THEN UNCHANGED pane
     ELSE /\ \A t \in intent[h].into : pane[t] # "none"
          /\ pane' = [t \in Tabs |->
               IF t \in intent[h].into /\ pane[t] = "shell" THEN "starting" ELSE pane[t]]
  /\ Goes(h, "note")
  /\ UNCHANGED <<listed, broken, row, loop, work, waiting, upsets, copy, seen, now, intent, kept>>

\* The caller notes the recovery, also one that was deferred.
Notes(h) ==
  /\ at[h] = "note"
  /\ Writes([row EXCEPT !.cooling = intent[h].why])
  /\ Leaves(h)
  /\ now' = [now EXCEPT ![h] = Blank] /\ intent' = [intent EXCEPT ![h] = NoIntent]
  /\ UNCHANGED <<pane, listed, broken, loop, work, waiting, upsets, copy, seen, kept>>

\* What Herdr refuses or the tab that is gone is an exception: nothing is noted.
Throws(h) ==
  /\ at[h] = "type" /\ Healthy(now[h]) = {}
  /\ \E t \in intent[h].into : pane[t] = "none"
  /\ Leaves(h)
  /\ now' = [now EXCEPT ![h] = Blank] /\ intent' = [intent EXCEPT ![h] = NoIntent]
  /\ UNCHANGED <<world, copy, seen, kept>>

(***************************************************************************)
(* reconcileProjectRun                                                     *)
(***************************************************************************)
PlannersIdle(h) == seen[h].agents # {} /\ seen[h].idle
Stuck(h) == work \in {"stalled", "orphaned"} \/ (work = "ready" /\ PlannersIdle(h))

Reason(h) ==
  CASE work = "orphaned" -> "handoff"
    [] work = "ready" /\ PlannersIdle(h) -> "ready_queue"
    [] work = "stalled" -> "stalled"
    [] OTHER -> "missing"

RunsWait(h) == at[h] = "reconcile" /\ ~seen[h].clash /\ work # "none" /\ ~waiting

OwesNothing(h) ==
  /\ at[h] = "reconcile" /\ (seen[h].clash \/ work = "none" \/ waiting)
  /\ Goes(h, "end")
  /\ UNCHANGED <<world, copy, seen, now, intent, kept>>

MayWake(h) ==
  /\ work = "ready" /\ PlannersIdle(h)
  /\ Healthy(seen[h]) # {} /\ copy[h].cooling # "ready_queue"

\* The planner is told of tickets that are ready: an answer counts as recovery.
WakesForReady(h) ==
  /\ RunsWait(h) /\ MayWake(h)
  /\ Writes([row EXCEPT !.cooling = "ready_queue"])
  /\ Goes(h, "end")
  /\ UNCHANGED <<pane, listed, broken, loop, work, waiting, upsets, copy, seen, now, intent, kept>>

\* It is told of tickets without a worker at every pass.
WakesForOrphans(h) ==
  /\ RunsWait(h) /\ work = "orphaned" /\ Healthy(seen[h]) # {}
  /\ Goes(h, "end")
  /\ UNCHANGED <<world, copy, seen, now, intent, kept>>

\* Nothing more when a planner is there and no run is stuck, or while the last
\* recovery for this reason cools.  The broker may have refused the wake-up.
Reconciles(h) ==
  /\ RunsWait(h) /\ ~(work = "orphaned" /\ Healthy(seen[h]) # {})
  /\ IF (seen[h].agents # {} /\ ~Stuck(h)) \/ copy[h].cooling = Reason(h)
     THEN Goes(h, "end") /\ UNCHANGED intent
     ELSE /\ Goes(h, "recover")
          /\ intent' = [intent EXCEPT ![h] =
               [for |-> "run", why |-> Reason(h), force |-> FALSE, into |-> {}]]
  /\ UNCHANGED <<world, copy, seen, now, kept>>

Ends(h) == at[h] = "end" /\ Forgets(h) /\ UNCHANGED world

HealerStep(h) ==
  \/ Looks(h) \/ Activates(h) \/ Checks(h) \/ Repairs(h)
  \/ AwaitsUser(h) \/ FindsHealthy(h) \/ FindsStale(h) \/ FindsWedged(h)
  \/ FindsUnlisted(h) \/ FindsNone(h) \/ Closes(h)
  \/ Recovers(h) \/ Clears(h) \/ Finds(h) \/ Types(h) \/ Throws(h) \/ Notes(h)
  \/ OwesNothing(h) \/ WakesForReady(h) \/ WakesForOrphans(h) \/ Reconciles(h)
  \/ Ends(h)

(***************************************************************************)
(* The planner, Herdr and time                                             *)
(***************************************************************************)
RestUnchanged == UNCHANGED <<broken, row, loop, work, waiting, at, copy, seen, now, intent>>

\* The launcher refuses while Herdr lists a planner (assertAgentIdentityAvailable)
\* and its process ends; a start that finds the lease taken (acquireIdentityLease)
\* is refused its identity, but Pi runs on without one.
Boots(t) ==
  /\ pane[t] = "starting"
  /\ pane' = [pane EXCEPT ![t] =
       IF listed # {} THEN "shell"
       ELSE IF \E u \in Tabs : pane[u] \in Pi \ {"nameless"} THEN "nameless"
       ELSE "live"]
  /\ UNCHANGED <<listed, upsets, kept>> /\ RestUnchanged

\* The projection catches up with the process.
Lists(t) ==
  /\ (t \in listed) # (pane[t] \in Pi)
  /\ listed' = IF t \in listed THEN listed \ {t} ELSE listed \cup {t}
  /\ UNCHANGED <<pane, upsets, kept>> /\ RestUnchanged

\* A planner between two tasks that Herdr shows as done, and back.
Rests(t) ==
  /\ pane[t] \in {"live", "quiet"}
  /\ pane' = [pane EXCEPT ![t] = IF @ = "live" THEN "quiet" ELSE "live"]
  /\ UNCHANGED <<listed, upsets, kept>> /\ RestUnchanged

\* PLANNER_RECOVERY_COOLDOWN_MS and PLANNER_UNHEALTHY_ESCALATION_MS pass, for a
\* pass is short beside them between two passes.
CoolsDown ==
  /\ row.cooling # "no" /\ \A h \in Healers : at[h] = "idle"
  /\ row' = [row EXCEPT !.cooling = "no"]
  /\ UNCHANGED <<pane, listed, broken, loop, work, waiting, upsets, mind>>

GraceEnds ==
  /\ row.since = "recent" /\ \A h \in Healers : at[h] = "idle"
  /\ row' = [row EXCEPT !.since = "past"]
  /\ UNCHANGED <<pane, listed, broken, loop, work, waiting, upsets, mind>>

Answers ==
  /\ waiting /\ waiting' = FALSE
  /\ UNCHANGED <<pane, listed, broken, row, loop, work, upsets, mind>>

(***************************************************************************)
(* Upsets                                                                  *)
(***************************************************************************)
\* Pi exits, or its event loop wedges.
Fails(t, how) ==
  /\ Upset /\ pane[t] \in Pi /\ pane[t] # how
  /\ pane' = [pane EXCEPT ![t] = how]
  /\ kept' = [g \in Healers |-> kept[g] \ {t}]
  /\ UNCHANGED listed /\ RestUnchanged

StartFails(t) ==
  /\ Upset /\ pane[t] = "starting"
  /\ pane' = [pane EXCEPT ![t] = "shell"]
  /\ UNCHANGED <<listed, kept>> /\ RestUnchanged

\* Herdr answers no longer when it is asked about a pane, and answers again.
ProbeBreaks(t, p) ==
  /\ Upset /\ p \notin broken[t]
  /\ broken' = [broken EXCEPT ![t] = @ \cup {p}]
  /\ kept' = [g \in Healers |-> kept[g] \ {t}]
  /\ UNCHANGED <<pane, listed, row, loop, work, waiting, at, copy, seen, now, intent>>

ProbeWorks(t, p) ==
  /\ p \in broken[t]
  /\ broken' = [broken EXCEPT ![t] = @ \ {p}]
  /\ UNCHANGED <<pane, listed, row, loop, work, waiting, upsets, mind>>

UserCloses(t) ==
  /\ Upset /\ pane[t] # "none"
  /\ CloseTabs({t})
  /\ RestUnchanged

UserStarts(t) ==
  /\ Upset /\ (pane[t] = "shell" \/ Unused(t))
  /\ pane' = [pane EXCEPT ![t] = "starting"]
  /\ UNCHANGED <<listed, kept>> /\ RestUnchanged

\* Herdr closes nothing that it was told to close.
Refuses(h) ==
  /\ Upset /\ at[h] \in {"close", "clear"}
  /\ Goes(h, IF at[h] = "close" THEN "recover" ELSE "find")
  /\ UNCHANGED <<pane, listed, broken, row, loop, work, waiting, copy, seen, now, intent, kept>>

\* The next supervisor kills one that held the lock for two minutes.
Killed(h) ==
  /\ Upset /\ at[h] # "idle"
  /\ Forgets(h)
  /\ UNCHANGED <<pane, listed, broken, row, loop, work, waiting>>

LoopUpset ==
  /\ Upset /\ loop # "absent"
  /\ loop' \in {"absent", "outdated"} \ {loop}
  /\ UNCHANGED <<pane, listed, broken, row, work, waiting, mind>>

\* doInit leaves a paused project alone.
Initializes ==
  /\ Upset
  /\ IF row.status = "paused" THEN UNCHANGED <<row, loop>>
     ELSE /\ row' = [(IF Registered THEN row ELSE NewRow) EXCEPT !.status = "running"]
          /\ loop' = "current"
  /\ UNCHANGED <<pane, listed, broken, work, waiting, mind>>

Pause ==
  /\ Upset /\ Registered
  /\ row' = [row EXCEPT !.status = "paused"]
  /\ loop' = "absent"
  /\ UNCHANGED <<pane, listed, broken, work, waiting, mind>>

\* doStart and, of a project that is registered, doResume.
Starts ==
  /\ Upset
  /\ StartLoop
  /\ UNCHANGED <<pane, listed, broken, work, waiting, mind>>

Leave ==
  /\ Upset /\ Registered
  /\ row' = [NewRow EXCEPT !.status = "left"]
  /\ loop' = "absent"
  /\ UNCHANGED <<pane, listed, broken, work, waiting, mind>>

\* The runs of the project go on, or wait for the user.
WorkChanges ==
  /\ Upset
  /\ \/ work' \in Works \ {work} /\ UNCHANGED waiting
     \/ ~waiting /\ waiting' = TRUE /\ UNCHANGED work
  /\ UNCHANGED <<pane, listed, broken, row, loop, mind>>

UserStep ==
  \/ \E t \in Tabs : UserCloses(t) \/ UserStarts(t)
  \/ Initializes \/ Starts \/ Pause \/ Leave \/ WorkChanges

Fault ==
  \/ \E t \in Tabs : StartFails(t) \/ \E how \in {"shell", "wedged"} : Fails(t, how)
  \/ \E t \in Tabs : \E p \in Probes : ProbeBreaks(t, p)
  \/ \E h \in Healers : Refuses(h) \/ Killed(h)
  \/ LoopUpset

PlannerNext ==
  \/ \E h \in Healers : Begins(h) \/ HealerStep(h)
  \/ \E t \in Tabs : Boots(t) \/ Lists(t) \/ Rests(t) \/ \E p \in Probes : ProbeWorks(t, p)
  \/ CoolsDown \/ GraceEnds \/ Answers
  \/ UserStep \/ Fault

\* Cron starts a supervisor every minute and a pass that began goes on; a start
\* comes to an end, Herdr lists what runs, and time passes.
PlannerFairness ==
  /\ \A h \in Healers : WF_prVars(HealerStep(h))
  /\ \A h \in Supervisors : WF_prVars(Begins(h))
  /\ \A t \in Tabs : WF_prVars(Boots(t)) /\ WF_prVars(Lists(t))
  /\ SF_prVars(CoolsDown) /\ SF_prVars(GraceEnds)

PlannerSpec == PlannerInit /\ [][PlannerNext]_prVars
FairPlannerSpec == PlannerSpec /\ PlannerFairness

(***************************************************************************)
(* Properties                                                              *)
(***************************************************************************)
\* A planner that has answered since a pass began, and of whom no probe has failed
\* since, is never closed by that pass (ensureRegisteredPlanner, recoverPlanner),
\* whatever the age of its snapshot, but together with another one that the pass
\* escalated against.
LiveSpared ==
  [][\A h \in Healers : \A t \in kept[h] :
       at'[h] # at[h] /\ pane'[t] = "none" =>
         intent[h].force /\ seen[h].agents # {t}]_prVars

\* A registered project that waits for nobody and has no planner that answers,
\* none at all or one that is wedged, gets one (the permanent control plane of
\* ensureRegisteredPlanner), also while its loop is paused.  A Pi without an
\* identity passes for one.
Owed ==
  /\ row.status \notin {"left", "foreground"} /\ ~waiting
  /\ \A t \in Tabs : pane[t] \notin Answering
PlannerReturns == []<>~Owed

\* recoverPlanner: "Never send a second planner-01 command into a pane after
\* that race".
NoSecondCommand ==
  [][\A h \in Healers : at[h] = "type" /\ at'[h] = "note" /\ Healthy(now[h]) = {} =>
       \A t \in intent[h].into : pane[t] = "shell"]_prVars
=============================================================================
