---------------------------- MODULE AutoImprover ----------------------------
(***************************************************************************)
(* The auto-improver of one project: `yano auto-improve' starts, pauses    *)
(* and resumes its audits, a detached daemon starts those that are due, an *)
(* agent in a Herdr tab carries each of them out and completes it, and the *)
(* crontab's pass closes the tab afterwards and keeps the daemon running.  *)
(*                                                                         *)
(* The processes share one row of auto_projects and write it by single     *)
(* statements: `point' holds where each is between them.  The rows of      *)
(* auto_audits and auto_events are a log that no operation decides on.     *)
(***************************************************************************)
EXTENDS Integers

CONSTANTS
  Daemons,     \* processes that may run daemonLoop
  Perishable,  \* those that may die
  Operators,   \* processes of the command line, or requests of the REST API
  Orders,      \* what operators may ask for
  Cron,        \* the crontab's global pass
  NoDaemon

Auditors == Daemons \cup Operators
AllOrders == {"run", "start", "rehearse", "resume", "pause", "stop"}

ASSUME AutoImproverAssumption ==
  /\ Perishable \subseteq Daemons /\ NoDaemon \notin Daemons
  /\ Orders \subseteq AllOrders
  /\ Daemons \cap Operators = {} /\ Cron \notin Auditors

VARIABLES
  project,    \* the row: worker_status, next_run_at against the clock, and
              \* whether worker_tab_id is set
  agent,      \* an agent works on an audit in the tab
  point,      \* point[c]: the synchronous stretch process c is in
  order,      \* order[o]: what operator o asked for
  daemon,     \* daemon[d]: "off", "up" or "dead"
  pidFile,    \* scheduler.pid
  suspended   \* history: the operators' last word was pause or stop

aiVars == <<project, agent, point, order, daemon, pidFile, suspended>>

Paused  == {"paused", "stopped"}
Resting == {"scheduled", "idle", "blocked", "planned"}

AutoImproverTypeOK ==
  /\ project \in [status : Paused \cup Resting \cup {"running"},
                  next : {"never", "later", "due"}, tab : BOOLEAN]
  /\ agent \in BOOLEAN /\ suspended \in BOOLEAN
  /\ point \in [Auditors \cup {Cron} ->
               {"rest", "chosen", "planned", "launched", "failed", "closing", "closed",
                "scheduler", "spawn"}]
  /\ order \in [Operators -> AllOrders]
  /\ daemon \in [Daemons -> {"off", "up", "dead"}]
  /\ pidFile \in Daemons \cup {NoDaemon}

\* A project that is registered and was never run, and no daemon.
AutoImproverInit ==
  /\ project = [status |-> "stopped", next |-> "never", tab |-> FALSE]
  /\ agent = FALSE
  /\ point = [c \in Auditors \cup {Cron} |-> "rest"]
  /\ order = [o \in Operators |-> "run"]
  /\ daemon = [d \in Daemons |-> "off"]
  /\ pidFile = NoDaemon
  /\ suspended = TRUE

Moves(c, p) == point' = [point EXCEPT ![c] = p]
-----------------------------------------------------------------------------
(* An audit: chosen by a daemon or an operator, created, launched, recorded *)

\* The daemon's SELECT of the due projects.
Choose(d) ==
  /\ daemon[d] = "up" /\ point[d] = "rest"
  /\ project.status \in Resting /\ project.next = "due"
  /\ Moves(d, "chosen")
  /\ UNCHANGED <<project, agent, order, daemon, pidFile, suspended>>

\* createAudit: next_run_at moves before anything is launched.
CreateAudit(c) ==
  /\ point[c] = "chosen"
  /\ project' = [project EXCEPT !.next = "later"]
  /\ Moves(c, "planned")
  /\ UNCHANGED <<agent, order, daemon, pidFile, suspended>>

Rehearses(c) == c \in Operators /\ order[c] = "rehearse"

\* launchWorker: Herdr may be away, refuse the agent or the prompt.
LaunchWorker(c) ==
  /\ point[c] = "planned"
  /\ \/ Rehearses(c) /\ Moves(c, "launched") /\ UNCHANGED agent
     \/ ~Rehearses(c) /\ Moves(c, "launched") /\ agent' = TRUE
     \/ ~Rehearses(c) /\ Moves(c, "failed") /\ UNCHANGED agent
  /\ UNCHANGED <<project, order, daemon, pidFile, suspended>>

\* The last UPDATE of runAudit; `run' and `start' go on to startDaemon unless
\* they are told not to.
RecordLaunch(c) ==
  /\ point[c] = "launched"
  /\ project' = IF Rehearses(c) THEN [project EXCEPT !.status = "planned"]
                ELSE [project EXCEPT !.status = "running", !.tab = TRUE]
  /\ \/ Moves(c, "rest")
     \/ c \in Operators /\ order[c] \in {"run", "start"} /\ Moves(c, "scheduler")
  /\ UNCHANGED <<agent, order, daemon, pidFile, suspended>>

\* Only the daemon writes down that a launch failed.
RecordFailure(c) ==
  /\ point[c] = "failed"
  /\ project' = IF c \in Daemons THEN [project EXCEPT !.status = "blocked"] ELSE project
  /\ Moves(c, "rest")
  /\ UNCHANGED <<agent, order, daemon, pidFile, suspended>>

\* completeAudit, called by the agent.
CompleteAudit ==
  /\ agent
  /\ agent' = FALSE
  /\ project' = [project EXCEPT !.status = "idle"]
  /\ UNCHANGED <<point, order, daemon, pidFile, suspended>>

AgentDies ==
  /\ agent
  /\ agent' = FALSE
  /\ UNCHANGED <<project, point, order, daemon, pidFile, suspended>>

FallsDue ==
  /\ project.next = "later"
  /\ project' = [project EXCEPT !.next = "due"]
  /\ UNCHANGED <<agent, point, order, daemon, pidFile, suspended>>
-----------------------------------------------------------------------------
(* Operators *)

\* doRunOrStart; without --force, `run' leaves a running audit alone.
RunOrStart(o, what) ==
  /\ point[o] = "rest" /\ what \in Orders \cap {"run", "start", "rehearse"}
  /\ order' = [order EXCEPT ![o] = what]
  /\ suspended' = FALSE
  /\ \/ Moves(o, "chosen")
     \/ /\ what # "start" /\ project.status = "running"
        /\ Moves(o, IF what = "run" THEN "scheduler" ELSE "rest")
  /\ UNCHANGED <<project, agent, daemon, pidFile>>

DoResume(o) ==
  /\ point[o] = "rest" /\ "resume" \in Orders
  /\ order' = [order EXCEPT ![o] = "resume"]
  /\ suspended' = FALSE
  /\ project' = [project EXCEPT !.status = "scheduled", !.next = "due"]
  /\ Moves(o, "chosen")
  /\ UNCHANGED <<agent, daemon, pidFile>>

PauseOrStop(o, what) ==
  /\ point[o] = "rest" /\ what \in Orders \cap {"pause", "stop"}
  /\ project' = [project EXCEPT !.status = IF what = "pause" THEN "paused" ELSE "stopped"]
  /\ suspended' = TRUE
  /\ UNCHANGED <<agent, point, order, daemon, pidFile>>
-----------------------------------------------------------------------------
(* The crontab's pass, and the daemon *)

\* closeTerminalAutoImproverSessions: a tab whose audit is over is closed, and
\* forgotten once Herdr has closed it.
PassBegins ==
  /\ point[Cron] = "rest"
  /\ Moves(Cron, IF project.status = "idle" /\ project.tab THEN "closing" ELSE "scheduler")
  /\ UNCHANGED <<project, agent, order, daemon, pidFile, suspended>>

CloseTab ==
  /\ point[Cron] = "closing"
  /\ \/ agent' = FALSE /\ Moves(Cron, "closed")
     \/ UNCHANGED agent /\ Moves(Cron, "scheduler")
  /\ UNCHANGED <<project, order, daemon, pidFile, suspended>>

ForgetTab ==
  /\ point[Cron] = "closed"
  /\ project' = [project EXCEPT !.tab = FALSE]
  /\ Moves(Cron, "scheduler")
  /\ UNCHANGED <<agent, order, daemon, pidFile, suspended>>

Up(d) == d \in Daemons /\ daemon[d] = "up"

\* Faulty variant: whatever the pid file names is taken to be running.
TrustsPidFile(c) == pidFile = NoDaemon

NeedsDaemon(c) == ~Up(pidFile)

\* superviseAutoImprover asks for the daemon unless the project is suspended.
StartDaemon(c) ==
  /\ point[c] = "scheduler"
  /\ Moves(c, IF NeedsDaemon(c) /\ (c = Cron => project.status \notin Paused)
                THEN "spawn" ELSE "rest")
  /\ UNCHANGED <<project, agent, order, daemon, pidFile, suspended>>

\* The child is spawned, and the pid file written, whatever it names by now.
SpawnDaemon(c, d) ==
  /\ point[c] = "spawn" /\ daemon[d] = "off"    \* bound: a process runs once
  /\ daemon' = [daemon EXCEPT ![d] = "up"]
  /\ pidFile' = d
  /\ Moves(c, "rest")
  /\ UNCHANGED <<project, agent, order, suspended>>

DaemonDies(d) ==
  /\ daemon[d] = "up"
  /\ daemon' = [daemon EXCEPT ![d] = "dead"]
  /\ Moves(d, "rest")
  /\ UNCHANGED <<project, agent, order, pidFile, suspended>>
-----------------------------------------------------------------------------
RunsAudit(c) == CreateAudit(c) \/ LaunchWorker(c) \/ RecordLaunch(c) \/ RecordFailure(c)

StartsDaemon(c) == StartDaemon(c) \/ \E d \in Daemons : SpawnDaemon(c, d)

CronPass == PassBegins \/ CloseTab \/ ForgetTab \/ StartsDaemon(Cron)

AutoImproverNext ==
  \/ \E d \in Daemons : Choose(d)
  \/ \E c \in Auditors : RunsAudit(c)
  \/ CompleteAudit \/ AgentDies \/ FallsDue
  \/ \E o \in Operators, what \in Orders : RunOrStart(o, what) \/ PauseOrStop(o, what)
  \/ \E o \in Operators : DoResume(o) \/ StartsDaemon(o)
  \/ CronPass
  \/ \E d \in Perishable : DaemonDies(d)

\* The crontab starts its pass every minute, and the daemon's loop comes round.
AutoImproverFairness ==
  /\ WF_aiVars(CronPass)
  /\ \A d \in Daemons : WF_aiVars(Choose(d)) /\ WF_aiVars(RunsAudit(d))

AutoImproverSpec == AutoImproverInit /\ [][AutoImproverNext]_aiVars /\ AutoImproverFairness
-----------------------------------------------------------------------------
\* An audit that is due is created in the end, although launches fail and a
\* daemon dies, unless the project is suspended or counts as running: a daemon
\* that is gone is started again by somebody who looks at its pid file.
DueIsAudited == []<>~(project.next = "due" /\ project.status \in Resting)

\* "pause suspends the planning": while the operators' last word is pause or
\* stop, no daemon takes the project up for an audit.
PauseSuspends ==
  [][\A d \in Daemons : suspended /\ point[d] = "rest" => point'[d] # "chosen"]_aiVars
=============================================================================
