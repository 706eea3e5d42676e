---------------------------- MODULE Supervision ----------------------------
(***************************************************************************)
(* The ticket engine under the planner's watchdog: processes that die and  *)
(* come back, MQTT connections that drop, the retained presence card of    *)
(* every worker, the copy of those cards each planner keeps, and the sweep *)
(* that marks a running ticket failed when its holder has no card.         *)
(*                                                                         *)
(* SQLite is local, so a process without its MQTT connection goes on       *)
(* reading and writing tickets; only an awaited publish waits for it.      *)
(***************************************************************************)
EXTENDS TicketEngine

CONSTANTS
  LinkDrops,  \* agents whose MQTT connection may drop while the process lives
  MayBusy,    \* TRUE: the sweep's UPDATE may find the database locked
  Openers     \* agents that may open a decision hold of the run

ASSUME LinkAssumption == LinkDrops \subseteq Agents /\ MayBusy \in BOOLEAN
ASSUME OpenerAssumption == Openers \subseteq Agents

VARIABLES
  alive,    \* workers whose process runs
  online,   \* agents whose MQTT connection is up
  will,     \* workers whose broken connection has a last will not yet published
  card,     \* card[w]: the retained status message of w
  seen,     \* seen[p]: workers with a card in the presence map of planner p
  orphans,  \* orphans[p]: what the running sweep of p still has to mark failed
  alerted,  \* alerted[p]: tickets p already handled in their current episode
  hold,     \* the run has an open decision hold
  beset     \* history: planners in whose present sweep a hold was opened

supervision == <<alive, online, will, card, seen, orphans, alerted, hold, beset>>
presence    == <<alive, online, will, card, seen>>
holding     == <<hold, beset>>
svars       == <<vars, supervision>>

SupTypeOK ==
  /\ TypeOK
  /\ alive \subseteq Workers
  /\ online \subseteq Agents /\ online \cap Workers \subseteq alive
  /\ will \subseteq Workers
  /\ card \in [Workers -> {"none", "live", "offline"}]
  /\ seen \in [Planners -> SUBSET Workers]
  /\ orphans \in [Planners -> SUBSET Tickets]
  /\ alerted \in [Planners -> SUBSET Tickets]
  /\ hold \in BOOLEAN /\ beset \subseteq Planners

SupInit ==
  /\ Init
  /\ alive = {} /\ online = Planners /\ will = {}
  /\ card = [w \in Workers |-> "none"]
  /\ seen = [p \in Planners |-> {}]
  /\ orphans = [p \in Planners |-> {}]
  /\ alerted = [p \in Planners |-> {}]
  /\ hold = FALSE /\ beset = {}
-----------------------------------------------------------------------------
(* The engine's steps.  A sweep is synchronous after its last await: its   *)
(* planner does nothing else until the list of orphans is exhausted.       *)

Running(a) == IF a \in Planners THEN orphans[a] = {} ELSE a \in alive

\* Faulty variant: an episode is a ticket, whatever happens to it later.
TicketIsEpisode(ts) == alerted' = alerted

\* An episode is ticket_id::updated_at: writing the row starts a new one.
NewEpisode(ts) == alerted' = [p \in Planners |-> alerted[p] \ ts]

AgentCalls(a) ==
  /\ Running(a)
  /\ \/ a \in Planners /\ PlannerCall(a)
     \/ a \in Workers /\ WorkerCall(a)
     \/ AgentCall(a)
  /\ UNCHANGED supervision

WritesTicket(a) ==
  /\ Running(a)
  /\ ClaimWrite(a) \/ CompleteWrite(a)
  /\ NewEpisode({step[a].t})
  /\ UNCHANGED <<presence, orphans, holding>>

\* publishAsync settles only while the connection is up.
PublishSettles(a) ==
  /\ Running(a) /\ a \in online
  /\ \E t \in Tickets : CompleteCheck(a, t)
  /\ UNCHANGED supervision

AgentContinues(a) ==
  \/ WritesTicket(a)
  \/ PublishSettles(a)
  \/ /\ Running(a)
     /\ AddDependency(a) \/ FinishRun(a) \/ RequeueTxn(a)
     /\ UNCHANGED supervision

\* touchTicketProgress: a tool call of the holder refreshes updated_at.
Progress(w, t) ==
  /\ w \in alive /\ step[w] = Idle
  /\ ticket[t].status = "running" /\ ticket[t].holder = w
  /\ NewEpisode({t})
  /\ UNCHANGED <<vars, presence, orphans, holding>>
-----------------------------------------------------------------------------
(* Processes and connections *)

\* connect publishes the retained card; a heartbeat repeats it.
Connect(a) ==
  /\ online' = online \cup {a}
  /\ card' = IF a \in Workers THEN [card EXCEPT ![a] = "live"] ELSE card

Start(w) ==
  /\ w \notin alive
  /\ alive' = alive \cup {w}
  /\ Connect(w)
  /\ UNCHANGED <<vars, will, seen, orphans, alerted, holding>>

\* The connection is gone; the broker publishes the will when it notices.
Disconnected(a) ==
  /\ online' = online \ {a}
  /\ will' = IF a \in online \cap Workers THEN will \cup {a} ELSE will

Drop(a) ==
  /\ a \in online \cap LinkDrops
  /\ Disconnected(a)
  /\ UNCHANGED <<vars, alive, card, seen, orphans, alerted, holding>>

\* The client reconnects by itself for ever.  The broker may publish the will
\* of the lost connection before it accepts the new one, or after.
Reconnect(a) ==
  /\ a \in (alive \cup Planners) \ online
  /\ Connect(a)
  /\ UNCHANGED <<vars, alive, will, seen, orphans, alerted, holding>>

Heartbeat(w) ==
  /\ w \in online
  /\ card' = [card EXCEPT ![w] = "live"]
  /\ UNCHANGED <<vars, alive, online, will, seen, orphans, alerted, holding>>

\* The will of an old connection also fires when its instance is back.
WillFires(w) ==
  /\ w \in will
  /\ will' = will \ {w}
  /\ card' = [card EXCEPT ![w] = "offline"]
  /\ UNCHANGED <<vars, alive, online, seen, orphans, alerted, holding>>

Forget(a) ==
  \/ Crash(a)
  \/ step[a] = Idle /\ awaiting[a] = {} /\ UNCHANGED vars

WorkerDies(w) ==
  /\ w \in alive
  /\ Forget(w)
  /\ alive' = alive \ {w}
  /\ Disconnected(w)
  /\ UNCHANGED <<card, seen, orphans, alerted, holding>>

\* session_shutdown: a worker that is connected leaves an offline card itself,
\* and ends its connection so that the broker has no will to publish.
ShutDown(w) ==
  /\ w \in alive /\ step[w] = Idle
  /\ Forget(w)
  /\ alive' = alive \ {w}
  /\ online' = online \ {w}
  /\ card' = IF w \in online THEN [card EXCEPT ![w] = "offline"] ELSE card
  /\ UNCHANGED <<will, seen, orphans, alerted, holding>>

\* What was opened around a sweep is forgotten with the sweep.
SweepsOn == beset' = {p \in beset : orphans'[p] # {}}

\* A planner dies, perhaps in the middle of a sweep, and is launched again.
PlannerRestarts(p) ==
  /\ Forget(p)
  /\ seen' = [seen EXCEPT ![p] = {}]
  /\ orphans' = [orphans EXCEPT ![p] = {}]
  /\ alerted' = [alerted EXCEPT ![p] = {}]
  /\ SweepsOn
  /\ UNCHANGED <<alive, online, will, card, hold>>

\* A presence message is delivered: an offline card is a tombstone.
SeeCard(p, w) ==
  /\ Running(p) /\ p \in online
  /\ card[w] # "none"
  /\ seen' = [seen EXCEPT ![p] = IF card[w] = "live" THEN @ \cup {w} ELSE @ \ {w}]
  /\ UNCHANGED <<vars, alive, online, will, card, orphans, alerted, holding>>

\* staleSweepTimer: no heartbeat of w reached p for three periods, because w
\* or either connection is gone.
StalePrune(p, w) ==
  /\ Running(p) /\ w \in seen[p]
  /\ p \notin online \/ w \notin online
  /\ seen' = [seen EXCEPT ![p] = @ \ {w}]
  /\ UNCHANGED <<vars, alive, online, will, card, orphans, alerted, holding>>
-----------------------------------------------------------------------------
(* decision_hold_create (by a planner or a `user') or a playbook_transition *)
(* with a human_approval effect (by the actor the Playbook names), and the  *)
(* answer, cancellation or expiry of the hold.                              *)

OpenHold(a) ==
  /\ Running(a) /\ step[a] = Idle
  /\ ~hold /\ hold' = TRUE
  /\ beset' = {p \in Planners : orphans[p] # {}}
  /\ UNCHANGED <<vars, presence, orphans, alerted>>

ResolveHold ==
  /\ hold /\ hold' = FALSE
  /\ UNCHANGED <<vars, presence, orphans, alerted, beset>>
-----------------------------------------------------------------------------
(* watchdogSweep: read the running tickets without a card, then one UPDATE *)
(* for each of them.                                                       *)

Orphaned(p) ==
  {t \in Tickets : /\ ticket[t].status = "running"
                   /\ ticket[t].holder \notin seen[p] \cup {NoAgent}}

\* Faulty variant: open decision holds are not consulted.
SweepIgnoresHolds(p) ==
  /\ Running(p) /\ step[p] = Idle
  /\ run.status = "active"
  /\ LET found == Orphaned(p) \ alerted[p] IN
       /\ found # {}
       /\ orphans' = [orphans EXCEPT ![p] = found]
       /\ alerted' = [alerted EXCEPT ![p] = @ \cup found]
  /\ UNCHANGED <<vars, presence, holding>>

\* The alert is recorded before the UPDATE is tried.
SweepRead(p) ==
  /\ Running(p) /\ step[p] = Idle
  /\ run.status = "active" /\ ~hold
  /\ LET found == Orphaned(p) \ alerted[p] IN
       /\ found # {}
       /\ orphans' = [orphans EXCEPT ![p] = found]
       /\ alerted' = [alerted EXCEPT ![p] = @ \cup found]
  /\ UNCHANGED <<vars, presence, holding>>

\* A failed row's holder is read by nothing that follows, so the SELECT before
\* the UPDATE is not a step of its own.
SweepWrite(p, t) ==
  /\ t \in orphans[p]
  /\ UpdateTicket(t, "failed", ticket[t].holder)
  /\ orphans' = [orphans EXCEPT ![p] = @ \ {t}]
  /\ NewEpisode({t})
  /\ SweepsOn
  /\ UNCHANGED <<deps, run, recovery, step, awaiting, presence, hold>>

\* SQLITE_BUSY is swallowed: best-effort.
SweepBusy(p, t) ==
  /\ MayBusy
  /\ t \in orphans[p]
  /\ orphans' = [orphans EXCEPT ![p] = @ \ {t}]
  /\ SweepsOn
  /\ UNCHANGED <<vars, presence, alerted, hold>>

Sweep(p) ==
  \/ SweepRead(p)
  \/ \E t \in Tickets : SweepWrite(p, t) \/ SweepBusy(p, t)
-----------------------------------------------------------------------------
Network ==
  \/ \E a \in Agents : Drop(a) \/ Reconnect(a)
  \/ \E w \in Workers : Start(w) \/ Heartbeat(w) \/ WillFires(w)
  \/ \E p \in Planners, w \in Workers : SeeCard(p, w) \/ StalePrune(p, w)
  \/ \E w \in Workers \cap MayCrash : WorkerDies(w) \/ ShutDown(w)
  \/ \E p \in Planners \cap MayCrash : PlannerRestarts(p)

SupNext ==
  \/ \E a \in Agents : AgentCalls(a) \/ AgentContinues(a)
  \/ \E w \in Workers, t \in Tickets : Progress(w, t)
  \/ Network
  \/ \E a \in Openers : OpenHold(a)
  \/ \E p \in Planners : Sweep(p)
  \/ ResolveHold
  \/ End /\ UNCHANGED supervision

SupSpec == SupInit /\ [][SupNext]_svars

\* Started stretches and sweeps run to their end; timers of a live planner
\* keep firing, and find it between two tool calls again and again (strong
\* fairness); the broker notices a dead connection.  Nothing obliges an agent
\* to reconnect or a dead worker to be launched again.
SupFairness ==
  /\ \A a \in Agents : WF_svars(AgentContinues(a))
  /\ \A p \in Planners :
       /\ SF_svars(SweepRead(p))
       /\ \A t \in Tickets : WF_svars(SweepWrite(p, t) \/ SweepBusy(p, t))
       /\ \A w \in Workers : WF_svars(StalePrune(p, w))
  /\ \A w \in Workers : WF_svars(WillFires(w))

FairSupSpec == SupSpec /\ SupFairness
-----------------------------------------------------------------------------
(* What supervision guarantees *)

SweepFails(p, t) == t \in orphans[p] /\ t \notin orphans'[p] /\ ticket'[t] # ticket[t]

\* An open decision hold pauses the sweep: no ticket is failed for its
\* holder's absence while the run waits for a human, whoever opens and answers
\* holds around the sweep and however often, unless this sweep had begun when
\* the hold was opened: the holds are read once, before the UPDATEs.
HoldPausesSweep ==
  [][\A p \in Planners, t \in Tickets : SweepFails(p, t) /\ hold => p \in beset]_svars

\* A ticket whose holder dies for good does not stay running for ever: the
\* will or the stale timer removes the card and some sweep fails the ticket,
\* unless the run is closed or a human is asked.
Stranded(t) ==
  /\ ticket[t].status = "running" /\ ticket[t].holder \notin alive
  /\ run.status = "active" /\ ~hold
OrphanRescued == \A t \in Tickets : []<>~Stranded(t)
============================================================================
