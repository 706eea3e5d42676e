----------------------------- MODULE MCRecovery -----------------------------
(* What comes back: failed tickets by the planners of a run, the planner     *)
(* itself by the external watcher, and the audits of the auto-improver by a  *)
(* daemon that the same watcher keeps running.  A behaviour is of one of     *)
(* them, chosen at its start; in the others' the project is not registered   *)
(* with the watcher, its run has no tickets, or the crontab has no pass.     *)
EXTENDS TicketEngine, PlannerRecovery, AutoImprover

CONSTANT Part
VARIABLE part

MCQualified == [t \in Tickets |-> Workers]

MCInit ==
  /\ part \in Part /\ Init /\ PlannerInit /\ AutoImproverInit
  /\ part # "planner" => row.status = "left" /\ work = CHOOSE w \in Works : TRUE

MCNext ==
  /\ UNCHANGED part
  /\ \/ part = "tickets" /\ Next /\ UNCHANGED <<prVars, aiVars>>
     \/ part = "planner" /\ PlannerNext /\ UNCHANGED <<vars, aiVars>>
     \/ part = "improver" /\ AutoImproverNext /\ UNCHANGED <<vars, prVars>>

\* AutoImproverFairness: no daemon runs in the behaviours of the others.
MCSpec ==
  /\ MCInit /\ [][MCNext]_<<part, vars, prVars, aiVars>>
  /\ PlannerFairness
  /\ WF_aiVars(part = "improver" /\ CronPass)
  /\ \A d \in Daemons : WF_aiVars(Choose(d)) /\ WF_aiVars(RunsAudit(d))

\* Bound: while both healers are at work, no planner shows as done in Herdr.
Watched ==
  (\A h \in Healers : at[h] # "idle") => \A t \in Tabs : pane[t] # "quiet"
=============================================================================
