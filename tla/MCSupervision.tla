--------------------------- MODULE MCSupervision ---------------------------
(* What the agents of a run see and hear of each other: the supervision of *)
(* workers by their planner, and the messages that instances delegate      *)
(* with.  A behaviour is of one of them, chosen at its start; the other    *)
(* stays as it begins, with no action enabled that fairness speaks of.     *)
EXTENDS Supervision, Messaging

CONSTANTS Part, Worker, Planner, Repeated

\* Every worker may do every ticket.
MCQualified == [t \in Tickets |-> Workers]

\* A worker sends messages to a planner, directly or because their target is
\* offline; when nobody is there they reach no instance.  Only one message, and
\* the answers to it, are delivered twice.
MCSender == [a \in Assignments |-> Worker]
MCRoutes == [a \in Assignments |-> {{Planner}, {}}]
MCCopies == [a \in Assignments |-> IF a = Repeated THEN 2 ELSE 1]

\* In a calm behaviour the planner stays up and the database is never locked
\* when the sweep writes: what supervision promises then is checked in the same
\* run as what it promises whatever happens.
VARIABLE part

\* The workers whose card a planner has had, in the behaviours that are
\* watched for it.
VARIABLE met

Rough ==
  \/ \E p \in Planners, t \in Tickets : SweepBusy(p, t)
  \/ \E p \in Planners : PlannerRestarts(p)

MCInit ==
  /\ part \in Part /\ SupInit /\ MsgInit
  /\ met = [p \in Planners |-> {}]

MCNext ==
  /\ UNCHANGED part
  /\ \/ part \in {"rough", "witnessed"} /\ SupNext /\ UNCHANGED msgVars
     \/ part = "calm" /\ SupNext /\ ~Rough /\ UNCHANGED msgVars
     \/ part = "messages" /\ MsgNext /\ UNCHANGED svars
  /\ met' = IF part = "witnessed" THEN [p \in Planners |-> met[p] \cup seen'[p]] ELSE met

MCSpec == MCInit /\ [][MCNext]_<<part, met, svars, msgVars>> /\ SupFairness /\ MsgFairness

\* A ticket stranded by its holder's death is failed by some sweep, in every
\* calm behaviour.
CalmRescue == \A t \in Tickets : []<>~(part = "calm" /\ Stranded(t))

\* "presence is either there (instance confirmably connected) or it isn't ...
\* it's a fact": a sweep that has had a worker's card fails its tickets only
\* when the worker is not connected any more.
OrphansAreGone ==
  [][\A p \in Planners, t \in Tickets :
       SweepFails(p, t) /\ ticket[t].holder \in met[p] => ticket[t].holder \notin online
    ]_<<met, svars>>
============================================================================
