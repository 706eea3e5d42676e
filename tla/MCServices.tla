----------------------------- MODULE MCServices -----------------------------
(* Five services beside the ticket engine: the scheduler, the feedback       *)
(* queue, the worktrees, the files of a task and the architect.  Each keeps  *)
(* its own state, in its own files or tables, and none reads another's: a    *)
(* behaviour is of one of them, chosen at its start, while the others stay   *)
(* as they begin.                                                            *)
EXTENDS Scheduler, FeedbackQueue, Worktrees, TaskFiles, Architect

CONSTANT Part
VARIABLE part

MCDue == [j \in Jobs |-> CASE j = "digest" -> {} [] j = "ask" -> {0} [] j = "plan" -> {1}
                    [] OTHER -> {1, 2}]
MCOutcomes ==
  [j \in Jobs |-> CASE j = "digest" -> {"done"} [] j = "ask" -> {"open", "recoverable"}
                    [] j = "plan" -> {"thrown"} [] OTHER -> {"done", "broken"}]
MCCommands == {<<"add", "once">>, <<"run", "ask">>, <<"run", "plan">>}
MCType == [i \in Items |-> "bug"]

\* The last one names a coder nowhere: plan_set refuses it.
MCDeclarations ==
  {<<{"tdd"}, {"coder"}, {"docs"}>>, <<{"coder", "tdd"}, {"docs"}>>, <<{"tdd"}, {"docs"}>>}

\* One of the files is claimed by one member only.
Claimable == [m \in Members |-> IF m = "p" THEN Files ELSE {"f"}]

\* What a Playbook for each task needs; both have the same id.
MCNeeds == [t \in Tasks |-> IF t = "team" THEN {"mcp"} ELSE {"cli"}]
MCPlaybook == [t \in Tasks |-> "ours"]

MCInit ==
  /\ part \in Part
  /\ SchedulerInit /\ FeedbackInit /\ WorktreeInit /\ TaskFilesInit /\ ArchitectInit

MCNext ==
  /\ UNCHANGED part
  /\ \/ /\ part = "scheduler" /\ SchedulerNext
        /\ UNCHANGED <<fbVars, wtVars, tfVars, arVars>>
     \/ /\ part = "feedback" /\ FeedbackNext
        /\ UNCHANGED <<schVars, wtVars, tfVars, arVars>>
     \/ /\ part = "worktrees" /\ WorktreeNext
        /\ UNCHANGED <<schVars, fbVars, tfVars, arVars>>
     \/ /\ part = "files" /\ TaskFilesNext
        /\ UNCHANGED <<schVars, fbVars, wtVars, arVars>>
     \/ /\ part = "architect" /\ ArchitectNext
        /\ UNCHANGED <<schVars, fbVars, wtVars, tfVars>>

MCSpec ==
  /\ MCInit /\ [][MCNext]_<<part, schVars, fbVars, wtVars, tfVars, arVars>>
  /\ QueueRunsOn /\ WF_fbVars(part = "feedback" /\ Watches)

\* Bounds: nothing is explored after a write of the registry that undid
\* another, a lock that was taken from a live pass or a minute that a job ran
\* for twice, nor after a second task was finalized, abandoned or left by a
\* death, a file was told to two members or a second lock lapsed or was torn,
\* nor once the guarantees of the architect do not cover a proposal or a
\* Playbook; the calls of one behaviour write the plan or the locks; only the
\* process that may be interrupted promotes, one version of a Playbook, and a
\* proposal is judged after its interview.
Watched ==
  /\ mishaps \subseteq {"unsaved"} /\ twice = {}
  /\ Cardinality(died) + Cardinality(discarded) + Cardinality(finalized) <= 1
  /\ \/ locks = {} /\ \A m \in Members : request[m].to # "locks" /\ mine[m] = {}
     \/ plan = <<>> /\ atWork = {} /\ \A m \in Members : request[m].to # "plan"
  /\ \A m, n \in Members : m # n => mine[m] \cap mine[n] = {}
  /\ \A m \in Members : request[m].claim \subseteq Claimable[m]
  /\ Cardinality(lapsed) + Cardinality(torn) <= 1
  /\ blurred = {} /\ razed = {}
  /\ \A c \in Commanders \ Interruptible :
       command[c].at \notin {"gate"} \cup Gating \cup Promoting
  /\ \A k \in Playbooks : Cardinality(catalog[k].copied) <= 1
  /\ \A p \in Proposals :
       interview[p] => evidence[p] = {} /\ \A k \in Playbooks : catalog[k] = Vacant

\* Types and ranges of the five services.
ServicesTypeOK ==
  /\ SchedulerTypeOK /\ FeedbackTypeOK /\ WorktreeTypeOK /\ TaskFilesTypeOK
  /\ ArchitectTypeOK

\* QueueDrains in the behaviours in which anything happens to the queue: while
\* some planner is healthy, no item stays in it.
ItemsDrain == \A i \in Items : []<>~(part = "feedback" /\ Announced(i))
=============================================================================
