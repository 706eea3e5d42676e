----------------------------- MODULE TaskFiles -----------------------------
(***************************************************************************)
(* The two JSON files that coordinate the agents of one task: the phase    *)
(* plan, which planners declare and advance and agent_send consults, and   *)
(* the advisory locks on files of the worktree.  A call reads a file,      *)
(* computes what it becomes and writes it whole.  Within a process nothing *)
(* comes in between; between processes anything may, and a file that is    *)
(* being written is empty for a moment, which every reader takes for none. *)
(***************************************************************************)
EXTENDS Naturals, Sequences, FiniteSets

CONSTANTS
  Members,       \* agents of the task
  PlannerRole,   \* those that may set and advance the plan
  Fragile,       \* those that may die during a call
  Roles,         \* roles a plan may name
  Coding,        \* coder, refactoring-specialist, repo-curator
  Coder, Tester, Documenter,  \* coder, tdd-agent, docs-sync
  Declarations,  \* plans that may be declared: sequences of sets of roles
  Files          \* files of the worktree

ASSUME TaskFilesAssumption ==
  /\ PlannerRole \subseteq Members /\ Fragile \subseteq Members
  /\ Coding \subseteq Roles /\ Coder \in Coding
  /\ Declarations \subseteq Seq(SUBSET Roles)

VARIABLES
  plan,     \* <slug>.plan.json: the phases; empty when there is none to be read
  locks,    \* .orchestrator-locks.json: <<file, holder>>
  lapsed,   \* locks that are older than their time to live
  request,  \* request[m]: the call of m, and what it is about to write
  mine,     \* mine[m]: files m was told it holds, and still does as far as it knows
  atWork,   \* roles that were handed work of the task
  torn      \* history: <<file, member>>, what a member was told by a call that
            \* another crossed, or had been told when the file of locks was
            \* read or opened while another call was writing it, or was lost

tfVars == <<plan, locks, lapsed, request, mine, atWork, torn>>

Phase == [roles: SUBSET Roles, status: {"locked", "unlocked", "complete"}]
NoRequest == [to |-> "none", open |-> FALSE, mixed |-> FALSE, crossed |-> FALSE,
              plan |-> <<>>, locks |-> {}, claim |-> {}]

\* What plan_set asks of the phases: coding first, or tests alone and then the
\* coder; documentation last; nobody in two phases.
WellFormed(phases) ==
  /\ Len(phases) > 0 /\ \A i \in 1..Len(phases) : phases[i] # {}
  /\ \/ phases[1] \cap Coding # {}
     \/ phases[1] = {Tester} /\ Len(phases) > 1 /\ Coder \in phases[2]
  /\ Documenter \in phases[Len(phases)]
  /\ \A i, j \in 1..Len(phases) : i # j => phases[i] \cap phases[j] = {}

RolesOf(p) == [i \in 1..Len(p) |-> p[i].roles]

GoodPlan(p) == p \in Seq(Phase) /\ (p # <<>> => WellFormed(RolesOf(p)))

TaskFilesTypeOK ==
  /\ GoodPlan(plan)
  /\ locks \subseteq Files \X Members /\ lapsed \subseteq Files \X Members
  /\ \A m \in Members :
       /\ request[m].to \in {"none", "plan", "locks"}
       /\ request[m].open \in BOOLEAN /\ request[m].mixed \in BOOLEAN
       /\ request[m].crossed \in BOOLEAN
       /\ GoodPlan(request[m].plan) /\ request[m].locks \subseteq Files \X Members
       /\ request[m].claim \subseteq Files
  /\ mine \in [Members -> SUBSET Files]
  /\ atWork \subseteq Roles
  /\ torn \subseteq Files \X Members

TaskFilesInit ==
  /\ plan = <<>> /\ locks = {} /\ lapsed = {}
  /\ request = [m \in Members |-> NoRequest]
  /\ mine = [m \in Members |-> {}] /\ atWork = {} /\ torn = {}
-----------------------------------------------------------------------------
(* The plan *)

Prior(i, phases) ==
  i \in 1..Len(plan) /\ plan[i].roles = phases[i] /\ plan[i].status = "complete"

\* Faulty variant: only phases that are complete keep their status.
RedeclaredOnce(phases) ==
  [i \in 1..Len(phases) |->
     [roles |-> phases[i],
      status |-> IF Prior(i, phases) THEN "complete" ELSE IF i = 1 THEN "unlocked" ELSE "locked"]]

\* A complete phase with the same number and roles stays complete; the first
\* phase, and every phase after a complete one, is unlocked.
Redeclared(phases) ==
  [i \in 1..Len(phases) |->
     [roles |-> phases[i],
      status |-> IF Prior(i, phases) THEN "complete"
                 ELSE IF i = 1 \/ Prior(i - 1, phases) THEN "unlocked" ELSE "locked"]]

PlanSet(m, phases) ==
  /\ request[m] = NoRequest /\ WellFormed(phases)
  /\ request' = [request EXCEPT ![m] = [NoRequest EXCEPT !.to = "plan", !.plan = Redeclared(phases)]]
  /\ UNCHANGED <<plan, locks, lapsed, mine, atWork, torn>>

\* Completing an unlocked phase, once its tickets are done, unlocks the next.
PlanAdvance(m, i) ==
  /\ request[m] = NoRequest /\ i \in 1..Len(plan) /\ plan[i].status = "unlocked"
  /\ LET after == [j \in 1..Len(plan) |->
                     IF j = i THEN [plan[j] EXCEPT !.status = "complete"]
                     ELSE IF j = i + 1 /\ plan[j].status = "locked"
                       THEN [plan[j] EXCEPT !.status = "unlocked"]
                     ELSE plan[j]] IN
       request' = [request EXCEPT ![m] = [NoRequest EXCEPT !.to = "plan", !.plan = after]]
  /\ UNCHANGED <<plan, locks, lapsed, mine, atWork, torn>>

\* agent_send with a slug: refused when the role is in a locked phase; without
\* a plan that can be read nothing is refused.
Handoff(r) ==
  /\ r \notin atWork
  /\ \A i \in 1..Len(plan) : r \in plan[i].roles => plan[i].status # "locked"
  /\ atWork' = atWork \cup {r}
  /\ UNCHANGED <<plan, locks, lapsed, request, mine, torn>>
-----------------------------------------------------------------------------
(* The locks *)

Live(entries) == entries \ lapsed
Changing == {m \in Members : request[m].to = "locks"}
Writing == \E m \in Changing : request[m].open

\* What members were told they hold.
Told == {l \in Files \X Members : l[1] \in mine[l[2]]}
Tears(all) == torn' = IF all THEN torn \cup Told ELSE torn

\* A call has read the locks: the text it is about to write, and its claim.
Begins(m, text, claim) ==
  /\ request[m] = NoRequest
  /\ request' = [n \in Members |->
       IF n = m THEN [NoRequest EXCEPT !.to = "locks", !.locks = text, !.claim = claim,
                                       !.crossed = Changing # {}]
       ELSE [request[n] EXCEPT !.crossed = @ \/ n \in Changing]]
  /\ Tears(Writing)
  /\ UNCHANGED <<plan, locks, lapsed, atWork>>

WithClaim(m, f) == {l \in Live(locks) : l[1] # f} \cup {<<f, m>>}

\* Faulty variant: the entry of another holder is replaced.
ClaimOver(m, f) == Begins(m, WithClaim(m, f), {f}) /\ UNCHANGED mine

\* Refused when another agent holds the file; locks that have expired go.
FileClaim(m, f) ==
  /\ \A l \in Live(locks) : l[1] = f => l[2] = m
  /\ Begins(m, WithClaim(m, f), {f})
  /\ UNCHANGED mine

FileRelease(m, f) ==
  /\ Begins(m, locks \ {<<f, m>>}, {})
  /\ mine' = [mine EXCEPT ![m] = @ \ {f}]

\* Twenty minutes pass, far longer than a call.
Lapse(l) ==
  /\ l \in locks \ lapsed /\ Changing = {}
  /\ lapsed' = lapsed \cup {l}
  /\ mine' = [mine EXCEPT ![l[2]] = @ \ {l[1]}]
  /\ UNCHANGED <<plan, locks, request, atWork, torn>>

\* worktree_finalize removes the locks before it knows that the merge succeeds;
\* who has the file open then may write what nobody will read.
LocksRemoved ==
  /\ locks # {} \/ Writing
  /\ locks' = {} /\ lapsed' = {}
  /\ request' = [n \in Members |->
       LET writes == n \in Changing /\ request[n].open
       IN  [request[n] EXCEPT !.mixed = @ \/ writes, !.crossed = @ \/ writes]]
  /\ Tears(TRUE)
  /\ UNCHANGED <<plan, mine, atWork>>
-----------------------------------------------------------------------------
(* writeFileSync: the file is emptied, then written. *)

Empties(m) ==
  /\ request[m].to # "none" /\ ~request[m].open
  /\ request' = [request EXCEPT ![m].open = TRUE]
  /\ IF request[m].to = "plan" THEN plan' = <<>> /\ UNCHANGED locks
     ELSE locks' = {} /\ UNCHANGED plan
  /\ Tears(request[m].to = "locks" /\ Writing)
  /\ UNCHANGED <<lapsed, mine, atWork>>

\* Over the text of another writer a shorter text leaves a file that is no JSON.
Fills(m) ==
  /\ request[m].open
  /\ \E readable \in {TRUE, ~request[m].mixed} :
       IF request[m].to = "plan"
         THEN plan' = (IF readable THEN request[m].plan ELSE <<>>) /\ UNCHANGED <<locks, lapsed>>
         ELSE /\ locks' = (IF readable THEN request[m].locks ELSE {})
              /\ lapsed' = (lapsed \cap locks') \ (request[m].claim \X {m})
              /\ UNCHANGED plan
  /\ mine' = [mine EXCEPT ![m] = @ \cup request[m].claim]
  /\ torn' = IF request[m].crossed THEN torn \cup (request[m].claim \X {m})
             ELSE torn \ (request[m].claim \X {m})
  /\ request' = [n \in Members |->
       IF n = m THEN NoRequest
       ELSE IF request[n].open /\ request[n].to = request[m].to THEN [request[n] EXCEPT !.mixed = TRUE]
       ELSE request[n]]
  /\ UNCHANGED atWork

\* A member that dies holds nothing any more; a file it has emptied stays so.
MemberDies(m) ==
  /\ request[m] # NoRequest
  /\ request' = [request EXCEPT ![m] = NoRequest]
  /\ mine' = [mine EXCEPT ![m] = {}]
  /\ Tears(request[m].to = "locks" /\ request[m].open)
  /\ UNCHANGED <<plan, locks, lapsed, atWork>>
-----------------------------------------------------------------------------
TaskFilesNext ==
  \/ \E m \in PlannerRole :
       \/ \E phases \in Declarations : PlanSet(m, phases)
       \/ \E i \in 1..Len(plan) : PlanAdvance(m, i)
  \/ \E r \in Roles : Handoff(r)
  \/ \E m \in Members :
       \/ Empties(m) \/ Fills(m)
       \/ \E f \in Files : FileClaim(m, f) \/ FileRelease(m, f)
  \/ \E l \in Files \X Members : Lapse(l)
  \/ LocksRemoved
  \/ \E m \in Fragile : MemberDies(m)

TaskFilesSpec == TaskFilesInit /\ [][TaskFilesNext]_tfVars
-----------------------------------------------------------------------------
(* What the files guarantee *)

\* However plans are declared again while phases are under way, and whoever
\* overwrites whose plan: the first phase that is not complete is unlocked, so
\* that the plan can go on, and an unlocked phase has a complete one before it.
PlanInOrder ==
  \A i \in 1..Len(plan) :
    plan[i].status # "complete" =>
      (plan[i].status = "unlocked" <=> i = 1 \/ plan[i - 1].status = "complete")

\* Two agents hold the same file, as far as they know, only if one of them was
\* told so by a call that another crossed, or the locks were read or opened
\* while they were being written, or lost, since it was told.  Calls that cross
\* do not endanger what others had been told before, as long as no two of them
\* are at the file in the moment in which it is empty.
ClaimsExclude ==
  \A m, n \in Members : m # n =>
    \A f \in mine[m] \cap mine[n] : {<<f, m>>, <<f, n>>} \cap torn # {}
=============================================================================
