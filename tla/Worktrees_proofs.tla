-------------------------- MODULE Worktrees_proofs --------------------------
(***************************************************************************)
(* Proofs about the worktrees of tasks and the files that coordinate the   *)
(* agents in one, for any number of tasks, agents, calls, pieces of work   *)
(* and deaths. For the worktrees the induction rests on what a call knows  *)
(* once it has looked for uncommitted work: whatever lies loose in that    *)
(* worktree from then on was written late, and once its merge is through   *)
(* what is on the branch and not on the main branch was written late too.  *)
(* For the locks it rests on the text that the only call that changes them *)
(* is about to write.                                                      *)
(***************************************************************************)
EXTENDS Worktrees, TaskFiles, SequenceTheorems, TLAPS

\* What lies loose in a worktree was written after a call had looked at it.
LooseIsLate ==
  \A c \in Callers : call[c].at \in Blind => loose[call[c].slug] \subseteq late

\* After the merge, what is on the branch alone was written late.
BranchIsMerged ==
  \A c \in Callers :
    call[c].at \in {"merged", "removed"} => committed[call[c].slug] \ late \subseteq main

CallsHaveTask == \A c \in Callers : call[c].at # "idle" => call[c].slug \in Slugs

IInv ==
  /\ WorktreeTypeOK /\ CallsHaveTask
  /\ LooseIsLate /\ BranchIsMerged /\ LostOnlyLate /\ MainLeftClean

USE WorktreeAssumption DEF CallPoints, Ready, Blind
-----------------------------------------------------------------------------
\* The calls are idle at the start and nothing has been written.
LEMMA InitIInv == WorktreeInit => IInv
<1>1. [at |-> "idle", slug |-> NoSlug] \in [at: CallPoints, slug: Slugs \cup {NoSlug}]
  OBVIOUS
<1>2. WorktreeInit => WorktreeTypeOK
  BY <1>1, ZenonT(30) DEF WorktreeInit, WorktreeTypeOK
<1>3. WorktreeInit => CallsHaveTask /\ LooseIsLate /\ BranchIsMerged /\ LostOnlyLate /\ MainLeftClean
  BY DEF WorktreeInit, CallsHaveTask, LooseIsLate, BranchIsMerged, LostOnlyLate, MainLeftClean
<1> QED BY <1>2, <1>3 DEF IInv

LEMMA CreateStep ==
  ASSUME IInv, NEW s \in Slugs, Create(s)
  PROVE  IInv'
<1> USE DEF IInv, Create, files
<1>1. WorktreeTypeOK'
  BY DEF WorktreeTypeOK
<1>2. CallsHaveTask' /\ LooseIsLate' /\ BranchIsMerged' /\ LostOnlyLate' /\ MainLeftClean'
  BY DEF CallsHaveTask, LooseIsLate, BranchIsMerged, LostOnlyLate, MainLeftClean
<1> QED BY <1>1, <1>2

\* What is committed lay loose: if a call has merged the branch by then, it is late.
LEMMA CommitFilesStep ==
  ASSUME IInv, NEW s \in Slugs, CommitFiles(s)
  PROVE  IInv'
<1> USE DEF IInv, CommitFiles, files
<1>1. WorktreeTypeOK'
  BY DEF WorktreeTypeOK
<1>2. LooseIsLate'
  BY DEF WorktreeTypeOK, LooseIsLate
<1>3. BranchIsMerged'
  BY DEF WorktreeTypeOK, BranchIsMerged, LooseIsLate
<1>4. CallsHaveTask' /\ LostOnlyLate' /\ MainLeftClean'
  BY DEF CallsHaveTask, LostOnlyLate, MainLeftClean
<1> QED BY <1>1, <1>2, <1>3, <1>4

\* Work written under a call that has looked is late.
LEMMA WriteFileStep ==
  ASSUME IInv, NEW s \in Slugs, NEW w \in Work, WriteFile(s, w)
  PROVE  IInv'
<1> USE DEF IInv, WriteFile, files, Looked
<1>1. WorktreeTypeOK'
  BY DEF WorktreeTypeOK
<1>2. LooseIsLate'
  BY DEF WorktreeTypeOK, LooseIsLate
<1>3. BranchIsMerged'
  BY DEF WorktreeTypeOK, BranchIsMerged
<1>4. CallsHaveTask' /\ LostOnlyLate' /\ MainLeftClean'
  BY DEF CallsHaveTask, LostOnlyLate, MainLeftClean
<1> QED BY <1>1, <1>2, <1>3, <1>4

LEMMA UserEditsStep ==
  ASSUME IInv, UserEdits
  PROVE  IInv'
<1> USE DEF IInv, UserEdits, files
<1>1. WorktreeTypeOK'
  BY DEF WorktreeTypeOK
<1>2. CallsHaveTask' /\ LooseIsLate' /\ BranchIsMerged' /\ LostOnlyLate' /\ MainLeftClean'
  BY DEF CallsHaveTask, LooseIsLate, BranchIsMerged, LostOnlyLate, MainLeftClean
<1> QED BY <1>1, <1>2

LEMMA UserSettlesStep ==
  ASSUME IInv, UserSettles
  PROVE  IInv'
<1> USE DEF IInv, UserSettles, files
<1>1. WorktreeTypeOK'
  BY DEF WorktreeTypeOK
<1>2. MainLeftClean'
  BY DEF WorktreeTypeOK, MainLeftClean
<1>3. BranchIsMerged'
  BY DEF BranchIsMerged
<1>4. CallsHaveTask' /\ LooseIsLate' /\ LostOnlyLate'
  BY DEF CallsHaveTask, LooseIsLate, LostOnlyLate
<1> QED BY <1>1, <1>2, <1>3, <1>4

LEMMA FinalizeStep ==
  ASSUME IInv, NEW c \in Callers, NEW s \in Slugs, Finalize(c, s)
  PROVE  IInv'
<1> USE DEF IInv, Finalize, files
<1>1. WorktreeTypeOK'
  BY DEF WorktreeTypeOK, CallsHaveTask
<1>2. CallsHaveTask'
  BY DEF WorktreeTypeOK, CallsHaveTask
<1>3. LooseIsLate'
  BY DEF WorktreeTypeOK, LooseIsLate, CallsHaveTask
<1>4. BranchIsMerged'
  BY DEF WorktreeTypeOK, BranchIsMerged, CallsHaveTask
<1>5. MainLeftClean'
  BY DEF WorktreeTypeOK, MainLeftClean
<1>6. LostOnlyLate'
  BY DEF LostOnlyLate
<1> QED BY <1>1, <1>2, <1>3, <1>4, <1>5, <1>6

LEMMA LookAtMainStep ==
  ASSUME IInv, NEW c \in Callers, LookAtMain(c)
  PROVE  IInv'
<1> USE DEF IInv, LookAtMain, files, GoOn, Over
<1>1. WorktreeTypeOK'
  BY DEF WorktreeTypeOK, CallsHaveTask
<1>2. CallsHaveTask'
  BY DEF WorktreeTypeOK, CallsHaveTask
<1>3. LooseIsLate'
  BY DEF WorktreeTypeOK, LooseIsLate, CallsHaveTask
<1>4. BranchIsMerged'
  BY DEF WorktreeTypeOK, BranchIsMerged, CallsHaveTask
<1>5. MainLeftClean'
  BY DEF WorktreeTypeOK, MainLeftClean
<1>6. LostOnlyLate'
  BY DEF LostOnlyLate
<1> QED BY <1>1, <1>2, <1>3, <1>4, <1>5, <1>6

\* The call goes on to the merge only if nothing lies loose.
LEMMA LookAtTreeStep ==
  ASSUME IInv, NEW c \in Callers, LookAtTree(c)
  PROVE  IInv'
<1> USE DEF IInv, LookAtTree, files, GoOn, Over
<1>1. WorktreeTypeOK'
  BY DEF WorktreeTypeOK, CallsHaveTask
<1>2. CallsHaveTask'
  BY DEF WorktreeTypeOK, CallsHaveTask
<1>3. LooseIsLate'
  BY DEF WorktreeTypeOK, LooseIsLate, CallsHaveTask
<1>4. BranchIsMerged'
  BY DEF WorktreeTypeOK, BranchIsMerged, CallsHaveTask
<1>5. MainLeftClean'
  BY DEF WorktreeTypeOK, MainLeftClean
<1>6. LostOnlyLate'
  BY DEF LostOnlyLate
<1> QED BY <1>1, <1>2, <1>3, <1>4, <1>5, <1>6

\* Nothing lies loose after the commit.
LEMMA CommitRestStep ==
  ASSUME IInv, NEW c \in Callers, CommitRest(c)
  PROVE  IInv'
<1> USE DEF IInv, CommitRest, files, GoOn, Over
<1>1. WorktreeTypeOK'
  BY DEF WorktreeTypeOK, CallsHaveTask
<1>2. CallsHaveTask'
  BY DEF WorktreeTypeOK, CallsHaveTask
<1>3. LooseIsLate'
  BY DEF WorktreeTypeOK, LooseIsLate, CallsHaveTask
<1>4. BranchIsMerged'
  BY DEF WorktreeTypeOK, BranchIsMerged, CallsHaveTask, LooseIsLate
<1>5. MainLeftClean'
  BY DEF WorktreeTypeOK, MainLeftClean
<1>6. LostOnlyLate'
  BY DEF LostOnlyLate
<1> QED BY <1>1, <1>2, <1>3, <1>4, <1>5, <1>6

\* All of the branch is on the main branch after the merge.
LEMMA MergeStep ==
  ASSUME IInv, NEW c \in Callers, Merge(c)
  PROVE  IInv'
<1> USE DEF IInv, Merge, files, GoOn, Merged, Clashes
<1>1. WorktreeTypeOK'
  BY DEF WorktreeTypeOK, CallsHaveTask
<1>2. CallsHaveTask'
  BY DEF WorktreeTypeOK, CallsHaveTask
<1>3. LooseIsLate'
  BY DEF WorktreeTypeOK, LooseIsLate, CallsHaveTask
<1>4. BranchIsMerged'
  BY DEF WorktreeTypeOK, BranchIsMerged, CallsHaveTask
<1>5. MainLeftClean'
  BY DEF WorktreeTypeOK, MainLeftClean
<1>6. LostOnlyLate'
  BY DEF LostOnlyLate
<1> QED BY <1>1, <1>2, <1>3, <1>4, <1>5, <1>6

LEMMA AbortMergeStep ==
  ASSUME IInv, NEW c \in Callers, AbortMerge(c)
  PROVE  IInv'
<1> USE DEF IInv, AbortMerge, files, Over
<1>1. WorktreeTypeOK'
  BY DEF WorktreeTypeOK, CallsHaveTask
<1>2. CallsHaveTask'
  BY DEF WorktreeTypeOK, CallsHaveTask
<1>3. LooseIsLate'
  BY DEF WorktreeTypeOK, LooseIsLate, CallsHaveTask
<1>4. BranchIsMerged'
  BY DEF WorktreeTypeOK, BranchIsMerged, CallsHaveTask
<1>5. MainLeftClean'
  BY DEF WorktreeTypeOK, MainLeftClean
<1>6. LostOnlyLate'
  BY DEF LostOnlyLate
<1> QED BY <1>1, <1>2, <1>3, <1>4, <1>5, <1>6

\* What is lost lay loose under a call that had looked.
LEMMA RemoveMergedStep ==
  ASSUME IInv, NEW c \in Callers, RemoveMerged(c)
  PROVE  IInv'
<1> USE DEF IInv, RemoveMerged, files, GoOn, Over, RemoveTree
<1>1. WorktreeTypeOK'
  BY DEF WorktreeTypeOK, CallsHaveTask
<1>2. CallsHaveTask'
  BY DEF WorktreeTypeOK, CallsHaveTask
<1>3. LooseIsLate'
  BY DEF WorktreeTypeOK, LooseIsLate, CallsHaveTask
<1>4. BranchIsMerged'
  BY DEF WorktreeTypeOK, BranchIsMerged, CallsHaveTask
<1>5. LostOnlyLate'
  BY DEF WorktreeTypeOK, LostOnlyLate, CallsHaveTask, LooseIsLate
<1>6. MainLeftClean'
  BY DEF WorktreeTypeOK, MainLeftClean
<1> QED BY <1>1, <1>2, <1>3, <1>4, <1>5, <1>6

LEMMA MarkDoneStep ==
  ASSUME IInv, NEW c \in Callers, MarkDone(c)
  PROVE  IInv'
<1> USE DEF IInv, MarkDone, files, Over
<1>1. WorktreeTypeOK'
  BY DEF WorktreeTypeOK, CallsHaveTask
<1>2. CallsHaveTask'
  BY DEF WorktreeTypeOK, CallsHaveTask
<1>3. LooseIsLate'
  BY DEF WorktreeTypeOK, LooseIsLate, CallsHaveTask
<1>4. BranchIsMerged'
  BY DEF WorktreeTypeOK, BranchIsMerged, CallsHaveTask
<1>5. MainLeftClean'
  BY DEF WorktreeTypeOK, MainLeftClean
<1>6. LostOnlyLate'
  BY DEF LostOnlyLate
<1> QED BY <1>1, <1>2, <1>3, <1>4, <1>5, <1>6

\* Nothing lies loose when the worktree is given up.
LEMMA AbandonStep ==
  ASSUME IInv, NEW c \in Callers, NEW s \in Slugs, Abandon(c, s)
  PROVE  IInv'
<1> USE DEF IInv, Abandon, files
<1>1. WorktreeTypeOK'
  BY DEF WorktreeTypeOK, CallsHaveTask
<1>2. CallsHaveTask'
  BY DEF WorktreeTypeOK, CallsHaveTask
<1>3. LooseIsLate'
  BY DEF WorktreeTypeOK, LooseIsLate, CallsHaveTask
<1>4. BranchIsMerged'
  BY DEF WorktreeTypeOK, BranchIsMerged, CallsHaveTask
<1>5. MainLeftClean'
  BY DEF WorktreeTypeOK, MainLeftClean
<1>6. LostOnlyLate'
  BY DEF LostOnlyLate
<1> QED BY <1>1, <1>2, <1>3, <1>4, <1>5, <1>6

LEMMA RemoveLeftStep ==
  ASSUME IInv, NEW c \in Callers, RemoveLeft(c)
  PROVE  IInv'
<1> USE DEF IInv, RemoveLeft, files, GoOn, Over, RemoveTree
<1>1. WorktreeTypeOK'
  BY DEF WorktreeTypeOK, CallsHaveTask
<1>2. CallsHaveTask'
  BY DEF WorktreeTypeOK, CallsHaveTask
<1>3. LooseIsLate'
  BY DEF WorktreeTypeOK, LooseIsLate, CallsHaveTask
<1>4. BranchIsMerged'
  BY DEF WorktreeTypeOK, BranchIsMerged, CallsHaveTask
<1>5. LostOnlyLate'
  BY DEF WorktreeTypeOK, LostOnlyLate, CallsHaveTask, LooseIsLate
<1>6. MainLeftClean'
  BY DEF WorktreeTypeOK, MainLeftClean
<1> QED BY <1>1, <1>2, <1>3, <1>4, <1>5, <1>6

LEMMA DeleteBranchStep ==
  ASSUME IInv, NEW c \in Callers, DeleteBranch(c)
  PROVE  IInv'
<1> USE DEF IInv, DeleteBranch, files, Over
<1>1. WorktreeTypeOK'
  BY DEF WorktreeTypeOK, CallsHaveTask
<1>2. CallsHaveTask'
  BY DEF WorktreeTypeOK, CallsHaveTask
<1>3. LooseIsLate'
  BY DEF WorktreeTypeOK, LooseIsLate, CallsHaveTask
<1>4. BranchIsMerged'
  BY DEF WorktreeTypeOK, BranchIsMerged, CallsHaveTask
<1>5. MainLeftClean'
  BY DEF WorktreeTypeOK, MainLeftClean
<1>6. LostOnlyLate'
  BY DEF LostOnlyLate
<1> QED BY <1>1, <1>2, <1>3, <1>4, <1>5, <1>6

LEMMA CallerDiesStep ==
  ASSUME IInv, NEW c \in Mortal, CallerDies(c)
  PROVE  IInv'
<1> USE DEF IInv, CallerDies, files, Over
<1>1. WorktreeTypeOK'
  BY DEF WorktreeTypeOK, CallsHaveTask
<1>2. CallsHaveTask'
  BY DEF WorktreeTypeOK, CallsHaveTask
<1>3. LooseIsLate'
  BY DEF WorktreeTypeOK, LooseIsLate, CallsHaveTask
<1>4. BranchIsMerged'
  BY DEF WorktreeTypeOK, BranchIsMerged, CallsHaveTask
<1>5. MainLeftClean'
  BY DEF WorktreeTypeOK, MainLeftClean
<1>6. LostOnlyLate'
  BY DEF LostOnlyLate
<1> QED BY <1>1, <1>2, <1>3, <1>4, <1>5, <1>6

LEMMA Stutter == IInv /\ UNCHANGED wtVars => IInv'
  BY DEF IInv, wtVars, files, WorktreeTypeOK, CallsHaveTask, LooseIsLate, BranchIsMerged, LostOnlyLate,
     MainLeftClean

LEMMA IInvStep == IInv /\ [WorktreeNext]_wtVars => IInv'
<1> SUFFICES ASSUME IInv, [WorktreeNext]_wtVars PROVE IInv'
  OBVIOUS
<1>1. ASSUME NEW s \in Slugs, Create(s) \/ CommitFiles(s) \/ \E w \in Work : WriteFile(s, w)
      PROVE  IInv'
  BY <1>1, CreateStep, CommitFilesStep, WriteFileStep
<1>2. CASE UserEdits \/ UserSettles
  BY <1>2, UserEditsStep, UserSettlesStep
<1>3. ASSUME NEW c \in Callers, CallGoesOn(c) PROVE IInv'
  BY <1>3, LookAtMainStep, LookAtTreeStep, CommitRestStep, MergeStep, AbortMergeStep, RemoveMergedStep,
     MarkDoneStep, RemoveLeftStep, DeleteBranchStep DEF CallGoesOn
<1>4. ASSUME NEW c \in Callers, NEW s \in Slugs, Finalize(c, s) \/ Abandon(c, s) PROVE IInv'
  BY <1>4, FinalizeStep, AbandonStep
<1>5. ASSUME NEW c \in Mortal, CallerDies(c) PROVE IInv'
  BY <1>5, CallerDiesStep
<1>6. CASE UNCHANGED wtVars
  BY <1>6, Stutter
<1> QED BY <1>1, <1>2, <1>3, <1>4, <1>5, <1>6 DEF WorktreeNext
-----------------------------------------------------------------------------
(* The theorems *)

THEOREM InvariantHolds == WorktreeSpec => []IInv
<1> QED BY InitIInv, IInvStep, PTL DEF WorktreeSpec

\* A worktree always has its branch, and every call a task of its own.
THEOREM WorktreeTypes == WorktreeSpec => []WorktreeTypeOK
<1>1. IInv => WorktreeTypeOK
  BY DEF IInv
<1> QED BY <1>1, InvariantHolds, PTL

\* worktree_finalize and worktree_abandon lose only work that was written while
\* one of them had already looked for uncommitted changes.
THEOREM RemovalLosesOnlyLateWork == WorktreeSpec => []LostOnlyLate
<1>1. IInv => LostOnlyLate
  BY DEF IInv
<1> QED BY <1>1, InvariantHolds, PTL

\* A conflicted merge is never left behind in the main checkout, unless the call
\* that made it died or git would not abort it over files edited meanwhile.
THEOREM ConflictsAreAborted == WorktreeSpec => []MainLeftClean
<1>1. IInv => MainLeftClean
  BY DEF IInv
<1> QED BY <1>1, InvariantHolds, PTL

\* Only MarkDone marks a task, and its call has merged the branch before.
LEMMA MarkedIsMerged ==
  ASSUME IInv, [WorktreeNext]_wtVars
  PROVE  \A s \in finalized' \ finalized : committed[s] \ late \subseteq main
<1>1. ASSUME NEW c \in Callers, MarkDone(c)
      PROVE  \A s \in finalized' \ finalized : committed[s] \ late \subseteq main
  BY <1>1 DEF MarkDone, IInv, BranchIsMerged
<1>2. CASE \A c \in Callers : ~MarkDone(c)
  <2>1. finalized' = finalized
    BY <1>2 DEF WorktreeNext, wtVars, CallGoesOn, Create, CommitFiles, WriteFile, UserEdits, UserSettles,
       LookAtMain, LookAtTree, CommitRest, Merge, AbortMerge, RemoveMerged, RemoveLeft, DeleteBranch,
       Finalize, Abandon, CallerDies
  <2> QED BY <2>1
<1> QED BY <1>1, <1>2

\* A run or a feedback record is marked as done only when the branch of its task
\* is merged, whatever other calls did in the meantime.
THEOREM DoneIsMerged == WorktreeSpec => FinalizedIsMerged
<1>1. IInv /\ [WorktreeNext]_wtVars =>
        [\A s \in finalized' \ finalized : committed[s] \ late \subseteq main]_wtVars
  BY MarkedIsMerged
<1> QED BY <1>1, InvariantHolds, PTL DEF WorktreeSpec, FinalizedIsMerged
-----------------------------------------------------------------------------
(* The files of a task                                                     *)

\* The order that PlanInOrder asks of a plan, of one that is about to be written.
Advancing(p) ==
  \A i \in 1..Len(p) :
    p[i].status # "complete" => (p[i].status = "unlocked" <=> i = 1 \/ p[i - 1].status = "complete")
PlansAdvance == Advancing(plan) /\ \A m \in Members : Advancing(request[m].plan)

Requests ==
  [to: {"none", "plan", "locks"}, open: BOOLEAN, mixed: BOOLEAN, crossed: BOOLEAN,
   plan: Seq(Phase), locks: SUBSET (Files \X Members), claim: SUBSET Files]
RequestsTyped ==
  /\ request \in [Members -> Requests]
  /\ \A m \in Members : /\ request[m].open => request[m].to # "none"
                        /\ request[m].to # "locks" => request[m].claim = {}

\* What a member was told and is not torn has not lapsed, is in the file unless that
\* one is open, and is in every text that is about to be written.
SoundKept ==
  \A n \in Members : \A f \in mine[n] :
    <<f, n>> \notin torn =>
      /\ <<f, n>> \notin lapsed /\ (Writing \/ <<f, n>> \in locks)
      /\ \A c \in Changing : <<f, n>> \in request[c].locks

\* A call that no other crossed is the only one, and its text gives its claim to
\* nobody but its caller.
AloneKept ==
  \A c \in Changing : ~request[c].crossed =>
    /\ Changing = {c} /\ ~request[c].mixed
    /\ \A f \in request[c].claim :
         <<f, c>> \in request[c].locks /\ \A n \in Members \ {c} : <<f, n>> \notin request[c].locks

\* Once two calls had the file open, everything told before is torn.
AllTorn == \A n \in Members : \A f \in mine[n] : <<f, n>> \in torn
MixedKept ==
  /\ (\E c \in Changing : request[c].mixed) => AllTorn
  /\ (\E c, d \in Changing : c # d /\ request[c].open /\ request[d].open) => AllTorn

HoldersKept == SoundKept /\ AloneKept /\ MixedKept

FilesInv ==
  TaskFilesTypeOK /\ RequestsTyped /\ PlansAdvance /\ HoldersKept /\ ClaimsExclude
-----------------------------------------------------------------------------
(* Plans                                                                   *)

LEMMA PlanFunction ==
  ASSUME NEW n \in Nat, NEW p \in [1..n -> Phase]
  PROVE  p \in Seq(Phase) /\ Len(p) = n
<1>1. p \in Seq(Phase)
  BY SeqDef
<1>2. Len(p) \in Nat /\ DOMAIN p = 1..Len(p)
  BY <1>1, LenProperties
<1> QED BY <1>1, <1>2

\* plan_set writes a plan of the declared phases that can go on.
LEMMA RedeclaredGood ==
  ASSUME NEW phases \in Declarations, WellFormed(phases)
  PROVE  GoodPlan(Redeclared(phases)) /\ Advancing(Redeclared(phases))
<1> DEFINE n == Len(phases)
           p == Redeclared(phases)
<1>1. /\ phases \in Seq(SUBSET Roles) /\ n \in Nat /\ phases \in [1..n -> SUBSET Roles]
  BY TaskFilesAssumption, LenProperties
<1>2. /\ p \in [1..n -> Phase]
      /\ \A i \in 1..n :
           /\ p[i].roles = phases[i]
           /\ p[i].status = IF Prior(i, phases) THEN "complete"
                            ELSE IF i = 1 \/ Prior(i - 1, phases) THEN "unlocked" ELSE "locked"
  BY <1>1 DEF Redeclared, Phase
<1>3. p \in Seq(Phase) /\ Len(p) = n
  BY <1>1, <1>2, PlanFunction
<1>4. RolesOf(p) = phases
  BY <1>1, <1>2, <1>3 DEF RolesOf
<1>5. Advancing(p)
  BY <1>1, <1>2, <1>3 DEF Advancing
<1> QED BY <1>3, <1>4, <1>5 DEF GoodPlan

\* plan_advance changes no roles, and what it unlocks follows what it completes.
LEMMA AdvancedGood ==
  ASSUME GoodPlan(plan), Advancing(plan), NEW i \in 1..Len(plan), plan[i].status = "unlocked",
         NEW after, after = [j \in 1..Len(plan) |->
                     IF j = i THEN [plan[j] EXCEPT !.status = "complete"]
                     ELSE IF j = i + 1 /\ plan[j].status = "locked"
                       THEN [plan[j] EXCEPT !.status = "unlocked"]
                     ELSE plan[j]]
  PROVE  GoodPlan(after) /\ Advancing(after)
<1> DEFINE n == Len(plan)
<1>1. plan \in Seq(Phase) /\ n \in Nat /\ plan \in [1..n -> Phase]
  BY LenProperties DEF GoodPlan
<1>2. \A j \in 1..n : /\ plan[j] \in Phase
                      /\ [plan[j] EXCEPT !.status = "complete"] \in Phase
                      /\ [plan[j] EXCEPT !.status = "unlocked"] \in Phase
  BY <1>1 DEF Phase
<1>3. after \in [1..n -> Phase]
  BY <1>2
<1>4. \A j \in 1..n :
        /\ after[j].roles = plan[j].roles
        /\ after[j].status = IF j = i THEN "complete"
                             ELSE IF j = i + 1 /\ plan[j].status = "locked" THEN "unlocked"
                             ELSE plan[j].status
  BY <1>2 DEF Phase
<1>5. after \in Seq(Phase) /\ Len(after) = n
  BY <1>1, <1>3, PlanFunction
<1>6. RolesOf(after) = RolesOf(plan)
  BY <1>4, <1>5 DEF RolesOf
<1>7. GoodPlan(after)
  BY <1>1, <1>5, <1>6 DEF GoodPlan
<1>8. Advancing(after)
  <2> HIDE DEF n
  <2>1. \A j \in 1..n : plan[j].status \in {"locked", "unlocked", "complete"}
    BY <1>2 DEF Phase
  <2> QED BY <1>1, <1>4, <1>5, <2>1 DEF Advancing, n
<1> QED BY <1>7, <1>8

LEMMA NoPlan == GoodPlan(<<>>) /\ Advancing(<<>>)
BY EmptySeq DEF GoodPlan, Advancing
-----------------------------------------------------------------------------
LEMMA Nothing == NoRequest \in Requests
BY EmptySeq DEF NoRequest, Requests

LEMMA InitFilesInv == TaskFilesInit => FilesInv
<1> SUFFICES ASSUME TaskFilesInit PROVE FilesInv
  OBVIOUS
<1>1. TaskFilesTypeOK /\ RequestsTyped
  BY Nothing, NoPlan DEF TaskFilesInit, TaskFilesTypeOK, RequestsTyped, NoRequest
<1>2. PlansAdvance
  BY NoPlan DEF TaskFilesInit, PlansAdvance, NoRequest
<1>3. HoldersKept /\ ClaimsExclude
  BY DEF TaskFilesInit, HoldersKept, SoundKept, AloneKept, MixedKept, ClaimsExclude, Changing,
         NoRequest
<1> QED BY <1>1, <1>2, <1>3 DEF FilesInv
-----------------------------------------------------------------------------
(* Calls that begin                                                        *)

LEMMA RequestType ==
  ASSUME FilesInv, NEW m \in Members
  PROVE  /\ request[m] \in Requests
         /\ request[m].to \in {"none", "plan", "locks"}
         /\ request[m].open \in BOOLEAN /\ request[m].mixed \in BOOLEAN
         /\ request[m].crossed \in BOOLEAN
         /\ GoodPlan(request[m].plan) /\ Advancing(request[m].plan)
         /\ request[m].locks \subseteq Files \X Members /\ request[m].claim \subseteq Files
         /\ request[m].open => request[m].to # "none"
         /\ request[m].to # "locks" => request[m].claim = {}
BY DEF FilesInv, RequestsTyped, TaskFilesTypeOK, PlansAdvance

\* What a step leaves of the request of n: all but the two marks.
Same(n) ==
  /\ request'[n] \in Requests /\ request'[n].to = request[n].to
  /\ request'[n].open = request[n].open /\ request'[n].plan = request[n].plan
  /\ request'[n].locks = request[n].locks /\ request'[n].claim = request[n].claim

LEMMA Marked ==
  ASSUME FilesInv, NEW n \in Members, NEW mixed \in BOOLEAN, NEW crossed \in BOOLEAN,
         request'[n] = [request[n] EXCEPT !.mixed = mixed, !.crossed = crossed]
  PROVE  Same(n) /\ request'[n].mixed = mixed /\ request'[n].crossed = crossed
<1>1. request[n] \in Requests
  BY RequestType
<1> QED BY <1>1 DEF Requests, Same

\* When only one of them changes.
LEMMA OneMark ==
  ASSUME FilesInv, NEW n \in Members, NEW b \in BOOLEAN
  PROVE  /\ request'[n] = [request[n] EXCEPT !.crossed = b]
              => Same(n) /\ request'[n].mixed = request[n].mixed /\ request'[n].crossed = b
         /\ request'[n] = [request[n] EXCEPT !.mixed = b]
              => Same(n) /\ request'[n].mixed = b /\ request'[n].crossed = request[n].crossed
<1>1. request[n] \in Requests
  BY RequestType
<1> QED BY <1>1 DEF Requests, Same

\* A request that is typed and carries a plan in order takes the place of m's.
LEMMA Requested ==
  ASSUME FilesInv, NEW m \in Members, NEW r \in Requests,
         GoodPlan(r.plan), Advancing(r.plan),
         r.open => r.to # "none", r.to # "locks" => r.claim = {},
         request' = [n \in Members |-> request'[n]], request'[m] = r,
         \A n \in Members \ {m} : Same(n),
         GoodPlan(plan'), Advancing(plan'),
         locks' \subseteq Files \X Members, lapsed' \subseteq Files \X Members,
         mine' \in [Members -> SUBSET Files],
         atWork' \subseteq Roles, torn' \subseteq Files \X Members
  PROVE  TaskFilesTypeOK' /\ RequestsTyped' /\ PlansAdvance'
<1>1. \A n \in Members : n # m => Same(n)
  OBVIOUS
<1>2. RequestsTyped'
  BY <1>1, RequestType DEF RequestsTyped, Same
<1>3. \A n \in Members : GoodPlan(request'[n].plan) /\ Advancing(request'[n].plan)
  BY <1>1, RequestType DEF Same
<1>4. \A n \in Members :
        /\ request'[n].to \in {"none", "plan", "locks"}
        /\ request'[n].open \in BOOLEAN /\ request'[n].mixed \in BOOLEAN
        /\ request'[n].crossed \in BOOLEAN
        /\ request'[n].locks \subseteq Files \X Members /\ request'[n].claim \subseteq Files
  BY <1>2 DEF RequestsTyped, Requests
<1>5. TaskFilesTypeOK'
  BY <1>3, <1>4, ZenonT(30) DEF TaskFilesTypeOK, GoodPlan, WellFormed, RolesOf
<1>6. PlansAdvance'
  BY <1>3 DEF PlansAdvance, Advancing
<1> QED BY <1>2, <1>5, <1>6

\* The same when nobody else's request changes at all.
LEMMA OneRequest ==
  ASSUME FilesInv, NEW m \in Members, NEW r \in Requests, request' = [request EXCEPT ![m] = r]
  PROVE  /\ request' = [n \in Members |-> request'[n]] /\ request'[m] = r
         /\ \A n \in Members \ {m} : request'[n] = request[n]
         /\ \A n \in Members \ {m} : Same(n)
BY RequestType DEF FilesInv, RequestsTyped, Same

\* Steps that touch neither the locks nor what is told, nor any request to change them.
LEMMA LocksUntouched ==
  ASSUME FilesInv, UNCHANGED <<locks, lapsed, mine, torn>>, Changing' = Changing,
         \A c \in Changing : request'[c] = request[c]
  PROVE  HoldersKept' /\ ClaimsExclude'
<1>1. SoundKept'
  BY DEF FilesInv, HoldersKept, SoundKept, Writing
<1>2. AloneKept'
  BY DEF FilesInv, HoldersKept, AloneKept
<1>3. MixedKept'
  BY DEF FilesInv, HoldersKept, MixedKept, AllTorn
<1> QED BY <1>1, <1>2, <1>3 DEF FilesInv, HoldersKept, ClaimsExclude

LEMMA PlanRequest ==
  ASSUME FilesInv, NEW m \in Members, request[m] = NoRequest,
         NEW p, GoodPlan(p), Advancing(p),
         request' = [request EXCEPT ![m] = [NoRequest EXCEPT !.to = "plan", !.plan = p]],
         UNCHANGED <<plan, locks, lapsed, mine, atWork, torn>>
  PROVE  FilesInv'
<1> DEFINE r == [NoRequest EXCEPT !.to = "plan", !.plan = p]
<1>1. /\ r \in Requests /\ r.to = "plan" /\ ~r.open /\ r.claim = {} /\ r.plan = p
  BY Nothing DEF GoodPlan, Requests, NoRequest
<1>2. request[m].to = "none"
  BY DEF NoRequest
<1>b. request' = [request EXCEPT ![m] = r]
  OBVIOUS
<1>c. /\ GoodPlan(plan') /\ Advancing(plan')
      /\ locks' \subseteq Files \X Members /\ lapsed' \subseteq Files \X Members
      /\ mine' \in [Members -> SUBSET Files]
      /\ atWork' \subseteq Roles /\ torn' \subseteq Files \X Members
  BY DEF FilesInv, TaskFilesTypeOK, PlansAdvance
<1> HIDE DEF r
<1>d. /\ request' = [n \in Members |-> request'[n]] /\ request'[m] = r
      /\ \A n \in Members \ {m} : request'[n] = request[n] /\ Same(n)
  BY <1>1, <1>b, OneRequest
<1>3. TaskFilesTypeOK' /\ RequestsTyped' /\ PlansAdvance'
  BY <1>1, <1>c, <1>d, Requested
<1>4. Changing' = Changing /\ \A c \in Changing : request'[c] = request[c]
  BY <1>1, <1>2, <1>d DEF Changing
<1> QED BY <1>3, <1>4, LocksUntouched DEF FilesInv

LEMMA Torn ==
  ASSUME FilesInv, NEW all \in BOOLEAN, Tears(all)
  PROVE  /\ torn \subseteq torn' /\ torn' \subseteq Files \X Members
         /\ all => \A n \in Members : \A f \in mine[n] : <<f, n>> \in torn'
BY DEF FilesInv, TaskFilesTypeOK, Tears, Told

\* A call that begins, when what its text keeps and claims is as it should be: if no
\* writer has the file open, all that is told and not torn; its claim for nobody else.
LEMMA LocksRequest ==
  ASSUME FilesInv, NEW m \in Members, NEW text \in SUBSET (Files \X Members),
         NEW claim \in SUBSET Files, Begins(m, text, claim),
         mine' \in [Members -> SUBSET Files], \A n \in Members : mine'[n] \subseteq mine[n],
         ~Writing => \A n \in Members : \A f \in mine'[n] : <<f, n>> \notin torn => <<f, n>> \in text,
         \A f \in claim : <<f, m>> \in text /\ \A n \in Members \ {m} : <<f, n>> \notin text
  PROVE  FilesInv'
<1> DEFINE r == [NoRequest EXCEPT !.to = "locks", !.locks = text, !.claim = claim,
                                  !.crossed = Changing # {}]
<1>1. /\ request[m] = NoRequest /\ request[m].to = "none" /\ m \notin Changing
      /\ UNCHANGED <<plan, locks, lapsed, atWork>>
  <2>1. request[m] = NoRequest /\ UNCHANGED <<plan, locks, lapsed, atWork>>
    BY DEF Begins
  <2>2. NoRequest.to = "none"
    BY DEF NoRequest
  <2> QED BY <2>1, <2>2 DEF Changing
<1>2. /\ request' = [n \in Members |-> request'[n]] /\ request'[m] = r
      /\ \A n \in Members \ {m} : request'[n] = [request[n] EXCEPT !.crossed = @ \/ n \in Changing]
  BY DEF Begins
<1>3. /\ r \in Requests /\ r.to = "locks" /\ ~r.open /\ ~r.mixed /\ r.plan = <<>>
      /\ r.claim = claim /\ r.locks = text /\ r.crossed = (Changing # {})
  BY Nothing DEF Requests, NoRequest
<1> HIDE DEF r
<1>4. ASSUME NEW n \in Members \ {m}
      PROVE  /\ Same(n) /\ request'[n].mixed = request[n].mixed
             /\ request'[n].crossed = (request[n].crossed \/ n \in Changing)
  <2> DEFINE b == request[n].crossed \/ n \in Changing
  <2>1. b \in BOOLEAN /\ request'[n] = [request[n] EXCEPT !.crossed = b]
    BY <1>2, RequestType
  <2> HIDE DEF b
  <2>2. Same(n) /\ request'[n].mixed = request[n].mixed /\ request'[n].crossed = b
    BY <2>1, OneMark
  <2> QED BY <2>2 DEF b
<1>5. /\ torn \subseteq torn' /\ torn' \subseteq Files \X Members
      /\ Writing => \A n \in Members : \A f \in mine[n] : <<f, n>> \in torn'
  <2>1. Writing \in BOOLEAN /\ Tears(Writing)
    BY DEF Writing, Begins
  <2> HIDE DEF Writing
  <2> QED BY <2>1, Torn
<1>6. /\ GoodPlan(plan') /\ Advancing(plan') /\ GoodPlan(r.plan) /\ Advancing(r.plan)
      /\ locks' \subseteq Files \X Members /\ lapsed' \subseteq Files \X Members
      /\ atWork' \subseteq Roles
  BY <1>1, <1>3, NoPlan DEF FilesInv, TaskFilesTypeOK, PlansAdvance
<1>7. TaskFilesTypeOK' /\ RequestsTyped' /\ PlansAdvance'
  BY <1>2, <1>3, <1>4, <1>5, <1>6, Requested
<1>8. Changing' = Changing \cup {m}
  BY <1>2, <1>3, <1>4 DEF Changing, Same
<1>9. \A c \in Changing : /\ c \in Members \ {m} /\ request'[c].locks = request[c].locks
                          /\ request'[c].open = request[c].open
                          /\ request'[c].mixed = request[c].mixed /\ request'[c].crossed
  BY <1>1, <1>4 DEF Changing, Same
<1>10. SoundKept'
  <2> SUFFICES ASSUME NEW n \in Members, NEW f \in mine'[n], <<f, n>> \notin torn'
               PROVE  /\ <<f, n>> \notin lapsed /\ <<f, n>> \in locks
                      /\ \A c \in Changing' : <<f, n>> \in request'[c].locks
    BY <1>1 DEF SoundKept
  <2>1. f \in mine[n] /\ <<f, n>> \notin torn /\ ~Writing
    BY <1>5
  <2>2. /\ <<f, n>> \notin lapsed /\ <<f, n>> \in locks
        /\ \A c \in Changing : <<f, n>> \in request[c].locks
    BY <2>1 DEF FilesInv, HoldersKept, SoundKept
  <2> QED BY <1>2, <1>3, <1>8, <1>9, <2>1, <2>2
<1>11. AloneKept'
  BY <1>2, <1>3, <1>8, <1>9 DEF AloneKept
<1>12. MixedKept'
  <2>1. AllTorn => AllTorn'
    BY <1>5 DEF AllTorn
  <2> QED BY <1>2, <1>3, <1>8, <1>9, <2>1 DEF FilesInv, HoldersKept, MixedKept
<1>13. ClaimsExclude'
  BY <1>5 DEF FilesInv, ClaimsExclude
<1> QED BY <1>7, <1>10, <1>11, <1>12, <1>13 DEF FilesInv, HoldersKept

LEMMA PlanStep ==
  ASSUME FilesInv, NEW m \in PlannerRole,
         \/ \E phases \in Declarations : PlanSet(m, phases)
         \/ \E i \in 1..Len(plan) : PlanAdvance(m, i)
  PROVE  FilesInv'
<1>1. m \in Members
  BY TaskFilesAssumption
<1>2. ASSUME NEW phases \in Declarations, PlanSet(m, phases) PROVE FilesInv'
  <2>1. GoodPlan(Redeclared(phases)) /\ Advancing(Redeclared(phases))
    BY <1>2, RedeclaredGood DEF PlanSet
  <2> QED BY <1>1, <1>2, <2>1, PlanRequest DEF PlanSet
<1>3. ASSUME NEW i \in 1..Len(plan), PlanAdvance(m, i) PROVE FilesInv'
  <2> DEFINE after == [j \in 1..Len(plan) |->
                         IF j = i THEN [plan[j] EXCEPT !.status = "complete"]
                         ELSE IF j = i + 1 /\ plan[j].status = "locked"
                           THEN [plan[j] EXCEPT !.status = "unlocked"]
                         ELSE plan[j]]
  <2>1. GoodPlan(plan) /\ Advancing(plan) /\ plan[i].status = "unlocked"
    BY <1>3 DEF PlanAdvance, FilesInv, TaskFilesTypeOK, PlansAdvance
  <2>2. /\ request[m] = NoRequest
        /\ request' = [request EXCEPT ![m] = [NoRequest EXCEPT !.to = "plan", !.plan = after]]
        /\ UNCHANGED <<plan, locks, lapsed, mine, atWork, torn>>
    BY <1>3 DEF PlanAdvance
  <2> HIDE DEF after
  <2>3. GoodPlan(after) /\ Advancing(after)
    BY <2>1, AdvancedGood DEF after
  <2> QED BY <1>1, <2>2, <2>3, PlanRequest
<1> QED BY <1>2, <1>3

\* A claim that is not refused: with no writer at the file, who holds what is read
\* from it, so that the file that is claimed is nobody else's.
LEMMA ClaimStep ==
  ASSUME FilesInv, NEW m \in Members, NEW f \in Files, FileClaim(m, f)
  PROVE  FilesInv'
<1>1. /\ Begins(m, WithClaim(m, f), {f}) /\ mine' = mine
      /\ \A l \in Live(locks) : l[1] = f => l[2] = m
  BY DEF FileClaim
<1>2. /\ WithClaim(m, f) \in SUBSET (Files \X Members) /\ {f} \in SUBSET Files
      /\ mine \in [Members -> SUBSET Files]
  BY DEF FilesInv, TaskFilesTypeOK, WithClaim, Live
<1>3. ASSUME ~Writing, NEW n \in Members, NEW g \in mine[n], <<g, n>> \notin torn
      PROVE  <<g, n>> \in WithClaim(m, f)
  <2>1. <<g, n>> \in Live(locks)
    BY <1>3 DEF FilesInv, HoldersKept, SoundKept, Live
  <2> QED BY <1>1, <2>1 DEF WithClaim
<1>4. <<f, m>> \in WithClaim(m, f) /\ \A n \in Members \ {m} : <<f, n>> \notin WithClaim(m, f)
  BY DEF WithClaim
<1> QED BY <1>1, <1>2, <1>3, <1>4, LocksRequest

LEMMA ReleaseStep ==
  ASSUME FilesInv, NEW m \in Members, NEW f \in Files, FileRelease(m, f)
  PROVE  FilesInv'
<1>1. Begins(m, locks \ {<<f, m>>}, {}) /\ mine' = [mine EXCEPT ![m] = @ \ {f}]
  BY DEF FileRelease
<1>2. /\ locks \ {<<f, m>>} \in SUBSET (Files \X Members) /\ {} \in SUBSET Files
      /\ mine \in [Members -> SUBSET Files]
      /\ mine' \in [Members -> SUBSET Files] /\ f \notin mine'[m]
      /\ \A n \in Members : mine'[n] \subseteq mine[n]
  BY <1>1 DEF FilesInv, TaskFilesTypeOK
<1>3. ASSUME ~Writing, NEW n \in Members, NEW g \in mine'[n], <<g, n>> \notin torn
      PROVE  <<g, n>> \in locks \ {<<f, m>>}
  BY <1>2, <1>3 DEF FilesInv, HoldersKept, SoundKept
<1> QED BY <1>1, <1>2, <1>3, LocksRequest
-----------------------------------------------------------------------------
(* Work that is handed out, time that passes, and the writes               *)

\* Steps that change no request.
LEMMA Undisturbed ==
  ASSUME FilesInv, UNCHANGED <<plan, request>>,
         locks' \subseteq Files \X Members, lapsed' \subseteq Files \X Members,
         mine' \in [Members -> SUBSET Files],
         atWork' \subseteq Roles, torn' \subseteq Files \X Members
  PROVE  TaskFilesTypeOK' /\ RequestsTyped' /\ PlansAdvance'
<1>1. TaskFilesTypeOK'
  BY DEF FilesInv, TaskFilesTypeOK
<1>2. RequestsTyped'
  BY DEF FilesInv, RequestsTyped
<1>3. PlansAdvance'
  BY DEF FilesInv, PlansAdvance, Advancing
<1> QED BY <1>1, <1>2, <1>3

LEMMA HandoffStep ==
  ASSUME FilesInv, UNCHANGED <<plan, locks, lapsed, request, mine, torn>>, atWork' \subseteq Roles
  PROVE  FilesInv'
<1>1. Changing' = Changing
  BY DEF Changing
<1>2. HoldersKept' /\ ClaimsExclude'
  BY <1>1, LocksUntouched
<1>3. TaskFilesTypeOK' /\ RequestsTyped' /\ PlansAdvance'
  BY Undisturbed DEF FilesInv, TaskFilesTypeOK
<1> QED BY <1>2, <1>3 DEF FilesInv

LEMMA LapseStep ==
  ASSUME FilesInv, NEW l \in Files \X Members, Lapse(l)
  PROVE  FilesInv'
<1> USE DEF Lapse
<1>1. /\ UNCHANGED <<plan, locks, request, atWork, torn>> /\ Changing = {} /\ Changing' = {}
      /\ lapsed' = lapsed \cup {l} /\ lapsed' \subseteq Files \X Members
      /\ mine' = [mine EXCEPT ![l[2]] = @ \ {l[1]}]
      /\ mine \in [Members -> SUBSET Files] /\ mine' \in [Members -> SUBSET Files]
      /\ l[2] \in Members
  BY DEF FilesInv, TaskFilesTypeOK, Changing
<1>2. /\ \A n \in Members : mine'[n] \subseteq mine[n]
      /\ \A n \in Members : \A f \in mine'[n] : <<f, n>> # l
  BY <1>1
<1>3. HoldersKept'
  BY <1>1, <1>2
     DEF FilesInv, HoldersKept, SoundKept, AloneKept, MixedKept, AllTorn, Writing
<1>4. ClaimsExclude'
  BY <1>1, <1>2 DEF FilesInv, ClaimsExclude
<1> QED BY <1>1, <1>3, <1>4, Undisturbed DEF FilesInv, TaskFilesTypeOK

\* The file is gone, and with it everything that was told; a call that had it open
\* counts as crossed.
LEMMA RemovedStep ==
  ASSUME FilesInv, LocksRemoved
  PROVE  FilesInv'
<1>1. UNCHANGED <<plan, mine, atWork>> /\ locks' = {} /\ lapsed' = {} /\ Tears(TRUE)
  BY DEF LocksRemoved
<1>2. /\ torn \subseteq torn' /\ torn' \subseteq Files \X Members
      /\ \A n \in Members : \A f \in mine[n] : <<f, n>> \in torn'
  BY <1>1, Torn
<1>3. /\ request' = [n \in Members |-> request'[n]]
      /\ \A n \in Members :
           request'[n] = [request[n] EXCEPT !.mixed = @ \/ (n \in Changing /\ request[n].open),
                                            !.crossed = @ \/ (n \in Changing /\ request[n].open)]
  BY DEF LocksRemoved
<1>4. ASSUME NEW n \in Members
      PROVE  /\ Same(n)
             /\ request'[n].mixed = (request[n].mixed \/ (n \in Changing /\ request[n].open))
             /\ request'[n].crossed = (request[n].crossed \/ (n \in Changing /\ request[n].open))
  <2> DEFINE a == request[n].mixed \/ (n \in Changing /\ request[n].open)
             b == request[n].crossed \/ (n \in Changing /\ request[n].open)
  <2>1. /\ a \in BOOLEAN /\ b \in BOOLEAN
        /\ request'[n] = [request[n] EXCEPT !.mixed = a, !.crossed = b]
    BY <1>3, RequestType DEF Requests
  <2> HIDE DEF a, b
  <2>2. Same(n) /\ request'[n].mixed = a /\ request'[n].crossed = b
    BY <2>1, Marked
  <2> QED BY <2>2 DEF a, b
<1>5. TaskFilesTypeOK' /\ RequestsTyped' /\ PlansAdvance'
  <2>1. \A n \in Members : /\ request'[n] \in Requests
                           /\ GoodPlan(request'[n].plan) /\ Advancing(request'[n].plan)
    BY <1>4, RequestType DEF Same
  <2>2. RequestsTyped'
    BY <1>3, <1>4, RequestType DEF RequestsTyped, Same
  <2>3. \A n \in Members :
          /\ request'[n].to \in {"none", "plan", "locks"}
          /\ request'[n].open \in BOOLEAN /\ request'[n].mixed \in BOOLEAN
          /\ request'[n].crossed \in BOOLEAN
          /\ request'[n].locks \subseteq Files \X Members /\ request'[n].claim \subseteq Files
    BY <2>1 DEF Requests
  <2>4. GoodPlan(plan') /\ Advancing(plan')
    BY <1>1 DEF FilesInv, TaskFilesTypeOK, PlansAdvance
  <2>5. /\ locks' \subseteq Files \X Members /\ lapsed' \subseteq Files \X Members
        /\ mine' \in [Members -> SUBSET Files] /\ atWork' \subseteq Roles
    BY <1>1 DEF FilesInv, TaskFilesTypeOK
  <2>6. TaskFilesTypeOK'
    BY <1>2, <2>1, <2>3, <2>4, <2>5, ZenonT(30) DEF TaskFilesTypeOK, GoodPlan, WellFormed, RolesOf
  <2> QED BY <2>1, <2>2, <2>4, <2>6 DEF PlansAdvance, Advancing
<1>6. Changing' = Changing
  BY <1>4 DEF Changing, Same
<1>7. SoundKept' /\ AllTorn'
  BY <1>1, <1>2 DEF SoundKept, AllTorn
<1>8. AloneKept'
  BY <1>4, <1>6 DEF FilesInv, HoldersKept, AloneKept, Changing, Same
<1>9. ClaimsExclude'
  BY <1>1, <1>2 DEF ClaimsExclude
<1> QED BY <1>5, <1>7, <1>8, <1>9 DEF FilesInv, HoldersKept, MixedKept

\* The file is empty; what it held and is not torn is in the request of the only call
\* that has it open.
LEMMA EmptiesStep ==
  ASSUME FilesInv, NEW m \in Members, Empties(m)
  PROVE  FilesInv'
<1> DEFINE r == [request[m] EXCEPT !.open = TRUE]
           all == request[m].to = "locks" /\ Writing
<1>1. /\ request[m].to # "none" /\ UNCHANGED <<lapsed, mine, atWork>>
      /\ plan' \in {plan, <<>>} /\ locks' \in {locks, {}}
      /\ request[m].to # "locks" => UNCHANGED locks
      /\ ~request[m].open
  BY RequestType DEF Empties
<1>t. /\ torn \subseteq torn' /\ torn' \subseteq Files \X Members
      /\ all => \A n \in Members : \A f \in mine[n] : <<f, n>> \in torn'
      /\ request[m].to # "locks" => torn' = torn
  <2>1. Tears(all) /\ all \in BOOLEAN
    BY DEF Empties
  <2>2. ~all => torn' = torn
    BY <2>1 DEF Tears
  <2>3. request[m].to # "locks" => ~all
    OBVIOUS
  <2> HIDE DEF all
  <2> QED BY <2>1, <2>2, <2>3, Torn
<1>2. /\ r \in Requests /\ r.to = request[m].to /\ r.open /\ r.mixed = request[m].mixed
      /\ r.crossed = request[m].crossed
      /\ r.plan = request[m].plan /\ r.locks = request[m].locks /\ r.claim = request[m].claim
  BY RequestType DEF Requests
<1>3. request' = [request EXCEPT ![m] = r]
  BY RequestType DEF Empties, FilesInv, RequestsTyped, Requests
<1>4. /\ GoodPlan(plan') /\ Advancing(plan') /\ GoodPlan(r.plan) /\ Advancing(r.plan)
      /\ r.to # "none" /\ (r.to # "locks" => r.claim = {})
      /\ locks' \subseteq Files \X Members /\ lapsed' \subseteq Files \X Members
      /\ mine' \in [Members -> SUBSET Files] /\ atWork' \subseteq Roles
  BY <1>1, <1>2, NoPlan, RequestType DEF FilesInv, TaskFilesTypeOK, PlansAdvance
<1> HIDE DEF r
<1>d. /\ request' = [n \in Members |-> request'[n]] /\ request'[m] = r
      /\ \A n \in Members \ {m} : request'[n] = request[n] /\ Same(n)
  BY <1>2, <1>3, OneRequest
<1>5. TaskFilesTypeOK' /\ RequestsTyped' /\ PlansAdvance'
  BY <1>2, <1>4, <1>d, <1>t, Requested
<1>6. Changing' = Changing
  BY <1>2, <1>d DEF Changing
<1>7. CASE request[m].to # "locks"
  <2>1. \A c \in Changing : request'[c] = request[c]
    BY <1>7, <1>d DEF Changing
  <2> QED BY <1>1, <1>5, <1>6, <1>7, <1>t, <2>1, LocksUntouched DEF FilesInv
<1>8. CASE request[m].to = "locks"
  <2>1. m \in Changing /\ Writing'
    BY <1>2, <1>6, <1>8, <1>d DEF Changing, Writing
  <2>2. \A c \in Changing : /\ request'[c].locks = request[c].locks
                            /\ request'[c].claim = request[c].claim
                            /\ request'[c].mixed = request[c].mixed
                            /\ request'[c].crossed = request[c].crossed
                            /\ c # m => request'[c].open = request[c].open
    BY <1>2, <1>d DEF Changing
  <2>3. SoundKept'
    BY <1>1, <1>6, <1>t, <2>1, <2>2 DEF FilesInv, HoldersKept, SoundKept
  <2>4. AloneKept'
    BY <1>6, <2>2 DEF FilesInv, HoldersKept, AloneKept
  <2>5. AllTorn => AllTorn'
    BY <1>1, <1>t DEF AllTorn
  <2>6. ASSUME NEW c \in Changing, NEW d \in Changing, c # d, request'[c].open, request'[d].open
        PROVE  AllTorn'
    <3>1. Writing
      BY <2>2, <2>6 DEF Writing
    <3> QED BY <1>1, <1>8, <1>t, <3>1 DEF AllTorn
  <2>7. MixedKept'
    BY <1>6, <2>2, <2>5, <2>6 DEF FilesInv, HoldersKept, MixedKept
  <2>8. ClaimsExclude'
    BY <1>1, <1>t DEF FilesInv, ClaimsExclude
  <2> QED BY <1>5, <2>3, <2>4, <2>7, <2>8 DEF FilesInv, HoldersKept
<1> QED BY <1>7, <1>8

\* A write that completes.  The plan that is written is in order.  The locks that are
\* written hold all that is told and not torn; the claim that is told by a call that
\* none crossed is in them, and in them for nobody else.
LEMMA FillsStep ==
  ASSUME FilesInv, NEW m \in Members, Fills(m)
  PROVE  FilesInv'
<1>1. PICK readable \in {TRUE, ~request[m].mixed} :
       IF request[m].to = "plan"
         THEN plan' = (IF readable THEN request[m].plan ELSE <<>>) /\ UNCHANGED <<locks, lapsed>>
         ELSE /\ locks' = (IF readable THEN request[m].locks ELSE {})
              /\ lapsed' = (lapsed \cap locks') \ (request[m].claim \X {m})
              /\ UNCHANGED plan
  BY DEF Fills
<1>2. /\ request[m].open /\ request[m].to \in {"plan", "locks"} /\ UNCHANGED atWork
      /\ mine' = [mine EXCEPT ![m] = @ \cup request[m].claim]
      /\ torn' = IF request[m].crossed THEN torn \cup (request[m].claim \X {m})
                 ELSE torn \ (request[m].claim \X {m})
  BY RequestType DEF Fills
<1>3. /\ request' = [n \in Members |-> request'[n]] /\ request'[m] = NoRequest
      /\ \A n \in Members \ {m} :
           request'[n] = IF request[n].open /\ request[n].to = request[m].to
                           THEN [request[n] EXCEPT !.mixed = TRUE] ELSE request[n]
  BY DEF Fills
<1>4. ASSUME NEW n \in Members \ {m}
      PROVE  /\ Same(n) /\ request'[n].crossed = request[n].crossed
             /\ request'[n].mixed = (request[n].mixed
                                     \/ (request[n].open /\ request[n].to = request[m].to))
             /\ ~(request[n].open /\ request[n].to = request[m].to) => request'[n] = request[n]
  <2>1. CASE request[n].open /\ request[n].to = request[m].to
    <3>1. request'[n] = [request[n] EXCEPT !.mixed = TRUE]
      BY <1>3, <2>1
    <3>2. Same(n) /\ request'[n].mixed = TRUE /\ request'[n].crossed = request[n].crossed
      BY <3>1, OneMark
    <3> QED BY <2>1, <3>2
  <2>2. CASE ~(request[n].open /\ request[n].to = request[m].to)
    BY <1>3, <2>2, RequestType DEF Same
  <2> QED BY <2>1, <2>2
<1>5. /\ NoRequest \in Requests /\ NoRequest.to = "none" /\ NoRequest.plan = <<>>
      /\ NoRequest.claim = {} /\ ~NoRequest.open
  BY Nothing DEF NoRequest
<1>6. GoodPlan(plan') /\ Advancing(plan')
  BY <1>1, NoPlan, RequestType DEF FilesInv, TaskFilesTypeOK, PlansAdvance
<1>7. /\ mine \in [Members -> SUBSET Files] /\ mine' \in [Members -> SUBSET Files]
      /\ locks' \subseteq Files \X Members /\ lapsed' \subseteq Files \X Members
      /\ atWork' \subseteq Roles /\ torn' \subseteq Files \X Members
  BY <1>1, <1>2, RequestType DEF FilesInv, TaskFilesTypeOK
<1>8. TaskFilesTypeOK' /\ RequestsTyped' /\ PlansAdvance'
  BY <1>3, <1>4, <1>5, <1>6, <1>7, NoPlan, Requested
<1>9. Changing' = Changing \ {m}
  BY <1>3, <1>4, <1>5 DEF Changing, Same
<1>10. CASE request[m].to = "plan"
  <2>1. Changing' = Changing /\ \A c \in Changing : request'[c] = request[c]
    BY <1>4, <1>9, <1>10 DEF Changing
  <2>2. request[m].claim = {}
    BY <1>10, RequestType
  <2>3. UNCHANGED <<locks, lapsed, torn>> /\ mine' = mine
    BY <1>1, <1>2, <1>7, <1>10, <2>2
  <2> QED BY <1>8, <2>1, <2>3, LocksUntouched DEF FilesInv
<1>11. CASE request[m].to = "locks"
  <2>1. /\ m \in Changing /\ HoldersKept
        /\ locks' = (IF readable THEN request[m].locks ELSE {})
        /\ lapsed' = (lapsed \cap locks') \ (request[m].claim \X {m})
    BY <1>1, <1>11 DEF Changing, FilesInv
  <2>2. \A n \in Members : \A f \in mine'[n] :
          f \in mine[n] \/ (n = m /\ f \in request[m].claim)
    BY <1>2, <1>7
  <2>3. \A c \in Changing' : /\ c \in Changing /\ c # m
                             /\ request'[c].locks = request[c].locks
                             /\ request'[c].open = request[c].open
                             /\ request'[c].claim = request[c].claim
                             /\ request'[c].crossed = request[c].crossed
                             /\ request'[c].mixed = (request[c].mixed \/ request[c].open)
    BY <1>4, <1>9, <1>11 DEF Changing, Same
  <2>4. ~readable => request[m].mixed /\ AllTorn
    BY <2>1, RequestType DEF HoldersKept, MixedKept
  <2>5. CASE request[m].crossed
    <3>1. torn' = torn \cup (request[m].claim \X {m})
      BY <1>2, <2>5
    <3>2. \A n \in Members : \A f \in mine'[n] : <<f, n>> \notin torn' =>
            f \in mine[n] /\ <<f, n>> \notin torn
      BY <2>2, <3>1
    <3>3. SoundKept'
      BY <2>1, <2>3, <2>4, <3>2 DEF HoldersKept, SoundKept, AllTorn
    <3>4. AloneKept'
      BY <1>9, <2>1, <2>3 DEF HoldersKept, AloneKept
    <3>5. AllTorn => AllTorn'
      BY <3>2 DEF AllTorn
    <3>6. MixedKept'
      BY <1>2, <2>1, <2>3, <3>5 DEF HoldersKept, MixedKept
    <3>7. ASSUME NEW a \in Members, NEW b \in Members, a # b, NEW f \in mine'[a] \cap mine'[b]
          PROVE  {<<f, a>>, <<f, b>>} \cap torn' # {}
      <4>1. CASE <<f, a>> \in torn' \/ <<f, b>> \in torn'
        BY <4>1
      <4>2. CASE <<f, a>> \notin torn' /\ <<f, b>> \notin torn'
        BY <3>2, <3>7, <4>2 DEF FilesInv, ClaimsExclude
      <4> QED BY <4>1, <4>2
    <3>8. ClaimsExclude'
      BY <3>7 DEF ClaimsExclude
    <3> QED BY <1>8, <3>3, <3>4, <3>6, <3>8 DEF FilesInv, HoldersKept
  <2>6. CASE ~request[m].crossed
    <3>1. /\ Changing' = {} /\ ~request[m].mixed /\ readable
          /\ \A f \in request[m].claim :
               /\ <<f, m>> \in request[m].locks
               /\ \A n \in Members \ {m} : <<f, n>> \notin request[m].locks
      BY <1>9, <2>1, <2>4, <2>6 DEF HoldersKept, AloneKept
    <3>2. torn' = torn \ (request[m].claim \X {m}) /\ locks' = request[m].locks
      BY <1>2, <2>1, <2>6, <3>1
    <3>3. \A n \in Members : \A f \in mine[n] : <<f, n>> \notin torn =>
            <<f, n>> \in request[m].locks /\ <<f, n>> \notin lapsed
      BY <2>1 DEF HoldersKept, SoundKept
    <3>4. SoundKept'
      BY <2>1, <2>2, <3>1, <3>2, <3>3 DEF SoundKept
    <3>5. AloneKept' /\ MixedKept'
      BY <3>1 DEF AloneKept, MixedKept
    <3>6. \A n \in Members \ {m} : \A f \in mine[n] \cap request[m].claim : <<f, n>> \in torn'
      BY <3>1, <3>2, <3>3
    <3>7. ASSUME NEW a \in Members, NEW b \in Members, a # b, NEW f \in mine'[a] \cap mine'[b]
          PROVE  {<<f, a>>, <<f, b>>} \cap torn' # {}
      <4>1. CASE f \in request[m].claim /\ (a = m \/ b = m)
        <5>1. \A n \in Members \ {m} : mine'[n] = mine[n]
          BY <1>2, <1>7
        <5> QED BY <3>6, <3>7, <4>1, <5>1
      <4>2. CASE ~(f \in request[m].claim /\ (a = m \/ b = m))
        <5>1. f \in mine[a] \cap mine[b] /\ {<<f, a>>, <<f, b>>} \cap torn # {}
          BY <2>2, <3>7, <4>2 DEF FilesInv, ClaimsExclude
        <5> QED BY <3>2, <4>2, <5>1
      <4> QED BY <4>1, <4>2
    <3>8. ClaimsExclude'
      BY <3>7 DEF ClaimsExclude
    <3> QED BY <1>8, <3>4, <3>5, <3>8 DEF FilesInv, HoldersKept
  <2> QED BY <2>5, <2>6
<1> QED BY <1>2, <1>10, <1>11

LEMMA DeathStep ==
  ASSUME FilesInv, NEW m \in Members, MemberDies(m)
  PROVE  FilesInv'
<1> DEFINE all == request[m].to = "locks" /\ request[m].open
<1>1. /\ request' = [request EXCEPT ![m] = NoRequest] /\ UNCHANGED <<plan, locks, lapsed, atWork>>
      /\ mine' = [mine EXCEPT ![m] = {}] /\ Tears(all)
  BY DEF MemberDies
<1>2. /\ NoRequest \in Requests /\ NoRequest.to = "none" /\ NoRequest.plan = <<>>
      /\ NoRequest.claim = {} /\ ~NoRequest.open
  BY Nothing DEF NoRequest
<1>3. /\ mine' \in [Members -> SUBSET Files] /\ mine'[m] = {}
      /\ \A n \in Members : mine'[n] \subseteq mine[n]
  BY <1>1 DEF FilesInv, TaskFilesTypeOK
<1>t. /\ torn \subseteq torn' /\ torn' \subseteq Files \X Members
      /\ all => \A n \in Members : \A f \in mine[n] : <<f, n>> \in torn'
  <2>1. all \in BOOLEAN
    BY RequestType
  <2> HIDE DEF all
  <2> QED BY <1>1, <2>1, Torn
<1>4. /\ GoodPlan(plan') /\ Advancing(plan') /\ GoodPlan(NoRequest.plan) /\ Advancing(NoRequest.plan)
      /\ locks' \subseteq Files \X Members /\ lapsed' \subseteq Files \X Members
      /\ atWork' \subseteq Roles
  BY <1>1, <1>2, NoPlan DEF FilesInv, TaskFilesTypeOK, PlansAdvance
<1>d. /\ request' = [n \in Members |-> request'[n]] /\ request'[m] = NoRequest
      /\ \A n \in Members \ {m} : request'[n] = request[n] /\ Same(n)
  BY <1>1, <1>2, OneRequest
<1>5. TaskFilesTypeOK' /\ RequestsTyped' /\ PlansAdvance'
  BY <1>2, <1>3, <1>4, <1>d, <1>t, Requested
<1>6. Changing' = Changing \ {m} /\ \A c \in Changing' : request'[c] = request[c]
  BY <1>2, <1>d DEF Changing
<1>7. AllTorn => AllTorn'
  BY <1>3, <1>t DEF AllTorn
<1>8. SoundKept'
  <2> SUFFICES ASSUME NEW n \in Members, NEW f \in mine'[n], <<f, n>> \notin torn'
               PROVE  /\ <<f, n>> \notin lapsed /\ (Writing' \/ <<f, n>> \in locks)
                      /\ \A c \in Changing' : <<f, n>> \in request'[c].locks
    BY <1>1 DEF SoundKept
  <2>1. f \in mine[n] /\ <<f, n>> \notin torn /\ ~all
    BY <1>3, <1>t
  <2>2. /\ <<f, n>> \notin lapsed /\ (Writing \/ <<f, n>> \in locks)
        /\ \A c \in Changing : <<f, n>> \in request[c].locks
    BY <2>1 DEF FilesInv, HoldersKept, SoundKept
  <2>3. Writing => Writing'
    BY <1>6, <2>1 DEF Writing, Changing
  <2> QED BY <1>6, <2>2, <2>3
<1>9. AloneKept'
  BY <1>6 DEF FilesInv, HoldersKept, AloneKept
<1>10. MixedKept'
  BY <1>6, <1>7 DEF FilesInv, HoldersKept, MixedKept
<1>11. ClaimsExclude'
  BY <1>3, <1>t DEF FilesInv, ClaimsExclude
<1> QED BY <1>5, <1>8, <1>9, <1>10, <1>11 DEF FilesInv, HoldersKept

LEMMA FilesStep == FilesInv /\ [TaskFilesNext]_tfVars => FilesInv'
<1> SUFFICES ASSUME FilesInv, [TaskFilesNext]_tfVars PROVE FilesInv'
  OBVIOUS
<1>1. CASE UNCHANGED tfVars
  BY <1>1, HandoffStep DEF tfVars, FilesInv, TaskFilesTypeOK
<1>2. ASSUME NEW r \in Roles, Handoff(r) PROVE FilesInv'
  BY <1>2, HandoffStep DEF Handoff, FilesInv, TaskFilesTypeOK
<1>3. CASE TaskFilesNext
  BY <1>2, <1>3, PlanStep, ClaimStep, ReleaseStep, LapseStep, RemovedStep, EmptiesStep,
     FillsStep, DeathStep, TaskFilesAssumption DEF TaskFilesNext
<1> QED BY <1>1, <1>3
-----------------------------------------------------------------------------
LEMMA FilesInvariant == TaskFilesSpec => []FilesInv
BY InitFilesInv, FilesStep, PTL DEF TaskFilesSpec

\* A plan that is read, or is being written, is a plan that plan_set accepts, whatever
\* declarations, completions, writes and deaths come in between.
THEOREM TaskFilesTyped == TaskFilesSpec => []TaskFilesTypeOK
<1>1. FilesInv => TaskFilesTypeOK
  BY DEF FilesInv
<1> QED BY <1>1, FilesInvariant, PTL

\* The plan can always go on: its first phase that is not complete is unlocked.
THEOREM PlansGoOn == TaskFilesSpec => []PlanInOrder
<1>1. FilesInv => PlanInOrder
  BY DEF FilesInv, PlansAdvance, Advancing, PlanInOrder
<1> QED BY <1>1, FilesInvariant, PTL

\* However calls on the locks of a task overlap: two agents hold the same file, as far
\* as they know, only if one of them was told so by a call that another crossed, or the
\* locks were read or opened while they were being written, or lost, since it was told.
THEOREM HoldersExclude == TaskFilesSpec => []ClaimsExclude
<1>1. FilesInv => ClaimsExclude
  BY DEF FilesInv
<1> QED BY <1>1, FilesInvariant, PTL
=============================================================================
