----------------------------- MODULE Worktrees -----------------------------
(***************************************************************************)
(* The git worktree of a task and the calls that open and close it:        *)
(* worktree_create, worktree_finalize and worktree_abandon.  A call is a   *)
(* chain of git commands, each awaited: agents go on writing in the        *)
(* worktree, and other calls go on, between any two of them.               *)
(***************************************************************************)
EXTENDS FiniteSets

CONSTANTS
  Slugs,     \* tasks
  Work,      \* pieces of work agents may do, each in one worktree
  Callers,   \* processes that finalize or abandon
  Mortal,    \* those that may die during a call
  Clashing,  \* tasks whose changes conflict with what is on the main branch
  NoSlug

ASSUME WorktreeAssumption ==
  /\ Mortal \subseteq Callers /\ Clashing \subseteq Slugs /\ NoSlug \notin Slugs

VARIABLES
  tree,      \* tasks whose worktree is there
  branches,  \* tasks whose branch task/<slug> is there
  loose,     \* loose[s]: work in the worktree and not committed
  committed, \* committed[s]: work on the branch
  main,      \* work merged into the main branch
  edited,    \* the user has uncommitted changes in the main checkout
  merging,   \* the task whose conflicted merge is open in the main checkout
  resisted,  \* git would not abort the merge that is open
  call,      \* call[c]: where the call of c is, and its task
  finalized, \* tasks whose run and feedback record are marked as done
  late,      \* history: work written while a call had looked for it already
  lost,      \* history: work that is on no branch and in no worktree
  discarded, \* history: work abandoned on purpose, with its branch
  died       \* history: tasks of which a call died

files  == <<tree, branches, loose, committed>>
wtVars == <<tree, branches, loose, committed, main, edited, merging, resisted, call,
            finalized, late, lost, discarded, died>>

CallPoints == {"idle", "found", "clean", "dirty", "merge", "conflict", "merged",
          "removed", "leave", "left"}
Ready == [at |-> "idle", slug |-> NoSlug]

WorktreeTypeOK ==
  /\ tree \subseteq branches /\ branches \subseteq Slugs
  /\ loose \in [Slugs -> SUBSET Work] /\ committed \in [Slugs -> SUBSET Work]
  /\ main \subseteq Work /\ edited \in BOOLEAN
  /\ merging \in Slugs \cup {NoSlug} /\ resisted \in BOOLEAN
  /\ call \in [Callers -> [at: CallPoints, slug: Slugs \cup {NoSlug}]]
  /\ finalized \subseteq Slugs
  /\ late \subseteq Work /\ lost \subseteq Work /\ discarded \subseteq Work
  /\ died \subseteq Slugs

WorktreeInit ==
  /\ tree = {} /\ branches = {}
  /\ loose = [s \in Slugs |-> {}] /\ committed = [s \in Slugs |-> {}]
  /\ main = {} /\ edited = FALSE /\ merging = NoSlug /\ resisted = FALSE
  /\ call = [c \in Callers |-> Ready]
  /\ finalized = {} /\ late = {} /\ lost = {} /\ discarded = {} /\ died = {}

GoOn(c, at) == call' = [call EXCEPT ![c].at = at]
Over(c)     == call' = [call EXCEPT ![c] = Ready]
-----------------------------------------------------------------------------
(* Agents and the user *)

\* worktree_create: a branch that is left from before is attached again.
Create(s) ==
  /\ s \notin tree
  /\ tree' = tree \cup {s} /\ branches' = branches \cup {s}
  /\ UNCHANGED <<loose, committed, main, edited, merging, resisted, call, finalized, late, lost, discarded, died>>

Written == UNION {loose[s] \cup committed[s] : s \in Slugs} \cup main \cup lost \cup discarded

\* Calls on a task that will not look for uncommitted work any more.
Blind == {"merge", "conflict", "merged", "removed", "leave", "left"}
Looked(s) == {c \in Callers : call[c].slug = s /\ call[c].at \in Blind}

WriteFile(s, w) ==
  /\ s \in tree /\ w \notin Written
  /\ loose' = [loose EXCEPT ![s] = @ \cup {w}]
  /\ late' = IF Looked(s) # {} THEN late \cup {w} ELSE late
  /\ UNCHANGED <<tree, branches, committed, main, edited, merging, resisted, call, finalized, lost, discarded, died>>

CommitFiles(s) ==
  /\ loose[s] # {}
  /\ committed' = [committed EXCEPT ![s] = @ \cup loose[s]]
  /\ loose' = [loose EXCEPT ![s] = {}]
  /\ UNCHANGED <<tree, branches, main, edited, merging, resisted, call, finalized, late, lost, discarded, died>>

\* The user or an agent changes files in the main checkout, also while a merge
\* is open in it, or undoes, commits or stashes the changes.
UserEdits ==
  /\ edited' = ~edited
  /\ UNCHANGED <<files, main, merging, resisted, call, finalized, late, lost, discarded, died>>

\* The user gives up a merge that is open in the main checkout, or resolves it.
UserSettles ==
  /\ merging # NoSlug /\ merging' = NoSlug /\ resisted' = FALSE
  /\ UNCHANGED main \/ main' = main \cup committed[merging]
  /\ UNCHANGED <<files, edited, call, finalized, late, lost, discarded, died>>
-----------------------------------------------------------------------------
(* worktree_finalize *)

\* The checklist is complete, the worktree is found, the run exists.
Finalize(c, s) ==
  /\ call[c] = Ready /\ s \in tree
  /\ call' = [call EXCEPT ![c] = [at |-> "found", slug |-> s]]
  /\ UNCHANGED <<files, main, edited, merging, resisted, finalized, late, lost, discarded, died>>

\* git status of the main checkout: changes, or a merge left open, block it.
LookAtMain(c) ==
  /\ call[c].at = "found"
  /\ IF edited \/ merging # NoSlug THEN Over(c) ELSE GoOn(c, "clean")
  /\ UNCHANGED <<files, main, edited, merging, resisted, finalized, late, lost, discarded, died>>

\* Faulty variant: what is left uncommitted in the worktree is not looked for.
LookNowhere(c) ==
  /\ call[c].at = "clean"
  /\ GoOn(c, "merge")
  /\ UNCHANGED <<files, main, edited, merging, resisted, finalized, late, lost, discarded, died>>

\* git status of the worktree; it fails if the worktree is gone by now.
LookAtTree(c) ==
  /\ call[c].at = "clean"
  /\ LET s == call[c].slug IN
       IF s \notin tree THEN Over(c)
       ELSE GoOn(c, IF loose[s] = {} THEN "merge" ELSE "dirty")
  /\ UNCHANGED <<files, main, edited, merging, resisted, finalized, late, lost, discarded, died>>

\* git add and git commit: it fails if there is nothing to commit any more.
CommitRest(c) ==
  /\ call[c].at = "dirty"
  /\ LET s == call[c].slug IN
       IF s \notin tree \/ loose[s] = {}
         THEN Over(c) /\ UNCHANGED <<committed, loose>>
         ELSE /\ committed' = [committed EXCEPT ![s] = @ \cup loose[s]]
              /\ loose' = [loose EXCEPT ![s] = {}]
              /\ GoOn(c, "merge")
  /\ UNCHANGED <<tree, branches, main, edited, merging, resisted, finalized, late, lost, discarded, died>>

Clashes(s) == s \in Clashing /\ ~(committed[s] \subseteq main)

Merged(c) ==
  /\ main' = main \cup committed[call[c].slug]
  /\ GoOn(c, "merged") /\ UNCHANGED merging

\* Faulty variant: the exit status of git merge is not looked at.
MergeAnyway(c) ==
  /\ call[c].at = "merge"
  /\ IF Clashes(call[c].slug) THEN GoOn(c, "merged") /\ UNCHANGED <<main, merging>>
     ELSE Merged(c)
  /\ UNCHANGED <<files, edited, resisted, finalized, late, lost, discarded, died>>

\* git merge.  A conflict leaves the merge open; git refuses to begin when a
\* merge is open, when the branch is gone, or when the user has changed a file
\* of the branch by now.
Merge(c) ==
  /\ call[c].at = "merge"
  /\ LET s == call[c].slug IN
       \/ /\ merging = NoSlug /\ s \in branches /\ ~Clashes(s)
          /\ Merged(c)
       \/ /\ merging = NoSlug /\ s \in branches /\ Clashes(s)
          /\ merging' = s
          /\ GoOn(c, "conflict") /\ UNCHANGED main
       \/ /\ merging # NoSlug \/ s \notin branches \/ edited
          /\ GoOn(c, "conflict") /\ UNCHANGED <<main, merging>>
  /\ UNCHANGED <<files, edited, resisted, finalized, late, lost, discarded, died>>

\* Faulty variant: the conflict is reported and the merge left open.
ReportConflict(c) ==
  /\ call[c].at = "conflict"
  /\ Over(c)
  /\ UNCHANGED <<files, main, edited, merging, resisted, finalized, late, lost, discarded, died>>

\* git merge --abort, whosever merge is open.  It may fail when files were
\* edited by then; the call swallows that and reports the same conflict.
AbortMerge(c) ==
  /\ call[c].at = "conflict"
  /\ \/ merging' = NoSlug /\ resisted' = FALSE
     \/ merging # NoSlug /\ edited /\ resisted' = TRUE /\ UNCHANGED merging
  /\ Over(c)
  /\ UNCHANGED <<files, main, edited, finalized, late, lost, discarded, died>>

\* git worktree remove, then --force: fails only if the worktree is gone.
RemoveTree(c, next) ==
  LET s == call[c].slug IN
    IF s \notin tree THEN Over(c) /\ UNCHANGED <<tree, loose, lost>>
    ELSE /\ tree' = tree \ {s}
         /\ loose' = [loose EXCEPT ![s] = {}] /\ lost' = lost \cup loose[s]
         /\ GoOn(c, next)

RemoveMerged(c) ==
  /\ call[c].at = "merged"
  /\ RemoveTree(c, "removed")
  /\ UNCHANGED <<branches, committed, main, edited, merging, resisted, finalized, late, discarded, died>>

\* The feedback record and the run are marked in one stretch.
MarkDone(c) ==
  /\ call[c].at = "removed"
  /\ finalized' = finalized \cup {call[c].slug}
  /\ Over(c)
  /\ UNCHANGED <<files, main, edited, merging, resisted, late, lost, discarded, died>>
-----------------------------------------------------------------------------
(* worktree_abandon *)

\* Uncommitted changes refuse it.
Abandon(c, s) ==
  /\ call[c] = Ready /\ s \in tree /\ loose[s] = {}
  /\ call' = [call EXCEPT ![c] = [at |-> "leave", slug |-> s]]
  /\ UNCHANGED <<files, main, edited, merging, resisted, finalized, late, lost, discarded, died>>

RemoveLeft(c) ==
  /\ call[c].at = "leave"
  /\ RemoveTree(c, "left")
  /\ UNCHANGED <<branches, committed, main, edited, merging, resisted, finalized, late, discarded, died>>

\* git branch -D, unless the caller keeps the branch or the task has a
\* worktree again.
DeleteBranch(c) ==
  /\ call[c].at = "left"
  /\ LET s == call[c].slug IN
       \/ s \in tree /\ UNCHANGED <<branches, committed, discarded>>
       \/ /\ s \notin tree
          /\ branches' = branches \ {s}
          /\ discarded' = discarded \cup (committed[s] \ main)
          /\ committed' = [committed EXCEPT ![s] = {}]
       \/ UNCHANGED <<branches, committed, discarded>>
  /\ Over(c)
  /\ UNCHANGED <<tree, loose, main, edited, merging, resisted, finalized, late, lost, died>>

CallerDies(c) ==
  /\ call[c] # Ready
  /\ died' = died \cup {call[c].slug}
  /\ Over(c)
  /\ UNCHANGED <<files, main, edited, merging, resisted, finalized, late, lost, discarded>>
-----------------------------------------------------------------------------
CallGoesOn(c) ==
  \/ LookAtMain(c) \/ LookAtTree(c) \/ CommitRest(c) \/ Merge(c) \/ AbortMerge(c)
  \/ RemoveMerged(c) \/ MarkDone(c) \/ RemoveLeft(c) \/ DeleteBranch(c)

WorktreeNext ==
  \/ \E s \in Slugs : Create(s) \/ CommitFiles(s) \/ \E w \in Work : WriteFile(s, w)
  \/ UserEdits \/ UserSettles
  \/ \E c \in Callers : CallGoesOn(c) \/ \E s \in Slugs : Finalize(c, s) \/ Abandon(c, s)
  \/ \E c \in Mortal : CallerDies(c)

WorktreeSpec == WorktreeInit /\ [][WorktreeNext]_wtVars
-----------------------------------------------------------------------------
(* What the calls guarantee *)

\* Removing a worktree, with --force if need be, loses only work that was
\* written while a call had already looked for work and found none, whichever
\* calls on the task run at the same time and wherever they die.
LostOnlyLate == lost \subseteq late

\* A conflicted merge is open in the main checkout only while the call that
\* tried it is about to abort it, if a call on that task died, or if git would not
\* abort it because files were edited meanwhile: otherwise whoever finalizes next
\* does not find the half-merged files of somebody else.
MainLeftClean ==
  merging # NoSlug =>
    \/ merging \in died \/ resisted
    \/ \E c \in Callers : call[c] = [at |-> "conflict", slug |-> merging]

\* A task is marked as done only when all the work on its branch is in the main
\* branch, up to what was written while the finalization went on.
FinalizedIsMerged ==
  [][\A s \in finalized' \ finalized : committed[s] \ late \subseteq main]_wtVars
=============================================================================
