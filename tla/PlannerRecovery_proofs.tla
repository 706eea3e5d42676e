------------------------ MODULE PlannerRecovery_proofs ------------------------
(***************************************************************************)
(* Type correctness of PlannerRecovery, and that no pass closes a planner  *)
(* that has answered all its probes, for any number of tabs and of         *)
(* healers; and the types of AutoImprover, which the same crontab looks    *)
(* after.                                                                  *)
(***************************************************************************)
EXTENDS PlannerRecovery, AutoImprover, TLAPS

(***************************************************************************)
(* Types                                                                   *)
(***************************************************************************)
\* What Herdr shows is a snapshot, whatever runs in the panes.
LEMMA SnapshotType ==
  ASSUME PlannerTypeOK, NEW idle \in BOOLEAN
  PROVE  HerdrSnapshot(idle) \in Snapshots
BY DEF HerdrSnapshot, Snapshots, PlannerTypeOK

\* Closing tabs keeps the types of what it changes.
LEMMA CloseTypes ==
  ASSUME PlannerTypeOK, NEW tabs, CloseTabs(tabs)
  PROVE  /\ pane' \in [Tabs -> {"none", "shell", "starting"} \cup Pi]
         /\ listed' \subseteq Tabs
         /\ kept' \in [Healers -> SUBSET Tabs]
BY DEF CloseTabs, PlannerTypeOK

\* Every step of a healer is one of the named steps.
LEMMA GoesType ==
  ASSUME PlannerTypeOK, NEW h \in Healers, NEW s \in HealerSteps, Goes(h, s)
  PROVE  at' \in [Healers -> HealerSteps]
BY DEF Goes, PlannerTypeOK

LEMMA LeavesType ==
  ASSUME PlannerTypeOK, NEW h \in Healers, Leaves(h)
  PROVE  at' \in [Healers -> HealerSteps]
BY DEF Leaves, Goes, PlannerTypeOK, HealerSteps

LEMMA WritesType ==
  ASSUME PlannerTypeOK, NEW r \in Rows, Writes(r)
  PROVE  row' \in Rows
BY DEF Writes, PlannerTypeOK

\* A process that ends leaves well-typed blanks.
LEMMA ForgetsType ==
  ASSUME PlannerTypeOK, NEW h \in Healers, Forgets(h)
  PROVE  /\ at' \in [Healers -> HealerSteps]
         /\ copy' \in [Healers -> Rows]
         /\ seen' \in [Healers -> Snapshots]
         /\ now' \in [Healers -> Snapshots]
         /\ intent' \in [Healers -> Intents]
         /\ kept' \in [Healers -> SUBSET Tabs]
<1>1. NewRow \in Rows
  BY DEF NewRow, Rows
<1>2. Blank \in Snapshots
  BY DEF Blank, Snapshots
<1>3. NoIntent \in Intents
  BY DEF NoIntent, Intents, Reasons
<1>. QED
  BY <1>1, <1>2, <1>3 DEF Forgets, Goes, HealerSteps, PlannerTypeOK

LEMMA UpsetType == ASSUME PlannerTypeOK, Upset PROVE upsets' \in 0..MaxUpsets
BY UpsetAssumption DEF Upset, PlannerTypeOK

LEMMA InitTypes == PlannerInit => PlannerTypeOK
<1> SUFFICES ASSUME PlannerInit PROVE PlannerTypeOK
  OBVIOUS
<1>1. NewRow \in Rows /\ row \in Rows
  BY DEF PlannerInit, NewRow, Rows
<1>2. Blank \in Snapshots
  BY DEF Blank, Snapshots
<1>3. NoIntent \in Intents
  BY DEF NoIntent, Intents, Reasons
<1>. broken \in [Tabs -> SUBSET Probes]
  BY DEF PlannerInit
<1>4. /\ pane \in [Tabs -> {"none", "shell", "starting"} \cup Pi] /\ listed \subseteq Tabs
      /\ loop \in {"absent", "current", "outdated"}
      /\ work \in {"none", "open", "stalled", "orphaned", "ready"} /\ waiting \in BOOLEAN
  BY WorksAssumption DEF PlannerInit
<1>5. at \in [Healers -> HealerSteps] /\ kept \in [Healers -> SUBSET Tabs]
  BY DEF PlannerInit, HealerSteps
<1>6. /\ copy \in [Healers -> Rows] /\ seen \in [Healers -> Snapshots]
      /\ now \in [Healers -> Snapshots] /\ intent \in [Healers -> Intents]
  BY <1>1, <1>2, <1>3 DEF PlannerInit
<1>7. upsets \in 0..MaxUpsets
  BY UpsetAssumption DEF PlannerInit
<1>. QED
  BY <1>1, <1>4, <1>5, <1>6, <1>7 DEF PlannerTypeOK

(***************************************************************************)
(* The steps of a healer keep the types                                    *)
(***************************************************************************)
LEMMA PassTypes ==
  ASSUME PlannerTypeOK, NEW h \in Healers,
         Begins(h) \/ Looks(h) \/ Activates(h) \/ Checks(h) \/ Repairs(h) \/ Ends(h)
  PROVE  PlannerTypeOK'
<1>1. CASE Begins(h)
  <2>1. upsets' \in 0..MaxUpsets
    BY <1>1, UpsetType DEF Begins, PlannerTypeOK
  <2>2. at' \in [Healers -> HealerSteps]
    BY <1>1, GoesType DEF Begins, HealerSteps
  <2>. QED
    BY <1>1, <2>1, <2>2 DEF Begins, Heard, PlannerTypeOK
<1>2. CASE Looks(h)
  <2>1. seen' \in [Healers -> Snapshots]
    BY <1>2, SnapshotType DEF Looks, PlannerTypeOK
  <2>2. at' \in [Healers -> HealerSteps]
    BY <1>2, GoesType DEF Looks, HealerSteps
  <2>. QED
    BY <1>2, <2>1, <2>2 DEF Looks, world, PlannerTypeOK
<1>3. CASE Activates(h)
  <2>1. row' \in Rows /\ loop' \in {"absent", "current", "outdated"}
    BY <1>3 DEF Activates, StartLoop, PlannerTypeOK, Rows, NewRow
  <2>2. at' \in [Healers -> HealerSteps]
    BY <1>3, GoesType DEF Activates, HealerSteps
  <2>. QED
    BY <1>3, <2>1, <2>2 DEF Activates, PlannerTypeOK
<1>4. CASE Checks(h)
  <2>1. at' \in [Healers -> HealerSteps]
    BY <1>4 DEF Checks, Goes, HealerSteps, PlannerTypeOK
  <2>. QED
    BY <1>4, <2>1 DEF Checks, world, PlannerTypeOK
<1>5. CASE Repairs(h)
  <2>1. row' \in Rows
    BY <1>5 DEF Repairs, Writes, PlannerTypeOK, Rows
  <2>2. seen' \in [Healers -> Snapshots]
    <3>1. PICK idle \in BOOLEAN :
            seen' = [seen EXCEPT ![h] = [HerdrSnapshot(idle) EXCEPT !.lost = FALSE]]
      BY <1>5 DEF Repairs
    <3>2. [HerdrSnapshot(idle) EXCEPT !.lost = FALSE] \in Snapshots
      BY SnapshotType DEF Snapshots
    <3>. QED
      BY <3>1, <3>2 DEF PlannerTypeOK
  <2>3. at' \in [Healers -> HealerSteps]
    BY <1>5, GoesType DEF Repairs, HealerSteps
  <2>. QED
    BY <1>5, <2>1, <2>2, <2>3 DEF Repairs, PlannerTypeOK
<1>6. CASE Ends(h)
  BY <1>6, ForgetsType DEF Ends, world, PlannerTypeOK
<1>. QED
  BY <1>1, <1>2, <1>3, <1>4, <1>5, <1>6

LEMMA EnsureTypes ==
  ASSUME PlannerTypeOK, NEW h \in Healers,
         \/ AwaitsUser(h) \/ FindsHealthy(h) \/ FindsStale(h) \/ FindsWedged(h)
         \/ FindsUnlisted(h) \/ FindsNone(h) \/ Closes(h)
  PROVE  PlannerTypeOK'
<1>1. ASSUME NEW force \in BOOLEAN, Replaces(h, force)
      PROVE  at' \in [Healers -> HealerSteps] /\ intent' \in [Healers -> Intents]
  <2>1. [NoIntent EXCEPT !.force = force] \in Intents
    BY DEF NoIntent, Intents, Reasons
  <2>2. at' \in [Healers -> HealerSteps]
    BY <1>1, LeavesType, GoesType DEF Replaces, HealerSteps
  <2>. QED
    BY <1>1, <2>1, <2>2 DEF Replaces, PlannerTypeOK
<1>2. CASE AwaitsUser(h)
  BY <1>2, LeavesType DEF AwaitsUser, world, PlannerTypeOK
<1>3. CASE FindsHealthy(h)
  <2>1. row' \in Rows
    BY <1>3 DEF FindsHealthy, Writes, PlannerTypeOK, Rows
  <2>. QED
    BY <1>3, <2>1, CloseTypes, LeavesType DEF FindsHealthy, PlannerTypeOK
<1>4. CASE FindsStale(h)
  <2>1. row' \in Rows
    BY <1>4 DEF FindsStale, Writes, PlannerTypeOK, Rows
  <2>. QED
    BY <1>4, <2>1, LeavesType DEF FindsStale, PlannerTypeOK
<1>5. CASE FindsWedged(h)
  <2>1. row' \in Rows
    BY <1>5 DEF FindsWedged, Writes, PlannerTypeOK, Rows
  <2>. QED
    BY <1>5, <2>1, <1>1 DEF FindsWedged, PlannerTypeOK
<1>6. CASE FindsUnlisted(h)
  BY <1>6, LeavesType DEF FindsUnlisted, world, PlannerTypeOK
<1>7. CASE FindsNone(h)
  BY <1>7, <1>1 DEF FindsNone, world, PlannerTypeOK
<1>8. CASE Closes(h)
  <2>1. at' \in [Healers -> HealerSteps]
    BY <1>8, GoesType DEF Closes, HealerSteps
  <2>. QED
    BY <1>8, <2>1, CloseTypes DEF Closes, PlannerTypeOK
<1>. QED
  BY <1>2, <1>3, <1>4, <1>5, <1>6, <1>7, <1>8

LEMMA RecoverTypes ==
  ASSUME PlannerTypeOK, NEW h \in Healers,
         \/ Recovers(h) \/ Clears(h) \/ Finds(h) \/ Types(h) \/ Throws(h) \/ Notes(h)
  PROVE  PlannerTypeOK'
<1>1. Blank \in Snapshots /\ NoIntent \in Intents
  BY DEF Blank, Snapshots, NoIntent, Intents, Reasons
<1>2. CASE Recovers(h)
  <2>1. now' \in [Healers -> Snapshots]
    BY <1>2, SnapshotType DEF Recovers, PlannerTypeOK
  <2>2. at' \in [Healers -> HealerSteps]
    BY <1>2 DEF Recovers, Goes, HealerSteps, PlannerTypeOK
  <2>. QED
    BY <1>2, <2>1, <2>2 DEF Recovers, world, PlannerTypeOK
<1>3. CASE Clears(h)
  <2>1. at' \in [Healers -> HealerSteps]
    BY <1>3, GoesType DEF Clears, HealerSteps
  <2>. QED
    BY <1>3, <2>1, CloseTypes DEF Clears, PlannerTypeOK
<1>4. CASE Finds(h)
  <2>1. now' \in [Healers -> Snapshots]
    BY <1>4, SnapshotType DEF Finds, PlannerTypeOK
  <2>2. pane' \in [Tabs -> {"none", "shell", "starting"} \cup Pi]
    BY <1>4 DEF Finds, PlannerTypeOK
  <2>3. intent' \in [Healers -> Intents]
    <3>1. intent[h] \in Intents /\ intent \in [Healers -> Intents]
      BY DEF PlannerTypeOK
    <3>2. \A t \in Tabs : [intent[h] EXCEPT !.into = {t}] \in Intents
      BY <3>1 DEF Intents
    <3>3. intent' = intent \/ \E t \in Tabs : intent' = [intent EXCEPT ![h].into = {t}]
      BY <1>4 DEF Finds
    <3>. QED
      BY <3>1, <3>2, <3>3
  <2>4. at' \in [Healers -> HealerSteps]
    BY <1>4, GoesType DEF Finds, HealerSteps
  <2>. QED
    BY <1>4, <2>1, <2>2, <2>3, <2>4 DEF Finds, PlannerTypeOK
<1>5. CASE Types(h)
  <2>1. pane' \in [Tabs -> {"none", "shell", "starting"} \cup Pi]
    BY <1>5 DEF Types, PlannerTypeOK
  <2>2. at' \in [Healers -> HealerSteps]
    BY <1>5, GoesType DEF Types, HealerSteps
  <2>. QED
    BY <1>5, <2>1, <2>2 DEF Types, PlannerTypeOK
<1>6. CASE Throws(h)
  BY <1>6, <1>1, LeavesType DEF Throws, world, PlannerTypeOK
<1>7. CASE Notes(h)
  <2>1. row' \in Rows
    BY <1>7 DEF Notes, Writes, PlannerTypeOK, Rows, Intents
  <2>. QED
    BY <1>7, <1>1, <2>1, LeavesType DEF Notes, PlannerTypeOK
<1>. QED
  BY <1>2, <1>3, <1>4, <1>5, <1>6, <1>7

LEMMA ReconcileTypes ==
  ASSUME PlannerTypeOK, NEW h \in Healers,
         OwesNothing(h) \/ WakesForReady(h) \/ WakesForOrphans(h) \/ Reconciles(h)
  PROVE  PlannerTypeOK'
<1>1. CASE OwesNothing(h)
  BY <1>1, GoesType DEF OwesNothing, HealerSteps, world, PlannerTypeOK
<1>2. CASE WakesForReady(h)
  <2>1. row' \in Rows
    BY <1>2 DEF WakesForReady, Writes, PlannerTypeOK, Rows, Reasons
  <2>. QED
    BY <1>2, <2>1, GoesType DEF WakesForReady, HealerSteps, PlannerTypeOK
<1>3. CASE WakesForOrphans(h)
  BY <1>3, GoesType DEF WakesForOrphans, HealerSteps, world, PlannerTypeOK
<1>4. CASE Reconciles(h)
  <2>1. Reason(h) \in Reasons
    BY DEF Reason, Reasons
  <2>2. [for |-> "run", why |-> Reason(h), force |-> FALSE, into |-> {}] \in Intents
    BY <2>1 DEF Intents
  <2>3. at' \in [Healers -> HealerSteps] /\ intent' \in [Healers -> Intents]
    BY <1>4, <2>2 DEF Reconciles, Goes, HealerSteps, PlannerTypeOK
  <2>. QED
    BY <1>4, <2>3 DEF Reconciles, world, PlannerTypeOK
<1>. QED
  BY <1>1, <1>2, <1>3, <1>4

(***************************************************************************)
(* So do the planner, Herdr, time, users and faults                        *)
(***************************************************************************)
LEMMA WorldTypes ==
  ASSUME PlannerTypeOK,
         \/ \E t \in Tabs : Boots(t) \/ Lists(t) \/ Rests(t) \/ \E p \in Probes : ProbeWorks(t, p)
         \/ CoolsDown \/ GraceEnds \/ Answers
  PROVE  PlannerTypeOK'
<1>1. ASSUME NEW t \in Tabs, Boots(t) \/ Lists(t) \/ Rests(t) PROVE PlannerTypeOK'
  <2>1. pane' \in [Tabs -> {"none", "shell", "starting"} \cup Pi] /\ listed' \subseteq Tabs
    BY <1>1 DEF Boots, Lists, Rests, RestUnchanged, PlannerTypeOK, Pi
  <2>. QED
    BY <1>1, <2>1 DEF Boots, Lists, Rests, RestUnchanged, PlannerTypeOK
<1>2. CASE CoolsDown \/ GraceEnds
  <2>1. row' \in Rows
    BY <1>2 DEF CoolsDown, GraceEnds, PlannerTypeOK, Rows
  <2>. QED
    BY <1>2, <2>1 DEF CoolsDown, GraceEnds, mind, PlannerTypeOK
<1>3. CASE Answers
  BY <1>3 DEF Answers, mind, PlannerTypeOK
<1>4. ASSUME NEW t \in Tabs, NEW p \in Probes, ProbeWorks(t, p) PROVE PlannerTypeOK'
  <2>1. broken' \in [Tabs -> SUBSET Probes]
    BY <1>4 DEF ProbeWorks, PlannerTypeOK
  <2>. QED
    BY <1>4, <2>1 DEF ProbeWorks, mind, PlannerTypeOK
<1>. QED
  BY <1>1, <1>2, <1>3, <1>4

LEMMA UserTypes == ASSUME PlannerTypeOK, UserStep PROVE PlannerTypeOK'
<1>1. ASSUME NEW t \in Tabs, UserCloses(t) PROVE PlannerTypeOK'
  BY <1>1, CloseTypes, UpsetType DEF UserCloses, RestUnchanged, PlannerTypeOK
<1>2. ASSUME NEW t \in Tabs, UserStarts(t) PROVE PlannerTypeOK'
  <2>1. pane' \in [Tabs -> {"none", "shell", "starting"} \cup Pi]
    BY <1>2 DEF UserStarts, PlannerTypeOK
  <2>. QED
    BY <1>2, <2>1, UpsetType DEF UserStarts, RestUnchanged, PlannerTypeOK
<1>3. CASE Initializes \/ Starts \/ Pause \/ Leave
  <2>1. row' \in Rows /\ loop' \in {"absent", "current", "outdated"}
    BY <1>3 DEF Initializes, Starts, StartLoop, Pause, Leave, PlannerTypeOK, Rows, NewRow
  <2>. QED
    BY <1>3, <2>1, UpsetType DEF Initializes, Starts, Pause, Leave, mind, PlannerTypeOK
<1>4. CASE WorkChanges
  <2>1. work' \in {"none", "open", "stalled", "orphaned", "ready"} /\ waiting' \in BOOLEAN
    BY <1>4, WorksAssumption DEF WorkChanges, PlannerTypeOK
  <2>. QED
    BY <1>4, <2>1, UpsetType DEF WorkChanges, mind, PlannerTypeOK
<1>. QED
  BY <1>1, <1>2, <1>3, <1>4 DEF UserStep

LEMMA FaultTypes == ASSUME PlannerTypeOK, Fault PROVE PlannerTypeOK'
<1>1. ASSUME NEW t \in Tabs, NEW how \in {"shell", "wedged"}, Fails(t, how)
      PROVE  PlannerTypeOK'
  <2>1. pane' \in [Tabs -> {"none", "shell", "starting"} \cup Pi]
    BY <1>1 DEF Fails, PlannerTypeOK, Pi
  <2>2. kept' \in [Healers -> SUBSET Tabs]
    BY <1>1 DEF Fails, PlannerTypeOK
  <2>. QED
    BY <1>1, <2>1, <2>2, UpsetType DEF Fails, RestUnchanged, PlannerTypeOK
<1>2. ASSUME NEW t \in Tabs, StartFails(t) PROVE PlannerTypeOK'
  <2>1. pane' \in [Tabs -> {"none", "shell", "starting"} \cup Pi]
    BY <1>2 DEF StartFails, PlannerTypeOK
  <2>. QED
    BY <1>2, <2>1, UpsetType DEF StartFails, RestUnchanged, PlannerTypeOK
<1>3. ASSUME NEW h \in Healers, Refuses(h) PROVE PlannerTypeOK'
  <2>1. at' \in [Healers -> HealerSteps]
    BY <1>3 DEF Refuses, Goes, HealerSteps, PlannerTypeOK
  <2>. QED
    BY <1>3, <2>1, UpsetType DEF Refuses, PlannerTypeOK
<1>4. ASSUME NEW h \in Healers, Killed(h) PROVE PlannerTypeOK'
  BY <1>4, ForgetsType, UpsetType DEF Killed, PlannerTypeOK
<1>5. CASE LoopUpset
  BY <1>5, UpsetType DEF LoopUpset, mind, PlannerTypeOK
<1>6. ASSUME NEW t \in Tabs, NEW p \in Probes, ProbeBreaks(t, p) PROVE PlannerTypeOK'
  <2>1. /\ broken' \in [Tabs -> SUBSET Probes]
        /\ kept' \in [Healers -> SUBSET Tabs]
    BY <1>6 DEF ProbeBreaks, PlannerTypeOK
  <2>. QED
    BY <1>6, <2>1, UpsetType DEF ProbeBreaks, PlannerTypeOK
<1>. QED
  BY <1>1, <1>2, <1>3, <1>4, <1>5, <1>6 DEF Fault

\* Every reachable state of a project, of its planner's tabs and of the passes
\* over it is well typed: what a pass has copied are rows and snapshots.
THEOREM PlannerTypesAreCorrect == PlannerSpec => []PlannerTypeOK
<1>1. PlannerTypeOK /\ [PlannerNext]_prVars => PlannerTypeOK'
  <2> SUFFICES ASSUME PlannerTypeOK, [PlannerNext]_prVars PROVE PlannerTypeOK'
    OBVIOUS
  <2>1. ASSUME NEW h \in Healers, Begins(h) \/ HealerStep(h) PROVE PlannerTypeOK'
    BY <2>1, PassTypes, EnsureTypes, RecoverTypes, ReconcileTypes DEF HealerStep
  <2>2. CASE UNCHANGED prVars
    BY <2>2 DEF prVars, world, mind, PlannerTypeOK
  <2>. QED
    BY <2>1, <2>2, WorldTypes, UserTypes, FaultTypes DEF PlannerNext
<1>. QED
  BY <1>1, InitTypes, PTL DEF PlannerSpec

(***************************************************************************)
(* LiveSpared.  Who has answered since a pass began, and Herdr with it, is *)
(* seen to run Pi by every probe, so that it is never among the panes      *)
(* without Pi that a pass closes; and a pass is about to close all it has  *)
(* listed only when it saw none of them to run Pi, or escalates against    *)
(* one that does not answer.                                               *)
(***************************************************************************)
KeptAnswer == \A h \in Healers : \A t \in kept[h] : pane[t] \in Answering /\ broken[t] = {}

Judged(h) ==
  /\ at[h] = "close" => \A t \in kept[h] \cap seen[h].agents :
                          intent[h].force /\ seen[h].agents # {t}
  /\ at[h] = "clear" => kept[h] \cap now[h].agents = {}

LiveInv == KeptAnswer /\ \A h \in Healers : Judged(h)

LEMMA CloseKeeps ==
  ASSUME PlannerTypeOK, KeptAnswer, NEW tabs, CloseTabs(tabs), UNCHANGED broken
  PROVE  KeptAnswer'
BY DEF CloseTabs, KeptAnswer, PlannerTypeOK

LEMMA ForgetKeeps ==
  ASSUME PlannerTypeOK, KeptAnswer, NEW h \in Healers, Forgets(h), UNCHANGED <<pane, broken>>
  PROVE  KeptAnswer'
BY DEF Forgets, KeptAnswer, PlannerTypeOK

LEMMA HealerKeeps ==
  ASSUME PlannerTypeOK, KeptAnswer, NEW h \in Healers, Begins(h) \/ HealerStep(h)
  PROVE  KeptAnswer'
<1>1. CASE Begins(h)
  BY <1>1 DEF Begins, Heard, KeptAnswer, PlannerTypeOK
<1>2. CASE FindsHealthy(h) \/ Closes(h) \/ Clears(h)
  BY <1>2, CloseKeeps DEF FindsHealthy, Closes, Clears
<1>3. CASE Finds(h)
  <2>1. /\ UNCHANGED <<kept, broken>>
        /\ \A t \in Tabs : pane'[t] = pane[t] \/ pane[t] = "none"
    BY <1>3 DEF Finds, PlannerTypeOK
  <2>. QED
    BY <2>1 DEF KeptAnswer, Answering, PlannerTypeOK
<1>4. CASE Types(h)
  <2>1. /\ UNCHANGED <<kept, broken>>
        /\ \A t \in Tabs : pane'[t] = pane[t] \/ pane[t] = "shell"
    BY <1>4 DEF Types, PlannerTypeOK
  <2>. QED
    BY <2>1 DEF KeptAnswer, Answering, PlannerTypeOK
<1>5. CASE Ends(h)
  BY <1>5, ForgetKeeps DEF Ends, world
<1>6. CASE UNCHANGED <<pane, broken, kept>>
  BY <1>6 DEF KeptAnswer
<1>7. CASE \/ Looks(h) \/ Activates(h) \/ Checks(h) \/ Repairs(h) \/ AwaitsUser(h)
           \/ FindsStale(h) \/ FindsWedged(h) \/ FindsUnlisted(h) \/ FindsNone(h)
           \/ Recovers(h) \/ Throws(h) \/ Notes(h) \/ OwesNothing(h)
           \/ WakesForReady(h) \/ WakesForOrphans(h) \/ Reconciles(h)
  BY <1>6, <1>7 DEF Looks, Activates, Checks, Repairs, AwaitsUser, FindsStale, FindsWedged,
     FindsUnlisted, FindsNone, Recovers, Throws, Notes, OwesNothing, WakesForReady,
     WakesForOrphans, Reconciles, world
<1>. QED
  BY <1>1, <1>2, <1>3, <1>4, <1>5, <1>7 DEF HealerStep

LEMMA WorldKeeps ==
  ASSUME PlannerTypeOK, KeptAnswer,
         \/ \E t \in Tabs : Boots(t) \/ Lists(t) \/ Rests(t) \/ \E p \in Probes : ProbeWorks(t, p)
         \/ CoolsDown \/ GraceEnds \/ Answers \/ UserStep \/ Fault
  PROVE  KeptAnswer'
<1>1. ASSUME NEW t \in Tabs, Boots(t) \/ StartFails(t) \/ UserStarts(t) PROVE KeptAnswer'
  <2>1. UNCHANGED <<kept, broken>> /\ pane[t] \in {"none", "shell", "starting"}
    BY <1>1 DEF Boots, StartFails, UserStarts, Unused, RestUnchanged
  <2>2. \A u \in Tabs : u # t => pane'[u] = pane[u]
    BY <1>1 DEF Boots, StartFails, UserStarts, PlannerTypeOK
  <2>. QED
    BY <2>1, <2>2 DEF KeptAnswer, Answering, PlannerTypeOK
<1>2. ASSUME NEW t \in Tabs, Rests(t) PROVE KeptAnswer'
  BY <1>2 DEF Rests, RestUnchanged, KeptAnswer, Answering, PlannerTypeOK
<1>3. ASSUME NEW t \in Tabs, NEW how, Fails(t, how) PROVE KeptAnswer'
  BY <1>3 DEF Fails, RestUnchanged, KeptAnswer, PlannerTypeOK
<1>4. ASSUME NEW t \in Tabs, UserCloses(t) PROVE KeptAnswer'
  BY <1>4, CloseKeeps DEF UserCloses, RestUnchanged
<1>5. ASSUME NEW h \in Healers, Killed(h) PROVE KeptAnswer'
  BY <1>5, ForgetKeeps DEF Killed
<1>6. CASE UNCHANGED <<pane, broken, kept>>
  BY <1>6 DEF KeptAnswer
<1>8. ASSUME NEW t \in Tabs, NEW p \in Probes, ProbeBreaks(t, p) \/ ProbeWorks(t, p)
      PROVE  KeptAnswer'
  <2>1. UNCHANGED pane /\ \A u \in Tabs : u # t => broken'[u] = broken[u]
    BY <1>8 DEF ProbeBreaks, ProbeWorks, PlannerTypeOK
  <2>2. \A g \in Healers : kept'[g] \subseteq kept[g] \ {t}
    BY <1>8 DEF ProbeBreaks, ProbeWorks, mind, KeptAnswer, PlannerTypeOK
  <2>. QED
    BY <2>1, <2>2 DEF KeptAnswer, PlannerTypeOK
<1>7. CASE \/ \E t \in Tabs : Lists(t)
           \/ \E h \in Healers : Refuses(h)
           \/ CoolsDown \/ GraceEnds \/ Answers \/ Initializes \/ Starts \/ Pause \/ Leave
           \/ WorkChanges \/ LoopUpset
  BY <1>6, <1>7 DEF Lists, RestUnchanged, Refuses, CoolsDown, GraceEnds, Answers, Initializes, Starts, Pause,
     Leave, WorkChanges, LoopUpset, mind
<1>. QED
  BY <1>1, <1>2, <1>3, <1>4, <1>5, <1>7, <1>8 DEF UserStep, Fault

\* What a healer has judged stands while others move: planners may only cease
\* to answer.
LEMMA Stands ==
  ASSUME NEW h \in Healers, Judged(h), kept'[h] \subseteq kept[h],
         at'[h] = at[h], seen'[h] = seen[h], now'[h] = now[h], intent'[h] = intent[h]
  PROVE  Judged(h)'
BY DEF Judged

LEMMA OthersStand ==
  ASSUME PlannerTypeOK, NEW h \in Healers, Judged(h), NEW g \in Healers, g # h,
         Begins(g) \/ HealerStep(g) \/ Refuses(g) \/ Killed(g)
  PROVE  Judged(h)' /\ at'[h] = at[h]
<1> DEFINE Same == /\ at'[h] = at[h] /\ seen'[h] = seen[h] /\ now'[h] = now[h]
                   /\ intent'[h] = intent[h] /\ kept'[h] \subseteq kept[h]
<1>1. CASE Begins(g) \/ Looks(g) \/ Activates(g) \/ Checks(g) \/ Repairs(g)
  <2>1. Same
    BY <1>1 DEF Begins, Looks, Activates, Checks, Repairs, Goes, PlannerTypeOK
  <2>. QED
    BY <2>1, Stands
<1>2. CASE \/ AwaitsUser(g) \/ FindsStale(g) \/ FindsWedged(g) \/ FindsUnlisted(g)
           \/ FindsNone(g)
  <2>1. Same
    BY <1>2 DEF AwaitsUser, FindsStale, FindsWedged, FindsUnlisted, FindsNone, Replaces,
       Leaves, Goes, PlannerTypeOK
  <2>. QED
    BY <2>1, Stands
<1>3. CASE FindsHealthy(g) \/ Closes(g) \/ Clears(g)
  <2>1. Same
    BY <1>3 DEF FindsHealthy, Closes, Clears, CloseTabs, Leaves, Goes, PlannerTypeOK
  <2>. QED
    BY <2>1, Stands
<1>4. CASE Recovers(g) \/ Finds(g) \/ Types(g) \/ Throws(g) \/ Notes(g)
  <2>1. Same
    BY <1>4 DEF Recovers, Finds, Types, Throws, Notes, Leaves, Goes, PlannerTypeOK
  <2>. QED
    BY <2>1, Stands
<1>5. CASE \/ OwesNothing(g) \/ WakesForReady(g) \/ WakesForOrphans(g) \/ Reconciles(g)
           \/ Refuses(g)
  <2>1. Same
    BY <1>5 DEF OwesNothing, WakesForReady, WakesForOrphans, Reconciles, Refuses, Goes,
       PlannerTypeOK
  <2>. QED
    BY <2>1, Stands
<1>6. CASE Ends(g) \/ Killed(g)
  <2>1. Same
    BY <1>6 DEF Ends, Killed, Forgets, Goes, PlannerTypeOK
  <2>. QED
    BY <2>1, Stands
<1>. QED
  BY <1>1, <1>2, <1>3, <1>4, <1>5, <1>6 DEF HealerStep

\* A healer judges anew when it is about to close what it has listed.
LEMMA OwnJudgement ==
  ASSUME PlannerTypeOK, KeptAnswer, NEW h \in Healers, Judged(h),
         Begins(h) \/ HealerStep(h) \/ Refuses(h) \/ Killed(h)
  PROVE  Judged(h)'
<1>1. ASSUME at'[h] \notin {"close", "clear"} PROVE Judged(h)'
  BY <1>1 DEF Judged
<1>2. CASE FindsWedged(h)
  <2>1. PICK t \in Running(seen[h].agents) : Escalates(h, t)
    BY <1>2 DEF FindsWedged
  <2>2. t \in seen[h].agents /\ ~(pane[t] \in Answering /\ broken[t] = {})
    BY <2>1 DEF Running, Escalates, Explained
  <2>3. at'[h] # "clear"
    BY <1>2 DEF FindsWedged, Replaces, Leaves, Goes, PlannerTypeOK
  <2>4. ASSUME at'[h] = "close" PROVE intent'[h].force
    BY <1>2, <2>4 DEF FindsWedged, Replaces, Leaves, Goes, NoIntent, PlannerTypeOK
  <2>5. \A u \in kept[h] \cap seen[h].agents : seen[h].agents # {u}
    BY <2>2 DEF KeptAnswer
  <2>. QED
    BY <1>2, <2>3, <2>4, <2>5 DEF Judged, FindsWedged
<1>3. CASE FindsNone(h)
  <2>1. kept[h] \cap seen[h].agents = {}
    BY <1>3 DEF FindsNone, Running, KeptAnswer, Answering, Pi, PlannerTypeOK
  <2>2. at'[h] # "clear"
    BY <1>3 DEF FindsNone, Replaces, Leaves, Goes, PlannerTypeOK
  <2>. QED
    BY <1>3, <2>1, <2>2 DEF Judged, FindsNone
<1>4. CASE Recovers(h)
  <2>1. UNCHANGED <<pane, broken, kept>>
    BY <1>4 DEF Recovers, world
  <2>2. at'[h] = "clear" => Running(now'[h].agents \cup now'[h].tabs) = {}
    BY <1>4 DEF Recovers, Goes, PlannerTypeOK
  <2>3. now'[h] \in Snapshots
    BY <1>4, SnapshotType DEF Recovers, PlannerTypeOK
  <2>4. at'[h] = "clear" => kept[h] \cap now'[h].agents = {}
    BY <2>2, <2>3 DEF Running, KeptAnswer, Answering, Pi, Snapshots
  <2>5. at'[h] # "close"
    BY <1>4 DEF Recovers, Goes, PlannerTypeOK
  <2>. QED
    BY <2>1, <2>4, <2>5 DEF Judged
<1>5. CASE \/ Begins(h) \/ Looks(h) \/ Activates(h) \/ Checks(h) \/ Repairs(h) \/ AwaitsUser(h)
           \/ FindsHealthy(h) \/ FindsStale(h) \/ FindsUnlisted(h) \/ Closes(h) \/ Clears(h)
  <2>1. at'[h] \notin {"close", "clear"}
    BY <1>5 DEF Begins, Looks, Activates, Checks, Repairs, AwaitsUser, FindsHealthy, FindsStale,
       FindsUnlisted, Closes, Clears, Leaves, Goes, PlannerTypeOK
  <2>. QED
    BY <2>1, <1>1
<1>6. CASE \/ Finds(h) \/ Types(h) \/ Throws(h) \/ Notes(h) \/ OwesNothing(h) \/ WakesForReady(h)
           \/ WakesForOrphans(h) \/ Reconciles(h) \/ Ends(h) \/ Refuses(h) \/ Killed(h)
  <2>1. at'[h] \notin {"close", "clear"}
    BY <1>6 DEF Finds, Types, Throws, Notes, OwesNothing, WakesForReady, WakesForOrphans,
       Reconciles, Ends, Refuses, Killed, Forgets, Leaves, Goes, PlannerTypeOK
  <2>. QED
    BY <2>1, <1>1
<1>. QED
  BY <1>2, <1>3, <1>4, <1>5, <1>6 DEF HealerStep

\* What the planner, Herdr, time and users do leaves every judgement alone.
LEMMA WorldStands ==
  ASSUME PlannerTypeOK, NEW h \in Healers, Judged(h),
         \/ \E t \in Tabs : Boots(t) \/ Lists(t) \/ Rests(t) \/ \E p \in Probes : ProbeWorks(t, p)
         \/ CoolsDown \/ GraceEnds \/ Answers \/ UserStep \/ LoopUpset
         \/ \E t \in Tabs : StartFails(t) \/ \E how \in {"shell", "wedged"} : Fails(t, how)
         \/ \E t \in Tabs : \E p \in Probes : ProbeBreaks(t, p)
  PROVE  Judged(h)' /\ at'[h] = at[h]
<1> DEFINE Same == /\ at'[h] = at[h] /\ seen'[h] = seen[h] /\ now'[h] = now[h]
                   /\ intent'[h] = intent[h] /\ kept'[h] \subseteq kept[h]
<1>1. CASE \E t \in Tabs : \/ Boots(t) \/ Lists(t) \/ Rests(t) \/ StartFails(t)
                          \/ \E how \in {"shell", "wedged"} : Fails(t, how)
                          \/ \E p \in Probes : ProbeWorks(t, p) \/ ProbeBreaks(t, p)
  <2>1. Same
    BY <1>1 DEF Boots, Lists, Rests, ProbeWorks, StartFails, Fails, ProbeBreaks, RestUnchanged,
       mind, PlannerTypeOK
  <2>. QED
    BY <2>1, Stands
<1>2. CASE CoolsDown \/ GraceEnds \/ Answers \/ LoopUpset
  <2>1. Same
    BY <1>2 DEF CoolsDown, GraceEnds, Answers, LoopUpset, mind
  <2>. QED
    BY <2>1, Stands
<1>3. CASE UserStep
  <2>1. Same
    BY <1>3 DEF UserStep, UserCloses, CloseTabs, UserStarts, Initializes, Starts, Pause, Leave,
       WorkChanges, RestUnchanged, mind, PlannerTypeOK
  <2>. QED
    BY <2>1, Stands
<1>. QED
  BY <1>1, <1>2, <1>3

LEMMA InitLive == PlannerInit => LiveInv
BY DEF PlannerInit, LiveInv, KeptAnswer, Judged

LEMMA NextLive ==
  PlannerTypeOK /\ LiveInv /\ [PlannerNext]_prVars => LiveInv'
<1> SUFFICES ASSUME PlannerTypeOK, LiveInv, [PlannerNext]_prVars PROVE LiveInv'
  OBVIOUS
<1> USE DEF LiveInv
<1>1. ASSUME NEW g \in Healers, Begins(g) \/ HealerStep(g) PROVE LiveInv'
  <2>1. KeptAnswer'
    BY <1>1, HealerKeeps
  <2>2. ASSUME NEW h \in Healers PROVE Judged(h)'
    <3>1. CASE h = g
      BY <3>1, <1>1, OwnJudgement
    <3>2. CASE h # g
      BY <3>2, <1>1, OthersStand
    <3>. QED
      BY <3>1, <3>2
  <2>. QED
    BY <2>1, <2>2
<1>2. ASSUME NEW g \in Healers, Refuses(g) \/ Killed(g) PROVE LiveInv'
  <2>1. KeptAnswer'
    BY <1>2, WorldKeeps DEF Fault
  <2>2. ASSUME NEW h \in Healers PROVE Judged(h)'
    <3>1. CASE h = g
      BY <3>1, <1>2, OwnJudgement
    <3>2. CASE h # g
      BY <3>2, <1>2, OthersStand
    <3>. QED
      BY <3>1, <3>2
  <2>. QED
    BY <2>1, <2>2
<1>3. CASE \/ \E t \in Tabs : Boots(t) \/ Lists(t) \/ Rests(t) \/ \E p \in Probes : ProbeWorks(t, p)
           \/ CoolsDown \/ GraceEnds \/ Answers \/ UserStep \/ LoopUpset
           \/ \E t \in Tabs : StartFails(t) \/ \E how \in {"shell", "wedged"} : Fails(t, how)
         \/ \E t \in Tabs : \E p \in Probes : ProbeBreaks(t, p)
  <2>1. KeptAnswer'
    BY <1>3, WorldKeeps DEF Fault
  <2>2. \A h \in Healers : Judged(h)'
    BY <1>3, WorldStands
  <2>. QED
    BY <2>1, <2>2
<1>4. CASE UNCHANGED prVars
  BY <1>4 DEF prVars, world, mind, KeptAnswer, Judged
<1>. QED
  BY <1>1, <1>2, <1>3, <1>4 DEF PlannerNext, Fault

\* A step of the healer itself closes a planner it has seen answering only with
\* one that it escalates against.
LEMMA OwnStepSpares ==
  ASSUME PlannerTypeOK, KeptAnswer, NEW h \in Healers, Judged(h), NEW t \in kept[h],
         Begins(h) \/ HealerStep(h) \/ Refuses(h) \/ Killed(h),
         pane'[t] = "none"
  PROVE  intent[h].force /\ seen[h].agents # {t}
<1>1. t \in Tabs /\ pane[t] \in Pi /\ pane[t] # "none" /\ broken[t] = {}
  BY DEF KeptAnswer, Answering, Pi, PlannerTypeOK
<1>2. ~UNCHANGED pane
  BY <1>1
<1>3. CASE FindsHealthy(h)
  BY <1>1, <1>3 DEF FindsHealthy, CloseTabs, Running
<1>4. CASE Closes(h)
  BY <1>1, <1>4 DEF Closes, CloseTabs, Judged
<1>5. CASE Clears(h)
  BY <1>1, <1>5 DEF Clears, CloseTabs, Judged
<1>6. CASE Finds(h)
  BY <1>1, <1>6 DEF Finds, PlannerTypeOK
<1>7. CASE Types(h)
  BY <1>1, <1>7 DEF Types, PlannerTypeOK
<1>8. CASE \/ Begins(h) \/ Looks(h) \/ Activates(h) \/ Checks(h) \/ Repairs(h) \/ AwaitsUser(h)
           \/ FindsStale(h) \/ FindsWedged(h) \/ FindsUnlisted(h) \/ FindsNone(h)
           \/ Recovers(h) \/ Throws(h) \/ Notes(h) \/ OwesNothing(h) \/ WakesForReady(h)
           \/ WakesForOrphans(h) \/ Reconciles(h) \/ Ends(h) \/ Refuses(h) \/ Killed(h)
  BY <1>2, <1>8 DEF Begins, Looks, Activates, Checks, Repairs, AwaitsUser, FindsStale,
     FindsWedged, FindsUnlisted, FindsNone, Recovers, Throws, Notes, OwesNothing,
     WakesForReady, WakesForOrphans, Reconciles, Ends, Refuses, Killed, world
<1>. QED
  BY <1>3, <1>4, <1>5, <1>6, <1>7, <1>8 DEF HealerStep

\* A planner that has answered since a pass began, and of whom no probe has failed
\* since, is never closed by that pass, whatever the age of its snapshot and
\* whatever others do meanwhile, but together with another one that it escalated
\* against: ensureRegisteredPlanner and recoverPlanner, for any number of tabs,
\* passes, users and faults.
THEOREM PlannersAreSpared == PlannerSpec => LiveSpared
<1>1. ASSUME PlannerTypeOK, LiveInv, [PlannerNext]_prVars,
             NEW h \in Healers, NEW t \in kept[h], at'[h] # at[h], pane'[t] = "none"
      PROVE  intent[h].force /\ seen[h].agents # {t}
  <2>1. ~UNCHANGED prVars
    BY <1>1 DEF prVars, mind
  <2>2. ASSUME NEW g \in Healers, g # h, Begins(g) \/ HealerStep(g) \/ Refuses(g) \/ Killed(g)
        PROVE  FALSE
    BY <1>1, <2>2, OthersStand DEF LiveInv
  <2>3. ~ \/ \E u \in Tabs : Boots(u) \/ Lists(u) \/ Rests(u) \/ \E p \in Probes : ProbeWorks(u, p)
          \/ CoolsDown \/ GraceEnds \/ Answers \/ UserStep \/ LoopUpset
          \/ \E u \in Tabs : StartFails(u) \/ \E how \in {"shell", "wedged"} : Fails(u, how)
          \/ \E u \in Tabs : \E p \in Probes : ProbeBreaks(u, p)
    BY <1>1, WorldStands DEF LiveInv
  <2>4. Begins(h) \/ HealerStep(h) \/ Refuses(h) \/ Killed(h)
    BY <1>1, <2>1, <2>2, <2>3 DEF PlannerNext, Fault
  <2>. QED
    BY <1>1, <2>4, OwnStepSpares DEF LiveInv
<1>2. PlannerTypeOK /\ LiveInv /\ [PlannerNext]_prVars
      => [\A h \in Healers : \A t \in kept[h] :
            at'[h] # at[h] /\ pane'[t] = "none" =>
              intent[h].force /\ seen[h].agents # {t}]_prVars
  BY <1>1
<1>3. PlannerSpec => []LiveInv
  BY PlannerTypesAreCorrect, InitLive, NextLive, PTL DEF PlannerSpec
<1>. QED
  BY <1>2, <1>3, PlannerTypesAreCorrect, PTL DEF PlannerSpec, LiveSpared

(***************************************************************************)
(* The auto-improver                                                       *)
(***************************************************************************)
Points ==
  {"rest", "chosen", "planned", "launched", "failed", "closing", "closed", "scheduler", "spawn"}

LEMMA MovesType ==
  ASSUME AutoImproverTypeOK, NEW c \in Auditors \cup {Cron}, NEW p \in Points, Moves(c, p)
  PROVE  point' \in [Auditors \cup {Cron} -> Points]
BY DEF AutoImproverTypeOK, Moves, Points

LEMMA AuditTypes ==
  ASSUME AutoImproverTypeOK,
         \/ \E d \in Daemons : Choose(d)
         \/ \E c \in Auditors : RunsAudit(c)
         \/ CompleteAudit \/ AgentDies \/ FallsDue
  PROVE  AutoImproverTypeOK'
<1> DEFINE Projects == [status : Paused \cup Resting \cup {"running"},
                        next : {"never", "later", "due"}, tab : BOOLEAN]
<1>1. project' \in Projects
  <2>1. project \in Projects
    BY DEF AutoImproverTypeOK
  <2>2. ASSUME NEW c \in Auditors, RunsAudit(c)
        PROVE  project' \in Projects
    <3>1. CASE CreateAudit(c) \/ LaunchWorker(c)
      BY <2>1, <3>1 DEF CreateAudit, LaunchWorker
    <3>2. CASE RecordLaunch(c)
      BY <2>1, <3>2 DEF RecordLaunch, Resting
    <3>3. CASE RecordFailure(c)
      BY <2>1, <3>3 DEF RecordFailure, Resting
    <3> QED BY <2>2, <3>1, <3>2, <3>3 DEF RunsAudit
  <2>3. CASE (\E d \in Daemons : Choose(d)) \/ CompleteAudit \/ AgentDies \/ FallsDue
    BY <2>1, <2>3 DEF Choose, CompleteAudit, AgentDies, FallsDue, Resting
  <2> QED BY <2>2, <2>3
<1>2. agent' \in BOOLEAN
  BY DEF AutoImproverTypeOK, Choose, RunsAudit, CreateAudit, LaunchWorker, RecordLaunch,
         RecordFailure, CompleteAudit, AgentDies, FallsDue
<1>3. UNCHANGED <<order, daemon, pidFile, suspended>>
  BY DEF Choose, RunsAudit, CreateAudit, LaunchWorker, RecordLaunch, RecordFailure,
         CompleteAudit, AgentDies, FallsDue
<1>4. UNCHANGED point \/ \E c \in Auditors \cup {Cron}, p \in Points : Moves(c, p)
  BY DEF Choose, RunsAudit, CreateAudit, LaunchWorker, RecordLaunch, RecordFailure,
         CompleteAudit, AgentDies, FallsDue, Points, Auditors
<1>5. point' \in [Auditors \cup {Cron} -> Points]
  BY <1>4, MovesType DEF AutoImproverTypeOK, Points
<1> QED BY <1>1, <1>2, <1>3, <1>5 DEF AutoImproverTypeOK, Points

LEMMA OperatorTypes ==
  ASSUME AutoImproverTypeOK, NEW o \in Operators, NEW what \in Orders,
         RunOrStart(o, what) \/ PauseOrStop(o, what) \/ DoResume(o)
  PROVE  AutoImproverTypeOK'
<1>1. project' \in [status : Paused \cup Resting \cup {"running"},
                    next : {"never", "later", "due"}, tab : BOOLEAN]
  <2>1. CASE RunOrStart(o, what) \/ DoResume(o)
    BY <2>1 DEF AutoImproverTypeOK, RunOrStart, DoResume, Resting
  <2>2. CASE PauseOrStop(o, what)
    BY <2>2 DEF AutoImproverTypeOK, PauseOrStop, Paused
  <2> QED BY <2>1, <2>2
<1>2. order' \in [Operators -> AllOrders] /\ suspended' \in BOOLEAN
  <2>1. what \in AllOrders /\ "resume" \in AllOrders
    BY AutoImproverAssumption DEF AllOrders
  <2>2. order' = order \/ \E w \in AllOrders : order' = [order EXCEPT ![o] = w]
    BY <2>1 DEF RunOrStart, PauseOrStop, DoResume
  <2>3. suspended' \in BOOLEAN
    BY DEF AutoImproverTypeOK, RunOrStart, PauseOrStop, DoResume
  <2> QED BY <2>2, <2>3 DEF AutoImproverTypeOK
<1>3. UNCHANGED point \/ \E p \in Points : Moves(o, p)
  BY DEF RunOrStart, PauseOrStop, DoResume, Points
<1>4. point' \in [Auditors \cup {Cron} -> Points]
  BY <1>3, MovesType DEF AutoImproverTypeOK, Points, Auditors
<1>5. UNCHANGED <<agent, daemon, pidFile>>
  BY DEF RunOrStart, PauseOrStop, DoResume
<1> QED BY <1>1, <1>2, <1>4, <1>5 DEF AutoImproverTypeOK, Points

LEMMA DaemonTypes ==
  ASSUME AutoImproverTypeOK,
         \/ PassBegins \/ CloseTab \/ ForgetTab
         \/ \E c \in Operators \cup {Cron} : StartsDaemon(c)
         \/ \E d \in Perishable : DaemonDies(d)
  PROVE  AutoImproverTypeOK'
<1>1. /\ project' \in [status : Paused \cup Resting \cup {"running"},
                       next : {"never", "later", "due"}, tab : BOOLEAN]
      /\ agent' \in BOOLEAN
  BY DEF AutoImproverTypeOK, PassBegins, CloseTab, ForgetTab, StartsDaemon, StartDaemon,
         SpawnDaemon, DaemonDies
<1>2. daemon' \in [Daemons -> {"off", "up", "dead"}] /\ pidFile' \in Daemons \cup {NoDaemon}
  BY AutoImproverAssumption
  DEF AutoImproverTypeOK, PassBegins, CloseTab, ForgetTab, StartsDaemon, StartDaemon,
      SpawnDaemon, DaemonDies
<1>3. UNCHANGED <<order, suspended>>
  BY DEF PassBegins, CloseTab, ForgetTab, StartsDaemon, StartDaemon, SpawnDaemon, DaemonDies
<1>4. \E c \in Auditors \cup {Cron}, p \in Points : Moves(c, p)
  BY AutoImproverAssumption
  DEF PassBegins, CloseTab, ForgetTab, StartsDaemon, StartDaemon, SpawnDaemon, DaemonDies,
      Points, Auditors
<1>5. point' \in [Auditors \cup {Cron} -> Points]
  BY <1>4, MovesType
<1> QED BY <1>1, <1>2, <1>3, <1>5 DEF AutoImproverTypeOK, Points

\* However operators, daemons, agents and the crontab overwrite the row, it keeps its
\* type, as do the pid file and the processes (yano-auto-improver.mjs).
THEOREM AutoImproverTyped == AutoImproverSpec => []AutoImproverTypeOK
<1>1. AutoImproverInit => AutoImproverTypeOK
  <2> SUFFICES ASSUME AutoImproverInit PROVE AutoImproverTypeOK
    OBVIOUS
  <2>1. /\ project \in [status : Paused \cup Resting \cup {"running"},
                        next : {"never", "later", "due"}, tab : BOOLEAN]
        /\ agent \in BOOLEAN /\ suspended \in BOOLEAN
    BY DEF AutoImproverInit, Paused
  <2>2. point \in [Auditors \cup {Cron} -> Points]
    BY DEF AutoImproverInit, Points
  <2>3. /\ order \in [Operators -> AllOrders] /\ daemon \in [Daemons -> {"off", "up", "dead"}]
        /\ pidFile \in Daemons \cup {NoDaemon}
    BY DEF AutoImproverInit, AllOrders
  <2> QED BY <2>1, <2>2, <2>3 DEF AutoImproverTypeOK, Points
<1>2. AutoImproverTypeOK /\ [AutoImproverNext]_aiVars => AutoImproverTypeOK'
  <2> SUFFICES ASSUME AutoImproverTypeOK, [AutoImproverNext]_aiVars PROVE AutoImproverTypeOK'
    OBVIOUS
  <2>1. CASE UNCHANGED aiVars
    BY <2>1 DEF aiVars, AutoImproverTypeOK
  <2>2. CASE AutoImproverNext
    <3>1. ASSUME NEW o \in Operators, DoResume(o) PROVE AutoImproverTypeOK'
      <4>1. CASE Orders = {}
        BY <3>1, <4>1 DEF DoResume
      <4> QED BY <3>1, <4>1, OperatorTypes
    <3> QED BY <2>2, <3>1, AuditTypes, OperatorTypes, DaemonTypes DEF AutoImproverNext, CronPass
  <2> QED BY <2>1, <2>2
<1> QED BY <1>1, <1>2, PTL DEF AutoImproverSpec
=============================================================================
