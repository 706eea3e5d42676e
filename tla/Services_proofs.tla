--------------------------- MODULE Services_proofs ---------------------------
(***************************************************************************)
(* The feedback queue is well typed, and what is proved of each of the     *)
(* five services holds of their composition: each runs in it as it runs    *)
(* alone.                                                                  *)
(***************************************************************************)
EXTENDS MCServices, Scheduler_proofs, Worktrees_proofs, Architect_proofs

\* The watcher's pass has an item in hand when it claims one.
FeedbackInv == FeedbackTypeOK /\ (watch.at = "claim" => watch.item \in Items)

USE FeedbackAssumption
-----------------------------------------------------------------------------
\* The parts of FeedbackInv in the next state.
LEMMA FeedbackAgain ==
  ASSUME status' \in [Items -> Statuses], old' \subseteq Items,
         creating' \in [Items -> {"no", "inserted", "queued", "pending_planner", "reported", "claim"}],
         healthy' \subseteq up', up' \subseteq Agents, busy' \subseteq up', mail' \subseteq up' \X Types,
         wake' \in [Agents -> [item: Items \cup {NoItem}, types: Seq(Types)]],
         \A p \in Agents : wake'[p].item # NoItem =>
           wake'[p].types # <<>> /\ Type[wake'[p].item] = Head(wake'[p].types),
         watch' \in [at: {"idle", "list", "queue", "claim", "orphans"}, seen: SUBSET Agents,
                     items: SUBSET Items, item: Items \cup {NoItem}],
         watch'.at = "claim" => watch'.item \in Items,
         told' \in [Agents -> SUBSET Items]
  PROVE  FeedbackInv'
BY DEF FeedbackInv, FeedbackTypeOK

LEMMA SetsType ==
  ASSUME FeedbackInv, NEW i \in Items, NEW to \in Statuses, Sets(i, to)
  PROVE  status' \in [Items -> Statuses] /\ old' \subseteq Items
BY DEF FeedbackInv, FeedbackTypeOK, Sets

LEMMA ClaimsType ==
  ASSUME FeedbackInv, NEW i \in Items, Claims(i)
  PROVE  status' \in [Items -> Statuses] /\ old' \subseteq Items
<1>1. "processing" \in Statuses
  BY DEF Statuses
<1>2. CASE Sets(i, "processing")
  BY <1>1, <1>2, SetsType
<1>3. CASE KeepsItems
  BY <1>3 DEF KeepsItems, FeedbackInv, FeedbackTypeOK
<1> QED BY <1>2, <1>3 DEF Claims

\* What a stretch of a planner goes on with: types to look at and no item.
LEMMA WakesType ==
  ASSUME FeedbackInv, NEW p \in Agents, NEW types \in Seq(Types), Wakes(p, types)
  PROVE  /\ wake' \in [Agents -> [item: Items \cup {NoItem}, types: Seq(Types)]]
         /\ \A q \in Agents : wake'[q].item # NoItem =>
              wake'[q].types # <<>> /\ Type[wake'[q].item] = Head(wake'[q].types)
<1>1. PICK rest : rest = [item |-> NoItem, types |-> types]
  OBVIOUS
<1>2. rest \in [item: Items \cup {NoItem}, types: Seq(Types)] /\ rest.item = NoItem
  BY <1>1
<1>3. wake' = [wake EXCEPT ![p] = rest]
  BY <1>1 DEF Wakes
<1> QED BY <1>2, <1>3 DEF FeedbackInv, FeedbackTypeOK

LEMMA AsleepType == Asleep \in [item: Items \cup {NoItem}, types: Seq(Types)] /\ Asleep.item = NoItem
BY DEF Asleep

\* Items are created, changed and fall old.
LEMMA CreationTyped ==
  ASSUME FeedbackInv, NEW i \in Items,
         Insert(i) \/ Creates(i) \/ CreationDies(i) \/ Edit(i) \/ FallsOld(i)
  PROVE  FeedbackInv'
<1>1. {"received", "queued", "pending_planner", "processing"} \subseteq Statuses
  BY DEF Statuses, Waiting
<1>2. CASE Insert(i)
  BY <1>1, <1>2, SetsType, FeedbackAgain DEF Insert, FeedbackInv, FeedbackTypeOK
<1>3. CASE Notify(i)
  <2>1. Type[i] \in Types
    OBVIOUS
  <2>2. mail' \subseteq up' \X Types
    BY <1>3, <2>1 DEF Notify, FeedbackInv, FeedbackTypeOK
  <2> QED BY <1>3, <2>2, FeedbackAgain DEF Notify, FeedbackInv, FeedbackTypeOK
<1>4. CASE Settle(i)
  <2>1. PICK to \in Statuses : Sets(i, to)
    BY <1>1, <1>4 DEF Settle
  <2>2. status' \in [Items -> Statuses] /\ old' \subseteq Items
    BY <2>1, SetsType
  <2> QED BY <1>4, <2>2, FeedbackAgain DEF Settle, FeedbackInv, FeedbackTypeOK
<1>5. CASE ReportClaim(i)
  <2>1. status' \in [Items -> Statuses] /\ old' \subseteq Items
    BY <1>5, ClaimsType DEF ReportClaim
  <2>2. told' \in [Agents -> SUBSET Items]
    BY <1>5 DEF ReportClaim, FeedbackInv, FeedbackTypeOK
  <2> QED BY <1>5, <2>1, <2>2, FeedbackAgain DEF ReportClaim, FeedbackInv, FeedbackTypeOK
<1>6. CASE CreationDies(i)
  BY <1>6, FeedbackAgain DEF CreationDies, FeedbackInv, FeedbackTypeOK
<1>7. CASE Edit(i)
  BY <1>1, <1>7, SetsType, FeedbackAgain DEF Edit, FeedbackInv, FeedbackTypeOK
<1>8. CASE FallsOld(i)
  BY <1>8, FeedbackAgain DEF FallsOld, FeedbackInv, FeedbackTypeOK
<1> QED BY <1>2, <1>3, <1>4, <1>5, <1>6, <1>7, <1>8 DEF Creates

\* The stretches and turns of a planner.
LEMMA PlannerTyped ==
  ASSUME FeedbackInv, NEW p \in Agents,
         \/ Takes(p) \/ TurnEnds(p) \/ Pick(p) \/ PickClaim(p)
         \/ \E t \in Types : Receives(p, t)
         \/ \E i \in Items, to \in {"closed", "retry"} : Decide(p, i, to)
  PROVE  FeedbackInv'
<1>1. CASE Takes(p)
  BY <1>1, FeedbackAgain DEF Takes, FeedbackInv, FeedbackTypeOK
<1>2. CASE TurnEnds(p)
  <2>1. <<"bug", "suggestion">> \in Seq(Types)
    BY DEF Types
  <2>2. UNCHANGED wake \/ Wakes(p, <<"bug", "suggestion">>)
    BY <1>2 DEF TurnEnds
  <2>3. PICK types \in Seq(Types) : types = <<"bug", "suggestion">>
    BY <2>1
  <2>4. CASE UNCHANGED wake
    BY <1>2, <2>4, FeedbackAgain DEF TurnEnds, FeedbackInv, FeedbackTypeOK
  <2>5. CASE Wakes(p, types)
    <3>1. /\ wake' \in [Agents -> [item: Items \cup {NoItem}, types: Seq(Types)]]
          /\ \A q \in Agents : wake'[q].item # NoItem =>
               wake'[q].types # <<>> /\ Type[wake'[q].item] = Head(wake'[q].types)
      BY <2>5, WakesType
    <3> QED BY <1>2, <3>1, FeedbackAgain DEF TurnEnds, FeedbackInv, FeedbackTypeOK
  <2> QED BY <2>2, <2>3, <2>4, <2>5
<1>3. CASE Pick(p)
  <2>1. wake[p] \in [item: Items \cup {NoItem}, types: Seq(Types)] /\ wake[p].types # <<>>
    BY <1>3 DEF Pick, FeedbackInv, FeedbackTypeOK
  <2>2. CASE Wakes(p, Tail(wake[p].types))
    <3>1. PICK types \in Seq(Types) : types = Tail(wake[p].types)
      <4>1. PICK all : all = wake[p].types
        OBVIOUS
      <4>2. all \in Seq(Types) /\ all # <<>>
        BY <2>1, <4>1
      <4>3. Tail(all) \in Seq(Types)
        BY <4>2
      <4> QED BY <4>1, <4>3
    <3>2. Wakes(p, types)
      BY <2>2, <3>1
    <3>3. /\ wake' \in [Agents -> [item: Items \cup {NoItem}, types: Seq(Types)]]
          /\ \A q \in Agents : wake'[q].item # NoItem =>
               wake'[q].types # <<>> /\ Type[wake'[q].item] = Head(wake'[q].types)
      BY <3>2, WakesType
    <3> QED BY <1>3, <3>3, FeedbackAgain DEF Pick, FeedbackInv, FeedbackTypeOK
  <2>3. CASE \E i \in Items : /\ Type[i] = Head(wake[p].types)
                              /\ wake' = [wake EXCEPT ![p].item = i]
    <3>1. PICK i \in Items : Type[i] = Head(wake[p].types) /\ wake' = [wake EXCEPT ![p].item = i]
      BY <2>3
    <3>2. PICK new : new = [wake[p] EXCEPT !.item = i]
      OBVIOUS
    <3>3. /\ new \in [item: Items \cup {NoItem}, types: Seq(Types)]
          /\ new.item = i /\ new.types = wake[p].types
      BY <2>1, <3>2
    <3>4. wake' = [wake EXCEPT ![p] = new]
      BY <3>1, <3>2
    <3>5. /\ wake' \in [Agents -> [item: Items \cup {NoItem}, types: Seq(Types)]]
          /\ \A q \in Agents : wake'[q].item # NoItem =>
               wake'[q].types # <<>> /\ Type[wake'[q].item] = Head(wake'[q].types)
      <4>1. wake' \in [Agents -> [item: Items \cup {NoItem}, types: Seq(Types)]]
        BY <3>3, <3>4 DEF FeedbackInv, FeedbackTypeOK
      <4>2. wake'[p] = new /\ \A q \in Agents \ {p} : wake'[q] = wake[q]
        BY <3>4 DEF FeedbackInv, FeedbackTypeOK
      <4>3. new.types # <<>> /\ Type[new.item] = Head(new.types)
        BY <2>1, <3>1, <3>3
      <4>4. \A q \in Agents \ {p} : wake[q].item # NoItem =>
              wake[q].types # <<>> /\ Type[wake[q].item] = Head(wake[q].types)
        BY DEF FeedbackInv, FeedbackTypeOK
      <4> QED BY <4>1, <4>2, <4>3, <4>4
    <3> QED BY <1>3, <3>5, FeedbackAgain DEF Pick, FeedbackInv, FeedbackTypeOK
  <2> QED BY <1>3, <2>2, <2>3 DEF Pick
<1>4. CASE PickClaim(p)
  <2>1. PICK i \in Items : i = wake[p].item
    BY <1>4 DEF PickClaim, FeedbackInv, FeedbackTypeOK
  <2>2. /\ wake[p] \in [item: Items \cup {NoItem}, types: Seq(Types)] /\ wake[p].types # <<>>
        /\ wake[p].item # NoItem
    BY <1>4 DEF PickClaim, FeedbackInv, FeedbackTypeOK
  <2>3. status' \in [Items -> Statuses] /\ old' \subseteq Items
    BY <1>4, <2>1, ClaimsType DEF PickClaim
  <2>4. CASE told' = [told EXCEPT ![p] = @ \cup {i}] /\ wake' = [wake EXCEPT ![p] = Asleep]
    <3>1. told' \in [Agents -> SUBSET Items]
      BY <2>4 DEF FeedbackInv, FeedbackTypeOK
    <3>2. /\ wake' \in [Agents -> [item: Items \cup {NoItem}, types: Seq(Types)]]
          /\ \A q \in Agents : wake'[q].item # NoItem =>
               wake'[q].types # <<>> /\ Type[wake'[q].item] = Head(wake'[q].types)
      BY <2>4, AsleepType DEF FeedbackInv, FeedbackTypeOK
    <3> QED BY <1>4, <2>3, <3>1, <3>2, FeedbackAgain DEF PickClaim, FeedbackInv, FeedbackTypeOK
  <2>5. CASE Wakes(p, Tail(wake[p].types)) /\ UNCHANGED told
    <3>1. PICK types \in Seq(Types) : types = Tail(wake[p].types)
      <4>1. PICK all : all = wake[p].types
        OBVIOUS
      <4>2. all \in Seq(Types) /\ all # <<>>
        BY <2>2, <4>1
      <4>3. Tail(all) \in Seq(Types)
        BY <4>2
      <4> QED BY <4>1, <4>3
    <3>2. Wakes(p, types)
      BY <2>5, <3>1
    <3>3. /\ wake' \in [Agents -> [item: Items \cup {NoItem}, types: Seq(Types)]]
          /\ \A q \in Agents : wake'[q].item # NoItem =>
               wake'[q].types # <<>> /\ Type[wake'[q].item] = Head(wake'[q].types)
      BY <3>2, WakesType
    <3> QED BY <1>4, <2>3, <2>5, <3>3, FeedbackAgain DEF PickClaim, FeedbackInv, FeedbackTypeOK
  <2> QED BY <1>4, <2>1, <2>4, <2>5 DEF PickClaim
<1>5. CASE \E t \in Types : Receives(p, t)
  <2>1. PICK t \in Types : Receives(p, t)
    BY <1>5
  <2>2. mail' \subseteq up' \X Types
    BY <2>1 DEF Receives, FeedbackInv, FeedbackTypeOK
  <2>3. CASE UNCHANGED wake
    BY <2>1, <2>2, <2>3, FeedbackAgain DEF Receives, FeedbackInv, FeedbackTypeOK
  <2>4. CASE \E other \in Types : Wakes(p, <<t, other>>)
    <3>1. PICK other \in Types : Wakes(p, <<t, other>>)
      BY <2>4
    <3>2. PICK types \in Seq(Types) : types = <<t, other>>
      <4>1. <<t, other>> \in Seq(Types)
        OBVIOUS
      <4> QED BY <4>1
    <3>3. Wakes(p, types)
      BY <3>1, <3>2
    <3>4. /\ wake' \in [Agents -> [item: Items \cup {NoItem}, types: Seq(Types)]]
          /\ \A q \in Agents : wake'[q].item # NoItem =>
               wake'[q].types # <<>> /\ Type[wake'[q].item] = Head(wake'[q].types)
      BY <3>3, WakesType
    <3> QED BY <2>1, <2>2, <3>4, FeedbackAgain DEF Receives, FeedbackInv, FeedbackTypeOK
  <2> QED BY <2>1, <2>3, <2>4 DEF Receives
<1>6. CASE \E i \in Items, to \in {"closed", "retry"} : Decide(p, i, to)
  <2>1. PICK i \in Items, to \in {"closed", "retry"} : Decide(p, i, to)
    BY <1>6
  <2>2. status' \in [Items -> Statuses] /\ old' \subseteq Items
    BY <2>1, SetsType DEF Decide, Statuses
  <2>3. told' \in [Agents -> SUBSET Items]
    BY <2>1 DEF Decide, FeedbackInv, FeedbackTypeOK
  <2> QED BY <2>1, <2>2, <2>3, FeedbackAgain DEF Decide, FeedbackInv, FeedbackTypeOK
<1> QED BY <1>1, <1>2, <1>3, <1>4, <1>5, <1>6

\* Planners come and go.
LEMMA PresenceTyped ==
  ASSUME FeedbackInv, NEW p \in Vanishing, Vanishes(p) \/ Launched(p) \/ FallsSilent(p)
  PROVE  FeedbackInv'
<1>1. CASE Vanishes(p)
  <2>1. /\ wake' \in [Agents -> [item: Items \cup {NoItem}, types: Seq(Types)]]
        /\ \A q \in Agents : wake'[q].item # NoItem =>
             wake'[q].types # <<>> /\ Type[wake'[q].item] = Head(wake'[q].types)
    BY <1>1, AsleepType DEF Vanishes, FeedbackInv, FeedbackTypeOK
  <2>2. mail' \subseteq up' \X Types
    BY <1>1 DEF Vanishes, FeedbackInv, FeedbackTypeOK
  <2>3. told' \in [Agents -> SUBSET Items]
    BY <1>1 DEF Vanishes, FeedbackInv, FeedbackTypeOK
  <2>4. healthy' \subseteq up' /\ up' \subseteq Agents /\ busy' \subseteq up'
    BY <1>1 DEF Vanishes, FeedbackInv, FeedbackTypeOK
  <2> QED BY <1>1, <2>1, <2>2, <2>3, <2>4, FeedbackAgain DEF Vanishes, FeedbackInv, FeedbackTypeOK
<1>2. CASE Launched(p)
  <2>1. mail' \subseteq up' \X Types
    BY <1>2 DEF Launched, FeedbackInv, FeedbackTypeOK
  <2> QED BY <1>2, <2>1, FeedbackAgain DEF Launched, FeedbackInv, FeedbackTypeOK
<1>3. CASE FallsSilent(p)
  BY <1>3, FeedbackAgain DEF FallsSilent, FeedbackInv, FeedbackTypeOK
<1> QED BY <1>1, <1>2, <1>3

\* The pass of the watcher.
LEMMA WatchTyped == ASSUME FeedbackInv, Watches PROVE FeedbackInv'
<1> DEFINE W == [at: {"idle", "list", "queue", "claim", "orphans"}, seen: SUBSET Agents,
                 items: SUBSET Items, item: Items \cup {NoItem}]
<1>1. AtRest \in W /\ AtRest.at = "idle"
  BY DEF AtRest
<1>2. watch \in W
  BY DEF FeedbackInv, FeedbackTypeOK
<1>3. healthy \subseteq Agents
  BY DEF FeedbackInv, FeedbackTypeOK
<1>4. CASE Snapshot
  BY <1>1, <1>3, <1>4, FeedbackAgain DEF Snapshot, AtRest, FeedbackInv, FeedbackTypeOK
<1>5. CASE ListQueue
  BY <1>2, <1>5, FeedbackAgain DEF ListQueue, FeedbackInv, FeedbackTypeOK
<1>6. CASE ClaimAnnounced
  <2>1. PICK i \in Items : i = watch.item
    BY <1>6 DEF ClaimAnnounced, FeedbackInv
  <2>2. status' \in [Items -> Statuses] /\ old' \subseteq Items
    BY <1>6, <2>1, ClaimsType DEF ClaimAnnounced
  <2> QED BY <1>2, <1>6, <2>2, FeedbackAgain DEF ClaimAnnounced, FeedbackInv, FeedbackTypeOK
<1>7. CASE ListOrphans
  <2>1. PICK found \in SUBSET Items : watch' = [watch EXCEPT !.at = "orphans", !.items = found]
    BY <1>7 DEF ListOrphans, FeedbackInv, FeedbackTypeOK
  <2>2. watch' \in W /\ watch'.at = "orphans"
    BY <1>2, <2>1
  <2> QED BY <1>7, <2>2, FeedbackAgain DEF ListOrphans, FeedbackInv, FeedbackTypeOK
<1>8. CASE PassEnds
  BY <1>1, <1>8, FeedbackAgain DEF PassEnds, FeedbackInv, FeedbackTypeOK
<1>9. CASE \E i \in Items : Announce(i)
  <2>1. PICK i \in Items : Announce(i)
    BY <1>9
  <2>2. Type[i] \in Types
    OBVIOUS
  <2>3. mail' \subseteq up' \X Types
    BY <2>1, <2>2 DEF Announce, FeedbackInv, FeedbackTypeOK
  <2>4. watch' \in W /\ watch'.item = i
    BY <1>2, <2>1 DEF Announce
  <2> QED BY <2>1, <2>3, <2>4, FeedbackAgain DEF Announce, FeedbackInv, FeedbackTypeOK
<1>10. CASE \E i \in Items : Return(i)
  <2>1. PICK i \in Items : Return(i)
    BY <1>10
  <2>2. status' \in [Items -> Statuses] /\ old' \subseteq Items
    BY <2>1, SetsType DEF Return, Statuses, Waiting
  <2>3. watch' \in W /\ watch'.at = "orphans"
    BY <1>2, <2>1 DEF Return
  <2> QED BY <2>1, <2>2, <2>3, FeedbackAgain DEF Return, FeedbackInv, FeedbackTypeOK
<1> QED BY <1>4, <1>5, <1>6, <1>7, <1>8, <1>9, <1>10 DEF Watches

\* Whichever planners claim, vanish and return, and whatever the watcher announces
\* meanwhile, statuses are those of the table, commands are for planners that run,
\* and the item a planner has picked is of the type it looks for.
THEOREM FeedbackTyped == FeedbackSpec => []FeedbackTypeOK
<1>1. FeedbackInit => FeedbackInv
  <2> SUFFICES ASSUME FeedbackInit PROVE FeedbackInv
    OBVIOUS
  <2>1. AtRest.at = "idle" /\ AtRest \in [at: {"idle", "list", "queue", "claim", "orphans"},
          seen: SUBSET Agents, items: SUBSET Items, item: Items \cup {NoItem}]
    BY DEF AtRest
  <2>2. status \in [Items -> Statuses]
    BY DEF FeedbackInit, Statuses, Waiting
  <2> QED BY <2>1, <2>2, AsleepType DEF FeedbackInit, FeedbackInv, FeedbackTypeOK
<1>2. FeedbackInv /\ [FeedbackNext]_fbVars => FeedbackInv'
  <2> SUFFICES ASSUME FeedbackInv, [FeedbackNext]_fbVars PROVE FeedbackInv'
    OBVIOUS
  <2>1. CASE UNCHANGED fbVars
    BY <2>1 DEF fbVars, FeedbackInv, FeedbackTypeOK
  <2>2. CASE FeedbackNext
    BY <2>2, CreationTyped, PlannerTyped, PresenceTyped, WatchTyped DEF FeedbackNext
  <2> QED BY <2>1, <2>2
<1>3. FeedbackInv => FeedbackTypeOK
  BY DEF FeedbackInv
<1> QED BY <1>1, <1>2, <1>3, PTL DEF FeedbackSpec
-----------------------------------------------------------------------------
\* In the composition every service runs as it runs alone, so that each theorem about
\* one of them holds there too.
THEOREM ServicesAreApart ==
  MCSpec => SchedulerSpec /\ FeedbackSpec /\ WorktreeSpec /\ TaskFilesSpec /\ ArchitectSpec
<1>1. MCInit => SchedulerInit /\ FeedbackInit /\ WorktreeInit /\ TaskFilesInit /\ ArchitectInit
  BY DEF MCInit
<1>2. [MCNext]_<<part, schVars, fbVars, wtVars, tfVars, arVars>> =>
        /\ [SchedulerNext]_schVars /\ [FeedbackNext]_fbVars /\ [WorktreeNext]_wtVars
        /\ [TaskFilesNext]_tfVars /\ [ArchitectNext]_arVars
  BY DEF MCNext
<1> QED BY <1>1, <1>2, PTL
        DEF MCSpec, SchedulerSpec, FeedbackSpec, WorktreeSpec, TaskFilesSpec, ArchitectSpec

\* All five services are well typed, whichever of them runs.
THEOREM ServicesTyped == MCSpec => []ServicesTypeOK
<1>1. MCSpec => /\ []SchedulerTypeOK /\ []FeedbackTypeOK /\ []WorktreeTypeOK
                /\ []TaskFilesTypeOK /\ []ArchitectTypeOK
  BY ServicesAreApart, SchedulerTyped, FeedbackTyped, WorktreeTypes, TaskFilesTyped, ArchitectTyped
<1>2. SchedulerTypeOK /\ FeedbackTypeOK /\ WorktreeTypeOK /\ TaskFilesTypeOK /\ ArchitectTypeOK
        => ServicesTypeOK
  BY DEF ServicesTypeOK
<1> QED BY <1>1, <1>2, PTL
=============================================================================
