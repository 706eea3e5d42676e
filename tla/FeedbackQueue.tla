--------------------------- MODULE FeedbackQueue ---------------------------
(***************************************************************************)
(* The queue of bugs and suggestions: the dashboard and the planner's tool *)
(* create items, planners claim the head of the queue when they go idle or *)
(* are told that something came in, and every pass of the external watcher *)
(* announces what waits and returns what a vanished planner had claimed.   *)
(*                                                                         *)
(* All share one table without transactions: a SELECT and the UPDATE that  *)
(* follows it are two steps where another process matters in between.      *)
(***************************************************************************)
EXTENDS Naturals, Sequences

CONSTANTS
  Items,      \* ids of items, served in their order
  Type,       \* Type[i]: "bug" or "suggestion"
  Agents,     \* planners of the project
  Vanishing,  \* planners that may die or fall silent
  Present,    \* items that wait in the queue at the start
  Editable      \* items whose text may be changed

Types == {"bug", "suggestion"}
Waiting == {"received", "pending_planner", "queued"}
Statuses == {"absent", "processing", "retry", "closed"} \cup Waiting
NoItem == 0

ASSUME FeedbackAssumption ==
  /\ Items \subseteq Nat \ {NoItem} /\ Type \in [Items -> Types]
  /\ Vanishing \subseteq Agents /\ Editable \subseteq Items /\ Present \subseteq Items

VARIABLES
  status,   \* feedback.status
  old,      \* items whose updated_at is fifteen minutes ago
  creating, \* creating[i]: how far createFeedback, or feedback_create, is
  up,       \* planners that run
  healthy,  \* those whose heartbeat is recent
  busy,     \* those with an assignment or a ticket in hand
  mail,     \* feedback_received commands under way: <<planner, type>>
  wake,     \* wakeNextQueuedFeedback of a planner: the item picked, types left
  watch,    \* the watcher's pass: where it is, planners it saw, items it visits
  told      \* history: told[p], items the model of planner p was told of

fbVars == <<status, old, creating, up, healthy, busy, mail, wake, watch, told>>

Asleep == [item |-> NoItem, types |-> <<>>]

FeedbackTypeOK ==
  /\ status \in [Items -> Statuses] /\ old \subseteq Items
  /\ creating \in [Items -> {"no", "inserted", "queued", "pending_planner", "reported", "claim"}]
  /\ healthy \subseteq up /\ up \subseteq Agents /\ busy \subseteq up
  /\ mail \subseteq up \X Types
  /\ wake \in [Agents -> [item: Items \cup {NoItem}, types: Seq(Types)]]
  /\ \A p \in Agents : wake[p].item # NoItem =>
       wake[p].types # <<>> /\ Type[wake[p].item] = Head(wake[p].types)
  /\ watch \in [at: {"idle", "list", "queue", "claim", "orphans"}, seen: SUBSET Agents,
                items: SUBSET Items, item: Items \cup {NoItem}]
  /\ told \in [Agents -> SUBSET Items]

AtRest == [at |-> "idle", seen |-> {}, items |-> {}, item |-> NoItem]

FeedbackInit ==
  /\ status = [i \in Items |-> IF i \in Present THEN "queued" ELSE "absent"] /\ old = {}
  /\ creating = [i \in Items |-> "no"]
  /\ up = Agents /\ healthy = Agents /\ busy = {} /\ mail = {}
  /\ wake = [p \in Agents |-> Asleep]
  /\ watch = AtRest
  /\ told = [p \in Agents |-> {}]

\* Every write sets updated_at.
Sets(i, to) ==
  /\ status' = [status EXCEPT ![i] = to]
  /\ old' = old \ {i}
KeepsItems == UNCHANGED <<status, old>>

\* claimFeedback: the UPDATE asks again for a status that waits.
Claims(i) == IF status[i] \in Waiting THEN Sets(i, "processing") ELSE KeepsItems
-----------------------------------------------------------------------------
(* createFeedback, for the dashboard or for the planner's tool *)

Insert(i) ==
  /\ status[i] = "absent"
  /\ Sets(i, "received")
  /\ \E by \in {"inserted", "reported"} : creating' = [creating EXCEPT ![i] = by]
  /\ UNCHANGED <<up, healthy, busy, mail, wake, watch, told>>

\* notifyPlanner: every planner whose card is not offline is sent a command.
Notify(i) ==
  /\ creating[i] = "inserted"
  /\ mail' = mail \cup (up \X {Type[i]})
  /\ creating' = [creating EXCEPT ![i] = IF up # {} THEN "queued" ELSE "pending_planner"]
  /\ UNCHANGED <<status, old, up, healthy, busy, wake, watch, told>>

\* The status is written whatever it has become since the INSERT.
Settle(i) ==
  /\ creating[i] \in {"queued", "pending_planner", "reported"}
  /\ Sets(i, IF creating[i] = "queued" THEN "queued" ELSE "pending_planner")
  /\ creating' = [creating EXCEPT ![i] = IF @ = "reported" THEN "claim" ELSE "no"]
  /\ UNCHANGED <<up, healthy, busy, mail, wake, watch, told>>

\* feedback_create claims what it has created for its planner.
ReportClaim(i) ==
  /\ creating[i] = "claim"
  /\ Claims(i)
  /\ creating' = [creating EXCEPT ![i] = "no"]
  /\ \E p \in up : told' = [told EXCEPT ![p] = @ \cup {i}]
  /\ UNCHANGED <<up, healthy, busy, mail, wake, watch>>

\* The process that creates the item dies.
CreationDies(i) ==
  /\ creating[i] # "no"
  /\ creating' = [creating EXCEPT ![i] = "no"]
  /\ UNCHANGED <<status, old, up, healthy, busy, mail, wake, watch, told>>

Creates(i) == Notify(i) \/ Settle(i) \/ ReportClaim(i)
-----------------------------------------------------------------------------
(* Planners *)

Wakes(p, types) ==
  wake' = [wake EXCEPT ![p] = [item |-> NoItem, types |-> types]]

Takes(p) ==
  /\ p \in up \ busy
  /\ busy' = busy \cup {p}
  /\ UNCHANGED <<status, old, creating, up, healthy, mail, wake, watch, told>>

\* agent_end of a planner: it looks at the queue if it is idle by then, and not
\* told to leave the queue alone or waiting for a human's answer.
TurnEnds(p) ==
  /\ p \in up /\ wake[p] = Asleep
  /\ busy' \in {busy, busy \ {p}}
  /\ IF p \in busy' THEN UNCHANGED wake
     ELSE UNCHANGED wake \/ Wakes(p, <<"bug", "suggestion">>)
  /\ UNCHANGED <<status, old, creating, up, healthy, mail, watch, told>>

\* handleFeedbackReceived: only an idle planner looks at the queue.
Receives(p, t) ==
  /\ <<p, t>> \in mail /\ wake[p] = Asleep
  /\ mail' = mail \ {<<p, t>>}
  /\ IF p \in busy THEN UNCHANGED wake
     ELSE \/ UNCHANGED wake
          \/ \E other \in Types \ {t} : Wakes(p, <<t, other>>)
  /\ UNCHANGED <<status, old, creating, up, healthy, busy, watch, told>>

\* claimNextQueuedFeedback: the oldest item of the next type ...
Pick(p) ==
  /\ wake[p].item = NoItem /\ wake[p].types # <<>>
  /\ LET found == {i \in Items : Type[i] = Head(wake[p].types) /\ status[i] \in Waiting} IN
       IF found = {} THEN Wakes(p, Tail(wake[p].types))
       ELSE \E i \in found :
              /\ \A j \in found : i <= j
              /\ wake' = [wake EXCEPT ![p].item = i]
  /\ UNCHANGED <<status, old, creating, up, healthy, busy, mail, watch, told>>

\* ... is claimed, and told to the model if it is `processing' then, whoever
\* made it so; otherwise the other type is looked at.
PickClaim(p) ==
  /\ wake[p].item # NoItem
  /\ LET i == wake[p].item IN
       /\ Claims(i)
       /\ IF status'[i] = "processing"
            THEN /\ told' = [told EXCEPT ![p] = @ \cup {i}]
                 /\ wake' = [wake EXCEPT ![p] = Asleep]
            ELSE Wakes(p, Tail(wake[p].types)) /\ UNCHANGED told
  /\ UNCHANGED <<creating, up, healthy, busy, mail, watch>>

\* The planner closes or gives back what it was told of: the command
\* line and worktree_finalize write the status without asking for another.
Decide(p, i, to) ==
  /\ i \in told[p] /\ status[i] # to
  /\ Sets(i, to)
  /\ told' = [told EXCEPT ![p] = @ \ {i}]
  /\ UNCHANGED <<creating, up, healthy, busy, mail, wake, watch>>

\* A changed text puts an item back into the queue, whatever its status.
Edit(i) ==
  /\ i \in Editable /\ status[i] \notin {"absent", "queued"} /\ creating[i] = "no"
  /\ Sets(i, "queued")
  /\ UNCHANGED <<creating, up, healthy, busy, mail, wake, watch, told>>

Vanishes(p) ==
  /\ p \in up
  /\ up' = up \ {p} /\ healthy' = healthy \ {p} /\ busy' = busy \ {p}
  /\ mail' = {m \in mail : m[1] # p}
  /\ wake' = [wake EXCEPT ![p] = Asleep] /\ told' = [told EXCEPT ![p] = {}]
  /\ UNCHANGED <<status, old, creating, watch>>

Launched(p) ==
  /\ p \notin up
  /\ up' = up \cup {p} /\ healthy' = healthy \cup {p}
  /\ UNCHANGED <<status, old, creating, busy, mail, wake, watch, told>>

FallsSilent(p) ==
  /\ p \in healthy
  /\ healthy' = healthy \ {p}
  /\ UNCHANGED <<status, old, creating, up, busy, mail, wake, watch, told>>
-----------------------------------------------------------------------------
(* A pass of the watcher: superviseFeedbackQueue, then                       *)
(* recoverOrphanedProcessingFeedback, over one snapshot of the planners.     *)

Snapshot ==
  /\ watch.at = "idle"
  /\ watch' = [AtRest EXCEPT !.at = "list", !.seen = healthy]
  /\ UNCHANGED <<status, old, creating, up, healthy, busy, mail, wake, told>>

ListQueue ==
  /\ watch.at = "list"
  /\ watch' = [watch EXCEPT !.at = "queue",
       !.items = {i \in Items : status[i] \in {"pending_planner", "queued", "retry"}}]
  /\ UNCHANGED <<status, old, creating, up, healthy, busy, mail, wake, told>>

Announce(i) ==
  /\ watch.at = "queue" /\ i \in watch.items
  /\ \E p \in watch.seen : mail' = IF p \in up THEN mail \cup {<<p, Type[i]>>} ELSE mail
  /\ watch' = [watch EXCEPT !.at = "claim", !.item = i, !.items = @ \ {i}]
  /\ UNCHANGED <<status, old, creating, up, healthy, busy, wake, told>>

\* Faulty variant: the watcher announces and leaves the claim to the planner.
AnnouncedOnly ==
  /\ watch.at = "claim"
  /\ watch' = [watch EXCEPT !.at = "queue", !.item = NoItem]
  /\ UNCHANGED <<status, old, creating, up, healthy, busy, mail, wake, told>>

\* Once the broker has the command the watcher claims the item itself.
ClaimAnnounced ==
  /\ watch.at = "claim"
  /\ Claims(watch.item)
  /\ watch' = [watch EXCEPT !.at = "queue", !.item = NoItem]
  /\ UNCHANGED <<creating, up, healthy, busy, mail, wake, told>>

\* Faulty variant, and the program before this function was written: claims of
\* vanished planners are nobody's business.
OrphansForgotten ==
  /\ watch.at = "queue" /\ (watch.items = {} \/ watch.seen = {})
  /\ watch' = AtRest
  /\ UNCHANGED <<status, old, creating, up, healthy, busy, mail, wake, told>>

ListOrphans ==
  /\ watch.at = "queue" /\ (watch.items = {} \/ watch.seen = {})
  /\ watch' = [watch EXCEPT !.at = "orphans",
       !.items = IF watch.seen # {} THEN {} ELSE {i \in old : status[i] = "processing"}]
  /\ UNCHANGED <<status, old, creating, up, healthy, busy, mail, wake, told>>

\* updateFeedback writes the status without asking for the one it replaces.
Return(i) ==
  /\ watch.at = "orphans" /\ i \in watch.items
  /\ Sets(i, "received")
  /\ watch' = [watch EXCEPT !.items = @ \ {i}]
  /\ UNCHANGED <<creating, up, healthy, busy, mail, wake, told>>

PassEnds ==
  /\ watch.at = "orphans" /\ watch.items = {}
  /\ watch' = AtRest
  /\ UNCHANGED <<status, old, creating, up, healthy, busy, mail, wake, told>>

Watches ==
  \/ Snapshot \/ ListQueue \/ ClaimAnnounced \/ ListOrphans \/ PassEnds
  \/ \E i \in Items : Announce(i) \/ Return(i)

FallsOld(i) ==
  /\ status[i] = "processing" /\ i \notin old
  /\ old' = old \cup {i}
  /\ UNCHANGED <<status, creating, up, healthy, busy, mail, wake, watch, told>>
-----------------------------------------------------------------------------
FeedbackNext ==
  \/ \E i \in Items : Insert(i) \/ Creates(i) \/ CreationDies(i) \/ Edit(i) \/ FallsOld(i)
  \/ \E p \in Agents :
       \/ Takes(p) \/ TurnEnds(p) \/ Pick(p) \/ PickClaim(p)
       \/ \E t \in Types : Receives(p, t)
       \/ \E i \in Items, to \in {"closed", "retry"} : Decide(p, i, to)
  \/ \E p \in Vanishing : Vanishes(p) \/ Launched(p) \/ FallsSilent(p)
  \/ Watches

FeedbackSpec == FeedbackInit /\ [][FeedbackNext]_fbVars

\* A creation ends or its process dies; time goes by; a stretch of a planner
\* runs on; cron starts pass after pass.  Nobody is obliged to end a turn.
QueueRunsOn ==
  /\ \A i \in Items : WF_fbVars(Creates(i) \/ CreationDies(i)) /\ WF_fbVars(FallsOld(i))
  /\ \A p \in Agents : WF_fbVars(Pick(p) \/ PickClaim(p))
FeedbackFairness == QueueRunsOn /\ WF_fbVars(Watches)
-----------------------------------------------------------------------------
(* What the queue guarantees *)

\* An item that waits although a planner is healthy, and one whose planner left.
Announced(i) == status[i] \in {"pending_planner", "queued"} /\ healthy # {}
Orphan(i)    == status[i] = "processing" /\ healthy = {}

\* While some planner is healthy, what was announced or left pending does not
\* stay in the queue, even if every planner is busy for ever.
QueueDrains == \A i \in Items : []<>~Announced(i)

\* An item whose planner has gone does not stay claimed for ever.
OrphansReturn == \A i \in Items : []<>~Orphan(i)
-----------------------------------------------------------------------------
(* What a comment promises and the program breaks *)

Quiet(i) ==
  /\ creating[i] = "no" /\ watch = AtRest /\ mail = {}
  /\ \A p \in Agents : wake[p] = Asleep

\* A planner "always finds out about BOTH kinds of persisted feedback": when
\* nothing is under way any more, an item in processing was told to somebody.
FindsOut ==
  \A i \in Items : status[i] = "processing" /\ Quiet(i) => \E p \in Agents : i \in told[p]
=============================================================================
