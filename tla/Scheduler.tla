----------------------------- MODULE Scheduler -----------------------------
(***************************************************************************)
(* The one-minute scheduler: passes started by independent crontab entries *)
(* under a lock file, the registry jobs.json that a pass reads, changes in *)
(* memory and writes back around slow dispatches, and the CLI commands     *)
(* that read and write the same file without the lock.                     *)
(***************************************************************************)
EXTENDS Integers, FiniteSets

CONSTANTS
  Jobs,           \* identifiers of jobs
  Digest,         \* the built-in job every pass re-creates when it is missing
  Async,          \* jobs a planner carries out: their dispatch stays pending
  OneShot,        \* jobs that run once
  Initially,      \* jobs registered at the start
  Due,            \* Due[j]: the minutes the cron expression of j matches
  Outcomes,       \* Outcomes[j]: how dispatches of j may end
  Entries,        \* crontab entries that start a pass
  Commands,       \* commands the operator may give: <<command, job>>
  MaxCommands,    \* bound: commands the operator gives
  MaxMinute,      \* bound of the clock
  MaxRecoveries,  \* MAX_STALE_RECOVERIES
  StaleAfter,     \* minutes without an answer after which a dispatch is stale
  MayDie,         \* entries whose pass may die
  MayOverrun,     \* entries whose pass may take longer than the lock lives
  NoEntry

Minutes == 0..MaxMinute
Never == -1

ASSUME SchedulerAssumption ==
  /\ Digest \in Jobs \ (Async \cup OneShot)
  /\ Initially \subseteq Jobs /\ Async \subseteq Jobs /\ OneShot \subseteq Jobs
  /\ Due \in [Jobs -> SUBSET Minutes]
  /\ \A j \in Jobs \ Async : Outcomes[j] \subseteq {"done", "failed", "broken", "thrown"}
  /\ \A j \in Async : Outcomes[j] \subseteq {"open", "durable", "failed", "recoverable"}
  /\ MayDie \subseteq Entries /\ MayOverrun \subseteq Entries
  /\ MaxMinute \in Nat /\ MaxCommands \in Nat
  /\ MaxRecoveries \in Nat \ {0} /\ StaleAfter \in Nat \ {0}
  /\ Commands \subseteq {"add", "remove", "enable", "disable", "run"} \X Jobs
  /\ NoEntry \notin Entries

Operator == "operator"
Writers == Entries \cup {Operator}
ASSUME OperatorAssumption == Operator \notin Entries

VARIABLES
  clock,    \* the current minute
  store,    \* jobs.json: a record for every registered job
  lock,     \* supervise.lock: the entry that created it and when
  pc,       \* pc[w]: where writer w is
  now,      \* now[e]: the minute the pass of e started
  memory,   \* memory[w]: the copy of the registry w works on
  todo,     \* todo[w]: jobs the loop w is in has yet to visit
  given,    \* commands the operator has given
  \* History, read by no action
  overtaken,  \* writers whose copy is older than the file
  mishaps,    \* "clobbered": a write undid another's; "unsaved": a pass died
              \* with changes; "robbed": a lock that was in use, or not yet two
              \* minutes old, was unlinked by another pass
  ran,        \* ran[j]: minutes a tick dispatched j for since j was registered
  twice,      \* <<job, minute>>: a tick dispatched the job for it once more
  unnoted,    \* <<job, minute>>: dispatches of a tick that an exception left
  retries     \* retries[j]: automatic repetitions since the last tick of j

registry == <<store, overtaken, mishaps>>
outcomes == <<ran, twice, unnoted, retries>>
schVars  == <<clock, store, lock, pc, now, memory, todo, given, overtaken,
              mishaps, ran, twice, unnoted, retries>>

NewJob == [enabled |-> TRUE, slot |-> Never, status |-> "none", open |-> {},
           tries |-> 0, retried |-> Never]

JobRecords ==
  [enabled : BOOLEAN, slot : Minutes \cup {Never},
   status : {"none", "dispatched", "failed", "recoverable"}, open : SUBSET Minutes,
   tries : 0..MaxRecoveries, retried : Minutes \cup {Never}]
Points == {"idle", "stale", "unlinked", "boot", "booting", "read", "retry", "recover",
           "save", "reread", "tick", "run", "write", "refresh", "rewrite", "release"}

SchedulerTypeOK ==
  /\ clock \in Minutes
  /\ DOMAIN store \subseteq Jobs /\ \A j \in DOMAIN store : store[j] \in JobRecords
  /\ lock \in [by : Entries \cup {NoEntry}, at : Minutes]
  /\ pc \in [Writers -> Points]
  /\ now \in [Entries -> Minutes]
  /\ \A w \in Writers : /\ DOMAIN memory[w] \subseteq Jobs
                        /\ \A j \in DOMAIN memory[w] : memory[w][j] \in JobRecords
  /\ todo \in [Writers -> SUBSET Jobs]
  /\ given \subseteq Commands
  /\ overtaken \subseteq Writers
  /\ mishaps \subseteq {"clobbered", "unsaved", "robbed"}
  /\ ran \in [Jobs -> SUBSET Minutes]
  /\ twice \cup unnoted \subseteq Jobs \X Minutes
  /\ retries \in [Jobs -> Nat]

Empty == [j \in {} |-> NewJob]
Free  == [by |-> NoEntry, at |-> 0]

SchedulerInit ==
  /\ clock = 0
  /\ store = [j \in Initially |-> NewJob]
  /\ lock = Free
  /\ pc = [w \in Writers |-> "idle"]
  /\ now = [e \in Entries |-> 0]
  /\ memory = [w \in Writers |-> Empty]
  /\ todo = [w \in Writers |-> {}]
  /\ given = {} /\ overtaken = {} /\ mishaps = {}
  /\ ran = [j \in Jobs |-> {}] /\ twice = {} /\ unnoted = {} /\ retries = [j \in Jobs |-> 0]
-----------------------------------------------------------------------------
(* The registry: readStore and writeStore are one system call each way (a    *)
(* rename), so a copy is never torn, but it may be old when it is written.   *)

Holding(w) ==
  pc[w] \in {"booting", "retry", "recover", "save", "tick", "run", "write", "rewrite"}

Reads(w, copy) ==
  /\ memory' = [memory EXCEPT ![w] = copy]
  /\ overtaken' = overtaken \ {w}
  /\ UNCHANGED <<store, mishaps>>

Writes(w) ==
  /\ store' = memory[w]
  /\ overtaken' = (IF store' = store THEN overtaken
                   ELSE overtaken \cup {q \in Writers : Holding(q)}) \ {w}
  /\ mishaps' = IF w \in overtaken THEN mishaps \cup {"clobbered"} ELSE mishaps
  /\ memory' = [memory EXCEPT ![w] = Empty]

Goes(w, point) == pc' = [pc EXCEPT ![w] = point]
Changes(w, j, rec) == memory' = [memory EXCEPT ![w][j] = rec]

\* How a dispatch that returns may end; `thrown' is how one that does not ends.
Ends(j) == Outcomes[j] \ {"thrown"}

\* recordInstance and what its callers note in the job: a script ended well,
\* failed or could not be run (which disables the job); a planner has the task
\* in hand (`durable') or has yet to answer (`open'), or could not be reached.
Recorded(rec, o, minute) ==
  [rec EXCEPT !.enabled = @ /\ o # "broken",
              !.status = IF o \in {"open", "durable", "done"} THEN "dispatched"
                         ELSE IF o = "broken" THEN "failed" ELSE o,
              !.open = IF o = "open" THEN @ \cup {minute} ELSE @]
-----------------------------------------------------------------------------
(* The lock file: created with `wx', taken over when it is older than two    *)
(* minutes, unlinked at the end whoever owns it by then.                     *)

Inside(e) == pc[e] \notin {"idle", "stale", "unlinked"}
Alive == lock.by \in Entries /\ Inside(lock.by)

\* Two minute marks: between one and three minutes.
Expired == /\ lock.by # NoEntry
           /\ clock - lock.at >= 2
           /\ Alive => lock.by \in MayOverrun

Young == lock.by # NoEntry /\ (Alive \/ clock - lock.at < 2)
Robs(e) == mishaps' = IF Young /\ lock.by # e THEN mishaps \cup {"robbed"} ELSE mishaps

Locked(e) ==
  /\ lock' = [by |-> e, at |-> clock]
  /\ Goes(e, "boot")

\* Faulty variant: a pass goes ahead whatever lies at the lock's path.
StartAnyway(e) ==
  /\ pc[e] = "idle"
  /\ now' = [now EXCEPT ![e] = clock]
  /\ Locked(e)
  /\ UNCHANGED <<clock, memory, todo, given, registry, outcomes>>

Start(e) ==
  /\ pc[e] = "idle"
  /\ \/ /\ lock = Free
        /\ now' = [now EXCEPT ![e] = clock]
        /\ Locked(e)
     \/ /\ Expired
        /\ now' = [now EXCEPT ![e] = clock]
        /\ Goes(e, "stale")
        /\ UNCHANGED <<lock>>
     \/ /\ lock # Free /\ ~Expired
        /\ UNCHANGED <<now, lock, pc>>
  /\ UNCHANGED <<clock, memory, todo, given, registry, outcomes>>

\* unlinkSync of the lock that was read as stale, whatever lies there now.
Unlink(e) ==
  /\ pc[e] = "stale"
  /\ Goes(e, IF lock = Free THEN "idle" ELSE "unlinked")
  /\ lock' = Free
  /\ Robs(e)
  /\ UNCHANGED <<clock, store, now, memory, todo, given, overtaken, outcomes>>

Reclaim(e) ==
  /\ pc[e] = "unlinked"
  /\ \/ lock = Free /\ Locked(e)
     \/ lock # Free /\ Goes(e, "idle") /\ UNCHANGED lock
  /\ UNCHANGED <<clock, now, memory, todo, given, registry, outcomes>>

Release(e) ==
  /\ pc[e] = "release"
  /\ lock' = Free
  /\ Goes(e, "idle") /\ now' = [now EXCEPT ![e] = 0]
  /\ Robs(e)
  /\ UNCHANGED <<clock, store, memory, todo, given, overtaken, outcomes>>
-----------------------------------------------------------------------------
(* A pass under the lock *)

\* ensureDefaultDigestJob
Boot(e) ==
  /\ pc[e] = "boot"
  /\ IF Digest \in DOMAIN store
       THEN Goes(e, "read") /\ UNCHANGED <<memory, registry>>
       ELSE /\ Reads(e, [j \in DOMAIN store \cup {Digest} |->
                           IF j = Digest THEN NewJob ELSE store[j]])
            /\ Goes(e, "booting")
  /\ UNCHANGED <<clock, lock, now, todo, given, outcomes>>

BootWrite(e) ==
  /\ pc[e] = "booting"
  /\ Writes(e)
  /\ Goes(e, "read")
  /\ UNCHANGED <<clock, lock, now, todo, given, outcomes>>

\* readStore and reconcileScheduleCompletions; failures and stale dispatches
\* are looked after only when the local planner's service runs.
Read(e) ==
  /\ pc[e] = "read"
  /\ \E answered \in SUBSET UNION {{j} \X store[j].open : j \in DOMAIN store} :
       LET copy == [j \in DOMAIN store |->
                      [store[j] EXCEPT !.open = {m \in @ : <<j, m>> \notin answered}]] IN
         /\ Reads(e, copy)
         /\ \/ Goes(e, "save") /\ UNCHANGED todo
            \/ /\ Goes(e, "retry")
               /\ todo' = [todo EXCEPT ![e] =
                    {j \in DOMAIN copy : /\ copy[j].enabled /\ copy[j].status = "recoverable"
                                         /\ copy[j].retried < now[e]}]
  /\ UNCHANGED <<clock, lock, now, given, outcomes>>

\* retryRecoverableFailures: once a minute, without a cap.
RetryFailed(e, j) ==
  /\ pc[e] = "retry" /\ j \in todo[e]
  /\ \E o \in Ends(j) :
       Changes(e, j, [Recorded(memory[e][j], o, now[e]) EXCEPT !.retried = now[e]])
  /\ todo' = [todo EXCEPT ![e] = @ \ {j}]
  /\ UNCHANGED <<clock, lock, pc, now, given, registry, outcomes>>

Stale(rec, minute) == {m \in rec.open : minute - m >= StaleAfter}

RetriesDone(e) ==
  /\ pc[e] = "retry" /\ todo[e] = {}
  /\ Goes(e, "recover")
  /\ todo' = [todo EXCEPT ![e] =
       {j \in DOMAIN memory[e] : memory[e][j].enabled /\ Stale(memory[e][j], now[e]) # {}}]
  /\ UNCHANGED <<clock, lock, now, memory, given, registry, outcomes>>

\* Faulty variant: the repetitions of an occurrence are not counted.
RecoverUncounted(e, j) ==
  /\ pc[e] = "recover" /\ j \in todo[e]
  /\ \E m \in Stale(memory[e][j], now[e]), o \in Ends(j) :
       Changes(e, j, Recorded([memory[e][j] EXCEPT !.open = @ \ {m}], o, now[e]))
  /\ retries' = [retries EXCEPT ![j] = @ + 1]
  /\ todo' = [todo EXCEPT ![e] = @ \ {j}]
  /\ UNCHANGED <<clock, lock, pc, now, given, registry, ran, twice, unnoted>>

\* Faulty variant: the repetitions are counted and never run out.
RecoverUncapped(e, j) ==
  /\ pc[e] = "recover" /\ j \in todo[e]
  /\ \E m \in Stale(memory[e][j], now[e]), o \in Ends(j) :
       Changes(e, j, [Recorded([memory[e][j] EXCEPT !.open = @ \ {m}], o, now[e]) EXCEPT !.tries = @ + 1])
  /\ retries' = [retries EXCEPT ![j] = @ + 1]
  /\ todo' = [todo EXCEPT ![e] = @ \ {j}]
  /\ UNCHANGED <<clock, lock, pc, now, given, registry, ran, twice, unnoted>>

\* recoverStaleDispatches: the oldest stale dispatch is repeated, until the
\* occurrence has had its share and every stale dispatch has failed for good.
Recover(e, j) ==
  /\ pc[e] = "recover" /\ j \in todo[e]
  /\ LET rec == memory[e][j]  stale == Stale(rec, now[e]) IN
       \/ /\ rec.tries >= MaxRecoveries
          /\ Changes(e, j, [rec EXCEPT !.open = @ \ stale, !.status = "failed"])
          /\ UNCHANGED retries
       \/ /\ rec.tries < MaxRecoveries
          /\ \E m \in stale, o \in Ends(j) :
               /\ \A other \in stale : m <= other
               /\ Changes(e, j, [Recorded([rec EXCEPT !.open = @ \ {m}], o, now[e])
                                   EXCEPT !.tries = @ + 1])
          /\ retries' = [retries EXCEPT ![j] = @ + 1]
  /\ todo' = [todo EXCEPT ![e] = @ \ {j}]
  /\ UNCHANGED <<clock, lock, pc, now, given, registry, ran, twice, unnoted>>

\* writeStore, after the awaited connectivity check.
Save(e) ==
  /\ pc[e] \in {"recover", "save"} /\ todo[e] = {}
  /\ Writes(e)
  /\ Goes(e, "reread")
  /\ UNCHANGED <<clock, lock, now, todo, given, outcomes>>

\* Faulty variant: the minute the job last ran for is not looked at.
TickReadAll(e) ==
  /\ pc[e] = "reread"
  /\ Reads(e, store)
  /\ Goes(e, "tick")
  /\ todo' = [todo EXCEPT ![e] = {j \in DOMAIN store : store[j].enabled /\ now[e] \in Due[j]}]
  /\ UNCHANGED <<clock, lock, now, given, outcomes>>

\* tick: every enabled job whose expression matches the minute of the pass and
\* that has not run for it.
TickRead(e) ==
  /\ pc[e] = "reread"
  /\ Reads(e, store)
  /\ Goes(e, "tick")
  /\ todo' = [todo EXCEPT ![e] =
       {j \in DOMAIN store : store[j].enabled /\ now[e] \in Due[j] /\ store[j].slot # now[e]}]
  /\ UNCHANGED <<clock, lock, now, given, outcomes>>

Ran(j, minute) ==
  /\ twice' = IF minute \in ran[j] THEN twice \cup {<<j, minute>>} ELSE twice
  /\ ran' = [ran EXCEPT ![j] = @ \cup {minute}]

\* Jobs that the tick of e has dispatched and not yet written.
Unwritten(e) ==
  {j \in DOMAIN memory[e] : /\ memory[e][j].slot = now[e]
                            /\ j \in DOMAIN store => store[j].slot # now[e]}

TickDispatch(e, j) ==
  /\ pc[e] = "tick" /\ j \in todo[e]
  /\ \E o \in Ends(j) :
       Changes(e, j, [Recorded(memory[e][j], o, now[e]) EXCEPT
                        !.slot = now[e], !.tries = 0, !.enabled = @ /\ j \notin OneShot])
  /\ todo' = [todo EXCEPT ![e] = @ \ {j}]
  /\ Ran(j, now[e])
  /\ retries' = [retries EXCEPT ![j] = 0]
  /\ UNCHANGED <<clock, lock, pc, now, given, registry, unnoted>>

\* The script of a `planner:' job has run when the launch of the planner throws:
\* launchDetachedPlanner is defined nowhere.  The exception leaves the tick before
\* its write, so what this tick dispatched is noted nowhere, and the pass goes
\* straight to the `finally' that unlinks the lock.
TickThrows(e, j) ==
  /\ pc[e] = "tick" /\ j \in todo[e] /\ "thrown" \in Outcomes[j]
  /\ Goes(e, "release")
  /\ memory' = [memory EXCEPT ![e] = Empty]
  /\ todo' = [todo EXCEPT ![e] = {}]
  /\ overtaken' = overtaken \ {e}
  /\ Ran(j, now[e])
  /\ unnoted' = unnoted \cup ({j} \cup Unwritten(e)) \X {now[e]}
  /\ UNCHANGED <<clock, store, lock, now, given, mishaps, retries>>

TickWrite(e) ==
  /\ pc[e] = "tick" /\ todo[e] = {}
  /\ Writes(e)
  /\ Goes(e, "refresh")
  /\ UNCHANGED <<clock, lock, now, todo, given, outcomes>>

\* The registry is read and written once more for the supervisor's own entry.
Refresh(e) ==
  /\ pc[e] = "refresh"
  /\ Reads(e, store)
  /\ Goes(e, "rewrite")
  /\ UNCHANGED <<clock, lock, now, todo, given, outcomes>>

Rewrite(e) ==
  /\ pc[e] = "rewrite"
  /\ Writes(e)
  /\ Goes(e, "release")
  /\ UNCHANGED <<clock, lock, now, todo, given, outcomes>>

Pass(e) ==
  \/ Start(e) \/ Unlink(e) \/ Reclaim(e) \/ Release(e)
  \/ Boot(e) \/ BootWrite(e) \/ Read(e) \/ RetriesDone(e) \/ Save(e)
  \/ TickRead(e) \/ TickWrite(e) \/ Refresh(e) \/ Rewrite(e)
  \/ \E j \in Jobs : RetryFailed(e, j) \/ Recover(e, j) \/ TickDispatch(e, j) \/ TickThrows(e, j)

\* The process dies: its lock stays, what it had not written is gone.
Die(e) ==
  /\ pc[e] # "idle"
  /\ Goes(e, "idle") /\ now' = [now EXCEPT ![e] = 0]
  /\ mishaps' = IF pc[e] \in {"retry", "recover", "save", "tick"} /\ memory[e] # store
                THEN mishaps \cup {"unsaved"} ELSE mishaps
  /\ memory' = [memory EXCEPT ![e] = Empty]
  /\ overtaken' = overtaken \ {e}
  /\ todo' = [todo EXCEPT ![e] = {}]
  /\ UNCHANGED <<clock, store, lock, given, outcomes>>
-----------------------------------------------------------------------------
(* yano schedule add, remove, enable, disable, run and retry: each reads the *)
(* registry, changes it and writes it, without the lock.                     *)

Edited(c, j) ==
  CASE c = "add"     -> [k \in DOMAIN store \cup {j} |-> IF k = j THEN NewJob ELSE store[k]]
    [] c = "remove"  -> [k \in DOMAIN store \ {j} |-> store[k]]
    [] c = "enable"  -> [store EXCEPT ![j].enabled = TRUE]
    [] c = "disable" -> [store EXCEPT ![j].enabled = FALSE]
    [] c = "run"     -> store

Command(c, j) ==
  /\ pc[Operator] = "idle" /\ <<c, j>> \in Commands \ given
  /\ Cardinality(given) < MaxCommands
  /\ IF c = "add" THEN j \notin DOMAIN store ELSE j \in DOMAIN store
  /\ Reads(Operator, Edited(c, j))
  /\ Goes(Operator, IF c = "run" THEN "run" ELSE "write")
  /\ todo' = [todo EXCEPT ![Operator] = {j}]
  /\ given' = given \cup {<<c, j>>}
  /\ UNCHANGED <<clock, lock, now, outcomes>>

\* The dispatch of `run' and `retry' may take two minutes.
CommandDispatch(j) ==
  /\ pc[Operator] = "run" /\ j \in todo[Operator]
  /\ \E o \in Ends(j) : Changes(Operator, j, Recorded(memory[Operator][j], o, clock))
  /\ Goes(Operator, "write")
  /\ UNCHANGED <<clock, lock, now, todo, given, registry, outcomes>>

\* A `run' whose dispatch throws ends the command, with nothing written.
CommandThrows(j) ==
  /\ pc[Operator] = "run" /\ j \in todo[Operator] /\ "thrown" \in Outcomes[j]
  /\ Goes(Operator, "idle")
  /\ memory' = [memory EXCEPT ![Operator] = Empty]
  /\ todo' = [todo EXCEPT ![Operator] = {}]
  /\ overtaken' = overtaken \ {Operator}
  /\ UNCHANGED <<clock, store, lock, now, given, mishaps, outcomes>>

\* A job that was removed and is added again is another one.
Forgets ==
  LET removed == DOMAIN store \ DOMAIN store' IN
  /\ ran' = [j \in Jobs |-> IF j \in removed THEN {} ELSE ran[j]]
  /\ retries' = [j \in Jobs |-> IF j \in removed THEN 0 ELSE retries[j]]
  /\ UNCHANGED <<twice, unnoted>>

CommandWrite ==
  /\ pc[Operator] = "write"
  /\ Writes(Operator)
  /\ Goes(Operator, "idle")
  /\ todo' = [todo EXCEPT ![Operator] = {}]
  /\ Forgets
  /\ UNCHANGED <<clock, lock, now, given>>
-----------------------------------------------------------------------------
\* Only dispatches and the awaited probes take time.
Minute ==
  /\ clock < MaxMinute
  /\ \A e \in Entries : pc[e] \in {"idle", "retry", "recover", "save", "tick"}
  /\ \A e \in Entries \ MayOverrun : Inside(e) => clock + 1 - now[e] <= 2
  /\ clock' = clock + 1
  /\ UNCHANGED <<store, lock, pc, now, memory, todo, given, overtaken, mishaps,
                 outcomes>>

SchedulerNext ==
  \/ Minute
  \/ \E e \in Entries : Pass(e)
  \/ \E e \in MayDie : Die(e)
  \/ \E cj \in Commands : Command(cj[1], cj[2])
  \/ \E j \in Jobs : CommandDispatch(j) \/ CommandThrows(j)
  \/ CommandWrite

SchedulerSpec == SchedulerInit /\ [][SchedulerNext]_schVars
-----------------------------------------------------------------------------
(* What the scheduler guarantees *)

\* The lock keeps two passes from running together, and a dead pass from being
\* doubled within its minute: unless a live pass lost its lock or another
\* writer undid what a tick had noted, no job is dispatched twice for one
\* minute, however passes die (a job that was removed and added is a new one),
\* but for what a tick dispatched before one of its own dispatches threw.
OncePerSlot == mishaps \cap {"robbed", "clobbered"} = {} => twice \subseteq unnoted

\* A dispatch that is never answered is repeated a bounded number of times
\* until the next occurrence, whichever passes repeat it.
StaleBudget ==
  \A j \in Jobs : mishaps = {} => retries[j] <= MaxRecoveries

\* Passes exclude each other as long as no live pass lost its lock.
PassesExclude ==
  \A e, f \in Entries : Inside(e) /\ Inside(f) /\ e # f => "robbed" \in mishaps
=============================================================================
