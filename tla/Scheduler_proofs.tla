-------------------------- MODULE Scheduler_proofs --------------------------
(***************************************************************************)
(* Proofs about the scheduler, for any jobs, crontab entries, commands and *)
(* clocks.  The lock makes one pass the only one, what a writer holds in   *)
(* memory agrees with the file unless another writer has overtaken it, and *)
(* what was dispatched is noted where the next tick looks for it.          *)
(***************************************************************************)
EXTENDS Scheduler, TLAPS

\* Copies of the registry, and the jobs that a loop has yet to visit in one.
Registry(s) == DOMAIN s \subseteq Jobs /\ \A j \in DOMAIN s : s[j] \in JobRecords
SchTyped ==
  /\ SchedulerTypeOK /\ DOMAIN memory = Writers
  /\ \A w \in Writers :
       pc[w] \in {"retry", "recover", "tick", "run"} => todo[w] \subseteq DOMAIN memory[w]

\* The clock, the lock and the passes.  While a pass stands before the lock the
\* clock stands still.
Times ==
  /\ \A j \in Jobs : \A m \in ran[j] : m <= clock
  /\ lock # Free => lock.by \in Entries /\ lock.at <= clock
  /\ \A e \in Entries :
       /\ now[e] <= clock
       /\ pc[e] \in {"stale", "unlinked"} => now[e] = clock
       /\ pc[e] = "stale" /\ lock.by = e => clock - lock.at >= 2
       /\ pc[e] \notin {"run", "write"}
  /\ pc[Operator] \in {"idle", "run", "write"}

\* The pass that runs is the one that the lock names, and nobody dispatched
\* anything for a later minute than that of the lock.
LockKept ==
  "robbed" \notin mishaps =>
    /\ \A e \in Entries : Inside(e) => lock = [by |-> e, at |-> now[e]]
    /\ lock # Free => \A j \in Jobs : \A m \in ran[j] : m <= lock.at

\* A copy that is not older than the file has its jobs, with the minutes they ran
\* for, and, where nothing is dispatched, with their repetitions.
CopyKept(w) ==
  Holding(w) /\ w \notin overtaken =>
    /\ pc[w] # "tick" =>
         \A j \in DOMAIN store \cap DOMAIN memory[w] : memory[w][j].slot = store[j].slot
    /\ pc[w] \in {"booting", "run", "write", "rewrite"} =>
         \A j \in DOMAIN store \cap DOMAIN memory[w] : memory[w][j].tries = store[j].tries
    /\ w # Operator /\ pc[w] # "tick" => DOMAIN store \subseteq DOMAIN memory[w]
Copies == \A w \in Writers : CopyKept(w)

\* What ran for minute m is noted in s, but for what an exception lost; what a tick
\* has yet to visit is not known to have run for its minute.
Noted(s, m) ==
  \A j \in Jobs : m \in ran[j] /\ <<j, m>> \notin unnoted => j \in DOMAIN s /\ s[j].slot = m
Fresh(e) == \A j \in todo[e] : now[e] \in ran[j] => <<j, now[e]>> \in unnoted
SlotsNoted ==
  mishaps \cap {"robbed", "clobbered"} = {} =>
    /\ twice \subseteq unnoted
    /\ lock = Free => Noted(store, clock)
    /\ \A e \in Entries :
         /\ Inside(e) /\ pc[e] # "tick" => Noted(store, now[e])
         /\ pc[e] = "tick" =>
              Noted(memory[e], now[e]) /\ Fresh(e)

\* The repetitions are counted in s: in the copy of the pass that repeats, else in
\* the file.
Counted(s) == \A j \in Jobs : retries[j] # 0 => j \in DOMAIN s /\ retries[j] <= s[j].tries
Repeating(e) == pc[e] \in {"retry", "recover", "save", "tick"}
TriesCounted ==
  mishaps = {} =>
    /\ (\A e \in Entries : ~Repeating(e)) => Counted(store)
    /\ \A e \in Entries : Repeating(e) => Counted(memory[e])
    /\ \A e \in Entries : pc[e] = "tick" => Counted(store)

Guarded == Times /\ LockKept
Booked == SlotsNoted /\ TriesCounted
SchInv == SchTyped /\ Guarded /\ Copies /\ Booked

USE SchedulerAssumption, OperatorAssumption
-----------------------------------------------------------------------------
(* Records and copies                                                      *)

LEMMA MinutesAreInts == Minutes \subseteq Int /\ 0 \in Minutes /\ Never \in Int /\ Never \notin Minutes
BY DEF Minutes, Never

LEMMA NewJobType == NewJob \in JobRecords /\ NewJob.slot = Never /\ NewJob.tries = 0
BY DEF NewJob, JobRecords

LEMMA RecordFields ==
  ASSUME NEW r \in JobRecords
  PROVE  /\ r.enabled \in BOOLEAN /\ r.slot \in Minutes \cup {Never}
         /\ r.status \in {"none", "dispatched", "failed", "recoverable"}
         /\ r.open \subseteq Minutes /\ r.tries \in 0..MaxRecoveries
         /\ r.retried \in Minutes \cup {Never}
BY DEF JobRecords

LEMMA RecordedType ==
  ASSUME NEW r \in JobRecords, NEW j \in Jobs, NEW o \in Ends(j), NEW m \in Minutes
  PROVE  /\ Recorded(r, o, m) \in JobRecords
         /\ Recorded(r, o, m).slot = r.slot /\ Recorded(r, o, m).tries = r.tries
<1>1. o \in {"done", "failed", "broken", "open", "durable", "recoverable"}
  BY DEF Ends
<1>2. (r.enabled /\ o # "broken") \in BOOLEAN
  OBVIOUS
<1>3. (IF o = "open" THEN r.open \cup {m} ELSE r.open) \subseteq Minutes
  BY RecordFields
<1>4. (IF o \in {"open", "durable", "done"} THEN "dispatched"
       ELSE IF o = "broken" THEN "failed" ELSE o) \in {"none", "dispatched", "failed", "recoverable"}
  BY <1>1
<1> QED BY <1>2, <1>3, <1>4 DEF Recorded, JobRecords

LEMMA EmptyType == Registry(Empty) /\ DOMAIN Empty = {}
BY DEF Registry, Empty

LEMMA TypedParts ==
  ASSUME SchTyped
  PROVE  /\ clock \in Minutes /\ Registry(store)
         /\ lock \in [by : Entries \cup {NoEntry}, at : Minutes]
         /\ pc \in [Writers -> Points] /\ now \in [Entries -> Minutes]
         /\ DOMAIN memory = Writers /\ \A w \in Writers : Registry(memory[w])
         /\ todo \in [Writers -> SUBSET Jobs] /\ overtaken \subseteq Writers
         /\ ran \in [Jobs -> SUBSET Minutes] /\ retries \in [Jobs -> Nat]
         /\ Operator \in Writers /\ Entries \subseteq Writers
BY DEF SchTyped, SchedulerTypeOK, Registry, Writers

\* What a read, a write and a change in memory make of the copies.
LEMMA ReadsEffect ==
  ASSUME SchTyped, NEW w \in Writers, NEW copy, Registry(copy), Reads(w, copy)
  PROVE  /\ DOMAIN memory' = Writers /\ \A q \in Writers : Registry(memory'[q])
         /\ memory'[w] = copy /\ \A q \in Writers \ {w} : memory'[q] = memory[q]
         /\ overtaken' = overtaken \ {w} /\ UNCHANGED <<store, mishaps>>
BY TypedParts DEF Reads

LEMMA WritesEffect ==
  ASSUME SchTyped, NEW w \in Writers, Writes(w)
  PROVE  /\ DOMAIN memory' = Writers /\ \A q \in Writers : Registry(memory'[q])
         /\ \A q \in Writers \ {w} : memory'[q] = memory[q]
         /\ store' = memory[w] /\ Registry(store')
         /\ overtaken' \subseteq Writers /\ mishaps' \subseteq {"clobbered", "unsaved", "robbed"}
         /\ mishaps \subseteq mishaps' /\ (w \in overtaken => "clobbered" \in mishaps')
         /\ mishaps' \subseteq mishaps \cup {"clobbered"}
         /\ \A q \in Writers \ {w} : Holding(q) /\ q \notin overtaken' =>
              q \notin overtaken /\ store' = store
BY TypedParts, EmptyType DEF Writes, SchTyped, SchedulerTypeOK

LEMMA ChangesEffect ==
  ASSUME SchTyped, NEW w \in Writers, NEW j \in DOMAIN memory[w], NEW r \in JobRecords,
         Changes(w, j, r)
  PROVE  /\ DOMAIN memory' = Writers /\ \A q \in Writers : Registry(memory'[q])
         /\ DOMAIN memory'[w] = DOMAIN memory[w] /\ memory'[w][j] = r
         /\ \A k \in DOMAIN memory[w] \ {j} : memory'[w][k] = memory[w][k]
         /\ \A q \in Writers \ {w} : memory'[q] = memory[q]
<1> DEFINE new == [memory[w] EXCEPT ![j] = r]
<1>1. /\ DOMAIN new = DOMAIN memory[w] /\ new[j] = r
      /\ \A k \in DOMAIN memory[w] \ {j} : new[k] = memory[w][k]
  OBVIOUS
<1>2. memory' = [memory EXCEPT ![w] = new]
  BY DEF Changes
<1> HIDE DEF new
<1>3. Registry(new)
  BY <1>1, TypedParts DEF Registry
<1> QED BY <1>1, <1>2, <1>3, TypedParts

LEMMA GoesEffect ==
  ASSUME SchTyped, NEW w \in Writers, NEW point \in Points, Goes(w, point)
  PROVE  /\ pc' \in [Writers -> Points] /\ pc'[w] = point
         /\ \A q \in Writers \ {w} : pc'[q] = pc[q]
BY TypedParts DEF Goes
-----------------------------------------------------------------------------
(* Steps of a pass under the lock                                          *)

\* As long as no pass was robbed of the lock, a pass that is inside is the only one.
LEMMA Alone ==
  ASSUME SchInv, "robbed" \notin mishaps, NEW e \in Entries, Inside(e)
  PROVE  /\ lock = [by |-> e, at |-> now[e]] /\ lock # Free
         /\ \A f \in Entries \ {e} : ~Inside(f) /\ ~Repeating(f)
<1>1. /\ lock = [by |-> e, at |-> now[e]]
      /\ \A f \in Entries : Inside(f) => lock = [by |-> f, at |-> now[f]]
  BY DEF SchInv, Guarded, LockKept
<1>2. \A f \in Entries \ {e} : ~Inside(f)
  BY <1>1
<1>3. \A f \in Entries \ {e} : ~Repeating(f)
  BY <1>2 DEF Repeating, Inside
<1>4. Free.by = NoEntry /\ NoEntry \notin Entries
  BY DEF Free
<1> QED BY <1>1, <1>2, <1>3, <1>4

\* The parts of SchTyped in the next state.
LEMMA TypedAgain ==
  ASSUME clock' \in Minutes, Registry(store'),
         lock' \in [by : Entries \cup {NoEntry}, at : Minutes],
         pc' \in [Writers -> Points], now' \in [Entries -> Minutes],
         DOMAIN memory' = Writers, \A w \in Writers : Registry(memory'[w]),
         todo' \in [Writers -> SUBSET Jobs], given' \subseteq Commands,
         overtaken' \subseteq Writers, mishaps' \subseteq {"clobbered", "unsaved", "robbed"},
         ran' \in [Jobs -> SUBSET Minutes], twice' \cup unnoted' \subseteq Jobs \X Minutes, retries' \in [Jobs -> Nat],
         \A w \in Writers :
           pc'[w] \in {"retry", "recover", "tick", "run"} => todo'[w] \subseteq DOMAIN memory'[w]
  PROVE  SchTyped'
BY DEF SchTyped, SchedulerTypeOK, Registry

\* A step inside leaves the clock and the lock alone; it may dispatch for its minute.
LEMMA InsideStep ==
  ASSUME SchInv, NEW e \in Entries, Inside(e), pc'[e] \notin {"idle", "stale", "unlinked", "run", "write"},
         \A q \in Writers \ {e} : pc'[q] = pc[q],
         UNCHANGED <<clock, lock, now>>, mishaps \subseteq mishaps',
         \A j \in Jobs : ran'[j] \subseteq ran[j] \cup {now[e]}
  PROVE  Guarded'
<1> USE DEF SchInv, Guarded
<1>1. Operator \in Writers \ {e} /\ Entries \subseteq Writers /\ now[e] \in Minutes /\ clock \in Minutes
  BY TypedParts DEF Writers
<1>2. "robbed" \notin mishaps' => lock = [by |-> e, at |-> now[e]]
  BY Alone
<1>5. lock # Free => lock.by \in Entries /\ lock.at <= clock
  BY DEF Times
<1>6. now[e] <= clock
  BY DEF Times
<1>3. Times'
  BY <1>1, <1>5, <1>6 DEF Times
<1>4. LockKept'
  <2> SUFFICES ASSUME "robbed" \notin mishaps' PROVE LockKept'
    BY DEF LockKept
  <2>1. \A f \in Entries : Inside(f)' => lock' = [by |-> f, at |-> now'[f]]
    BY <1>1, <1>2 DEF LockKept, Inside
  <2>a. now[e] \in Int
    BY <1>1, MinutesAreInts
  <2>2. lock.at = now[e] /\ now[e] <= now[e]
    BY <1>2, <2>a
  <2>3. \A j \in Jobs : \A m \in ran'[j] : m <= lock.at
    BY <1>2, <2>2, Alone DEF LockKept
  <2> QED BY <2>1, <2>3 DEF LockKept
<1> QED BY <1>3, <1>4

\* The copies, when one writer steps and the others are overtaken if the file changes.
LEMMA CopiesStep ==
  ASSUME SchInv, NEW w \in Writers,
         \A q \in Writers \ {w} :
           /\ pc'[q] = pc[q] /\ memory'[q] = memory[q]
           /\ Holding(q) /\ q \notin overtaken' => q \notin overtaken /\ store' = store,
         CopyKept(w)'
  PROVE  Copies'
<1> SUFFICES ASSUME NEW q \in Writers \ {w} PROVE CopyKept(q)'
  BY DEF Copies
<1>1. CopyKept(q)
  BY DEF SchInv, Copies
<1> QED BY <1>1 DEF CopyKept, Holding

\* A step of a pass that neither dispatches nor writes, before or after the loops.
LEMMA QuietStep ==
  ASSUME SchInv, NEW e \in Entries, Inside(e), Inside(e)', ~Repeating(e), ~Repeating(e)',
         \A q \in Writers \ {e} : pc'[q] = pc[q],
         UNCHANGED <<clock, lock, now, store, mishaps, outcomes>>
  PROVE  Booked'
<1> USE DEF SchInv, outcomes
<1>1. \A f \in Entries \ {e} : f \in Writers \ {e}
  BY DEF Writers
<1>2. SlotsNoted'
  <2> SUFFICES ASSUME mishaps \cap {"robbed", "clobbered"} = {} PROVE SlotsNoted'
    BY DEF SlotsNoted
  <2>1. \A f \in Entries \ {e} : ~Inside(f)' /\ pc'[f] # "tick"
    BY <1>1, Alone DEF Inside
  <2>2. SlotsNoted
    BY DEF Booked
  <2> QED BY <2>1, <2>2 DEF SlotsNoted, Noted, Fresh, Repeating
<1>3. TriesCounted'
  <2> SUFFICES ASSUME mishaps = {} PROVE TriesCounted'
    BY DEF TriesCounted
  <2>1. \A f \in Entries : ~Repeating(f)' /\ ~Repeating(f)
    BY <1>1, Alone DEF Repeating
  <2>2. TriesCounted
    BY DEF Booked
  <2> QED BY <2>1, <2>2 DEF TriesCounted, Counted
<1> QED BY <1>2, <1>3 DEF Booked

\* A pass that writes what it has not ticked: if nobody overtook it, the file keeps
\* what is noted in it.
LEMMA PassWrites ==
  ASSUME SchInv, NEW e \in Entries, Inside(e), Holding(e), Writes(e),
         Inside(e)', ~Holding(e)',
         \A q \in Writers \ {e} : pc'[q] = pc[q],
         UNCHANGED <<clock, lock, now, outcomes>>
  PROVE  Booked' /\ Copies'
<1> USE DEF SchInv, outcomes
<1>1. /\ \A f \in Entries \ {e} : f \in Writers \ {e}
      /\ SchTyped /\ e \in Writers
  BY DEF Writers
<1>2. /\ store' = memory[e] /\ mishaps \subseteq mishaps'
      /\ (e \in overtaken => "clobbered" \in mishaps')
      /\ \A q \in Writers \ {e} : memory'[q] = memory[q]
      /\ \A q \in Writers \ {e} : Holding(q) /\ q \notin overtaken' =>
              q \notin overtaken /\ store' = store
  BY <1>1, WritesEffect
<1>3. CopyKept(e)
  BY <1>1 DEF Copies
<1>4. Copies'
  BY <1>1, <1>2, CopiesStep DEF CopyKept
<1>5. ~Repeating(e)'
  BY DEF Repeating, Holding
<1>6. SlotsNoted'
  <2> SUFFICES ASSUME mishaps' \cap {"robbed", "clobbered"} = {} PROVE SlotsNoted'
    BY DEF SlotsNoted
  <2>1. \A f \in Entries \ {e} : ~Inside(f)' /\ pc'[f] # "tick"
    BY <1>1, <1>2, Alone DEF Inside
  <2>2. SlotsNoted /\ mishaps \cap {"robbed", "clobbered"} = {} /\ e \notin overtaken
    BY <1>2 DEF Booked
  <2>3. Noted(memory[e], now[e])
    <3>1. CASE pc[e] = "tick"
      BY <2>2, <3>1 DEF SlotsNoted
    <3>2. CASE pc[e] # "tick"
      <4>1. Noted(store, now[e])
        BY <2>2, <3>2 DEF SlotsNoted
      <4>2. e # Operator
        OBVIOUS
      <4> QED BY <1>3, <2>2, <3>2, <4>1, <4>2 DEF Noted, CopyKept
    <3> QED BY <3>1, <3>2
  <2>4. lock # Free
    BY <2>2, Alone
  <2> QED BY <1>2, <1>5, <2>1, <2>2, <2>3, <2>4 DEF SlotsNoted, Noted, Fresh, Repeating
<1>7. TriesCounted'
  <2> SUFFICES ASSUME mishaps' = {} PROVE TriesCounted'
    BY DEF TriesCounted
  <2>1. \A f \in Entries \ {e} : ~Repeating(f)' /\ ~Repeating(f)
    BY <1>1, <1>2, Alone DEF Repeating
  <2>2. TriesCounted /\ mishaps = {} /\ e \notin overtaken
    BY <1>2 DEF Booked
  <2>3. Counted(memory[e])
    <3>1. CASE Repeating(e)
      BY <2>2, <3>1 DEF TriesCounted
    <3>2. CASE ~Repeating(e)
      <4>1. Counted(store)
        BY <2>1, <2>2, <3>2 DEF TriesCounted
      <4>2. e # Operator /\ pc[e] \in {"booting", "run", "write", "rewrite"} /\ pc[e] # "tick"
        BY <3>2 DEF Holding, Repeating
      <4> QED BY <1>3, <2>2, <4>1, <4>2 DEF Counted, CopyKept
    <3> QED BY <3>1, <3>2
  <2> QED BY <1>2, <1>5, <2>1, <2>3 DEF TriesCounted, Counted
<1> QED BY <1>4, <1>6, <1>7 DEF Booked
-----------------------------------------------------------------------------
(* The actions of a pass under the lock                                    *)

\* A step of one writer that leaves the clock, the lock and the passes' minutes alone.
LEMMA StepTyped ==
  ASSUME SchTyped, NEW w \in Writers, UNCHANGED <<clock, lock, now>>,
         pc' \in [Writers -> Points], Registry(store'),
         \A q \in Writers \ {w} : pc'[q] = pc[q] /\ memory'[q] = memory[q] /\ todo'[q] = todo[q],
         DOMAIN memory' = Writers, Registry(memory'[w]), todo' \in [Writers -> SUBSET Jobs],
         given' \subseteq Commands, overtaken' \subseteq Writers,
         mishaps' \subseteq {"clobbered", "unsaved", "robbed"},
         ran' \in [Jobs -> SUBSET Minutes], twice' \cup unnoted' \subseteq Jobs \X Minutes, retries' \in [Jobs -> Nat],
         pc'[w] \in {"retry", "recover", "tick", "run"} => todo'[w] \subseteq DOMAIN memory'[w]
  PROVE  SchTyped'
<1>1. \A q \in Writers : Registry(memory'[q])
  BY TypedParts
<1>2. \A q \in Writers :
        pc'[q] \in {"retry", "recover", "tick", "run"} => todo'[q] \subseteq DOMAIN memory'[q]
  BY DEF SchTyped
<1>3. /\ clock' \in Minutes /\ lock' \in [by : Entries \cup {NoEntry}, at : Minutes]
      /\ now' \in [Entries -> Minutes]
  BY TypedParts
<1> QED BY <1>1, <1>2, <1>3, TypedAgain

\* A step of a pass into or within its loops: what it notes and counts in memory.
LEMMA LoopStep ==
  ASSUME SchInv, NEW e \in Entries, Inside(e), Repeating(e)',
         \A q \in Writers \ {e} : pc'[q] = pc[q],
         UNCHANGED <<clock, lock, now, store, mishaps>>,
         mishaps \cap {"robbed", "clobbered"} = {} =>
           /\ twice' \subseteq unnoted'
           /\ pc'[e] # "tick" => Noted(store, now[e])'
           /\ pc'[e] = "tick" =>
                Noted(memory[e], now[e])' /\ Fresh(e)',
         mishaps = {} => Counted(memory[e])',
         mishaps = {} /\ pc'[e] = "tick" => Counted(store)'
  PROVE  Booked'
<1>1. \A f \in Entries \ {e} : f \in Writers \ {e}
  BY DEF Writers
<1>2. SlotsNoted'
  <2> SUFFICES ASSUME mishaps \cap {"robbed", "clobbered"} = {} PROVE SlotsNoted'
    BY DEF SlotsNoted
  <2>1. \A f \in Entries \ {e} : ~Inside(f)' /\ pc'[f] # "tick"
    BY <1>1, Alone DEF Inside
  <2>2. lock' # Free
    BY Alone
  <2> QED BY <2>1, <2>2 DEF SlotsNoted
<1>3. TriesCounted'
  <2> SUFFICES ASSUME mishaps = {} PROVE TriesCounted'
    BY DEF TriesCounted
  <2>1. \A f \in Entries \ {e} : ~Repeating(f)' /\ pc'[f] # "tick"
    BY <1>1, Alone DEF Repeating
  <2> QED BY <2>1 DEF TriesCounted
<1> QED BY <1>2, <1>3 DEF Booked

\* What SchInv says of a pass that is inside, before its loops and in them.
LEMMA InsideFacts ==
  ASSUME SchInv, NEW e \in Entries, Inside(e)
  PROVE  /\ SchTyped /\ e \in Writers /\ e # Operator /\ now[e] \in Minutes
         /\ now[e] \in Int /\ CopyKept(e)
         /\ mishaps \cap {"robbed", "clobbered"} = {} =>
              /\ twice \subseteq unnoted
              /\ pc[e] # "tick" => Noted(store, now[e])
              /\ pc[e] = "tick" =>
                   Noted(memory[e], now[e]) /\ Fresh(e)
         /\ mishaps = {} => Counted(IF Repeating(e) THEN memory[e] ELSE store)
         /\ mishaps = {} /\ pc[e] = "tick" => Counted(store)
<1>1. SchTyped /\ e \in Writers /\ now[e] \in Minutes /\ now[e] \in Int /\ e # Operator
  BY TypedParts, MinutesAreInts DEF SchInv, Writers
<1>2. CopyKept(e)
  BY <1>1 DEF SchInv, Copies
<1>3. mishaps \cap {"robbed", "clobbered"} = {} =>
        /\ twice \subseteq unnoted
        /\ pc[e] # "tick" => Noted(store, now[e])
        /\ pc[e] = "tick" =>
             Noted(memory[e], now[e]) /\ Fresh(e)
  BY DEF SchInv, Booked, SlotsNoted
<1>4. mishaps = {} => Counted(IF Repeating(e) THEN memory[e] ELSE store)
  <2> SUFFICES ASSUME mishaps = {} PROVE Counted(IF Repeating(e) THEN memory[e] ELSE store)
    OBVIOUS
  <2>1. \A f \in Entries \ {e} : ~Repeating(f)
    BY Alone
  <2>2. CASE Repeating(e)
    BY <2>2 DEF SchInv, Booked, TriesCounted
  <2>3. CASE ~Repeating(e)
    BY <2>1, <2>3 DEF SchInv, Booked, TriesCounted
  <2> QED BY <2>2, <2>3
<1>5. mishaps = {} /\ pc[e] = "tick" => Counted(store)
  BY DEF SchInv, Booked, TriesCounted
<1> QED BY <1>1, <1>2, <1>3, <1>4, <1>5

LEMMA BootKeeps == ASSUME SchInv, NEW e \in Entries, Boot(e) PROVE SchInv'
<1> USE DEF SchInv
<1>1. Inside(e) /\ pc[e] = "boot"
  BY DEF Boot, Inside
<1>2. SchTyped /\ e \in Writers /\ e # Operator
  BY <1>1, InsideFacts
<1>3. UNCHANGED <<clock, lock, now, todo, given, store, mishaps, ran, twice, unnoted, retries>>
  BY DEF Boot, Reads, registry, outcomes
<1>4. CASE Digest \in DOMAIN store
  <2>1. Goes(e, "read") /\ UNCHANGED <<memory, overtaken>>
    BY <1>4 DEF Boot, registry
  <2>2. /\ pc' \in [Writers -> Points] /\ pc'[e] = "read"
        /\ \A q \in Writers \ {e} : pc'[q] = pc[q]
    BY <1>2, <2>1, GoesEffect DEF Points
  <2>3. SchTyped'
    BY <1>2, <1>3, <2>1, <2>2, StepTyped, TypedParts DEF SchTyped, SchedulerTypeOK
  <2>4. Guarded'
    BY <1>1, <1>3, <2>2, InsideStep
  <2>5. Copies'
    BY <1>2, <1>3, <2>1, <2>2, CopiesStep DEF CopyKept, Holding
  <2>6. Booked'
    BY <1>1, <1>3, <2>2, QuietStep DEF Inside, Repeating, outcomes
  <2> QED BY <2>3, <2>4, <2>5, <2>6
<1>5. CASE Digest \notin DOMAIN store
  <2>0. PICK copy : copy = [j \in DOMAIN store \cup {Digest} |->
                            IF j = Digest THEN NewJob ELSE store[j]]
    OBVIOUS
  <2>1. Goes(e, "booting") /\ Reads(e, copy)
    BY <1>5, <2>0 DEF Boot
  <2>2. /\ pc' \in [Writers -> Points] /\ pc'[e] = "booting"
        /\ \A q \in Writers \ {e} : pc'[q] = pc[q]
    BY <1>2, <2>1, GoesEffect DEF Points
  <2>3. Registry(copy) /\ DOMAIN store \subseteq DOMAIN copy /\ \A j \in DOMAIN store : copy[j] = store[j]
    BY <1>2, <1>5, <2>0, TypedParts, NewJobType DEF Registry
  <2>4. /\ DOMAIN memory' = Writers /\ \A q \in Writers : Registry(memory'[q])
        /\ memory'[e] = copy /\ \A q \in Writers \ {e} : memory'[q] = memory[q]
        /\ overtaken' = overtaken \ {e}
    BY <1>2, <2>1, <2>3, ReadsEffect
  <2>5. SchTyped'
    BY <1>2, <1>3, <2>2, <2>4, StepTyped, TypedParts DEF SchTyped, SchedulerTypeOK
  <2>6. Guarded'
    BY <1>1, <1>3, <2>2, InsideStep
  <2>7. CopyKept(e)'
    BY <1>3, <2>2, <2>3, <2>4 DEF CopyKept
  <2>8. Copies'
    BY <1>2, <1>3, <2>2, <2>4, <2>7, CopiesStep
  <2>9. Booked'
    BY <1>1, <1>3, <2>2, QuietStep DEF Inside, Repeating, outcomes
  <2> QED BY <2>5, <2>6, <2>8, <2>9
<1> QED BY <1>4, <1>5

\* BootWrite, Save, TickWrite and Rewrite.
LEMMA WriteKeeps ==
  ASSUME SchInv, NEW e \in Entries, Holding(e), Inside(e), Writes(e),
         NEW point \in {"read", "reread", "refresh", "release"}, Goes(e, point),
         UNCHANGED <<clock, lock, now, todo, given, outcomes>>
  PROVE  SchInv'
<1> USE DEF SchInv
<1>2. SchTyped /\ e \in Writers /\ e # Operator
  BY InsideFacts
<1>1. /\ pc' \in [Writers -> Points] /\ pc'[e] = point
      /\ \A q \in Writers \ {e} : pc'[q] = pc[q]
  BY <1>2, GoesEffect DEF Points
<1>3. /\ DOMAIN memory' = Writers /\ \A q \in Writers : Registry(memory'[q])
      /\ \A q \in Writers \ {e} : memory'[q] = memory[q]
      /\ Registry(store') /\ overtaken' \subseteq Writers
      /\ mishaps' \subseteq {"clobbered", "unsaved", "robbed"} /\ mishaps \subseteq mishaps'
  BY <1>2, WritesEffect
<1>4. SchTyped'
  BY <1>2, <1>1, <1>3, StepTyped, TypedParts DEF SchTyped, SchedulerTypeOK, outcomes
<1>5. Guarded'
  BY <1>1, <1>3, InsideStep DEF outcomes
<1>6. Booked' /\ Copies'
  BY <1>1, PassWrites DEF Inside, Holding
<1> QED BY <1>4, <1>5, <1>6

\* A visit of one job in a loop: RetryFailed, Recover and TickDispatch.
LEMMA VisitKeeps ==
  ASSUME SchInv, NEW e \in Entries, NEW j \in todo[e], pc[e] \in {"retry", "recover", "tick"},
         NEW r \in JobRecords, Changes(e, j, r), NEW n \in Nat,
         retries' = [retries EXCEPT ![j] = n],
         \/ n = 0
         \/ n = retries[j] /\ r.tries = memory[e][j].tries
         \/ n = retries[j] + 1 /\ r.tries = memory[e][j].tries + 1,
         todo' = [todo EXCEPT ![e] = @ \ {j}],
         UNCHANGED <<clock, lock, pc, now, given, registry>>,
         pc[e] # "tick" => r.slot = memory[e][j].slot /\ UNCHANGED <<ran, twice, unnoted>>,
         pc[e] = "tick" => n = 0 /\ r.slot = now[e] /\ Ran(j, now[e]) /\ UNCHANGED unnoted
  PROVE  SchInv'
<1> USE DEF SchInv
<1>1. Inside(e) /\ Inside(e)' /\ Repeating(e) /\ Repeating(e)' /\ Holding(e)
  BY DEF Inside, Repeating, Holding
<1>2. /\ SchTyped /\ e \in Writers /\ e # Operator /\ now[e] \in Minutes /\ CopyKept(e)
      /\ mishaps \cap {"robbed", "clobbered"} = {} =>
              /\ twice \subseteq unnoted
              /\ pc[e] # "tick" => Noted(store, now[e])
              /\ pc[e] = "tick" =>
                   Noted(memory[e], now[e]) /\ Fresh(e)
      /\ mishaps = {} => Counted(memory[e]) /\ (pc[e] = "tick" => Counted(store))
  BY <1>1, InsideFacts
<1>3. /\ UNCHANGED <<store, overtaken, mishaps>>
      /\ todo[e] \subseteq DOMAIN memory[e] /\ j \in DOMAIN memory[e] /\ j \in Jobs
      /\ ran \in [Jobs -> SUBSET Minutes] /\ retries \in [Jobs -> Nat]
      /\ todo \in [Writers -> SUBSET Jobs]
  BY <1>2, TypedParts DEF SchTyped, registry
<1>4. /\ DOMAIN memory' = Writers /\ \A q \in Writers : Registry(memory'[q])
      /\ DOMAIN memory'[e] = DOMAIN memory[e] /\ memory'[e][j] = r
      /\ \A k \in DOMAIN memory[e] \ {j} : memory'[e][k] = memory[e][k]
      /\ \A q \in Writers \ {e} : memory'[q] = memory[q]
  BY <1>2, <1>3, ChangesEffect
<1>5. /\ todo' \in [Writers -> SUBSET Jobs] /\ todo'[e] = todo[e] \ {j}
      /\ \A q \in Writers \ {e} : todo'[q] = todo[q]
  BY <1>2, <1>3
<1>6. /\ ran' \in [Jobs -> SUBSET Minutes] /\ retries' \in [Jobs -> Nat]
      /\ \A k \in Jobs \ {j} : ran'[k] = ran[k] /\ retries'[k] = retries[k]
      /\ ran'[j] \subseteq ran[j] \cup {now[e]} /\ retries'[j] = n
  <2>1. CASE pc[e] = "tick"
    BY <1>2, <1>3, <2>1 DEF Ran
  <2>2. CASE pc[e] # "tick"
    BY <1>2, <1>3, <2>2
  <2> QED BY <2>1, <2>2
<1>7. twice' \cup unnoted' \subseteq Jobs \X Minutes
  <2>1. twice \cup unnoted \subseteq Jobs \X Minutes /\ <<j, now[e]>> \in Jobs \X Minutes
    BY <1>2, <1>3 DEF SchTyped, SchedulerTypeOK
  <2> QED BY <2>1 DEF Ran
<1>8. SchTyped'
  <2>1. /\ pc' \in [Writers -> Points] /\ Registry(store') /\ given' \subseteq Commands
        /\ overtaken' \subseteq Writers /\ mishaps' \subseteq {"clobbered", "unsaved", "robbed"}
    BY <1>3, TypedParts DEF SchTyped, SchedulerTypeOK
  <2> QED BY <1>2, <1>3, <1>4, <1>5, <1>6, <1>7, <2>1, StepTyped
<1>9. Guarded'
  <2>1. \A k \in Jobs : ran'[k] \subseteq ran[k] \cup {now[e]}
    BY <1>6
  <2>2. pc'[e] \notin {"idle", "stale", "unlinked", "run", "write"}
    OBVIOUS
  <2> QED BY <1>1, <1>3, <2>1, <2>2, InsideStep
<1>10. Copies'
  <2>1. CopyKept(e)'
    BY <1>2, <1>3, <1>4 DEF CopyKept, Holding
  <2> QED BY <1>2, <1>3, <1>4, <2>1, CopiesStep
<1>11. mishaps \cap {"robbed", "clobbered"} = {} =>
           /\ twice' \subseteq unnoted'
           /\ pc'[e] # "tick" => Noted(store, now[e])'
           /\ pc'[e] = "tick" =>
                Noted(memory[e], now[e])' /\ Fresh(e)'
  <2> SUFFICES ASSUME mishaps \cap {"robbed", "clobbered"} = {}
               PROVE  /\ twice' \subseteq unnoted'
                      /\ pc'[e] # "tick" => Noted(store, now[e])'
                      /\ pc'[e] = "tick" =>
                           Noted(memory[e], now[e])' /\ Fresh(e)'
    OBVIOUS
  <2>1. CASE pc[e] # "tick"
    BY <1>2, <1>3, <2>1 DEF Noted
  <2>2. CASE pc[e] = "tick"
    <3>1. Noted(memory[e], now[e]) /\ Fresh(e)
      BY <1>2, <2>2
    <3>2. twice' \subseteq unnoted' /\ unnoted' = unnoted
      BY <1>2, <2>2, <3>1 DEF Ran, Fresh
    <3>3. Noted(memory[e], now[e])'
      BY <1>3, <1>4, <1>6, <2>2, <3>1, <3>2 DEF Noted
    <3>4. Fresh(e)'
      BY <1>2, <1>3, <1>5, <1>6, <3>1, <3>2 DEF Fresh
    <3> QED BY <2>2, <3>2, <3>3, <3>4
  <2> QED BY <2>1, <2>2
<1>12. mishaps = {} => Counted(memory[e])'
  <2> SUFFICES ASSUME mishaps = {}, NEW k \in Jobs, retries'[k] # 0
               PROVE  k \in DOMAIN memory'[e] /\ retries'[k] <= memory'[e][k].tries
    BY DEF Counted
  <2>1. Counted(memory[e])
    BY <1>2
  <2>2. CASE k # j
    BY <1>3, <1>4, <1>6, <2>1, <2>2 DEF Counted
  <2>3. CASE k = j
    <3>1. retries[j] # 0 => retries[j] <= memory[e][j].tries
      BY <1>3, <2>1 DEF Counted
    <3>2. memory[e][j] \in JobRecords
      BY <1>3, <1>2, TypedParts DEF Registry
    <3>3. memory[e][j].tries \in Nat /\ r.tries \in Nat /\ retries[j] \in Nat
      BY <1>3, <3>2, RecordFields
    <3> QED BY <1>3, <1>4, <1>6, <2>3, <3>1, <3>3
  <2> QED BY <2>2, <2>3
<1>13. mishaps = {} /\ pc[e] = "tick" => Counted(store)'
  BY <1>2, <1>3, <1>6 DEF Counted
<1>14. Booked'
  BY <1>1, <1>3, <1>11, <1>12, <1>13, LoopStep
<1> QED BY <1>8, <1>9, <1>10, <1>14

\* A read of the file by a pass that has nothing in memory: Read, TickRead, Refresh.
LEMMA ReadKeeps ==
  ASSUME SchInv, NEW e \in Entries, pc[e] \in {"read", "reread", "refresh"},
         NEW copy, Registry(copy), DOMAIN copy = DOMAIN store,
         \A j \in DOMAIN store : copy[j].slot = store[j].slot /\ copy[j].tries = store[j].tries,
         Reads(e, copy),
         NEW point \in {"save", "retry", "tick", "rewrite"}, Goes(e, point),
         todo' \in [Writers -> SUBSET Jobs], \A q \in Writers \ {e} : todo'[q] = todo[q],
         point # "save" => todo'[e] \subseteq DOMAIN copy \/ point = "rewrite",
         point = "tick" => \A j \in todo'[e] : j \in DOMAIN store /\ store[j].slot # now[e],
         UNCHANGED <<clock, lock, now, given, outcomes>>
  PROVE  SchInv'
<1> USE DEF SchInv
<1>1. Inside(e) /\ ~Repeating(e)
  BY DEF Inside, Repeating
<1>2. /\ SchTyped /\ e \in Writers /\ e # Operator /\ now[e] \in Minutes
      /\ mishaps \cap {"robbed", "clobbered"} = {} => twice \subseteq unnoted /\ Noted(store, now[e])
      /\ mishaps = {} => Counted(store)
  BY <1>1, InsideFacts
<1>3. /\ pc' \in [Writers -> Points] /\ pc'[e] = point
      /\ \A q \in Writers \ {e} : pc'[q] = pc[q]
  BY <1>2, GoesEffect DEF Points
<1>4. /\ DOMAIN memory' = Writers /\ \A q \in Writers : Registry(memory'[q])
      /\ memory'[e] = copy /\ \A q \in Writers \ {e} : memory'[q] = memory[q]
      /\ overtaken' = overtaken \ {e} /\ UNCHANGED <<store, mishaps>>
  BY <1>2, ReadsEffect
<1>5. UNCHANGED <<clock, lock, now, given, ran, twice, unnoted, retries>>
  BY DEF outcomes
<1>6. SchTyped'
  <2>1. /\ Registry(store') /\ given' \subseteq Commands /\ twice' \cup unnoted' \subseteq Jobs \X Minutes
        /\ overtaken' \subseteq Writers /\ mishaps' \subseteq {"clobbered", "unsaved", "robbed"}
        /\ ran' \in [Jobs -> SUBSET Minutes] /\ retries' \in [Jobs -> Nat]
    BY <1>2, <1>4, <1>5, TypedParts DEF SchTyped, SchedulerTypeOK
  <2>2. pc'[e] \in {"retry", "recover", "tick", "run"} => todo'[e] \subseteq DOMAIN memory'[e]
    BY <1>3, <1>4
  <2> QED BY <1>2, <1>3, <1>4, <1>5, <2>1, <2>2, StepTyped
<1>7. Guarded'
  <2>1. mishaps \subseteq mishaps' /\ \A j \in Jobs : ran'[j] \subseteq ran[j] \cup {now[e]}
    BY <1>4, <1>5
  <2>2. pc'[e] \notin {"idle", "stale", "unlinked", "run", "write"}
    BY <1>3
  <2> QED BY <1>1, <1>3, <1>5, <2>1, <2>2, InsideStep
<1>8. Copies'
  <2>1. CopyKept(e)'
    BY <1>3, <1>4 DEF CopyKept
  <2> QED BY <1>2, <1>3, <1>4, <2>1, CopiesStep
<1>9. Booked'
  <2>1. CASE point = "rewrite"
    BY <1>1, <1>3, <1>4, <1>5, <2>1, QuietStep DEF Inside, Repeating, outcomes
  <2>2. CASE point # "rewrite"
    <3>1. Repeating(e)'
      BY <1>3, <2>2 DEF Repeating
    <3>2. mishaps \cap {"robbed", "clobbered"} = {} =>
           /\ twice' \subseteq unnoted'
           /\ pc'[e] # "tick" => Noted(store, now[e])'
           /\ pc'[e] = "tick" =>
                Noted(memory[e], now[e])' /\ Fresh(e)'
      <4> SUFFICES ASSUME mishaps \cap {"robbed", "clobbered"} = {}
                   PROVE  /\ twice' \subseteq unnoted' /\ Noted(store, now[e])' /\ Noted(memory[e], now[e])'
                          /\ point = "tick" => Fresh(e)'
        BY <1>3
      <4>1. twice \subseteq unnoted /\ Noted(store, now[e])
        BY <1>2
      <4>2. Noted(store, now[e])' /\ Noted(memory[e], now[e])'
        BY <1>4, <1>5, <4>1 DEF Noted
      <4>3. todo'[e] \subseteq Jobs
        BY <1>2
      <4> QED BY <1>4, <1>5, <4>1, <4>2, <4>3 DEF Noted, Fresh
    <3>3. mishaps = {} => Counted(memory[e])' /\ Counted(store)'
      BY <1>2, <1>4, <1>5 DEF Counted
    <3> QED BY <1>1, <1>3, <1>4, <1>5, <3>1, <3>2, <3>3, LoopStep
  <2> QED BY <2>1, <2>2
<1> QED BY <1>6, <1>7, <1>8, <1>9

LEMMA ReadStep == ASSUME SchInv, NEW e \in Entries, Read(e) PROVE SchInv'
<1>1. /\ pc[e] = "read" /\ UNCHANGED <<clock, lock, now, given, outcomes>>
      /\ SchTyped /\ e \in Writers /\ todo \in [Writers -> SUBSET Jobs] /\ Registry(store)
  BY TypedParts DEF Read, SchInv, Writers
<1>2. PICK answered \in SUBSET UNION {{j} \X store[j].open : j \in DOMAIN store} :
        LET copy == [j \in DOMAIN store |->
                       [store[j] EXCEPT !.open = {m \in @ : <<j, m>> \notin answered}]] IN
          /\ Reads(e, copy)
          /\ \/ Goes(e, "save") /\ UNCHANGED todo
             \/ /\ Goes(e, "retry")
                /\ todo' = [todo EXCEPT ![e] =
                     {j \in DOMAIN copy : /\ copy[j].enabled /\ copy[j].status = "recoverable"
                                          /\ copy[j].retried < now[e]}]
  BY DEF Read
<1>3. PICK copy : copy = [j \in DOMAIN store |->
                       [store[j] EXCEPT !.open = {m \in @ : <<j, m>> \notin answered}]]
  OBVIOUS
<1>4. /\ Reads(e, copy)
      /\ \/ Goes(e, "save") /\ UNCHANGED todo
         \/ /\ Goes(e, "retry")
            /\ todo' = [todo EXCEPT ![e] =
                 {j \in DOMAIN copy : /\ copy[j].enabled /\ copy[j].status = "recoverable"
                                      /\ copy[j].retried < now[e]}]
  BY <1>2, <1>3
<1>5. /\ Registry(copy) /\ DOMAIN copy = DOMAIN store
      /\ \A j \in DOMAIN store : copy[j].slot = store[j].slot /\ copy[j].tries = store[j].tries
  <2>1. DOMAIN copy = DOMAIN store
    BY <1>3
  <2>2. ASSUME NEW j \in DOMAIN store
        PROVE  copy[j] \in JobRecords /\ copy[j].slot = store[j].slot /\ copy[j].tries = store[j].tries
    <3>1. PICK rec : rec = store[j]
      OBVIOUS
    <3>2. rec \in JobRecords
      BY <1>1, <3>1 DEF Registry
    <3>3. PICK left : left = {m \in rec.open : <<j, m>> \notin answered}
      OBVIOUS
    <3>4. left \subseteq Minutes
      BY <3>2, <3>3, RecordFields
    <3>5. copy[j] = [rec EXCEPT !.open = left]
      BY <1>3, <3>1, <3>3
    <3>6. PICK r : r = [rec EXCEPT !.open = left]
      OBVIOUS
    <3>7. r \in JobRecords /\ r.slot = rec.slot /\ r.tries = rec.tries
      BY <3>2, <3>4, <3>6 DEF JobRecords
    <3> QED BY <3>1, <3>5, <3>6, <3>7
  <2> QED BY <1>1, <2>1, <2>2 DEF Registry
<1>6. CASE Goes(e, "save") /\ UNCHANGED todo
  BY <1>1, <1>4, <1>5, <1>6, ReadKeeps
<1>7. CASE /\ Goes(e, "retry")
           /\ todo' = [todo EXCEPT ![e] =
                {j \in DOMAIN copy : /\ copy[j].enabled /\ copy[j].status = "recoverable"
                                     /\ copy[j].retried < now[e]}]
  <2>1. /\ todo' \in [Writers -> SUBSET Jobs] /\ \A q \in Writers \ {e} : todo'[q] = todo[q]
        /\ todo'[e] \subseteq DOMAIN copy
    BY <1>1, <1>5, <1>7 DEF Registry
  <2> QED BY <1>1, <1>4, <1>5, <1>7, <2>1, ReadKeeps
<1> QED BY <1>4, <1>6, <1>7

LEMMA TickReadStep == ASSUME SchInv, NEW e \in Entries, TickRead(e) PROVE SchInv'
<1>1. /\ pc[e] = "reread" /\ UNCHANGED <<clock, lock, now, given, outcomes>>
      /\ Reads(e, store) /\ Goes(e, "tick")
      /\ todo' = [todo EXCEPT ![e] =
           {j \in DOMAIN store : store[j].enabled /\ now[e] \in Due[j] /\ store[j].slot # now[e]}]
  BY DEF TickRead
<1>2. /\ SchTyped /\ e \in Writers /\ todo \in [Writers -> SUBSET Jobs] /\ Registry(store)
  BY TypedParts DEF SchInv, Writers
<1>3. /\ todo' \in [Writers -> SUBSET Jobs] /\ \A q \in Writers \ {e} : todo'[q] = todo[q]
      /\ todo'[e] \subseteq DOMAIN store
      /\ \A j \in todo'[e] : j \in DOMAIN store /\ store[j].slot # now[e]
  BY <1>1, <1>2 DEF Registry
<1>4. PICK copy : copy = store
  OBVIOUS
<1> QED BY <1>1, <1>2, <1>3, <1>4, ReadKeeps

LEMMA RefreshStep == ASSUME SchInv, NEW e \in Entries, Refresh(e) PROVE SchInv'
<1>1. /\ pc[e] = "refresh" /\ UNCHANGED <<clock, lock, now, todo, given, outcomes>>
      /\ Reads(e, store) /\ Goes(e, "rewrite")
  BY DEF Refresh
<1>2. /\ SchTyped /\ e \in Writers /\ todo \in [Writers -> SUBSET Jobs] /\ Registry(store)
  BY TypedParts DEF SchInv, Writers
<1>3. PICK copy : copy = store
  OBVIOUS
<1> QED BY <1>1, <1>2, <1>3, ReadKeeps

LEMMA RetryFailedStep ==
  ASSUME SchInv, NEW e \in Entries, NEW j \in Jobs, RetryFailed(e, j) PROVE SchInv'
<1>1. /\ pc[e] = "retry" /\ j \in todo[e] /\ todo' = [todo EXCEPT ![e] = @ \ {j}]
      /\ UNCHANGED <<clock, lock, pc, now, given, registry, outcomes>>
  BY DEF RetryFailed
<1>2. PICK o \in Ends(j) :
        Changes(e, j, [Recorded(memory[e][j], o, now[e]) EXCEPT !.retried = now[e]])
  BY DEF RetryFailed
<1>3. memory[e][j] \in JobRecords /\ now[e] \in Minutes /\ retries[j] \in Nat
  BY <1>1, TypedParts DEF SchInv, SchTyped, Registry, Writers
<1>4. PICK rec : rec = Recorded(memory[e][j], o, now[e])
  OBVIOUS
<1>5. /\ rec \in JobRecords
      /\ rec.slot = memory[e][j].slot /\ rec.tries = memory[e][j].tries
  BY <1>3, <1>4, RecordedType
<1>6. PICK r : r = [rec EXCEPT !.retried = now[e]]
  OBVIOUS
<1>7. r \in JobRecords /\ r.slot = memory[e][j].slot /\ r.tries = memory[e][j].tries
  BY <1>3, <1>5, <1>6 DEF JobRecords
<1>8. Changes(e, j, r)
  BY <1>2, <1>4, <1>6
<1>9. retries' = [retries EXCEPT ![j] = retries[j]] /\ UNCHANGED <<ran, twice, unnoted>>
  BY <1>1, TypedParts DEF SchInv, outcomes
<1> QED BY <1>1, <1>3, <1>7, <1>8, <1>9, VisitKeeps

LEMMA RecoverStep ==
  ASSUME SchInv, NEW e \in Entries, NEW j \in Jobs, Recover(e, j) PROVE SchInv'
<1> DEFINE rec == memory[e][j]  stale == Stale(rec, now[e])
<1>1. /\ pc[e] = "recover" /\ j \in todo[e] /\ todo' = [todo EXCEPT ![e] = @ \ {j}]
      /\ UNCHANGED <<clock, lock, pc, now, given, registry, ran, twice, unnoted>>
  BY DEF Recover
<1>3. rec \in JobRecords /\ now[e] \in Minutes /\ retries[j] \in Nat /\ retries \in [Jobs -> Nat]
  BY <1>1, TypedParts DEF SchInv, SchTyped, Registry, Writers
<1>4. CASE rec.tries >= MaxRecoveries
  <2>1. Changes(e, j, [rec EXCEPT !.open = @ \ stale, !.status = "failed"]) /\ UNCHANGED retries
    BY <1>3, <1>4, RecordFields DEF Recover
  <2>2. PICK r : r = [rec EXCEPT !.open = @ \ stale, !.status = "failed"]
    OBVIOUS
  <2>3. r \in JobRecords /\ r.slot = rec.slot /\ r.tries = rec.tries
    BY <1>3, <2>2 DEF JobRecords
  <2>4. retries' = [retries EXCEPT ![j] = retries[j]]
    BY <1>3, <2>1
  <2>5. Changes(e, j, r)
    BY <2>1, <2>2
  <2> QED BY <1>1, <1>3, <2>3, <2>4, <2>5, VisitKeeps
<1>5. CASE ~(rec.tries >= MaxRecoveries)
  <2>1. PICK m \in stale, o \in Ends(j) :
          Changes(e, j, [Recorded([rec EXCEPT !.open = @ \ {m}], o, now[e])
                                   EXCEPT !.tries = @ + 1])
    BY <1>5 DEF Recover
  <2>2. retries' = [retries EXCEPT ![j] = retries[j] + 1]
    BY <1>5 DEF Recover
  <2>3. PICK less : less = [rec EXCEPT !.open = @ \ {m}]
    OBVIOUS
  <2>4. less \in JobRecords /\ less.slot = rec.slot /\ less.tries = rec.tries
    BY <1>3, <2>3 DEF JobRecords
  <2>5. PICK again : again = Recorded(less, o, now[e])
    OBVIOUS
  <2>6. again \in JobRecords /\ again.slot = rec.slot /\ again.tries = rec.tries
    BY <1>3, <2>4, <2>5, RecordedType
  <2>7. PICK r : r = [again EXCEPT !.tries = @ + 1]
    OBVIOUS
  <2>8. rec.tries + 1 \in 0..MaxRecoveries
    BY <1>3, <1>5, RecordFields
  <2>9. r \in JobRecords /\ r.slot = rec.slot /\ r.tries = rec.tries + 1
    BY <2>6, <2>7, <2>8 DEF JobRecords
  <2>10. Changes(e, j, r)
    BY <2>1, <2>3, <2>5, <2>7
  <2>11. retries[j] + 1 \in Nat
    BY <1>3
  <2> QED BY <1>1, <2>2, <2>9, <2>10, <2>11, VisitKeeps
<1> QED BY <1>4, <1>5

LEMMA TickDispatchStep ==
  ASSUME SchInv, NEW e \in Entries, NEW j \in Jobs, TickDispatch(e, j) PROVE SchInv'
<1>1. /\ pc[e] = "tick" /\ j \in todo[e] /\ todo' = [todo EXCEPT ![e] = @ \ {j}]
      /\ Ran(j, now[e]) /\ retries' = [retries EXCEPT ![j] = 0]
      /\ UNCHANGED <<clock, lock, pc, now, given, registry, unnoted>>
  BY DEF TickDispatch
<1>2. PICK o \in Ends(j) :
        Changes(e, j, [Recorded(memory[e][j], o, now[e]) EXCEPT
                        !.slot = now[e], !.tries = 0, !.enabled = @ /\ j \notin OneShot])
  BY DEF TickDispatch
<1>3. memory[e][j] \in JobRecords /\ now[e] \in Minutes
  BY <1>1, TypedParts DEF SchInv, SchTyped, Registry, Writers
<1>4. PICK rec : rec = Recorded(memory[e][j], o, now[e])
  OBVIOUS
<1>5. rec \in JobRecords
  BY <1>3, <1>4, RecordedType
<1>6. PICK r : r = [rec EXCEPT !.slot = now[e], !.tries = 0, !.enabled = @ /\ j \notin OneShot]
  OBVIOUS
<1>7. r \in JobRecords /\ r.slot = now[e]
  <2>1. PICK on \in BOOLEAN : on = (rec.enabled /\ j \notin OneShot)
    OBVIOUS
  <2>2. 0 \in 0..MaxRecoveries
    OBVIOUS
  <2>3. r = [rec EXCEPT !.slot = now[e], !.tries = 0, !.enabled = on]
    BY <1>6, <2>1
  <2> QED BY <1>3, <1>5, <2>1, <2>2, <2>3 DEF JobRecords
<1>8. Changes(e, j, r)
  BY <1>2, <1>4, <1>6
<1> QED BY <1>1, <1>7, <1>8, VisitKeeps

\* A tick that is left by an exception: what it lost is in `unnoted', the file
\* still notes and counts the rest.
LEMMA TickThrowsStep ==
  ASSUME SchInv, NEW e \in Entries, NEW j \in Jobs, TickThrows(e, j) PROVE SchInv'
<1> DEFINE gone == ({j} \cup Unwritten(e)) \X {now[e]}
<1>1. /\ pc[e] = "tick" /\ j \in todo[e] /\ Goes(e, "release")
      /\ memory' = [memory EXCEPT ![e] = Empty] /\ todo' = [todo EXCEPT ![e] = {}]
      /\ overtaken' = overtaken \ {e} /\ Ran(j, now[e]) /\ unnoted' = unnoted \cup gone
      /\ UNCHANGED <<clock, store, lock, now, given, mishaps, retries>>
  BY DEF TickThrows
<1>2. Inside(e) /\ Repeating(e)
  BY <1>1 DEF Inside, Repeating
<1>3. /\ SchTyped /\ e \in Writers /\ e # Operator /\ now[e] \in Minutes
      /\ mishaps \cap {"robbed", "clobbered"} = {} =>
           twice \subseteq unnoted /\ Noted(memory[e], now[e]) /\ Fresh(e)
      /\ mishaps = {} => Counted(store)
  BY <1>1, <1>2, InsideFacts DEF SchInv
<1>4. /\ pc' \in [Writers -> Points] /\ pc'[e] = "release"
      /\ \A q \in Writers \ {e} : pc'[q] = pc[q]
  BY <1>1, <1>3, GoesEffect DEF Points
<1>5. /\ todo \in [Writers -> SUBSET Jobs] /\ DOMAIN memory = Writers /\ Registry(memory[e])
      /\ Registry(store) /\ ran \in [Jobs -> SUBSET Minutes] /\ overtaken \subseteq Writers
      /\ \A f \in Entries \ {e} : f \in Writers \ {e}
  BY <1>3, TypedParts DEF Writers
<1>6. /\ DOMAIN memory' = Writers /\ memory'[e] = Empty
      /\ \A q \in Writers \ {e} : memory'[q] = memory[q] /\ todo'[q] = todo[q]
      /\ todo' \in [Writers -> SUBSET Jobs] /\ overtaken' \subseteq Writers
  BY <1>1, <1>3, <1>5
<1>7. /\ ran' \in [Jobs -> SUBSET Minutes]
      /\ \A k \in Jobs : ran'[k] \subseteq ran[k] \cup {now[e]}
      /\ \A k \in Jobs \ {j} : ran'[k] = ran[k]
  BY <1>1, <1>3, <1>5 DEF Ran
<1>8. <<j, now[e]>> \in gone /\ \A k \in Unwritten(e) : <<k, now[e]>> \in gone
  OBVIOUS
<1>9. gone \subseteq Jobs \X Minutes
  BY <1>3, <1>5 DEF Unwritten, Registry
<1> HIDE DEF gone
<1>10. SchTyped'
  <2>1. twice' \cup unnoted' \subseteq Jobs \X Minutes
    <3>1. twice \cup unnoted \subseteq Jobs \X Minutes
      BY <1>3 DEF SchTyped, SchedulerTypeOK
    <3>2. twice' \subseteq twice \cup gone
      BY <1>1, <1>8 DEF Ran
    <3> QED BY <1>1, <1>9, <3>1, <3>2
  <2>2. /\ Registry(store') /\ given' \subseteq Commands
        /\ mishaps' \subseteq {"clobbered", "unsaved", "robbed"} /\ retries' \in [Jobs -> Nat]
    BY <1>1, <1>3, <1>5, TypedParts DEF SchTyped, SchedulerTypeOK
  <2> QED BY <1>1, <1>3, <1>4, <1>6, <1>7, <2>1, <2>2, EmptyType, StepTyped
<1>11. Guarded'
  <2>1. pc'[e] \notin {"idle", "stale", "unlinked", "run", "write"} /\ mishaps \subseteq mishaps'
    BY <1>1, <1>4
  <2> QED BY <1>1, <1>2, <1>4, <1>7, <2>1, InsideStep
<1>12. Copies'
  <2>1. CopyKept(e)'
    BY <1>4 DEF CopyKept, Holding
  <2> QED BY <1>1, <1>3, <1>4, <1>6, <2>1, CopiesStep
<1>13. SlotsNoted'
  <2> SUFFICES ASSUME mishaps \cap {"robbed", "clobbered"} = {} PROVE SlotsNoted'
    BY <1>1 DEF SlotsNoted
  <2>1. lock # Free /\ \A f \in Entries \ {e} : ~Inside(f)' /\ pc'[f] # "tick"
    BY <1>2, <1>4, <1>5, Alone DEF Inside
  <2>2. twice' \subseteq unnoted'
    BY <1>1, <1>3, <1>8 DEF Ran
  <2>3. Noted(store, now[e])'
    <3> SUFFICES ASSUME NEW k \in Jobs, now[e] \in ran'[k], <<k, now[e]>> \notin unnoted'
                 PROVE  k \in DOMAIN store /\ store[k].slot = now[e]
      BY <1>1 DEF Noted
    <3>1. k # j /\ k \notin Unwritten(e) /\ <<k, now[e]>> \notin unnoted
      BY <1>1, <1>8
    <3>2. k \in DOMAIN memory[e] /\ memory[e][k].slot = now[e]
      BY <1>3, <1>7, <3>1 DEF Noted
    <3> QED BY <3>1, <3>2 DEF Unwritten
  <2> QED BY <1>1, <1>4, <2>1, <2>2, <2>3 DEF SlotsNoted
<1>14. TriesCounted'
  <2> SUFFICES ASSUME mishaps = {} PROVE TriesCounted'
    BY <1>1 DEF TriesCounted
  <2>1. \A f \in Entries : ~Repeating(f)' /\ pc'[f] # "tick"
    BY <1>2, <1>4, <1>5, Alone DEF Repeating
  <2>2. Counted(store)'
    BY <1>1, <1>3 DEF Counted
  <2> QED BY <2>1, <2>2 DEF TriesCounted
<1> QED BY <1>10, <1>11, <1>12, <1>13, <1>14 DEF SchInv, Booked

LEMMA RetriesDoneStep == ASSUME SchInv, NEW e \in Entries, RetriesDone(e) PROVE SchInv'
<1>1. /\ pc[e] = "retry" /\ todo[e] = {} /\ Goes(e, "recover")
      /\ todo' = [todo EXCEPT ![e] =
           {j \in DOMAIN memory[e] : memory[e][j].enabled /\ Stale(memory[e][j], now[e]) # {}}]
      /\ UNCHANGED <<clock, lock, now, memory, given, store, overtaken, mishaps, ran, twice, unnoted, retries>>
  BY DEF RetriesDone, registry, outcomes
<1>2. Inside(e) /\ Repeating(e)
  BY <1>1 DEF Inside, Repeating
<1>3. /\ SchTyped /\ e \in Writers /\ e # Operator /\ CopyKept(e)
      /\ mishaps \cap {"robbed", "clobbered"} = {} => twice \subseteq unnoted /\ Noted(store, now[e])
      /\ mishaps = {} => Counted(memory[e])
  BY <1>1, <1>2, InsideFacts DEF SchInv
<1>4. /\ pc' \in [Writers -> Points] /\ pc'[e] = "recover" /\ \A q \in Writers \ {e} : pc'[q] = pc[q]
  BY <1>1, <1>3, GoesEffect DEF Points
<1>5. todo \in [Writers -> SUBSET Jobs] /\ Registry(memory[e]) /\ DOMAIN memory = Writers
  BY <1>3, TypedParts
<1>6. /\ todo' \in [Writers -> SUBSET Jobs] /\ todo'[e] \subseteq DOMAIN memory[e]
      /\ \A q \in Writers \ {e} : todo'[q] = todo[q]
  BY <1>1, <1>3, <1>5 DEF Registry
<1>7. SchTyped'
  <2>1. /\ Registry(store') /\ given' \subseteq Commands /\ twice' \cup unnoted' \subseteq Jobs \X Minutes
        /\ overtaken' \subseteq Writers /\ mishaps' \subseteq {"clobbered", "unsaved", "robbed"}
        /\ ran' \in [Jobs -> SUBSET Minutes] /\ retries' \in [Jobs -> Nat]
    BY <1>1, <1>3, TypedParts DEF SchTyped, SchedulerTypeOK
  <2> QED BY <1>1, <1>3, <1>4, <1>5, <1>6, <2>1, StepTyped
<1>8. Guarded'
  <2>1. mishaps \subseteq mishaps' /\ \A j \in Jobs : ran'[j] \subseteq ran[j] \cup {now[e]}
    BY <1>1
  <2>2. pc'[e] \notin {"idle", "stale", "unlinked", "run", "write"}
    BY <1>4
  <2> QED BY <1>1, <1>2, <1>4, <2>1, <2>2, InsideStep
<1>9. Copies'
  <2>1. CopyKept(e)'
    BY <1>1, <1>3, <1>4 DEF CopyKept, Holding
  <2> QED BY <1>1, <1>3, <1>4, <2>1, CopiesStep
<1>10. Booked'
  <2>1. Repeating(e)' /\ pc'[e] # "tick"
    BY <1>4 DEF Repeating
  <2>2. mishaps = {} => Counted(memory[e])'
    BY <1>1, <1>3 DEF Counted
  <2>3. mishaps \cap {"robbed", "clobbered"} = {} => twice' \subseteq unnoted' /\ Noted(store, now[e])'
    BY <1>1, <1>3 DEF Noted
  <2> QED BY <1>1, <1>2, <1>4, <2>1, <2>2, <2>3, LoopStep
<1> QED BY <1>7, <1>8, <1>9, <1>10 DEF SchInv
-----------------------------------------------------------------------------
(* The lock, the death of a pass and the clock                             *)

\* A step at the lock writes no copy and dispatches nothing.
LEMMA LockTyped ==
  ASSUME SchTyped, clock' \in Minutes,
         lock' \in [by : Entries \cup {NoEntry}, at : Minutes],
         pc' \in [Writers -> Points], now' \in [Entries -> Minutes],
         \A w \in Writers : pc'[w] \in {"retry", "recover", "tick", "run"} => pc'[w] = pc[w],
         mishaps' \subseteq {"clobbered", "unsaved", "robbed"},
         UNCHANGED <<store, memory, todo, given, overtaken, outcomes>>
  PROVE  SchTyped'
BY TypedParts DEF SchTyped, SchedulerTypeOK, outcomes

LEMMA LockCopies ==
  ASSUME SchInv, \A w \in Writers : pc'[w] = pc[w] \/ ~Holding(w)',
         UNCHANGED <<store, memory, overtaken>>
  PROVE  Copies'
BY DEF SchInv, Copies, CopyKept, Holding

\* While no pass runs, the repetitions of all jobs are counted in the file.
LEMMA LockTries ==
  ASSUME SchInv, \A e \in Entries : pc'[e] = pc[e] \/ (~Repeating(e) /\ ~Repeating(e)'),
         mishaps \subseteq mishaps', UNCHANGED <<store, memory, retries>>
  PROVE  TriesCounted'
<1> SUFFICES ASSUME mishaps = {} PROVE TriesCounted'
  BY DEF TriesCounted
<1>1. TriesCounted
  BY DEF SchInv, Booked
<1> QED BY <1>1 DEF TriesCounted, Counted, Repeating

LEMMA LockIsFree == Free.by = NoEntry /\ Free \in [by : Entries \cup {NoEntry}, at : Minutes]
BY MinutesAreInts DEF Free

\* Locked: the lock was free, so nobody was inside, and the pass is of this minute.
LEMMA LockedKeeps ==
  ASSUME SchInv, NEW e \in Entries, pc[e] \in {"idle", "unlinked"}, lock = Free, Locked(e),
         now' = [now EXCEPT ![e] = clock],
         UNCHANGED <<clock, memory, todo, given, registry, outcomes>>
  PROVE  SchInv'
<1>1. /\ SchTyped /\ clock \in Minutes /\ e \in Writers /\ Operator \in Writers \ {e}
      /\ clock \in Int /\ now \in [Entries -> Minutes] /\ Entries \subseteq Writers
      /\ mishaps \subseteq {"clobbered", "unsaved", "robbed"}
  BY TypedParts, MinutesAreInts DEF SchInv, Writers, SchTyped, SchedulerTypeOK
<1>2. /\ pc' \in [Writers -> Points] /\ pc'[e] = "boot" /\ \A q \in Writers \ {e} : pc'[q] = pc[q]
  BY <1>1, GoesEffect DEF Locked, Points
<1>3. /\ lock' = [by |-> e, at |-> clock] /\ lock' # Free
      /\ now' \in [Entries -> Minutes] /\ now'[e] = clock
      /\ \A f \in Entries \ {e} : now'[f] = now[f]
      /\ UNCHANGED <<clock, store, memory, todo, given, overtaken, mishaps, ran, twice, unnoted, retries>>
  BY <1>1, LockIsFree DEF Locked, registry, outcomes
<1>4. SchTyped'
  <2>1. lock' \in [by : Entries \cup {NoEntry}, at : Minutes]
    BY <1>1, <1>3
  <2>2. \A w \in Writers : pc'[w] \in {"retry", "recover", "tick", "run"} => pc'[w] = pc[w]
    BY <1>2
  <2> QED BY <1>1, <1>2, <1>3, <2>1, <2>2, LockTyped DEF outcomes
<1>5. Times'
  BY <1>1, <1>2, <1>3 DEF SchInv, Guarded, Times
<1>6. "robbed" \notin mishaps => \A f \in Entries : ~Inside(f)
  BY Alone
<1>7. "robbed" \notin mishaps => \A f \in Entries \ {e} : ~Inside(f)'
  BY <1>1, <1>2, <1>6 DEF Inside
<1>8. LockKept'
  <2>1. \A j \in Jobs : \A m \in ran[j] : m <= clock
    BY DEF SchInv, Guarded, Times
  <2> QED BY <1>3, <1>7, <2>1 DEF LockKept
<1>9. Copies'
  BY <1>1, <1>2, <1>3, LockCopies DEF Holding
<1>10. SlotsNoted'
  <2> SUFFICES ASSUME mishaps \cap {"robbed", "clobbered"} = {} PROVE SlotsNoted'
    BY <1>3 DEF SlotsNoted
  <2>1. twice \subseteq unnoted /\ Noted(store, clock)
    BY DEF SchInv, Booked, SlotsNoted
  <2>2. \A f \in Entries \ {e} : ~Inside(f)' /\ pc'[f] # "tick"
    BY <1>7 DEF Inside
  <2> QED BY <1>2, <1>3, <2>1, <2>2 DEF SlotsNoted, Noted, Fresh
<1>11. TriesCounted'
  <2>1. \A f \in Entries : pc'[f] = pc[f] \/ (~Repeating(f) /\ ~Repeating(f)')
    BY <1>1, <1>2 DEF Repeating
  <2>2. mishaps \subseteq mishaps'
    BY <1>3
  <2> QED BY <1>3, <2>1, <2>2, LockTries
<1> QED BY <1>4, <1>5, <1>8, <1>9, <1>10, <1>11 DEF SchInv, Guarded, Booked

\* A step before the lock, which leaves it alone.
LEMMA BeforeLock ==
  ASSUME SchInv, NEW e \in Entries, ~Inside(e), ~Inside(e)', pc'[e] # "unlinked",
         pc' \in [Writers -> Points], \A q \in Writers \ {e} : pc'[q] = pc[q],
         now' \in [Entries -> Minutes], \A f \in Entries \ {e} : now'[f] = now[f],
         now'[e] <= clock,
         pc'[e] = "stale" => now'[e] = clock /\ (lock.by = e => clock - lock.at >= 2),
         UNCHANGED <<clock, lock, store, memory, todo, given, overtaken, mishaps, outcomes>>
  PROVE  SchInv'
<1>1. /\ SchTyped /\ clock \in Minutes /\ e \in Writers /\ Operator \in Writers \ {e}
      /\ lock \in [by : Entries \cup {NoEntry}, at : Minutes] /\ Entries \subseteq Writers
      /\ mishaps \subseteq {"clobbered", "unsaved", "robbed"}
  BY TypedParts DEF SchInv, Writers, SchTyped, SchedulerTypeOK
<1>2. \A f \in Entries : Inside(f)' => Inside(f) /\ pc'[f] = pc[f] /\ now'[f] = now[f]
  BY <1>1 DEF Inside
<1>3. pc'[e] \in {"idle", "stale"}
  BY DEF Inside
<1>4. SchTyped'
  BY <1>1, <1>3, LockTyped
<1>5. Times'
  BY <1>1, <1>3 DEF SchInv, Guarded, Times, outcomes
<1>6. LockKept'
  BY <1>2 DEF SchInv, Guarded, LockKept, outcomes
<1>7. Copies'
  BY <1>1, <1>3, LockCopies DEF Holding
<1>8. SlotsNoted'
  BY <1>2 DEF SchInv, Booked, SlotsNoted, Noted, Fresh, Inside, outcomes
<1>9. TriesCounted'
  <2>1. \A f \in Entries : pc'[f] = pc[f] \/ (~Repeating(f) /\ ~Repeating(f)')
    BY <1>1, <1>3 DEF Repeating, Inside
  <2>2. mishaps \subseteq mishaps' /\ UNCHANGED retries
    BY DEF outcomes
  <2> QED BY <2>1, <2>2, LockTries
<1> QED BY <1>4, <1>5, <1>6, <1>7, <1>8, <1>9 DEF SchInv, Guarded, Booked

LEMMA StartStep == ASSUME SchInv, NEW e \in Entries, Start(e) PROVE SchInv'
<1>1. pc[e] = "idle" /\ UNCHANGED <<clock, memory, todo, given, registry, outcomes>>
  BY DEF Start
<1>2. /\ SchTyped /\ clock \in Minutes /\ e \in Writers
      /\ clock \in Int /\ now \in [Entries -> Minutes] /\ pc \in [Writers -> Points]
  BY TypedParts, MinutesAreInts DEF SchInv, Writers
<1>3. CASE lock = Free /\ now' = [now EXCEPT ![e] = clock] /\ Locked(e)
  BY <1>1, <1>3, LockedKeeps
<1>4. CASE Expired /\ now' = [now EXCEPT ![e] = clock] /\ Goes(e, "stale") /\ UNCHANGED lock
  <2>1. /\ pc' \in [Writers -> Points] /\ pc'[e] = "stale" /\ \A q \in Writers \ {e} : pc'[q] = pc[q]
    BY <1>2, <1>4, GoesEffect DEF Points
  <2>2. clock - lock.at >= 2
    BY <1>4 DEF Expired
  <2>3. /\ now' \in [Entries -> Minutes] /\ \A f \in Entries \ {e} : now'[f] = now[f]
        /\ now'[e] = clock /\ now'[e] <= clock
    BY <1>2, <1>4
  <2>4. ~Inside(e) /\ ~Inside(e)'
    BY <1>1, <2>1 DEF Inside
  <2> QED BY <1>1, <1>4, <2>1, <2>2, <2>3, <2>4, BeforeLock DEF registry
<1>5. CASE UNCHANGED <<now, lock, pc>>
  <2>1. ~Inside(e) /\ ~Inside(e)' /\ pc'[e] = "idle"
    BY <1>1, <1>5 DEF Inside
  <2>2. now[e] <= clock
    BY DEF SchInv, Guarded, Times
  <2> QED BY <1>1, <1>2, <1>5, <2>1, <2>2, BeforeLock DEF registry
<1> QED BY <1>3, <1>4, <1>5 DEF Start

LEMMA ReclaimStep == ASSUME SchInv, NEW e \in Entries, Reclaim(e) PROVE SchInv'
<1>1. pc[e] = "unlinked" /\ UNCHANGED <<clock, now, memory, todo, given, registry, outcomes>>
  BY DEF Reclaim
<1>2. /\ SchTyped /\ e \in Writers /\ now \in [Entries -> Minutes]
      /\ now[e] = clock /\ clock \in Int
  BY <1>1, TypedParts, MinutesAreInts DEF SchInv, Writers, Guarded, Times
<1>3. CASE lock = Free /\ Locked(e)
  <2>1. now' = [now EXCEPT ![e] = clock]
    BY <1>1, <1>2
  <2> QED BY <1>1, <1>3, <2>1, LockedKeeps
<1>4. CASE Goes(e, "idle") /\ UNCHANGED lock
  <2>1. /\ pc' \in [Writers -> Points] /\ pc'[e] = "idle" /\ \A q \in Writers \ {e} : pc'[q] = pc[q]
    BY <1>2, <1>4, GoesEffect DEF Points
  <2>2. ~Inside(e) /\ ~Inside(e)' /\ now[e] <= clock
    BY <1>1, <1>2, <2>1 DEF Inside
  <2> QED BY <1>1, <1>2, <1>4, <2>1, <2>2, BeforeLock DEF registry
<1> QED BY <1>3, <1>4 DEF Reclaim

\* Unlink and Release free the lock: nobody else was inside, and what ran in this
\* minute is noted in the file.
LEMMA FreeKeeps ==
  ASSUME SchInv, NEW e \in Entries, lock' = Free, Robs(e), ~Holding(e),
         pc' \in [Writers -> Points], pc'[e] \in {"idle", "unlinked"},
         \A q \in Writers \ {e} : pc'[q] = pc[q],
         now' \in [Entries -> Minutes], \A f \in Entries \ {e} : now'[f] = now[f],
         now'[e] <= clock, pc'[e] = "unlinked" => now'[e] = clock,
         mishaps' \cap {"robbed", "clobbered"} = {} => Noted(store, clock),
         UNCHANGED <<clock, store, memory, todo, given, overtaken, outcomes>>
  PROVE  SchInv'
<1>1. /\ SchTyped /\ clock \in Minutes /\ e \in Writers /\ Operator \in Writers \ {e}
      /\ Entries \subseteq Writers
      /\ mishaps \subseteq {"clobbered", "unsaved", "robbed"}
  BY TypedParts DEF SchInv, Writers, SchTyped, SchedulerTypeOK
<1>2. mishaps \subseteq mishaps' /\ mishaps' \subseteq {"clobbered", "unsaved", "robbed"}
  BY <1>1 DEF Robs
<1>3. "robbed" \notin mishaps' => \A f \in Entries : ~Inside(f)'
  <2> SUFFICES ASSUME "robbed" \notin mishaps', NEW f \in Entries, Inside(f)' PROVE FALSE
    OBVIOUS
  <2>1. f # e /\ Inside(f)
    BY <1>1 DEF Inside
  <2>2. lock = [by |-> f, at |-> now[f]]
    BY <1>2, <2>1, Alone
  <2>3. Young /\ lock.by # e
    BY <2>1, <2>2 DEF Young, Alive
  <2> QED BY <2>3 DEF Robs
<1>4. SchTyped'
  BY <1>1, <1>2, LockIsFree, LockTyped
<1>5. Times'
  BY <1>1, LockIsFree DEF SchInv, Guarded, Times, outcomes
<1>6. LockKept'
  BY <1>3 DEF LockKept
<1>7. Copies'
  BY <1>1, LockCopies DEF Holding
<1>8. SlotsNoted'
  <2> SUFFICES ASSUME mishaps' \cap {"robbed", "clobbered"} = {} PROVE SlotsNoted'
    BY DEF SlotsNoted
  <2>1. twice \subseteq unnoted /\ Noted(store, clock)
    BY <1>2 DEF SchInv, Booked, SlotsNoted
  <2>2. \A f \in Entries : ~Inside(f)' /\ pc'[f] # "tick"
    BY <1>3 DEF Inside
  <2> QED BY <2>1, <2>2 DEF SlotsNoted, Noted, Fresh, outcomes
<1>9. TriesCounted'
  <2>1. \A f \in Entries : pc'[f] = pc[f] \/ (~Repeating(f) /\ ~Repeating(f)')
    BY <1>1 DEF Repeating, Holding
  <2>2. UNCHANGED retries
    BY DEF outcomes
  <2> QED BY <1>2, <2>1, <2>2, LockTries
<1> QED BY <1>4, <1>5, <1>6, <1>7, <1>8, <1>9 DEF SchInv, Guarded, Booked

LEMMA UnlinkStep == ASSUME SchInv, NEW e \in Entries, Unlink(e) PROVE SchInv'
<1>1. /\ pc[e] = "stale" /\ lock' = Free /\ Robs(e)
      /\ Goes(e, IF lock = Free THEN "idle" ELSE "unlinked")
      /\ UNCHANGED <<clock, store, now, memory, todo, given, overtaken, outcomes>>
  BY DEF Unlink
<1>2. /\ SchTyped /\ e \in Writers /\ now \in [Entries -> Minutes] /\ clock \in Int
      /\ now[e] = clock /\ (lock.by = e => clock - lock.at >= 2)
      /\ lock \in [by : Entries \cup {NoEntry}, at : Minutes] /\ ran \in [Jobs -> SUBSET Minutes]
  BY <1>1, TypedParts, MinutesAreInts DEF SchInv, Writers, Guarded, Times
<1>3. PICK point : point = IF lock = Free THEN "idle" ELSE "unlinked"
  OBVIOUS
<1>4. Goes(e, point) /\ point \in {"idle", "unlinked"}
  BY <1>1, <1>3
<1>5. /\ pc' \in [Writers -> Points] /\ pc'[e] = point /\ \A q \in Writers \ {e} : pc'[q] = pc[q]
  BY <1>2, <1>4, GoesEffect DEF Points
<1>6. ASSUME mishaps' \cap {"robbed", "clobbered"} = {} PROVE Noted(store, clock)
  <2>1. mishaps \cap {"robbed", "clobbered"} = {} /\ ~(Young /\ lock.by # e)
    BY <1>1, <1>6 DEF Robs
  <2>2. CASE lock = Free
    BY <2>1, <2>2 DEF SchInv, Booked, SlotsNoted
  <2>3. CASE lock # Free
    <3>1. lock.by \in Entries /\ lock.by # NoEntry
      BY <2>3 DEF SchInv, Guarded, Times
    <3>2. lock.at \in Int /\ clock - lock.at >= 2
      <4>1. lock.at \in Int
        BY <1>2, MinutesAreInts
      <4>2. lock.by = e \/ ~(clock - lock.at < 2)
        BY <2>1, <3>1 DEF Young
      <4> QED BY <1>2, <4>1, <4>2
    <3>3. \A j \in Jobs : \A m \in ran[j] : m <= lock.at
      BY <2>1, <2>3 DEF SchInv, Guarded, LockKept
    <3>4. \A j \in Jobs : clock \notin ran[j]
      BY <1>2, <3>2, <3>3
    <3> QED BY <3>4 DEF Noted
  <2> QED BY <2>2, <2>3
<1>7. ~Holding(e) /\ now[e] <= clock
  BY <1>1, <1>2 DEF Holding
<1> QED BY <1>1, <1>2, <1>4, <1>5, <1>6, <1>7, FreeKeeps

LEMMA UnlockStep == ASSUME SchInv, NEW e \in Entries, Release(e) PROVE SchInv'
<1>1. /\ pc[e] = "release" /\ lock' = Free /\ Robs(e) /\ Goes(e, "idle")
      /\ now' = [now EXCEPT ![e] = 0]
      /\ UNCHANGED <<clock, store, memory, todo, given, overtaken, outcomes>>
  BY DEF Release
<1>2. /\ SchTyped /\ e \in Writers /\ now \in [Entries -> Minutes] /\ clock \in Int
      /\ 0 <= clock /\ now[e] <= clock /\ now[e] \in Int /\ 0 \in Minutes
      /\ ran \in [Jobs -> SUBSET Minutes]
  BY TypedParts, MinutesAreInts DEF SchInv, Writers, Guarded, Times, Minutes
<1>3. /\ pc' \in [Writers -> Points] /\ pc'[e] = "idle" /\ \A q \in Writers \ {e} : pc'[q] = pc[q]
  BY <1>1, <1>2, GoesEffect DEF Points
<1>4. /\ now' \in [Entries -> Minutes] /\ now'[e] = 0 /\ \A f \in Entries \ {e} : now'[f] = now[f]
  BY <1>1, <1>2
<1>5. ~Holding(e) /\ Inside(e)
  BY <1>1 DEF Holding, Inside
<1>6. ASSUME mishaps' \cap {"robbed", "clobbered"} = {} PROVE Noted(store, clock)
  <2>1. mishaps \cap {"robbed", "clobbered"} = {}
    BY <1>1, <1>6 DEF Robs
  <2>2. Noted(store, now[e])
    BY <1>1, <1>5, <2>1, InsideFacts
  <2>3. lock = [by |-> e, at |-> now[e]] /\ lock # Free
    BY <1>5, <2>1, Alone
  <2>4. \A j \in Jobs : \A m \in ran[j] : m <= now[e]
    BY <2>1, <2>3 DEF SchInv, Guarded, LockKept
  <2> QED BY <1>2, <2>2, <2>4 DEF Noted
<1> QED BY <1>1, <1>2, <1>3, <1>4, <1>5, <1>6, FreeKeeps

\* A pass that dies leaves the lock and the file; if it had counted repetitions in
\* memory only, they are lost.
LEMMA DieStep == ASSUME SchInv, NEW e \in Entries, Die(e) PROVE SchInv'
<1>1. /\ Goes(e, "idle") /\ now' = [now EXCEPT ![e] = 0]
      /\ mishaps' = (IF pc[e] \in {"retry", "recover", "save", "tick"} /\ memory[e] # store
                     THEN mishaps \cup {"unsaved"} ELSE mishaps)
      /\ memory' = [memory EXCEPT ![e] = Empty]
      /\ overtaken' = overtaken \ {e}
      /\ todo' = [todo EXCEPT ![e] = {}]
      /\ UNCHANGED <<clock, store, lock, given, ran, twice, unnoted, retries>>
  BY DEF Die, outcomes
<1>2. /\ SchTyped /\ e \in Writers /\ now \in [Entries -> Minutes] /\ clock \in Int
      /\ 0 <= clock /\ 0 \in Minutes /\ Entries \subseteq Writers /\ Operator \in Writers \ {e}
      /\ todo \in [Writers -> SUBSET Jobs] /\ DOMAIN memory = Writers
  BY TypedParts, MinutesAreInts DEF SchInv, Writers, Minutes
<1>3. /\ pc' \in [Writers -> Points] /\ pc'[e] = "idle" /\ \A q \in Writers \ {e} : pc'[q] = pc[q]
  BY <1>1, <1>2, GoesEffect DEF Points
<1>4. /\ now' \in [Entries -> Minutes] /\ now'[e] = 0 /\ \A f \in Entries \ {e} : now'[f] = now[f]
      /\ DOMAIN memory' = Writers /\ memory'[e] = Empty
      /\ \A q \in Writers \ {e} : memory'[q] = memory[q] /\ todo'[q] = todo[q]
      /\ todo' \in [Writers -> SUBSET Jobs]
  BY <1>1, <1>2
<1>5. mishaps \subseteq mishaps' /\ mishaps' \subseteq mishaps \cup {"unsaved"}
  BY <1>1
<1>6. \A f \in Entries : (Inside(f)' => f # e /\ Inside(f)) /\ (Repeating(f)' => f # e /\ Repeating(f))
  BY <1>2, <1>3 DEF Inside, Repeating
<1>7. SchTyped'
  <2>1. \A q \in Writers : Registry(memory'[q])
    BY <1>2, <1>4, EmptyType, TypedParts
  <2>2. /\ clock' \in Minutes /\ Registry(store')
        /\ lock' \in [by : Entries \cup {NoEntry}, at : Minutes]
        /\ given' \subseteq Commands /\ overtaken' \subseteq Writers
        /\ mishaps' \subseteq {"clobbered", "unsaved", "robbed"}
        /\ ran' \in [Jobs -> SUBSET Minutes] /\ twice' \cup unnoted' \subseteq Jobs \X Minutes /\ retries' \in [Jobs -> Nat]
    BY <1>1, <1>2, <1>5, TypedParts DEF SchTyped, SchedulerTypeOK
  <2>3. \A q \in Writers :
          pc'[q] \in {"retry", "recover", "tick", "run"} => todo'[q] \subseteq DOMAIN memory'[q]
    BY <1>2, <1>3, <1>4 DEF SchTyped
  <2> QED BY <1>3, <1>4, <2>1, <2>2, <2>3, TypedAgain
<1>8. Times'
  BY <1>1, <1>2, <1>3, <1>4 DEF SchInv, Guarded, Times
<1>9. LockKept'
  BY <1>1, <1>4, <1>5, <1>6 DEF SchInv, Guarded, LockKept
<1>10. Copies'
  <2>1. CopyKept(e)'
    BY <1>3 DEF CopyKept, Holding
  <2> QED BY <1>1, <1>2, <1>3, <1>4, <2>1, CopiesStep
<1>11. SlotsNoted'
  <2> SUFFICES ASSUME mishaps' \cap {"robbed", "clobbered"} = {} PROVE SlotsNoted'
    BY DEF SlotsNoted
  <2>1. SlotsNoted /\ mishaps \cap {"robbed", "clobbered"} = {}
    BY <1>5 DEF SchInv, Booked
  <2>2. (twice \subseteq unnoted)' /\ (lock = Free => Noted(store, clock))'
    BY <1>1, <2>1 DEF SlotsNoted, Noted, Fresh
  <2>3. ASSUME NEW f \in Entries
        PROVE  /\ Inside(f)' /\ pc'[f] # "tick" => Noted(store, now[f])'
               /\ pc'[f] = "tick" =>
                    Noted(memory[f], now[f])' /\ Fresh(f)'
    <3>1. CASE f = e
      BY <1>3, <3>1 DEF Inside
    <3>2. CASE f # e
      <4>1. pc'[f] = pc[f] /\ now'[f] = now[f] /\ memory'[f] = memory[f] /\ todo'[f] = todo[f]
        BY <1>2, <1>3, <1>4, <3>2
      <4> QED BY <1>1, <2>1, <4>1 DEF SlotsNoted, Noted, Fresh, Inside
    <3> QED BY <3>1, <3>2
  <2> QED BY <2>2, <2>3 DEF SlotsNoted
<1>12. TriesCounted'
  <2> SUFFICES ASSUME mishaps' = {} PROVE TriesCounted'
    BY DEF TriesCounted
  <2>1. TriesCounted /\ mishaps = {}
    BY <1>5 DEF SchInv, Booked
  <2>2. Repeating(e) => memory[e] = store
    BY <1>1 DEF Repeating
  <2>3. ASSUME \A f \in Entries : ~Repeating(f)' PROVE Counted(store)'
    <3>1. \A f \in Entries \ {e} : ~Repeating(f)
      BY <1>2, <1>3, <2>3 DEF Repeating
    <3>2. Counted(store)
      BY <2>1, <2>2, <3>1 DEF TriesCounted
    <3> QED BY <1>1, <3>2 DEF Counted
  <2>4. ASSUME NEW f \in Entries, Repeating(f)' PROVE Counted(memory[f])'
    <3>1. f # e /\ Repeating(f) /\ memory'[f] = memory[f]
      BY <1>2, <1>4, <1>6, <2>4
    <3>2. Counted(memory[f])
      BY <2>1, <3>1 DEF TriesCounted
    <3> QED BY <1>1, <3>1, <3>2 DEF Counted
  <2>5. ASSUME NEW f \in Entries, pc'[f] = "tick" PROVE Counted(store)'
    <3>1. pc[f] = "tick"
      BY <1>2, <1>3, <2>5
    <3> QED BY <1>1, <2>1, <3>1 DEF Counted, TriesCounted
  <2> QED BY <2>3, <2>4, <2>5 DEF TriesCounted
<1> QED BY <1>7, <1>8, <1>9, <1>10, <1>11, <1>12 DEF SchInv, Guarded, Booked

LEMMA MinuteStep == ASSUME SchInv, Minute PROVE SchInv'
<1>1. /\ clock < MaxMinute /\ clock' = clock + 1
      /\ \A e \in Entries : pc[e] \in {"idle", "retry", "recover", "save", "tick"}
      /\ UNCHANGED <<store, lock, pc, now, memory, todo, given, overtaken, mishaps, outcomes>>
  BY DEF Minute
<1>2. /\ SchTyped /\ clock \in Minutes /\ clock \in Int /\ ran \in [Jobs -> SUBSET Minutes]
      /\ lock \in [by : Entries \cup {NoEntry}, at : Minutes] /\ now \in [Entries -> Minutes]
      /\ pc \in [Writers -> Points]
      /\ mishaps \subseteq {"clobbered", "unsaved", "robbed"}
  BY TypedParts, MinutesAreInts DEF SchInv, SchTyped, SchedulerTypeOK
<1>3. clock' \in Minutes
  BY <1>1, <1>2 DEF Minutes
<1>4. SchTyped'
  BY <1>1, <1>2, <1>3, LockTyped
<1>5. (\A j \in Jobs : \A m \in ran[j] : m <= clock) /\ Times
  BY DEF SchInv, Guarded, Times
<1>6. /\ \A j \in Jobs : \A m \in ran[j] : m <= clock' /\ m # clock'
      /\ \A e \in Entries : now[e] <= clock' /\ pc[e] \notin {"stale", "unlinked"}
      /\ lock # Free => lock.at <= clock'
  <2>1. \A j \in Jobs : \A m \in ran[j] : m \in Int
    BY <1>2, MinutesAreInts
  <2>2. \A j \in Jobs : \A m \in ran[j] : m <= clock' /\ m # clock'
    BY <1>1, <1>2, <1>5, <2>1
  <2>3. \A e \in Entries : now[e] \in Int /\ now[e] <= clock
    BY <1>2, <1>5, MinutesAreInts DEF Times
  <2>4. lock.at \in Int /\ (lock # Free => lock.at <= clock)
    BY <1>2, <1>5, MinutesAreInts DEF Times
  <2> QED BY <1>1, <1>2, <2>2, <2>3, <2>4
<1>7. Times'
  BY <1>1, <1>5, <1>6 DEF Times, outcomes
<1>8. LockKept'
  BY <1>1 DEF SchInv, Guarded, LockKept, Inside, outcomes
<1>9. Copies'
  BY <1>1, LockCopies
<1>10. SlotsNoted'
  <2>1. SlotsNoted
    BY DEF SchInv, Booked
  <2> QED BY <1>1, <1>6, <2>1 DEF SlotsNoted, Noted, Fresh, Inside, outcomes
<1>11. TriesCounted'
  <2>1. UNCHANGED <<retries, mishaps>> /\ mishaps \subseteq mishaps'
    BY <1>1 DEF outcomes
  <2>2. \A f \in Entries : pc'[f] = pc[f]
    BY <1>1
  <2> QED BY <1>1, <2>1, <2>2, LockTries
<1> QED BY <1>4, <1>7, <1>8, <1>9, <1>10, <1>11 DEF SchInv, Guarded, Booked
-----------------------------------------------------------------------------
(* The operator's commands                                                 *)

\* A step of the operator that leaves the passes, the file and the outcomes alone.
LEMMA OperatorStep ==
  ASSUME SchInv, pc'[Operator] \in {"idle", "run", "write"},
         \A e \in Entries : pc'[e] = pc[e] /\ memory'[e] = memory[e] /\ todo'[e] = todo[e],
         UNCHANGED <<clock, lock, now, store, mishaps, outcomes>>
  PROVE  Guarded' /\ Booked'
<1>1. Times' /\ LockKept'
  BY DEF SchInv, Guarded, Times, LockKept, Inside, outcomes
<1>2. SlotsNoted'
  BY DEF SchInv, Booked, SlotsNoted, Noted, Fresh, Inside, outcomes
<1>3. TriesCounted'
  BY DEF SchInv, Booked, TriesCounted, Counted, Repeating, outcomes
<1> QED BY <1>1, <1>2, <1>3 DEF Guarded, Booked

\* What a command makes of the registry: the jobs that stay keep their minutes and
\* their repetitions.
LEMMA EditedEffect ==
  ASSUME Registry(store), NEW j \in Jobs, NEW c \in {"add", "remove", "enable", "disable", "run"},
         IF c = "add" THEN j \notin DOMAIN store ELSE j \in DOMAIN store
  PROVE  /\ Registry(Edited(c, j))
         /\ \A k \in DOMAIN store \cap DOMAIN Edited(c, j) :
              /\ Edited(c, j)[k].slot = store[k].slot
              /\ Edited(c, j)[k].tries = store[k].tries
         /\ c = "run" => j \in DOMAIN Edited(c, j)
<1>1. CASE c = "add"
  <2>1. PICK new : new = [k \in DOMAIN store \cup {j} |-> IF k = j THEN NewJob ELSE store[k]]
    OBVIOUS
  <2>2. Edited(c, j) = new
    BY <1>1, <2>1 DEF Edited
  <2>3. DOMAIN new = DOMAIN store \cup {j} /\ \A k \in DOMAIN store : new[k] = store[k]
    BY <1>1, <2>1
  <2>4. new[j] \in JobRecords
    BY <2>1, NewJobType
  <2> QED BY <1>1, <2>2, <2>3, <2>4 DEF Registry
<1>2. CASE c = "remove"
  <2>1. Edited(c, j) = [k \in DOMAIN store \ {j} |-> store[k]]
    BY <1>2 DEF Edited
  <2> QED BY <1>2, <2>1 DEF Registry
<1>3. CASE c \in {"enable", "disable"}
  <2>1. PICK on \in BOOLEAN : Edited(c, j) = [store EXCEPT ![j].enabled = on]
    BY <1>3 DEF Edited
  <2>2. PICK rec : rec = [store[j] EXCEPT !.enabled = on]
    OBVIOUS
  <2>3. store[j] \in JobRecords
    BY <1>3 DEF Registry
  <2>4. rec \in JobRecords /\ rec.slot = store[j].slot /\ rec.tries = store[j].tries
    BY <2>2, <2>3 DEF JobRecords
  <2>5. Edited(c, j) = [store EXCEPT ![j] = rec]
    BY <2>1, <2>2
  <2>6. /\ DOMAIN Edited(c, j) = DOMAIN store /\ Edited(c, j)[j] = rec
        /\ \A k \in DOMAIN store \ {j} : Edited(c, j)[k] = store[k]
    BY <1>3, <2>5
  <2> QED BY <1>3, <2>4, <2>6 DEF Registry
<1>4. CASE c = "run"
  <2>1. Edited(c, j) = store
    BY <1>4 DEF Edited
  <2> QED BY <1>4, <2>1
<1> QED BY <1>1, <1>2, <1>3, <1>4

LEMMA CommandStep ==
  ASSUME SchInv, NEW c, NEW j, <<c, j>> \in Commands, Command(c, j) PROVE SchInv'
<1>1. c \in {"add", "remove", "enable", "disable", "run"} /\ j \in Jobs
  OBVIOUS
<1>2. /\ pc[Operator] = "idle" /\ (IF c = "add" THEN j \notin DOMAIN store ELSE j \in DOMAIN store)
      /\ Reads(Operator, Edited(c, j))
      /\ Goes(Operator, IF c = "run" THEN "run" ELSE "write")
      /\ todo' = [todo EXCEPT ![Operator] = {j}]
      /\ given' = given \cup {<<c, j>>}
      /\ UNCHANGED <<clock, lock, now, outcomes>>
  BY DEF Command
<1>3. /\ SchTyped /\ Operator \in Writers /\ \A e \in Entries : e \in Writers \ {Operator}
      /\ todo \in [Writers -> SUBSET Jobs] /\ Registry(store) /\ given \subseteq Commands
  BY TypedParts DEF SchInv, Writers, SchTyped, SchedulerTypeOK
<1>4. PICK copy : copy = Edited(c, j)
  OBVIOUS
<1>5. /\ Registry(copy) /\ (c = "run" => j \in DOMAIN copy)
      /\ \A k \in DOMAIN store \cap DOMAIN copy :
              copy[k].slot = store[k].slot /\ copy[k].tries = store[k].tries
  BY <1>1, <1>2, <1>3, <1>4, EditedEffect
<1>6. Reads(Operator, copy)
  BY <1>2, <1>4
<1>7. PICK point : point = IF c = "run" THEN "run" ELSE "write"
  OBVIOUS
<1>8. /\ pc' \in [Writers -> Points] /\ pc'[Operator] = point /\ point \in {"run", "write"}
      /\ \A q \in Writers \ {Operator} : pc'[q] = pc[q]
  <2>1. Goes(Operator, point) /\ point \in Points /\ point \in {"run", "write"}
    BY <1>2, <1>7 DEF Points
  <2> QED BY <1>3, <2>1, GoesEffect
<1>9. /\ DOMAIN memory' = Writers /\ \A q \in Writers : Registry(memory'[q])
      /\ memory'[Operator] = copy /\ \A q \in Writers \ {Operator} : memory'[q] = memory[q]
      /\ overtaken' = overtaken \ {Operator} /\ UNCHANGED <<store, mishaps>>
  BY <1>3, <1>5, <1>6, ReadsEffect
<1>10. /\ todo' \in [Writers -> SUBSET Jobs] /\ todo'[Operator] = {j}
       /\ \A q \in Writers \ {Operator} : todo'[q] = todo[q]
  BY <1>1, <1>2, <1>3
<1>11. SchTyped'
  <2>1. /\ Registry(store') /\ given' \subseteq Commands /\ twice' \cup unnoted' \subseteq Jobs \X Minutes
        /\ overtaken' \subseteq Writers /\ mishaps' \subseteq {"clobbered", "unsaved", "robbed"}
        /\ ran' \in [Jobs -> SUBSET Minutes] /\ retries' \in [Jobs -> Nat]
        /\ UNCHANGED <<clock, lock, now>>
    BY <1>2, <1>3, <1>9, TypedParts DEF SchTyped, SchedulerTypeOK, outcomes
  <2>2. pc'[Operator] \in {"retry", "recover", "tick", "run"} => todo'[Operator] \subseteq DOMAIN memory'[Operator]
    BY <1>5, <1>7, <1>8, <1>9, <1>10
  <2> QED BY <1>3, <1>8, <1>9, <1>10, <2>1, <2>2, StepTyped
<1>12. Guarded' /\ Booked'
  BY <1>2, <1>3, <1>8, <1>9, <1>10, OperatorStep
<1>13. Copies'
  <2>1. CopyKept(Operator)'
    BY <1>5, <1>8, <1>9 DEF CopyKept
  <2> QED BY <1>3, <1>8, <1>9, <2>1, CopiesStep
<1> QED BY <1>11, <1>12, <1>13 DEF SchInv

LEMMA CommandDispatchStep ==
  ASSUME SchInv, NEW j \in Jobs, CommandDispatch(j) PROVE SchInv'
<1>1. /\ pc[Operator] = "run" /\ j \in todo[Operator] /\ Goes(Operator, "write")
      /\ UNCHANGED <<clock, lock, now, todo, given, registry, outcomes>>
  BY DEF CommandDispatch
<1>2. PICK o \in Ends(j) : Changes(Operator, j, Recorded(memory[Operator][j], o, clock))
  BY DEF CommandDispatch
<1>3. /\ SchTyped /\ Operator \in Writers /\ \A e \in Entries : e \in Writers \ {Operator}
      /\ todo \in [Writers -> SUBSET Jobs] /\ clock \in Minutes
      /\ j \in DOMAIN memory[Operator] /\ memory[Operator][j] \in JobRecords
  BY <1>1, TypedParts DEF SchInv, Writers, SchTyped, Registry
<1>4. PICK r : r = Recorded(memory[Operator][j], o, clock)
  OBVIOUS
<1>5. r \in JobRecords /\ r.slot = memory[Operator][j].slot /\ r.tries = memory[Operator][j].tries
  BY <1>3, <1>4, RecordedType
<1>6. Changes(Operator, j, r)
  BY <1>2, <1>4
<1>7. /\ DOMAIN memory' = Writers /\ \A q \in Writers : Registry(memory'[q])
      /\ DOMAIN memory'[Operator] = DOMAIN memory[Operator] /\ memory'[Operator][j] = r
      /\ \A k \in DOMAIN memory[Operator] \ {j} : memory'[Operator][k] = memory[Operator][k]
      /\ \A q \in Writers \ {Operator} : memory'[q] = memory[q]
  BY <1>3, <1>5, <1>6, ChangesEffect
<1>8. /\ pc' \in [Writers -> Points] /\ pc'[Operator] = "write"
      /\ \A q \in Writers \ {Operator} : pc'[q] = pc[q]
  BY <1>1, <1>3, GoesEffect DEF Points
<1>9. SchTyped'
  <2>1. /\ Registry(store') /\ given' \subseteq Commands /\ twice' \cup unnoted' \subseteq Jobs \X Minutes
        /\ overtaken' \subseteq Writers /\ mishaps' \subseteq {"clobbered", "unsaved", "robbed"}
        /\ ran' \in [Jobs -> SUBSET Minutes] /\ retries' \in [Jobs -> Nat]
        /\ todo' \in [Writers -> SUBSET Jobs] /\ UNCHANGED <<clock, lock, now, todo>>
    BY <1>1, <1>3, TypedParts DEF SchTyped, SchedulerTypeOK, outcomes, registry
  <2> QED BY <1>3, <1>7, <1>8, <2>1, StepTyped
<1>10. UNCHANGED <<store, overtaken, mishaps>>
  BY <1>1 DEF registry
<1>11. Guarded' /\ Booked'
  BY <1>1, <1>3, <1>7, <1>8, <1>10, OperatorStep
<1>12. Copies'
  <2>1. CopyKept(Operator)
    BY <1>3 DEF SchInv, Copies
  <2>2. CopyKept(Operator)'
    BY <1>1, <1>5, <1>7, <1>8, <1>10, <2>1 DEF CopyKept, Holding
  <2> QED BY <1>3, <1>7, <1>8, <1>10, <2>2, CopiesStep
<1> QED BY <1>9, <1>11, <1>12 DEF SchInv

LEMMA CommandThrowsStep ==
  ASSUME SchInv, NEW j \in Jobs, CommandThrows(j) PROVE SchInv'
<1>1. /\ Goes(Operator, "idle") /\ memory' = [memory EXCEPT ![Operator] = Empty]
      /\ todo' = [todo EXCEPT ![Operator] = {}] /\ overtaken' = overtaken \ {Operator}
      /\ UNCHANGED <<clock, store, lock, now, given, mishaps, outcomes>>
  BY DEF CommandThrows
<1>2. /\ SchTyped /\ Operator \in Writers /\ \A e \in Entries : e \in Writers \ {Operator}
      /\ todo \in [Writers -> SUBSET Jobs] /\ DOMAIN memory = Writers
      /\ overtaken \subseteq Writers
  BY TypedParts DEF SchInv, Writers
<1>3. /\ pc' \in [Writers -> Points] /\ pc'[Operator] = "idle"
      /\ \A q \in Writers \ {Operator} : pc'[q] = pc[q]
  BY <1>1, <1>2, GoesEffect DEF Points
<1>4. /\ DOMAIN memory' = Writers /\ memory'[Operator] = Empty
      /\ \A q \in Writers \ {Operator} : memory'[q] = memory[q] /\ todo'[q] = todo[q]
      /\ todo' \in [Writers -> SUBSET Jobs] /\ overtaken' \subseteq Writers
  BY <1>1, <1>2
<1>5. SchTyped'
  <2>1. /\ Registry(store') /\ given' \subseteq Commands
        /\ twice' \cup unnoted' \subseteq Jobs \X Minutes
        /\ mishaps' \subseteq {"clobbered", "unsaved", "robbed"}
        /\ ran' \in [Jobs -> SUBSET Minutes] /\ retries' \in [Jobs -> Nat]
    BY <1>1, <1>2, TypedParts DEF SchTyped, SchedulerTypeOK, outcomes
  <2> QED BY <1>1, <1>2, <1>3, <1>4, <2>1, EmptyType, StepTyped
<1>6. Guarded' /\ Booked'
  BY <1>1, <1>2, <1>3, <1>4, OperatorStep
<1>7. Copies'
  <2>1. CopyKept(Operator)'
    BY <1>3 DEF CopyKept, Holding
  <2> QED BY <1>1, <1>2, <1>3, <1>4, <2>1, CopiesStep
<1> QED BY <1>5, <1>6, <1>7 DEF SchInv

\* The command writes without the lock.  If no pass had written since it read, what
\* was noted for the jobs that stay is still noted.
LEMMA CommandWriteStep == ASSUME SchInv, CommandWrite PROVE SchInv'
<1>1. /\ pc[Operator] = "write" /\ Writes(Operator) /\ Goes(Operator, "idle")
      /\ todo' = [todo EXCEPT ![Operator] = {}] /\ Forgets
      /\ UNCHANGED <<clock, lock, now, given>>
  BY DEF CommandWrite
<1>2. /\ SchTyped /\ Operator \in Writers /\ \A e \in Entries : e \in Writers \ {Operator}
      /\ todo \in [Writers -> SUBSET Jobs]
      /\ ran \in [Jobs -> SUBSET Minutes] /\ retries \in [Jobs -> Nat]
  BY TypedParts DEF SchInv, Writers
<1>3. /\ DOMAIN memory' = Writers /\ \A q \in Writers : Registry(memory'[q])
      /\ \A q \in Writers \ {Operator} : memory'[q] = memory[q]
      /\ store' = memory[Operator] /\ Registry(store')
      /\ overtaken' \subseteq Writers /\ mishaps' \subseteq {"clobbered", "unsaved", "robbed"}
      /\ mishaps \subseteq mishaps' /\ (Operator \in overtaken => "clobbered" \in mishaps')
      /\ mishaps' \subseteq mishaps \cup {"clobbered"}
      /\ \A q \in Writers \ {Operator} : Holding(q) /\ q \notin overtaken' =>
              q \notin overtaken /\ store' = store
  BY <1>1, <1>2, WritesEffect
<1>4. /\ pc' \in [Writers -> Points] /\ pc'[Operator] = "idle"
      /\ \A q \in Writers \ {Operator} : pc'[q] = pc[q]
  BY <1>1, <1>2, GoesEffect DEF Points
<1>5. /\ ran' \in [Jobs -> SUBSET Minutes] /\ retries' \in [Jobs -> Nat] /\ twice' = twice /\ unnoted' = unnoted
      /\ \A j \in Jobs : ran'[j] \subseteq ran[j] /\ (retries'[j] = 0 \/ retries'[j] = retries[j])
      /\ \A j \in Jobs : j \in DOMAIN store /\ j \notin DOMAIN store' => ran'[j] = {} /\ retries'[j] = 0
  BY <1>1, <1>2 DEF Forgets
<1>6. /\ todo' \in [Writers -> SUBSET Jobs]
      /\ \A q \in Writers \ {Operator} : todo'[q] = todo[q]
  BY <1>1, <1>2
<1>7. \A e \in Entries : pc'[e] = pc[e] /\ memory'[e] = memory[e] /\ todo'[e] = todo[e]
  BY <1>2, <1>3, <1>4, <1>6
<1>8. SchTyped'
  <2>1. UNCHANGED <<clock, lock, now>> /\ given' \subseteq Commands /\ twice' \cup unnoted' \subseteq Jobs \X Minutes
    BY <1>1, <1>2, <1>5 DEF SchTyped, SchedulerTypeOK
  <2> QED BY <1>2, <1>3, <1>4, <1>5, <1>6, <2>1, StepTyped
<1>9. Times'
  BY <1>1, <1>4, <1>5, <1>7 DEF SchInv, Guarded, Times
<1>10. LockKept'
  BY <1>1, <1>3, <1>5, <1>7 DEF SchInv, Guarded, LockKept, Inside
<1>11. Copies'
  <2>1. CopyKept(Operator)'
    BY <1>4 DEF CopyKept, Holding
  <2> QED BY <1>2, <1>3, <1>4, <2>1, CopiesStep
<1>12. ASSUME "clobbered" \notin mishaps'
       PROVE  \A j \in DOMAIN store \cap DOMAIN store' :
                store'[j].slot = store[j].slot /\ store'[j].tries = store[j].tries
  <2>1. CopyKept(Operator) /\ Operator \notin overtaken
    BY <1>2, <1>3, <1>12 DEF SchInv, Copies
  <2> QED BY <1>1, <1>3, <2>1 DEF CopyKept, Holding
<1>13. SlotsNoted'
  <2> SUFFICES ASSUME mishaps' \cap {"robbed", "clobbered"} = {} PROVE SlotsNoted'
    BY DEF SlotsNoted
  <2>1. SlotsNoted /\ mishaps \cap {"robbed", "clobbered"} = {}
    BY <1>3 DEF SchInv, Booked
  <2>2. \A j \in DOMAIN store \cap DOMAIN store' : store'[j].slot = store[j].slot
    BY <1>12
  <2>3. ASSUME NEW m, Noted(store, m)
        PROVE  \A j \in Jobs : m \in ran'[j] /\ <<j, m>> \notin unnoted =>
                 j \in DOMAIN store' /\ store'[j].slot = m
    BY <1>5, <2>2, <2>3 DEF Noted
  <2>4. (twice \subseteq unnoted)' /\ (lock = Free => Noted(store, clock))'
    BY <1>1, <1>5, <2>1, <2>3 DEF SlotsNoted, Noted, Fresh
  <2>5. ASSUME NEW f \in Entries
        PROVE  /\ Inside(f)' /\ pc'[f] # "tick" => Noted(store, now[f])'
               /\ pc'[f] = "tick" =>
                    Noted(memory[f], now[f])' /\ Fresh(f)'
    <3>1. /\ pc'[f] = pc[f] /\ now'[f] = now[f] /\ memory'[f] = memory[f] /\ todo'[f] = todo[f]
          /\ unnoted' = unnoted
      BY <1>1, <1>5, <1>7
    <3>2. todo[f] \subseteq Jobs
      BY <1>2
    <3>3. CASE pc[f] = "tick"
      BY <1>5, <2>1, <3>1, <3>2, <3>3 DEF SlotsNoted, Noted, Fresh
    <3>4. CASE pc[f] # "tick"
      BY <2>1, <2>3, <3>1, <3>4 DEF SlotsNoted, Noted, Fresh, Inside
    <3> QED BY <3>3, <3>4
  <2> QED BY <2>4, <2>5 DEF SlotsNoted
<1>14. TriesCounted'
  <2> SUFFICES ASSUME mishaps' = {} PROVE TriesCounted'
    BY DEF TriesCounted
  <2>1. TriesCounted /\ mishaps = {}
    BY <1>3 DEF SchInv, Booked
  <2>2. \A j \in DOMAIN store \cap DOMAIN store' : store'[j].tries = store[j].tries
    BY <1>12
  <2>3. Counted(store) => Counted(store)'
    BY <1>5, <2>2 DEF Counted
  <2>4. \A f \in Entries : Counted(memory[f]) => Counted(memory[f])'
    BY <1>5, <1>7 DEF Counted
  <2> QED BY <1>7, <2>1, <2>3, <2>4 DEF TriesCounted, Repeating
<1> QED BY <1>8, <1>9, <1>10, <1>11, <1>13, <1>14 DEF SchInv, Guarded, Booked
-----------------------------------------------------------------------------
LEMMA InitSchInv == ASSUME SchedulerInit PROVE SchInv
<1>1. /\ clock = 0 /\ store = [j \in Initially |-> NewJob] /\ lock = Free
      /\ pc = [w \in Writers |-> "idle"] /\ now = [e \in Entries |-> 0]
      /\ memory = [w \in Writers |-> Empty] /\ todo = [w \in Writers |-> {}]
      /\ given = {} /\ overtaken = {} /\ mishaps = {}
      /\ ran = [j \in Jobs |-> {}] /\ twice = {} /\ unnoted = {} /\ retries = [j \in Jobs |-> 0]
  BY DEF SchedulerInit
<1>2. Registry(store)
  BY <1>1, NewJobType DEF Registry
<1>3. /\ Entries \subseteq Writers /\ Operator \in Writers /\ 0 \in Minutes /\ 0 \in Nat
      /\ "idle" \in Points
  BY MinutesAreInts DEF Writers, Points
<1>4. SchTyped
  BY <1>1, <1>2, <1>3, EmptyType, LockIsFree DEF SchTyped, SchedulerTypeOK, Registry
<1>5. Guarded
  BY <1>1, <1>3 DEF Guarded, Times, LockKept, Inside
<1>6. Copies
  BY <1>1, <1>3 DEF Copies, CopyKept, Holding
<1>7. Booked
  BY <1>1, <1>3 DEF Booked, SlotsNoted, TriesCounted, Noted, Fresh, Counted, Inside, Repeating
<1> QED BY <1>4, <1>5, <1>6, <1>7 DEF SchInv

LEMMA PassStep == ASSUME SchInv, NEW e \in Entries, Pass(e) PROVE SchInv'
<1>1. CASE Start(e) \/ Unlink(e) \/ Reclaim(e) \/ Release(e) \/ Boot(e)
  BY <1>1, StartStep, UnlinkStep, ReclaimStep, UnlockStep, BootKeeps
<1>2. CASE BootWrite(e)
  BY <1>2, WriteKeeps DEF BootWrite, Holding, Inside
<1>3. CASE Save(e)
  BY <1>3, WriteKeeps DEF Save, Holding, Inside
<1>4. CASE TickWrite(e)
  BY <1>4, WriteKeeps DEF TickWrite, Holding, Inside
<1>5. CASE Rewrite(e)
  BY <1>5, WriteKeeps DEF Rewrite, Holding, Inside
<1>6. CASE Read(e) \/ TickRead(e) \/ Refresh(e)
  BY <1>6, ReadStep, TickReadStep, RefreshStep
<1>7. CASE RetriesDone(e)
  BY <1>7, RetriesDoneStep
<1>8. CASE \E j \in Jobs :
             RetryFailed(e, j) \/ Recover(e, j) \/ TickDispatch(e, j) \/ TickThrows(e, j)
  BY <1>8, RetryFailedStep, RecoverStep, TickDispatchStep, TickThrowsStep
<1> QED BY <1>1, <1>2, <1>3, <1>4, <1>5, <1>6, <1>7, <1>8 DEF Pass

LEMMA SchStep == ASSUME SchInv, [SchedulerNext]_schVars PROVE SchInv'
<1>1. CASE Minute
  BY <1>1, MinuteStep
<1>2. CASE \E e \in Entries : Pass(e)
  BY <1>2, PassStep
<1>3. CASE \E e \in MayDie : Die(e)
  BY <1>3, DieStep
<1>4. CASE \E cj \in Commands : Command(cj[1], cj[2])
  <2>1. PICK cj \in Commands : Command(cj[1], cj[2])
    BY <1>4
  <2>2. PICK c, j : c = cj[1] /\ j = cj[2]
    OBVIOUS
  <2>3. cj = <<c, j>>
    BY <2>2
  <2> QED BY <2>1, <2>2, <2>3, CommandStep
<1>5. CASE \E j \in Jobs : CommandDispatch(j) \/ CommandThrows(j)
  BY <1>5, CommandDispatchStep, CommandThrowsStep
<1>6. CASE CommandWrite
  BY <1>6, CommandWriteStep
<1>7. CASE UNCHANGED schVars
  BY <1>7 DEF schVars, SchInv, SchTyped, SchedulerTypeOK, Guarded, Times, LockKept, Copies, CopyKept,
              Booked, SlotsNoted, TriesCounted, Noted, Fresh, Counted, Inside, Repeating, Holding
<1> QED BY <1>1, <1>2, <1>3, <1>4, <1>5, <1>6, <1>7 DEF SchedulerNext

\* The inductive invariant holds of every behaviour of the scheduler.
THEOREM SchedulerKept == SchedulerSpec => []SchInv
<1>1. SchedulerInit => SchInv
  BY InitSchInv
<1>2. SchInv /\ [SchedulerNext]_schVars => SchInv'
  BY SchStep
<1> QED BY <1>1, <1>2, PTL DEF SchedulerSpec

\* Whatever the passes and the operator do, and wherever a pass dies, the file, the
\* copies in memory and the lock are well formed, and an occurrence is never
\* repeated more often than MAX_STALE_RECOVERIES in any copy of it.
THEOREM SchedulerTyped == SchedulerSpec => []SchedulerTypeOK
<1>1. SchInv => SchedulerTypeOK
  BY DEF SchInv, SchTyped
<1> QED BY <1>1, SchedulerKept, PTL

\* supervise.lock keeps two passes apart, however many crontab entries start them,
\* as long as no pass unlinks a lock that is in use or not yet two minutes old.
THEOREM PassesAlone == SchedulerSpec => []PassesExclude
<1>1. SchInv => PassesExclude
  <2> SUFFICES ASSUME SchInv, "robbed" \notin mishaps, NEW e \in Entries, NEW f \in Entries,
                      Inside(e), Inside(f), e # f
               PROVE  FALSE
    BY DEF PassesExclude
  <2> QED BY Alone
<1> QED BY <1>1, SchedulerKept, PTL

\* No job is dispatched twice for one minute, whichever passes die and whatever
\* the operator changes meanwhile, unless a lock was robbed, a write undid
\* another's, or the tick that dispatched it was left by an exception.
THEOREM SlotsOnce == SchedulerSpec => []OncePerSlot
<1>1. SchInv => OncePerSlot
  BY DEF SchInv, Booked, SlotsNoted, OncePerSlot
<1> QED BY <1>1, SchedulerKept, PTL

\* Between two occurrences of a job its dispatch is repeated at most
\* MAX_STALE_RECOVERIES times, by all passes together.
THEOREM RetriesBounded == SchedulerSpec => []StaleBudget
<1>1. SchInv => StaleBudget
  <2> SUFFICES ASSUME SchInv, mishaps = {}, NEW j \in Jobs PROVE retries[j] <= MaxRecoveries
    BY DEF StaleBudget
  <2>1. ASSUME NEW s, Registry(s), Counted(s) PROVE retries[j] <= MaxRecoveries
    <3>1. retries[j] \in Nat
      BY TypedParts DEF SchInv
    <3>2. CASE retries[j] = 0
      BY <3>2
    <3>3. CASE retries[j] # 0
      <4>1. s[j] \in JobRecords /\ retries[j] <= s[j].tries
        BY <2>1, <3>3 DEF Registry, Counted
      <4>2. s[j].tries \in 0..MaxRecoveries
        BY <4>1, RecordFields
      <4> QED BY <3>1, <4>1, <4>2
    <3> QED BY <3>2, <3>3
  <2>2. CASE \E e \in Entries : Repeating(e)
    <3>1. PICK e \in Entries : Repeating(e)
      BY <2>2
    <3>2. Registry(memory[e]) /\ Counted(memory[e])
      BY <3>1, TypedParts DEF SchInv, Booked, TriesCounted, Writers
    <3>3. PICK s : s = memory[e]
      OBVIOUS
    <3> QED BY <2>1, <3>2, <3>3
  <2>3. CASE \A e \in Entries : ~Repeating(e)
    <3>1. Registry(store) /\ Counted(store)
      BY <2>3, TypedParts DEF SchInv, Booked, TriesCounted
    <3> QED BY <2>1, <3>1
  <2> QED BY <2>2, <2>3
<1> QED BY <1>1, SchedulerKept, PTL
=============================================================================
