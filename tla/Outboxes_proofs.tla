-------------------------- MODULE Outboxes_proofs --------------------------
(***************************************************************************)
(* Theorems about the two outboxes: DecisionHolds, for any holds, keys,    *)
(* planners and users, whichever of them may crash, and PlaybookRuntime,   *)
(* for any Playbook, any sets of planners and adapters, any bounds, and    *)
(* leases that lapse or not.                                               *)
(***************************************************************************)
EXTENDS DecisionHolds, PlaybookRuntime, TLAPS

Notifying(c, h) == step[c] = [op |-> "notify", h |-> h]

\* Whoever inserted a hold notifies of it, once, and nobody else does.
NotificationOwed ==
  \A h \in Holds :
    /\ status[h] = "absent" => notified[h] = 0 /\ \A c \in Callers : ~Notifying(c, h)
    /\ \A c \in Callers : Notifying(c, h) =>
         /\ notified[h] = 0
         /\ \A d \in Callers : Notifying(d, h) => d = c

\* What a planner selected is in the outbox, what it delivers is dispatched,
\* and what it has delivered it does not select again.
SelectionIsFenced ==
  \A p \in Planners, r \in Rows :
    /\ told[p][r] > 0 => outbox[r] = "dispatched"
    /\ step[p].op \in {"drain", "deliver"} /\ r \in step[p].rows =>
         outbox[r] # "absent" /\ told[p][r] = 0
    /\ step[p].op = "deliver" /\ r \in step[p].rows => outbox[r] = "dispatched"

HoldInv == HoldTypeOK /\ OneNotification /\ NotificationOwed /\ OneAnswer
             /\ ResumedOncePerPlanner /\ SelectionIsFenced

USE HoldAssumption, HoldCallerAssumption DEF Callers
-----------------------------------------------------------------------------
\* What a stretch of each kind has selected.
LEMMA StepShapes ==
  ASSUME HoldTypeOK, NEW c \in Callers
  PROVE  /\ step[c].op \in {"create", "notify"} =>
              step[c] = [op |-> step[c].op, h |-> step[c].h] /\ step[c].h \in Holds
         /\ step[c].op = "expire" => step[c].now \subseteq Holds
         /\ step[c].op \in {"drain", "deliver"} =>
              step[c] = [op |-> step[c].op, rows |-> step[c].rows] /\ step[c].rows \subseteq Rows
<1> step[c] \in Steps
  BY DEF HoldTypeOK
<1> QED
  BY DEF Steps, Idle

LEMMA GoTypes ==
  ASSUME HoldTypeOK, NEW c \in Callers, NEW s \in Steps, Go(c, s)
  PROVE  /\ step' \in [Callers -> Steps]
         /\ step'[c] = s
         /\ \A d \in Callers : d # c => step'[d] = step[d]
  BY DEF HoldTypeOK, Go

LEMMA StepKinds ==
  /\ Idle \in Steps
  /\ \A h \in Holds : [op |-> "create", h |-> h] \in Steps /\ [op |-> "notify", h |-> h] \in Steps
  /\ \A now \in SUBSET Holds : [op |-> "expire", now |-> now] \in Steps
  /\ \A rows \in SUBSET Rows : /\ [op |-> "drain", rows |-> rows] \in Steps
                               /\ [op |-> "deliver", rows |-> rows] \in Steps
  BY DEF Steps, Idle

\* A delivery attempt, whether the message goes or not, drops one row.
LEMMA DropRow ==
  ASSUME HoldTypeOK, NEW p \in Planners, NEW r \in step[p].rows, step[p].op = "deliver",
         Go(p, IF step[p].rows = {r} THEN Idle ELSE [step[p] EXCEPT !.rows = @ \ {r}])
  PROVE  /\ step' \in [Callers -> Steps]
         /\ \A d \in Callers : d # p => step'[d] = step[d]
         /\ step'[p] = Idle \/ step'[p] = [op |-> "deliver", rows |-> step[p].rows \ {r}]
<1> DEFINE s == IF step[p].rows = {r} THEN Idle ELSE [step[p] EXCEPT !.rows = @ \ {r}]
<1>1. step[p] = [op |-> "deliver", rows |-> step[p].rows] /\ step[p].rows \subseteq Rows
  BY StepShapes
<1>2. s = Idle \/ s = [op |-> "deliver", rows |-> step[p].rows \ {r}]
  BY <1>1
<1>3. s \in Steps
  BY <1>1, <1>2, StepKinds
<1> HIDE DEF s
<1>4. QED
  BY <1>2, <1>3, GoTypes DEF s

LEMMA CountOne ==
  ASSUME told \in [Planners -> [Rows -> Nat]], NEW p \in Planners, NEW r \in Rows,
         told' = [told EXCEPT ![p][r] = @ + 1]
  PROVE  /\ told' \in [Planners -> [Rows -> Nat]]
         /\ told'[p][r] = told[p][r] + 1
         /\ \A q \in Planners, x \in Rows : q # p \/ x # r => told'[q][x] = told[q][x]
<1>1. told' = [told EXCEPT ![p] = [told[p] EXCEPT ![r] = told[p][r] + 1]]
  OBVIOUS
<1>2. [told[p] EXCEPT ![r] = told[p][r] + 1] \in [Rows -> Nat]
  OBVIOUS
<1>3. QED
  BY <1>1, <1>2
-----------------------------------------------------------------------------
\* Types

LEMMA CreateTypes ==
  ASSUME HoldTypeOK, NEW c \in Callers,
         (\E h \in Holds : CreateRead(c, h)) \/ CreateWrite(c) \/ Notify(c)
  PROVE  HoldTypeOK'
<1>1. CASE \E h \in Holds : CreateRead(c, h)
  <2>1. step' \in [Callers -> Steps]
    BY <1>1, GoTypes, StepKinds DEF CreateRead
  <2>2. QED
    BY <1>1, <2>1 DEF HoldTypeOK, CreateRead
<1>2. CASE CreateWrite(c)
  <2>1. step[c].h \in Holds
    BY <1>2, StepShapes DEF CreateWrite
  <2>2. step' \in [Callers -> Steps]
    BY <1>2, <2>1, GoTypes, StepKinds DEF CreateWrite
  <2>3. QED
    BY <1>2, <2>1, <2>2 DEF HoldTypeOK, CreateWrite
<1>3. CASE Notify(c)
  <2>1. step' \in [Callers -> Steps]
    BY <1>3, GoTypes, StepKinds DEF Notify
  <2>2. step[c].h \in Holds
    BY <1>3, StepShapes DEF Notify
  <2>3. notified' \in [Holds -> Nat]
    BY <1>3, <2>2 DEF HoldTypeOK, Notify
  <2>4. QED
    BY <1>3, <2>1, <2>3 DEF HoldTypeOK, Notify
<1>4. QED
  BY <1>1, <1>2, <1>3

LEMMA ResolveTypes ==
  ASSUME HoldTypeOK, NEW c \in Callers, NEW h \in Holds,
         NEW to \in {"answered", "cancelled"}, NEW k \in Keys, Resolve(c, h, to, k)
  PROVE  HoldTypeOK'
<1>1. outbox' \in [Rows -> {"absent", "pending", "dispatched"}]
  BY DEF HoldTypeOK, Resolve, Enqueue
<1>2. QED
  BY <1>1 DEF HoldTypeOK, Resolve

LEMMA ExpiryTypes ==
  ASSUME HoldTypeOK, NEW p \in Planners, ExpireRead(p) \/ ExpireWrite(p)
  PROVE  HoldTypeOK'
<1>1. step' \in [Callers -> Steps]
  <2>1. due \subseteq Holds
    BY DEF HoldTypeOK
  <2>2. QED
    BY <2>1, GoTypes, StepKinds DEF ExpireRead, ExpireWrite
<1>2. QED
  BY <1>1 DEF HoldTypeOK, ExpireRead, ExpireWrite

LEMMA DrainTypes ==
  ASSUME HoldTypeOK, NEW p \in Planners, DrainRead(p) \/ DrainWrite(p)
  PROVE  HoldTypeOK'
<1>1. CASE DrainRead(p)
  <2>1. Pending \subseteq Rows
    BY DEF Pending
  <2>2. QED
    BY <1>1, <2>1, GoTypes, StepKinds DEF HoldTypeOK, DrainRead
<1>2. CASE DrainWrite(p)
  <2>1. step' \in [Callers -> Steps]
    BY <1>2, GoTypes, StepKinds, StepShapes DEF DrainWrite
  <2>2. QED
    BY <1>2, <2>1 DEF HoldTypeOK, DrainWrite
<1>3. QED
  BY <1>1, <1>2

LEMMA DeliverTypes ==
  ASSUME HoldTypeOK, NEW p \in Planners, Deliver(p) \/ DeliveryFails(p)
  PROVE  HoldTypeOK'
<1>1. PICK r \in step[p].rows :
        /\ step[p].op = "deliver"
        /\ Go(p, IF step[p].rows = {r} THEN Idle ELSE [step[p] EXCEPT !.rows = @ \ {r}])
        /\ \/ told' = [told EXCEPT ![p][r] = @ + 1] /\ UNCHANGED lost
           \/ lost' = lost \cup {r} /\ UNCHANGED told
        /\ UNCHANGED <<status, due, ops, outbox, notified>>
  BY DEF Deliver, DeliveryFails
<1>2. step' \in [Callers -> Steps] /\ r \in Rows
  BY <1>1, DropRow, StepShapes
<1>3. told' \in [Planners -> [Rows -> Nat]]
  BY <1>1, <1>2, CountOne DEF HoldTypeOK
<1>4. QED
  BY <1>1, <1>2, <1>3 DEF HoldTypeOK

LEMMA CrashTypes ==
  ASSUME HoldTypeOK, NEW c \in Callers, HoldCrash(c)
  PROVE  HoldTypeOK'
<1>1. step' \in [Callers -> Steps]
  BY GoTypes, StepKinds DEF HoldCrash
<1>2. lost' \subseteq Rows
  BY StepShapes DEF HoldTypeOK, HoldCrash
<1>3. QED
  BY <1>1, <1>2 DEF HoldTypeOK, HoldCrash

-----------------------------------------------------------------------------
\* The single notification

\* Nobody starts to notify and no hold disappears.
LEMMA NotifyFrame ==
  ASSUME OneNotification, NotificationOwed, UNCHANGED notified,
         \A h \in Holds : status'[h] = "absent" => status[h] = "absent",
         \A d \in Callers, h \in Holds : Notifying(d, h)' => Notifying(d, h)
  PROVE  OneNotification' /\ NotificationOwed'
  BY DEF OneNotification, NotificationOwed

LEMMA SameSteps ==
  ASSUME UNCHANGED step
  PROVE  \A d \in Callers, h \in Holds : Notifying(d, h)' => Notifying(d, h)
  BY DEF Notifying

LEMMA CreateNotifies ==
  ASSUME HoldTypeOK, OneNotification, NotificationOwed, NEW c \in Callers, CreateWrite(c)
  PROVE  OneNotification' /\ NotificationOwed'
<1> DEFINE h == step[c].h
<1>1. h \in Holds
  BY StepShapes DEF CreateWrite
<1>2. CASE status[h] = "absent"
  <2>1. /\ step'[c] = [op |-> "notify", h |-> h]
        /\ \A d \in Callers : d # c => step'[d] = step[d]
    BY <1>1, <1>2, GoTypes, StepKinds DEF CreateWrite
  <2>2. /\ notified' = notified
        /\ status'[h] = "open"
        /\ \A g \in Holds : g # h => status'[g] = status[g]
    BY <1>1, <1>2 DEF CreateWrite, HoldTypeOK
  <2>3. \A g \in Holds : Notifying(c, g)' => g = h
    <3> SUFFICES ASSUME NEW g \in Holds, Notifying(c, g)' PROVE g = h
      OBVIOUS
    <3>1. [op |-> "notify", h |-> g].h = [op |-> "notify", h |-> h].h
      BY <2>1 DEF Notifying
    <3>2. QED
      BY <3>1
  <2>4. \A d \in Callers, g \in Holds : d # c => (Notifying(d, g)' <=> Notifying(d, g))
    BY <2>1 DEF Notifying
  <2>5. notified[h] = 0 /\ \A d \in Callers : ~Notifying(d, h)
    BY <1>1, <1>2 DEF NotificationOwed
  <2>6. QED
    BY <1>1, <2>2, <2>3, <2>4, <2>5 DEF OneNotification, NotificationOwed
<1>3. CASE status[h] # "absent"
  <2>1. step'[c] = Idle /\ \A d \in Callers : d # c => step'[d] = step[d]
    BY <1>1, <1>3, GoTypes, StepKinds DEF CreateWrite
  <2>2. \A d \in Callers, g \in Holds : Notifying(d, g)' => Notifying(d, g)
    BY <2>1 DEF Notifying, Idle
  <2>3. QED
    BY <1>3, <2>2, NotifyFrame DEF CreateWrite
<1>4. QED
  BY <1>2, <1>3

LEMMA NotifyNotifies ==
  ASSUME HoldTypeOK, OneNotification, NotificationOwed, NEW c \in Callers, Notify(c)
  PROVE  OneNotification' /\ NotificationOwed'
<1> DEFINE h == step[c].h
<1>1. h \in Holds /\ Notifying(c, h)
  BY StepShapes DEF Notify, Notifying
<1>2. step'[c] = Idle /\ \A d \in Callers : d # c => step'[d] = step[d]
  BY GoTypes, StepKinds DEF Notify
<1>3. /\ status' = status
      /\ notified'[h] = notified[h] + 1
      /\ \A g \in Holds : g # h => notified'[g] = notified[g]
  BY <1>1 DEF HoldTypeOK, Notify
<1>4. notified[h] = 0 /\ \A d \in Callers : Notifying(d, h) => d = c
  BY <1>1 DEF NotificationOwed
<1>5. \A d \in Callers, g \in Holds : Notifying(d, g)' => d # c /\ Notifying(d, g)
  BY <1>2 DEF Notifying, Idle
<1>6. \A g \in Holds : status'[g] = "absent" => g # h
  BY <1>1, <1>3 DEF NotificationOwed
<1>7. QED
  BY <1>1, <1>3, <1>4, <1>5, <1>6 DEF OneNotification, NotificationOwed

LEMMA OthersDoNotNotify ==
  ASSUME HoldTypeOK, NEW c \in Callers, NEW s \in Steps, Go(c, s), s.op # "notify"
  PROVE  \A d \in Callers, h \in Holds : Notifying(d, h)' => Notifying(d, h)
<1>1. step'[c] = s /\ \A d \in Callers : d # c => step'[d] = step[d]
  BY GoTypes
<1>2. QED
  BY <1>1 DEF Notifying
-----------------------------------------------------------------------------
\* The single answer

LEMMA AnswerFrame ==
  ASSUME OneAnswer,
         \A h \in Holds : status'[h] = "answered" <=> status[h] = "answered",
         \A r \in Rows : outbox'[r] = "absent" <=> outbox[r] = "absent"
  PROVE  OneAnswer'
  BY DEF OneAnswer, Rows

LEMMA ResolveAnswers ==
  ASSUME HoldTypeOK, OneAnswer, NEW c \in Callers, NEW h \in Holds,
         NEW to \in {"answered", "cancelled"}, NEW k \in Keys, Resolve(c, h, to, k)
  PROVE  OneAnswer'
<1>1. \A l \in Keys : <<h, l>> \in Rows /\ outbox[<<h, l>>] = "absent"
  BY DEF OneAnswer, Resolve, Rows
<1>2. status'[h] = to /\ \A g \in Holds : g # h => status'[g] = status[g]
  BY DEF HoldTypeOK, Resolve
<1>3. CASE to = "cancelled"
  BY <1>2, <1>3, AnswerFrame DEF Resolve
<1>4. CASE to = "answered"
  <2>1. /\ outbox'[<<h, k>>] = "pending"
        /\ \A r \in Rows : r # <<h, k>> => outbox'[r] = outbox[r]
    BY <1>1, <1>4 DEF HoldTypeOK, Resolve, Enqueue
  <2>2. \A l \in Keys : outbox'[<<h, l>>] # "absent" => l = k
    BY <1>1, <2>1
  <2>3. \A g \in Holds, l \in Keys : g # h => outbox'[<<g, l>>] = outbox[<<g, l>>]
    BY <2>1 DEF Rows
  <2>4. QED
    BY <1>2, <1>4, <2>1, <2>2, <2>3 DEF OneAnswer
<1>5. QED
  BY <1>3, <1>4
-----------------------------------------------------------------------------
\* The single resume message per planner

Resume == ResumedOncePerPlanner /\ SelectionIsFenced

\* Rows are added, stretches end or select other things.
LEMMA ResumeFrame ==
  ASSUME HoldTypeOK, Resume, UNCHANGED told,
         \A r \in Rows : outbox'[r] = outbox[r] \/ (outbox[r] = "absent" /\ outbox'[r] = "pending"),
         \A p \in Planners : step'[p] = step[p] \/ step'[p].op \notin {"drain", "deliver"}
  PROVE  Resume'
  BY DEF Resume, ResumedOncePerPlanner, SelectionIsFenced

LEMMA ResumeGo ==
  ASSUME HoldTypeOK, Resume, NEW c \in Callers, NEW s \in Steps, Go(c, s),
         s.op \notin {"drain", "deliver"}, UNCHANGED <<told, outbox>>
  PROVE  Resume'
<1>1. step'[c] = s /\ \A d \in Callers : d # c => step'[d] = step[d]
  BY GoTypes
<1>2. \A p \in Planners : step'[p] = step[p] \/ step'[p].op \notin {"drain", "deliver"}
  BY <1>1
<1>3. \A r \in Rows : outbox'[r] = outbox[r]
  OBVIOUS
<1>4. UNCHANGED told
  OBVIOUS
<1>5. QED
  BY <1>2, <1>3, <1>4, ResumeFrame

LEMMA SelectResumes ==
  ASSUME HoldTypeOK, Resume, NEW p \in Planners, DrainRead(p)
  PROVE  Resume'
<1>1. step'[p] = [op |-> "drain", rows |-> Pending] /\ \A q \in Planners : q # p => step'[q] = step[q]
  BY GoTypes, StepKinds DEF DrainRead, Pending
<1>2. \A r \in Rows : r \in Pending => outbox[r] = "pending" /\ told[p][r] = 0
  BY DEF Pending, Resume, SelectionIsFenced, HoldTypeOK
<1>3. UNCHANGED <<told, outbox>>
  BY DEF DrainRead
<1>4. QED
  BY <1>1, <1>2, <1>3 DEF Resume, ResumedOncePerPlanner, SelectionIsFenced

LEMMA DispatchResumes ==
  ASSUME HoldTypeOK, Resume, NEW p \in Planners, DrainWrite(p)
  PROVE  Resume'
<1> DEFINE R == step[p].rows
<1>1. /\ step'[p] = [op |-> "deliver", rows |-> R]
      /\ \A q \in Planners : q # p => step'[q] = step[q]
  BY GoTypes, StepKinds, StepShapes, ZenonT(30) DEF DrainWrite
<1>2. UNCHANGED told
  BY DEF DrainWrite
<1>3. \A r \in Rows : outbox'[r] = IF r \in R /\ outbox[r] = "pending" THEN "dispatched"
                                                                      ELSE outbox[r]
  BY DEF DrainWrite
<1>4. \A r \in R \cap Rows : outbox'[r] = "dispatched" /\ told[p][r] = 0
  BY <1>3 DEF DrainWrite, Resume, SelectionIsFenced, HoldTypeOK
<1> HIDE DEF R
<1>5. \A q \in Planners, r \in Rows : told'[q][r] > 0 => outbox'[r] = "dispatched"
  BY <1>2, <1>3 DEF Resume, SelectionIsFenced
<1>6. ASSUME NEW q \in Planners, NEW r \in Rows, step'[q].op \in {"drain", "deliver"},
             r \in step'[q].rows
      PROVE  /\ outbox'[r] # "absent" /\ told'[q][r] = 0
             /\ step'[q].op = "deliver" => outbox'[r] = "dispatched"
  <2>1. CASE q = p
    BY <1>1, <1>2, <1>4, <1>6, <2>1
  <2>2. CASE q # p
    BY <1>1, <1>2, <1>3, <1>6, <2>2 DEF Resume, SelectionIsFenced
  <2>3. QED
    BY <2>1, <2>2
<1>7. QED
  BY <1>2, <1>5, <1>6 DEF Resume, ResumedOncePerPlanner, SelectionIsFenced

LEMMA DeliverResumes ==
  ASSUME HoldTypeOK, Resume, NEW p \in Planners, Deliver(p) \/ DeliveryFails(p)
  PROVE  Resume'
<1>1. PICK r \in step[p].rows :
        /\ step[p].op = "deliver"
        /\ Go(p, IF step[p].rows = {r} THEN Idle ELSE [step[p] EXCEPT !.rows = @ \ {r}])
        /\ \/ told' = [told EXCEPT ![p][r] = @ + 1]
           \/ UNCHANGED told
        /\ UNCHANGED outbox
  BY DEF Deliver, DeliveryFails
<1>2. /\ r \in Rows
      /\ \A q \in Planners : q # p => step'[q] = step[q]
      /\ step'[p] = Idle \/ step'[p] = [op |-> "deliver", rows |-> step[p].rows \ {r}]
  BY <1>1, DropRow, StepShapes
<1>3. told[p][r] = 0 /\ outbox[r] = "dispatched"
  BY <1>1, <1>2 DEF Resume, SelectionIsFenced
<1>4. /\ \A q \in Planners, x \in Rows : q # p \/ x # r => told'[q][x] = told[q][x]
      /\ told'[p][r] \in {0, 1}
  BY <1>1, <1>2, <1>3, CountOne DEF HoldTypeOK
<1>5. \A x \in Rows : step'[p].op \in {"drain", "deliver"} /\ x \in step'[p].rows
                        => x # r /\ x \in step[p].rows /\ step'[p].op = "deliver"
  BY <1>2 DEF Idle
<1>6. ResumedOncePerPlanner'
  BY <1>2, <1>4 DEF Resume, ResumedOncePerPlanner
<1>7. \A q \in Planners, x \in Rows : told'[q][x] > 0 => outbox'[x] = "dispatched"
  BY <1>1, <1>3, <1>4 DEF Resume, SelectionIsFenced
<1>8. ASSUME NEW q \in Planners, NEW x \in Rows, step'[q].op \in {"drain", "deliver"},
             x \in step'[q].rows
      PROVE  /\ outbox'[x] # "absent" /\ told'[q][x] = 0
             /\ step'[q].op = "deliver" => outbox'[x] = "dispatched"
  <2>1. CASE q = p
    BY <1>1, <1>4, <1>5, <1>8, <2>1 DEF Resume, SelectionIsFenced
  <2>2. CASE q # p
    BY <1>1, <1>2, <1>4, <1>8, <2>2 DEF Resume, SelectionIsFenced
  <2>3. QED
    BY <2>1, <2>2
<1>9. QED
  BY <1>6, <1>7, <1>8 DEF Resume, SelectionIsFenced
-----------------------------------------------------------------------------
\* The inductive step, one case per action

LEMMA InitHolds == HoldInit => HoldInv
<1> SUFFICES ASSUME HoldInit PROVE HoldInv
  OBVIOUS
<1>1. HoldTypeOK
  BY StepKinds DEF HoldInit, HoldTypeOK
<1>2. OneNotification /\ NotificationOwed
  BY DEF HoldInit, OneNotification, NotificationOwed, Notifying, Idle
<1>3. OneAnswer
  BY DEF HoldInit, OneAnswer, Rows
<1>4. ResumedOncePerPlanner /\ SelectionIsFenced
  BY DEF HoldInit, ResumedOncePerPlanner, SelectionIsFenced, Idle
<1>5. QED
  BY <1>1, <1>2, <1>3, <1>4 DEF HoldInv

LEMMA HoldStep == HoldInv /\ [HoldNext]_vars => HoldInv'
<1> DEFINE Inv == /\ HoldTypeOK /\ OneNotification /\ NotificationOwed
                  /\ OneAnswer /\ Resume
<1> SUFFICES ASSUME Inv, [HoldNext]_vars PROVE Inv'
  BY DEF HoldInv, Resume
<1>1. ASSUME NEW c \in Callers, NEW h \in Holds, CreateRead(c, h) PROVE Inv'
  <2>1. [op |-> "create", h |-> h] \in Steps
    BY StepKinds
  <2>2. Resume'
    BY <1>1, <2>1, ResumeGo DEF CreateRead
  <2>3. OneNotification' /\ NotificationOwed'
    BY <1>1, <2>1, OthersDoNotNotify, NotifyFrame DEF CreateRead
  <2>4. OneAnswer'
    BY <1>1, AnswerFrame DEF CreateRead
  <2>5. QED
    BY <1>1, <2>2, <2>3, <2>4, CreateTypes
<1>2. ASSUME NEW c \in Callers, CreateWrite(c) PROVE Inv'
  <2>1. step[c].h \in Holds
    BY <1>2, StepShapes DEF CreateWrite
  <2>2. PICK s \in {Idle, [op |-> "notify", h |-> step[c].h]} : Go(c, s)
    BY <1>2 DEF CreateWrite
  <2>3. s \in Steps /\ s.op \notin {"drain", "deliver"}
    <3>1. CASE s = Idle
      BY <3>1, StepKinds DEF Idle
    <3>2. CASE s = [op |-> "notify", h |-> step[c].h]
      BY <2>1, <3>2, StepKinds
    <3>3. QED
      BY <2>2, <3>1, <3>2
  <2>4. Resume'
    BY <1>2, <2>2, <2>3, ResumeGo DEF CreateWrite
  <2>5. OneAnswer'
    <3>1. \A h \in Holds : status'[h] = "answered" <=> status[h] = "answered"
      BY <1>2 DEF CreateWrite, HoldTypeOK
    <3>2. QED
      BY <1>2, <3>1, AnswerFrame DEF CreateWrite
  <2>6. QED
    BY <1>2, <2>4, <2>5, CreateTypes, CreateNotifies
<1>3. ASSUME NEW c \in Callers, Notify(c) PROVE Inv'
  <2>1. Idle \in Steps /\ Idle.op = "idle"
    BY StepKinds DEF Idle
  <2>2. Resume'
    BY <1>3, <2>1, ResumeGo DEF Notify
  <2>3. OneAnswer'
    BY <1>3, AnswerFrame DEF Notify
  <2>4. QED
    BY <1>3, <2>2, <2>3, CreateTypes, NotifyNotifies
<1>4. ASSUME NEW c \in Callers, NEW h \in Holds, NEW to \in {"answered", "cancelled"},
             NEW k \in Keys, Resolve(c, h, to, k)
      PROVE  Inv'
  <2>1. \A r \in Rows : outbox'[r] = outbox[r] \/ (outbox[r] = "absent" /\ outbox'[r] = "pending")
    <3>1. CASE to = "answered"
      <4>1. outbox' = [outbox EXCEPT ![<<h, k>>] = IF @ = "absent" THEN "pending" ELSE @]
        BY <1>4, <3>1 DEF Resolve, Enqueue
      <4>2. QED
        BY <4>1 DEF HoldTypeOK
    <3>2. CASE to = "cancelled"
      <4>1. UNCHANGED outbox
        BY <1>4, <3>2 DEF Resolve
      <4>2. QED
        BY <4>1
    <3>3. QED
      BY <3>1, <3>2
  <2>2. Resume'
    BY <1>4, <2>1, ResumeFrame DEF Resolve
  <2>3. \A g \in Holds : status'[g] = "absent" => status[g] = "absent"
    BY <1>4 DEF Resolve, HoldTypeOK
  <2>4. OneNotification' /\ NotificationOwed'
    BY <1>4, <2>3, SameSteps, NotifyFrame DEF Resolve
  <2>5. QED
    BY <1>4, <2>2, <2>4, ResolveTypes, ResolveAnswers
<1>5. ASSUME NEW p \in Planners, ExpireRead(p) \/ ExpireWrite(p) PROVE Inv'
  <2>1. due \subseteq Holds
    BY DEF HoldTypeOK
  <2>2. PICK s \in {Idle, [op |-> "expire", now |-> due]} : Go(p, s)
    BY <1>5 DEF ExpireRead, ExpireWrite
  <2>3. s \in Steps /\ s.op \notin {"notify", "drain", "deliver"}
    BY <2>1, <2>2, StepKinds DEF Idle
  <2>4. Resume'
    BY <1>5, <2>2, <2>3, ResumeGo DEF ExpireRead, ExpireWrite
  <2>5. /\ \A h \in Holds : status'[h] = "absent" => status[h] = "absent"
        /\ \A h \in Holds : status'[h] = "answered" <=> status[h] = "answered"
    BY <1>5 DEF ExpireRead, ExpireWrite, Overdue
  <2>6. OneNotification' /\ NotificationOwed'
    BY <1>5, <2>2, <2>3, <2>5, OthersDoNotNotify, NotifyFrame DEF ExpireRead, ExpireWrite
  <2>7. OneAnswer'
    BY <1>5, <2>5, AnswerFrame DEF ExpireRead, ExpireWrite
  <2>8. QED
    BY <1>5, <2>4, <2>6, <2>7, ExpiryTypes
<1>6. ASSUME NEW p \in Planners, DrainRead(p) \/ DrainWrite(p) PROVE Inv'
  <2>1. Pending \subseteq Rows
    BY DEF Pending
  <2>2. PICK s \in Steps : Go(p, s) /\ s.op \in {"drain", "deliver"}
    <3>1. CASE DrainRead(p)
      <4>1. [op |-> "drain", rows |-> Pending] \in Steps /\ [op |-> "drain", rows |-> Pending].op = "drain"
        BY <2>1, StepKinds
      <4>2. QED
        BY <3>1, <4>1 DEF DrainRead
    <3>2. CASE DrainWrite(p)
      <4> DEFINE t == [op |-> "deliver", rows |-> step[p].rows]
      <4>1. step[p].rows \subseteq Rows
        BY <3>2, StepShapes DEF DrainWrite
      <4>2. t \in Steps /\ t.op = "deliver"
        BY <4>1, StepKinds
      <4>3. Go(p, t)
        BY <3>2 DEF DrainWrite
      <4> HIDE DEF t
      <4>4. QED
        BY <4>2, <4>3
    <3>3. QED
      BY <1>6, <3>1, <3>2
  <2>3. OneNotification' /\ NotificationOwed'
    BY <1>6, <2>2, OthersDoNotNotify, NotifyFrame DEF DrainRead, DrainWrite
  <2>4. OneAnswer'
    <3>1. \A r \in Rows : outbox'[r] = "absent" <=> outbox[r] = "absent"
      BY <1>6 DEF DrainRead, DrainWrite
    <3>2. QED
      BY <1>6, <3>1, AnswerFrame DEF DrainRead, DrainWrite
  <2>5. QED
    BY <1>6, <2>3, <2>4, DrainTypes, SelectResumes, DispatchResumes
<1>7. ASSUME NEW p \in Planners, Deliver(p) \/ DeliveryFails(p) PROVE Inv'
  <2>1. \A d \in Callers, h \in Holds : Notifying(d, h)' => Notifying(d, h)
    <3>1. PICK r \in step[p].rows :
            /\ step[p].op = "deliver"
            /\ Go(p, IF step[p].rows = {r} THEN Idle ELSE [step[p] EXCEPT !.rows = @ \ {r}])
      BY <1>7 DEF Deliver, DeliveryFails
    <3>2. /\ \A d \in Callers : d # p => step'[d] = step[d]
          /\ step'[p] = Idle \/ step'[p] = [op |-> "deliver", rows |-> step[p].rows \ {r}]
      BY <3>1, DropRow
    <3>3. step'[p].op # "notify"
      BY <3>2 DEF Idle
    <3>4. QED
      BY <3>2, <3>3 DEF Notifying
  <2>2. OneNotification' /\ NotificationOwed'
    BY <1>7, <2>1, NotifyFrame DEF Deliver, DeliveryFails
  <2>3. OneAnswer'
    BY <1>7, AnswerFrame DEF Deliver, DeliveryFails
  <2>4. QED
    BY <1>7, <2>2, <2>3, DeliverTypes, DeliverResumes
<1>8. ASSUME NEW h \in Holds, OpenApproval(h) \/ FallDue(h) PROVE Inv'
  <2>1. HoldTypeOK'
    BY <1>8 DEF HoldTypeOK, OpenApproval, FallDue
  <2>2. Resume'
    <3>1. UNCHANGED <<told, outbox, step>>
      BY <1>8 DEF OpenApproval, FallDue
    <3>2. \A r \in Rows : outbox'[r] = outbox[r]
      BY <3>1
    <3>3. \A p \in Planners : step'[p] = step[p]
      BY <3>1
    <3>4. UNCHANGED told
      BY <3>1
    <3>5. QED
      BY <3>2, <3>3, <3>4, ResumeFrame
  <2>3. /\ \A g \in Holds : status'[g] = "absent" => status[g] = "absent"
        /\ \A g \in Holds : status'[g] = "answered" <=> status[g] = "answered"
    BY <1>8 DEF OpenApproval, FallDue, HoldTypeOK
  <2>4. OneNotification' /\ NotificationOwed'
    BY <1>8, <2>3, SameSteps, NotifyFrame DEF OpenApproval, FallDue
  <2>5. OneAnswer'
    BY <1>8, <2>3, AnswerFrame DEF OpenApproval, FallDue
  <2>6. QED
    BY <2>1, <2>2, <2>4, <2>5
<1>9. ASSUME NEW c \in Callers, HoldCrash(c) PROVE Inv'
  <2>1. Idle \in Steps /\ Idle.op = "idle"
    BY StepKinds DEF Idle
  <2>2. Resume'
    BY <1>9, <2>1, ResumeGo DEF HoldCrash
  <2>3. OneNotification' /\ NotificationOwed'
    BY <1>9, <2>1, OthersDoNotNotify, NotifyFrame DEF HoldCrash
  <2>4. OneAnswer'
    BY <1>9, AnswerFrame DEF HoldCrash
  <2>5. QED
    BY <1>9, <2>2, <2>3, <2>4, CrashTypes
<1>10. CASE UNCHANGED vars
  BY <1>10 DEF vars, HoldTypeOK, OneNotification, NotificationOwed, Notifying, OneAnswer,
               Resume, ResumedOncePerPlanner, SelectionIsFenced
<1>11. QED
  BY <1>1, <1>2, <1>3, <1>4, <1>5, <1>6, <1>7, <1>8, <1>9, <1>10
     DEF HoldNext, HoldCall, HoldContinue
-----------------------------------------------------------------------------
\* The states of the model are well-typed: a process selects only holds and
\* rows that may exist, whatever it does with them later.
THEOREM HoldTypesAreCorrect == HoldSpec => []HoldTypeOK
<1>1. HoldInv => HoldTypeOK
  BY DEF HoldInv
<1>2. QED
  BY InitHolds, HoldStep, <1>1, PTL DEF HoldSpec

\* decision_hold_create notifies at most once per hold, for ever, although its
\* SELECT and its INSERT are apart and anybody may crash.
THEOREM NotificationIsSingle == HoldSpec => []OneNotification
<1>1. HoldInv => OneNotification
  BY DEF HoldInv
<1>2. QED
  BY InitHolds, HoldStep, <1>1, PTL DEF HoldSpec

\* resolveDecisionHold: a hold has a resume row exactly when it is answered,
\* and never two.
THEOREM AnswerIsSingle == HoldSpec => []OneAnswer
<1>1. HoldInv => OneAnswer
  BY DEF HoldInv
<1>2. QED
  BY InitHolds, HoldStep, <1>1, PTL DEF HoldSpec

\* drainDecisionHoldOutbox: no planner is told twice of one answer, although
\* the rows are selected outside the transaction that dispatches them.
THEOREM ResumeIsSingle == HoldSpec => []ResumedOncePerPlanner
<1>1. HoldInv => ResumedOncePerPlanner
  BY DEF HoldInv
<1>2. QED
  BY InitHolds, HoldStep, <1>1, PTL DEF HoldSpec
-----------------------------------------------------------------------------
\* Refinement of DecisionGate

Owed == {h \in Holds : \E k \in Keys : outbox[<<h, k>>] = "pending"}

LEMMA GateStutters ==
  ASSUME UNCHANGED <<status, outbox>>
  PROVE  UNCHANGED <<status, Owed>>
  BY DEF Owed

LEMMA GateStep ==
  HoldInv /\ [HoldNext]_vars => [Gate!GateNext]_<<status, Owed>>
<1> SUFFICES ASSUME HoldInv, HoldNext
             PROVE  Gate!GateNext \/ UNCHANGED <<status, Owed>>
  BY GateStutters DEF vars
<1>0. HoldTypeOK /\ OneAnswer
  BY DEF HoldInv
<1>1. ASSUME NEW c \in Callers, CreateWrite(c)
      PROVE  Gate!GateNext \/ UNCHANGED <<status, Owed>>
  <2>1. step[c].h \in Holds /\ UNCHANGED Owed
    BY <1>0, <1>1, StepShapes DEF CreateWrite, Owed
  <2>2. CASE status[step[c].h] = "absent"
    <3>1. Gate!Ask(step[c].h)
      BY <1>1, <2>1, <2>2 DEF CreateWrite, Gate!Ask, Owed
    <3>2. QED
      BY <2>1, <3>1 DEF Gate!GateNext
  <2>3. CASE status[step[c].h] # "absent"
    BY <1>1, <2>1, <2>3 DEF CreateWrite
  <2>4. QED
    BY <2>2, <2>3
<1>2. ASSUME NEW h \in Holds, OpenApproval(h)
      PROVE  Gate!GateNext
  <2>1. Gate!Ask(h)
    BY <1>2 DEF OpenApproval, Gate!Ask, Owed
  <2>2. QED
    BY <2>1 DEF Gate!GateNext
<1>3. ASSUME NEW c \in Callers, NEW h \in Holds, NEW to \in {"answered", "cancelled"},
             NEW k \in Keys, Resolve(c, h, to, k)
      PROVE  Gate!GateNext
  <2>1. CASE to = "cancelled"
    <3>1. UNCHANGED Owed
      BY <1>3, <2>1 DEF Resolve, Owed
    <3>2. Gate!Settle(h)
      BY <1>3, <2>1, <3>1 DEF Resolve, Gate!Settle, Owed
    <3>3. QED
      BY <3>2 DEF Gate!GateNext
  <2>2. CASE to = "answered"
    <3>1. <<h, k>> \in Rows /\ outbox[<<h, k>>] = "absent"
      BY <1>0, <1>3 DEF OneAnswer, Resolve, Rows
    <3>2. /\ outbox'[<<h, k>>] = "pending"
          /\ \A g \in Holds, l \in Keys : g # h => outbox'[<<g, l>>] = outbox[<<g, l>>]
      BY <1>0, <1>3, <2>2, <3>1 DEF Resolve, Enqueue, HoldTypeOK, Rows
    <3>3. Owed' = Owed \cup {h}
      BY <3>2 DEF Owed
    <3>4. Gate!Settle(h)
      BY <1>3, <2>2, <3>3 DEF Resolve, Gate!Settle, Owed
    <3>5. QED
      BY <3>4 DEF Gate!GateNext
  <2>3. QED
    BY <2>1, <2>2
<1>4. ASSUME NEW p \in Planners, ExpireWrite(p)
      PROVE  Gate!GateNext
  <2> DEFINE S == Overdue(step[p].now)
  <2>1. S \subseteq Holds /\ \A h \in S : status[h] = "open"
    BY <1>0, <1>4, StepShapes DEF ExpireWrite, Overdue
  <2>2. Gate!Lapse(S)
    BY <1>4, <2>1 DEF ExpireWrite, Gate!Lapse, Owed
  <2>3. QED
    BY <2>1, <2>2 DEF Gate!GateNext
<1>5. ASSUME NEW p \in Planners, DrainWrite(p)
      PROVE  Gate!GateNext
  <2>1. Owed' \subseteq Owed
    BY <1>5 DEF DrainWrite, Owed, Rows
  <2>2. PICK S \in SUBSET Holds : Owed' = Owed \ S
    <3>1. Owed' = Owed \ (Owed \ Owed') /\ (Owed \ Owed') \in SUBSET Holds
      BY <2>1 DEF Owed
    <3>2. QED
      BY <3>1
  <2>3. Gate!HandOver(S)
    BY <1>5, <2>2 DEF DrainWrite, Gate!HandOver, Owed
  <2>4. QED
    BY <2>3 DEF Gate!GateNext
<1>6. CASE \/ \E c \in Callers : (\E h \in Holds : CreateRead(c, h)) \/ Notify(c) \/ HoldCrash(c)
           \/ \E p \in Planners : \/ ExpireRead(p) \/ DrainRead(p)
                                  \/ Deliver(p) \/ DeliveryFails(p)
           \/ \E h \in Holds : FallDue(h)
  <2>1. UNCHANGED <<status, outbox>>
    BY <1>6 DEF CreateRead, Notify, HoldCrash, ExpireRead, DrainRead, Deliver, DeliveryFails,
                FallDue
  <2>2. QED
    BY <2>1, GateStutters
<1>7. QED
  BY <1>1, <1>2, <1>3, <1>4, <1>5, <1>6 DEF HoldNext, HoldCall, HoldContinue

\* The rows, the two-step expiry and the drain implement DecisionGate: a hold
\* is asked once and settled once, whoever races, and is owed to a planner from
\* its answer to its dispatch.
THEOREM HoldsImplementGate == HoldSpec => ImplementsGate
<1>1. HoldInit => Gate!GateInit
  BY DEF HoldInit, Gate!GateInit, Rows
<1>2. HoldInv /\ [HoldNext]_vars => [Gate!GateNext]_<<status, {h \in Holds : \E k \in Keys : outbox[<<h, k>>] = "pending"}>>
  BY GateStep DEF Owed
<1>3. QED
  BY InitHolds, HoldStep, <1>1, <1>2, PTL DEF HoldSpec, ImplementsGate, Gate!GateSpec
-----------------------------------------------------------------------------
(* PlaybookRuntime                                                         *)

\* The state is at most one generation past the last transition, and then
\* blocked; rows and reads are never ahead of it.
Generations ==
  /\ runtime.generation > MaxGeneration => runtime.state = Blocked
  /\ \A k \in EffectKeys : effectRows[k].delivery # "absent" => k[2] <= runtime.generation

\* What a process read still describes the state it read it from, as long as
\* the generation is the same.
ReadsAreFenced ==
  \A p \in Movers : checked[p].op = "transition" =>
    /\ checked[p].generation <= runtime.generation
    /\ checked[p].generation = runtime.generation => runtime.state \in From[checked[p].t]

\* A row that can still fail has attempts left.
AttemptsLeft ==
  \A k \in EffectKeys : effectRows[k].delivery \in {"absent", "pending", "leased", "failed"}
                    => effectRows[k].attempts < MaxAttempts

\* An adapter remembers only effects it leases or that were acknowledged
\* behind its back: no other adapter can take those.
WorkIsTaken ==
  \A a \in Adapters, k \in EffectKeys : k \in working[a] =>
    /\ effectRows[k].delivery \in {"leased", "delivered"}
    /\ effectRows[k].delivery = "leased" => effectRows[k].owner = a

FencedInv  == PlaybookTypeOK /\ Generations /\ ReadsAreFenced
                /\ OneTransitionPerGeneration /\ AttemptsLeft
LeasingInv == WorkIsTaken /\ ExclusiveExecutor /\ ApprovalGates

USE PlaybookAssumption, PartyAssumption, BoundAssumption DEF Parties
-----------------------------------------------------------------------------
LEMMA KeyParts ==
  ASSUME NEW k \in EffectKeys
  PROVE  /\ k[1] \in Transitions /\ k[2] \in 1..MaxGeneration /\ k[3] \in EffectIds
         /\ k[3] \in Effects[k[1]]
  BY DEF EffectKeys

\* A fenced transition: the rows it adds are all of its own generation.
LEMMA EmitStep ==
  ASSUME FencedInv, NEW t \in Transitions, NEW g \in 1..MaxGeneration, Emit(t, g)
  PROVE  /\ effectRows' \in [EffectKeys -> Row]
         /\ hold' \in [EffectKeys -> {"none", "open", "answered", "cancelled", "expired"}]
         /\ \A k \in EffectKeys : \/ effectRows'[k] = effectRows[k]
                            \/ /\ k[1] = t /\ k[2] = g
                               /\ effectRows[k].delivery = "absent"
                               /\ effectRows'[k].delivery = "pending"
                               /\ effectRows'[k].attempts = 0
         /\ \A k \in EffectKeys : effectRows'[k].delivery = "absent" => effectRows[k].delivery = "absent"
         /\ \A k \in EffectKeys : hold[k] # "none" => hold'[k] = hold[k]
<1> DEFINE fresh == NewRow("pending")
           added == {k \in EffectKeys : k \in Emitted(t, g) /\ effectRows[k].delivery = "absent"}
<1>1. /\ fresh \in Row
      /\ fresh.delivery = "pending" /\ fresh.attempts = 0
  BY DEF NewRow, Row
<1>2. /\ effectRows \in [EffectKeys -> Row]
      /\ effectRows' = [k \in EffectKeys |-> IF k \in added THEN fresh ELSE effectRows[k]]
  BY DEF FencedInv, PlaybookTypeOK, Emit
<1>3. \A k \in added : k[1] = t /\ k[2] = g /\ effectRows[k].delivery = "absent"
  BY DEF Emitted
<1>4. /\ hold \in [EffectKeys -> {"none", "open", "answered", "cancelled", "expired"}]
      /\ hold' = [k \in EffectKeys |-> IF /\ k \in Emitted(t, g)
                                   /\ Kind[k[3]] = "human_approval" /\ hold[k] = "none"
                                  THEN "open" ELSE hold[k]]
  BY DEF FencedInv, PlaybookTypeOK, Emit
<1>5. /\ hold' \in [EffectKeys -> {"none", "open", "answered", "cancelled", "expired"}]
      /\ \A k \in EffectKeys : hold[k] # "none" => hold'[k] = hold[k]
  BY <1>4
<1> HIDE DEF fresh, added
<1>6. effectRows' \in [EffectKeys -> Row]
  BY <1>1, <1>2
<1>7. \A k \in EffectKeys : k \notin added => effectRows'[k] = effectRows[k]
  BY <1>2
<1>8. \A k \in EffectKeys : k \in added => effectRows'[k] = fresh
  BY <1>2
<1>9. QED
  BY <1>1, <1>3, <1>5, <1>6, <1>7, <1>8

LEMMA WriteFenced ==
  ASSUME FencedInv, NEW p \in Movers, TransitionWrite(p)
  PROVE  FencedInv'
<1>1. /\ checked[p].t \in Transitions /\ checked[p].generation \in 0..(MaxGeneration - 1)
      /\ checked[p].generation + 1 \in 1..MaxGeneration
  BY DEF FencedInv, PlaybookTypeOK, TransitionWrite, AtRest
<1>2. checked' \in [Movers -> {AtRest} \cup [op: {"transition"}, t: Transitions,
                                          generation: 0..(MaxGeneration - 1)]]
  BY DEF FencedInv, PlaybookTypeOK, TransitionWrite
<1>3. CASE runtime.generation # checked[p].generation
  <2>1. UNCHANGED <<runtime, effectRows, hold, evidence, run, working>>
    BY <1>3 DEF TransitionWrite
  <2>2. \A q \in Movers : checked'[q] = checked[q] \/ checked'[q] = AtRest
    BY DEF FencedInv, PlaybookTypeOK, TransitionWrite
  <2>3. ReadsAreFenced'
    BY <2>1, <2>2 DEF FencedInv, ReadsAreFenced, AtRest
  <2>4. QED
    BY <1>2, <2>1, <2>3 DEF FencedInv, PlaybookTypeOK, Generations, AttemptsLeft,
                            OneTransitionPerGeneration
<1>4. CASE runtime.generation = checked[p].generation
  <2> DEFINE t == checked[p].t
             g == checked[p].generation + 1
  <2>1. /\ runtime' = [state |-> To[t], generation |-> g]
        /\ Emit(t, g) /\ UNCHANGED <<evidence, run, working>>
    BY <1>4 DEF TransitionWrite
  <2>2. /\ effectRows' \in [EffectKeys -> Row]
        /\ hold' \in [EffectKeys -> {"none", "open", "answered", "cancelled", "expired"}]
        /\ \A k \in EffectKeys : \/ effectRows'[k] = effectRows[k]
                           \/ /\ k[1] = t /\ k[2] = g
                              /\ effectRows[k].delivery = "absent"
                              /\ effectRows'[k].delivery = "pending"
                              /\ effectRows'[k].attempts = 0
    BY <1>1, <2>1, EmitStep
  <2>3. PlaybookTypeOK'
    BY <1>1, <1>2, <2>1, <2>2 DEF FencedInv, PlaybookTypeOK
  <2>4. \A k \in EffectKeys : effectRows[k].delivery # "absent" => k[2] < g
    <3> SUFFICES ASSUME NEW k \in EffectKeys, effectRows[k].delivery # "absent" PROVE k[2] < g
      OBVIOUS
    <3>1. k[2] <= runtime.generation
      BY DEF FencedInv, Generations
    <3>2. QED
      BY <1>1, <1>4, <3>1, KeyParts
  <2>5. Generations'
    <3>1. runtime'.generation = g /\ g \in 1..MaxGeneration
      BY <1>1, <2>1
    <3>2. \A k \in EffectKeys : effectRows'[k].delivery # "absent" => k[2] <= g
      BY <1>1, <2>2, <2>4, KeyParts
    <3>3. QED
      BY <3>1, <3>2 DEF Generations
  <2>6. OneTransitionPerGeneration'
    <3> SUFFICES ASSUME NEW k \in EffectKeys, NEW l \in EffectKeys,
                        effectRows'[k].delivery # "absent", effectRows'[l].delivery # "absent",
                        k[2] = l[2]
                 PROVE  k[1] = l[1]
      BY DEF OneTransitionPerGeneration
    <3>1. CASE effectRows'[k] = effectRows[k] /\ effectRows'[l] = effectRows[l]
      BY <3>1 DEF FencedInv, OneTransitionPerGeneration
    <3>2. CASE effectRows'[k] # effectRows[k]
      <4>1. k[1] = t /\ k[2] = g
        BY <2>2, <3>2
      <4>2. l[2] = g /\ ~(l[2] < g)
        BY <1>1, <4>1
      <4>3. effectRows[l].delivery = "absent"
        BY <2>4, <4>2
      <4>4. QED
        BY <2>2, <4>1, <4>3
    <3>3. CASE effectRows'[l] # effectRows[l]
      <4>1. l[1] = t /\ l[2] = g
        BY <2>2, <3>3
      <4>2. k[2] = g /\ effectRows[k].delivery = "absent"
        BY <1>1, <2>4, <4>1
      <4>3. QED
        BY <2>2, <4>1, <4>2
    <3>4. QED
      BY <3>1, <3>2, <3>3
  <2>7. AttemptsLeft'
    BY <2>2 DEF FencedInv, AttemptsLeft
  <2>8. ReadsAreFenced'
    <3> SUFFICES ASSUME NEW q \in Movers, checked'[q].op = "transition"
                 PROVE  /\ checked'[q].generation <= runtime'.generation
                        /\ checked'[q].generation # runtime'.generation
      BY DEF ReadsAreFenced
    <3>1. checked'[q] = checked[q]
      BY DEF FencedInv, PlaybookTypeOK, TransitionWrite, AtRest
    <3>2. checked[q].generation <= runtime.generation /\ checked[q].generation \in Int
      BY <3>1 DEF FencedInv, ReadsAreFenced, PlaybookTypeOK, AtRest
    <3>3. QED
      BY <1>1, <1>4, <2>1, <3>1, <3>2
  <2>9. QED
    BY <2>3, <2>5, <2>6, <2>7, <2>8 DEF FencedInv
<1>5. QED
  BY <1>3, <1>4

\* A step that changes one row, to a row that exists.
LEMMA RowStep ==
  ASSUME FencedInv, NEW k \in EffectKeys, NEW r \in Row,
         effectRows[k].delivery # "absent", r.delivery # "absent",
         r.delivery \in {"pending", "leased", "failed"} => r.attempts < MaxAttempts,
         effectRows' = [effectRows EXCEPT ![k] = r],
         UNCHANGED <<runtime, checked>>
  PROVE  /\ effectRows' \in [EffectKeys -> Row]
         /\ Generations' /\ ReadsAreFenced' /\ OneTransitionPerGeneration' /\ AttemptsLeft'
<1>1. effectRows' \in [EffectKeys -> Row]
  BY DEF FencedInv, PlaybookTypeOK
<1>2. \A l \in EffectKeys : effectRows'[l] = IF l = k THEN r ELSE effectRows[l]
  BY DEF FencedInv, PlaybookTypeOK
<1>3. \A l \in EffectKeys : effectRows'[l].delivery # "absent" <=> effectRows[l].delivery # "absent"
  BY <1>2
<1>4. Generations' /\ ReadsAreFenced'
  BY <1>3 DEF FencedInv, Generations, ReadsAreFenced
<1>5. OneTransitionPerGeneration'
  BY <1>3 DEF FencedInv, OneTransitionPerGeneration
<1>6. AttemptsLeft'
  BY <1>2 DEF FencedInv, AttemptsLeft
<1>7. QED
  BY <1>1, <1>4, <1>5, <1>6

LEMMA Init_FencedInv == PlaybookInit => FencedInv /\ LeasingInv
<1> SUFFICES ASSUME PlaybookInit PROVE FencedInv /\ LeasingInv
  OBVIOUS
<1>1. /\ effectRows \in [EffectKeys -> Row]
      /\ \A k \in EffectKeys : effectRows[k].delivery = "absent" /\ effectRows[k].attempts = 0
  BY DEF PlaybookInit, NewRow, Row
<1>2. PlaybookTypeOK
  BY <1>1 DEF PlaybookInit, PlaybookTypeOK
<1>3. Generations /\ ReadsAreFenced /\ OneTransitionPerGeneration /\ AttemptsLeft
  BY <1>1 DEF PlaybookInit, Generations, ReadsAreFenced, OneTransitionPerGeneration,
              AttemptsLeft, AtRest
<1>4. LeasingInv
  BY <1>1 DEF PlaybookInit, LeasingInv, WorkIsTaken, ExclusiveExecutor, ApprovalGates
<1>5. QED
  BY <1>2, <1>3, <1>4 DEF FencedInv

LEMMA ClaimFenced ==
  ASSUME FencedInv, NEW a \in Adapters, NEW k \in EffectKeys, Claim(a, k)
  PROVE  FencedInv'
<1> DEFINE r == [effectRows[k] EXCEPT !.delivery = "leased", !.owner = a, !.lapsed = FALSE]
<1>1. effectRows[k] \in Row
  BY DEF FencedInv, PlaybookTypeOK
<1>2. r \in Row /\ r.delivery = "leased" /\ r.attempts < MaxAttempts
  BY <1>1 DEF Row, Claim, FencedInv, AttemptsLeft
<1>3. effectRows' = [effectRows EXCEPT ![k] = r] /\ effectRows[k].delivery # "absent"
  BY DEF Claim, Lease
<1> HIDE DEF r
<1>4. /\ effectRows' \in [EffectKeys -> Row]
      /\ Generations' /\ ReadsAreFenced' /\ OneTransitionPerGeneration' /\ AttemptsLeft'
  BY <1>2, <1>3, RowStep DEF Claim
<1>5. PlaybookTypeOK'
  BY <1>4 DEF FencedInv, PlaybookTypeOK, Claim, Lease
<1>6. QED
  BY <1>4, <1>5 DEF FencedInv

LEMMA LapseFenced ==
  ASSUME FencedInv, NEW k \in EffectKeys, LeaseLapses(k)
  PROVE  FencedInv'
<1> DEFINE r == [effectRows[k] EXCEPT !.lapsed = TRUE]
<1>1. effectRows[k] \in Row
  BY DEF FencedInv, PlaybookTypeOK
<1>2. r \in Row /\ r.delivery = "leased" /\ r.attempts < MaxAttempts
  BY <1>1 DEF Row, LeaseLapses, FencedInv, AttemptsLeft
<1>3. effectRows' = [effectRows EXCEPT ![k] = r] /\ effectRows[k].delivery # "absent"
  BY DEF LeaseLapses
<1> HIDE DEF r
<1>4. /\ effectRows' \in [EffectKeys -> Row]
      /\ Generations' /\ ReadsAreFenced' /\ OneTransitionPerGeneration' /\ AttemptsLeft'
  BY <1>2, <1>3, RowStep DEF LeaseLapses
<1>5. PlaybookTypeOK'
  BY <1>4 DEF FencedInv, PlaybookTypeOK, LeaseLapses
<1>6. QED
  BY <1>4, <1>5 DEF FencedInv

LEMMA AckFenced ==
  ASSUME FencedInv, NEW c \in Parties, NEW k \in EffectKeys, Ack(c, k)
  PROVE  FencedInv'
<1> DEFINE r == [effectRows[k] EXCEPT !.delivery = "delivered", !.owner = NoOwner, !.lapsed = FALSE]
<1>1. effectRows[k] \in Row
  BY DEF FencedInv, PlaybookTypeOK
<1>2. r \in Row /\ r.delivery = "delivered"
  BY <1>1 DEF Row
<1>3. effectRows' = [effectRows EXCEPT ![k] = r] /\ effectRows[k].delivery # "absent"
  BY DEF Ack, MayAck, MarkDelivered
<1> HIDE DEF r
<1>4. /\ effectRows' \in [EffectKeys -> Row]
      /\ Generations' /\ ReadsAreFenced' /\ OneTransitionPerGeneration' /\ AttemptsLeft'
  BY <1>2, <1>3, RowStep DEF Ack
<1>5. PlaybookTypeOK'
  BY <1>4 DEF FencedInv, PlaybookTypeOK, Ack, MarkDelivered
<1>6. QED
  BY <1>4, <1>5 DEF FencedInv

\* A dead letter moves the state to a new generation, or leaves it alone.
LEMMA FailFenced ==
  ASSUME FencedInv, NEW a \in Adapters, NEW k \in EffectKeys, NEW max \in 1..MaxAttempts,
         Fail(a, k, max)
  PROVE  FencedInv'
<1> DEFINE n == effectRows[k].attempts + 1
           dead == n >= max
           r == [delivery |-> IF dead THEN "dead_letter" ELSE "failed",
                 owner |-> NoOwner, lapsed |-> FALSE, attempts |-> n]
<1>1. effectRows[k].delivery = "leased" /\ effectRows[k].attempts \in 0..MaxAttempts
  BY DEF FencedInv, PlaybookTypeOK, Row, Fail, Leases
<1>2. effectRows[k].attempts < MaxAttempts
  BY <1>1 DEF FencedInv, AttemptsLeft
<1>3. n \in 0..MaxAttempts
  BY <1>1, <1>2
<1>4. /\ r \in Row /\ r.delivery \in {"failed", "dead_letter"}
      /\ r.delivery = "failed" => r.attempts < MaxAttempts
  <2>1. CASE dead
    BY <1>3, <2>1 DEF Row
  <2>2. CASE ~dead
    BY <1>3, <2>2 DEF Row
  <2>3. QED
    BY <2>1, <2>2
<1>5. effectRows' = [effectRows EXCEPT ![k] = r] /\ checked' = checked /\ evidence' = evidence /\ hold' = hold
  BY DEF Fail
<1>6. working' \in [Parties -> SUBSET EffectKeys]
  BY DEF Fail, FencedInv, PlaybookTypeOK
<1>7. UNCHANGED <<runtime, run>> \/ DeadLetter
  BY DEF Fail
<1> HIDE DEF r, n, dead
<1>8. /\ effectRows' \in [EffectKeys -> Row]
      /\ \A l \in EffectKeys : effectRows'[l] = IF l = k THEN r ELSE effectRows[l]
  BY <1>4, <1>5 DEF FencedInv, PlaybookTypeOK
<1>9. AttemptsLeft' /\ OneTransitionPerGeneration'
  BY <1>1, <1>4, <1>8 DEF FencedInv, AttemptsLeft, OneTransitionPerGeneration
<1>10. run' \in {"active", "failed", "closed"}
  BY <1>7 DEF DeadLetter, FencedInv, PlaybookTypeOK
<1>11. CASE runtime' = runtime
  <2>1. Generations' /\ ReadsAreFenced'
    BY <1>1, <1>5, <1>8, <1>11 DEF FencedInv, Generations, ReadsAreFenced
  <2>2. QED
    BY <1>5, <1>6, <1>8, <1>9, <1>10, <1>11, <2>1 DEF FencedInv, PlaybookTypeOK
<1>12. CASE runtime' # runtime
  <2>1. /\ Blocked \in States /\ runtime.state # Blocked
        /\ runtime' = [state |-> Blocked, generation |-> runtime.generation + 1]
    BY <1>7, <1>12 DEF DeadLetter
  <2>2. runtime.generation \in 0..MaxGeneration
    BY <2>1 DEF FencedInv, PlaybookTypeOK, Generations
  <2>3. runtime' \in [state: States, generation: 0..(MaxGeneration + 1)]
    BY <2>1, <2>2
  <2>4. Generations'
    <3>1. runtime'.state = Blocked
      BY <2>1
    <3>2. \A l \in EffectKeys : effectRows'[l].delivery # "absent" => l[2] <= runtime'.generation
      <4> SUFFICES ASSUME NEW l \in EffectKeys, effectRows'[l].delivery # "absent"
                   PROVE  l[2] <= runtime'.generation
        OBVIOUS
      <4>1. l[2] <= runtime.generation
        BY <1>1, <1>8 DEF FencedInv, Generations
      <4>2. QED
        BY <2>1, <2>2, <4>1, KeyParts
    <3>3. QED
      BY <3>1, <3>2 DEF Generations
  <2>5. ReadsAreFenced'
    <3> SUFFICES ASSUME NEW p \in Movers, checked[p].op = "transition"
                 PROVE  checked[p].generation < runtime'.generation
      BY <1>5, <2>1, <2>2 DEF ReadsAreFenced, FencedInv, PlaybookTypeOK, AtRest
    <3>1. checked[p].generation <= runtime.generation /\ checked[p].generation \in Int
      BY DEF FencedInv, ReadsAreFenced, PlaybookTypeOK, AtRest
    <3>2. QED
      BY <2>1, <2>2, <3>1
  <2>6. QED
    BY <1>5, <1>6, <1>8, <1>9, <1>10, <2>3, <2>4, <2>5 DEF FencedInv, PlaybookTypeOK
<1>13. QED
  BY <1>11, <1>12

LEMMA ReadFenced ==
  ASSUME FencedInv, NEW p \in Movers, NEW t \in Transitions, TransitionRead(p, t)
  PROVE  FencedInv'
<1> DEFINE s == [op |-> "transition", t |-> t, generation |-> runtime.generation]
<1>1. runtime.generation \in 0..(MaxGeneration - 1)
  BY DEF TransitionRead, FencedInv, PlaybookTypeOK
<1>2. \A q \in Movers : checked'[q] = IF q = p THEN s ELSE checked[q]
  BY DEF TransitionRead, FencedInv, PlaybookTypeOK
<1>3. checked' \in [Movers -> {AtRest} \cup [op: {"transition"}, t: Transitions,
                                          generation: 0..(MaxGeneration - 1)]]
  BY <1>1 DEF TransitionRead, FencedInv, PlaybookTypeOK
<1>4. ReadsAreFenced'
  BY <1>1, <1>2 DEF TransitionRead, FencedInv, ReadsAreFenced
<1>5. QED
  BY <1>3, <1>4 DEF TransitionRead, FencedInv, PlaybookTypeOK, Generations,
                    OneTransitionPerGeneration, AttemptsLeft

\* Every step keeps what the fence relies on.
LEMMA Step_FencedInv == FencedInv /\ [PlaybookNext]_pbVars => FencedInv'
<1> SUFFICES ASSUME FencedInv, [PlaybookNext]_pbVars PROVE FencedInv'
  OBVIOUS
<1>1. CASE UNCHANGED pbVars
  BY <1>1 DEF pbVars, FencedInv, PlaybookTypeOK, Generations, ReadsAreFenced,
              OneTransitionPerGeneration, AttemptsLeft
<1>2. ASSUME UNCHANGED <<runtime, effectRows, checked>>, PlaybookTypeOK'
      PROVE  FencedInv'
  BY <1>2 DEF FencedInv, Generations, ReadsAreFenced, OneTransitionPerGeneration,
              AttemptsLeft
<1>3. ASSUME NEW t \in Transitions, RecordEvidence(t) PROVE FencedInv'
  BY <1>2, <1>3 DEF RecordEvidence, FencedInv, PlaybookTypeOK
<1>4. ASSUME NEW p \in Movers, TransitionWrite(p) PROVE FencedInv'
  BY <1>4, WriteFenced
<1>5. ASSUME NEW p \in Movers, NEW t \in Transitions, TransitionRead(p, t) PROVE FencedInv'
  BY <1>5, ReadFenced
<1>6. ASSUME NEW a \in Adapters, NEW k \in EffectKeys, Claim(a, k) PROVE FencedInv'
  BY <1>6, ClaimFenced
<1>7. ASSUME NEW a \in Adapters, NEW k \in EffectKeys, NEW max \in 1..MaxAttempts, Fail(a, k, max)
      PROVE  FencedInv'
  BY <1>7, FailFenced
<1>8. ASSUME NEW a \in Adapters, NEW k \in EffectKeys, FailRejected(a, k) PROVE FencedInv'
  BY <1>2, <1>8 DEF FailRejected, FencedInv, PlaybookTypeOK
<1>9. ASSUME NEW c \in Parties, NEW k \in EffectKeys, Ack(c, k) PROVE FencedInv'
  BY <1>9, AckFenced
<1>10. ASSUME NEW k \in EffectKeys, LeaseLapses(k) PROVE FencedInv'
  BY <1>10, LapseFenced
<1>11. ASSUME NEW k \in EffectKeys, NEW to \in {"answered", "cancelled", "expired"},
              ResolveHold(k, to)
       PROVE  FencedInv'
  BY <1>2, <1>11 DEF ResolveHold, FencedInv, PlaybookTypeOK
<1>12. ASSUME CloseRun PROVE FencedInv'
  BY <1>2, <1>12 DEF CloseRun, FencedInv, PlaybookTypeOK
<1>13. ASSUME NEW p \in Movers, PlannerCrash(p) PROVE FencedInv'
  <2>1. \A q \in Movers : checked'[q] = checked[q] \/ checked'[q] = AtRest
    BY <1>13 DEF PlannerCrash, FencedInv, PlaybookTypeOK
  <2>2. PlaybookTypeOK'
    BY <1>13 DEF PlannerCrash, FencedInv, PlaybookTypeOK
  <2>3. ReadsAreFenced'
    BY <1>13, <2>1 DEF PlannerCrash, FencedInv, ReadsAreFenced, AtRest
  <2>4. QED
    BY <1>13, <2>2, <2>3 DEF PlannerCrash, FencedInv, Generations,
                             OneTransitionPerGeneration, AttemptsLeft
<1>14. ASSUME NEW a \in Adapters, AdapterCrash(a) PROVE FencedInv'
  BY <1>2, <1>14 DEF AdapterCrash, FencedInv, PlaybookTypeOK
<1>15. QED
  BY <1>1, <1>3, <1>4, <1>5, <1>6, <1>7, <1>8, <1>9, <1>10, <1>11, <1>12, <1>13, <1>14
  DEF PlaybookNext, Report
-----------------------------------------------------------------------------
(* Who works on an effect, and what an approval waits for *)

\* A step that leaves the rows, the work and the holds alone.
LEMMA SameWork ==
  ASSUME LeasingInv, UNCHANGED <<effectRows, working, hold>>
  PROVE  LeasingInv'
  BY DEF LeasingInv, WorkIsTaken, ExclusiveExecutor, ApprovalGates

\* A step in which everybody keeps less work, and the rows stay.
LEMMA LessWork ==
  ASSUME LeasingInv, UNCHANGED <<effectRows, hold>>,
         \A a \in Adapters : working'[a] \subseteq working[a]
  PROVE  LeasingInv'
  BY DEF LeasingInv, WorkIsTaken, ExclusiveExecutor, ApprovalGates

LEMMA WriteLeasing ==
  ASSUME FencedInv, LeasingInv, NEW p \in Movers, TransitionWrite(p)
  PROVE  LeasingInv'
<1>1. /\ checked[p].t \in Transitions /\ checked[p].generation + 1 \in 1..MaxGeneration
  BY DEF FencedInv, PlaybookTypeOK, TransitionWrite, AtRest
<1>2. CASE UNCHANGED <<effectRows, hold>>
  BY <1>2, SameWork DEF TransitionWrite
<1>3. CASE Emit(checked[p].t, checked[p].generation + 1)
  <2>1. \A k \in EffectKeys :
          \/ effectRows'[k] = effectRows[k]
          \/ effectRows[k].delivery = "absent" /\ effectRows'[k].delivery = "pending"
    BY <1>1, <1>3, EmitStep
  <2>2. \A k \in EffectKeys : hold[k] # "none" => hold'[k] = hold[k]
    BY <1>1, <1>3, EmitStep
  <2>3. working' = working
    BY DEF TransitionWrite
  <2>4. QED
    BY <2>1, <2>2, <2>3 DEF LeasingInv, WorkIsTaken, ExclusiveExecutor, ApprovalGates
<1>4. QED
  BY <1>2, <1>3 DEF TransitionWrite

LEMMA ClaimRow ==
  ASSUME FencedInv, NEW a \in Adapters, NEW k \in EffectKeys, Claim(a, k)
  PROVE  /\ \A l \in EffectKeys : l # k => effectRows'[l] = effectRows[l]
         /\ effectRows'[k].delivery = "leased" /\ effectRows'[k].owner = a
<1>1. \A l \in EffectKeys : l # k => effectRows'[l] = effectRows[l]
  BY DEF FencedInv, PlaybookTypeOK, Claim, Lease
<1>2. /\ effectRows[k] \in Row
      /\ effectRows' = [effectRows EXCEPT ![k] =
           [effectRows[k] EXCEPT !.delivery = "leased", !.owner = a, !.lapsed = FALSE]]
  BY DEF FencedInv, PlaybookTypeOK, Claim, Lease
<1>3. k \in DOMAIN effectRows
  BY DEF FencedInv, PlaybookTypeOK
<1>4. effectRows'[k] = [effectRows[k] EXCEPT !.delivery = "leased", !.owner = a, !.lapsed = FALSE]
  BY <1>2, <1>3
<1>5. effectRows'[k].delivery = "leased" /\ effectRows'[k].owner = a
  BY <1>2, <1>4 DEF Row
<1> QED BY <1>1, <1>5

\* Nobody remembers an effect that is offered, so the claimant is alone.
LEMMA ClaimLeasing ==
  ASSUME FencedInv, LeasingInv, NEW a \in Adapters, NEW k \in EffectKeys, Claim(a, k)
  PROVE  LeasingInv'
<1>1. \A l \in EffectKeys : l # k => effectRows'[l] = effectRows[l]
  BY ClaimRow
<1>2. effectRows'[k].delivery = "leased" /\ effectRows'[k].owner = a
  BY ClaimRow
<1>3. \A b \in Adapters : working'[b] = IF b = a THEN working[b] \cup {k} ELSE working[b]
  BY DEF FencedInv, PlaybookTypeOK, Claim, Lease
<1>4. \A b \in Adapters : k \notin working[b]
  BY DEF LeasingInv, WorkIsTaken, Claim
<1>5. WorkIsTaken'
  <2> SUFFICES ASSUME NEW b \in Adapters, NEW l \in EffectKeys, l \in working'[b]
               PROVE  /\ effectRows'[l].delivery \in {"leased", "delivered"}
                      /\ effectRows'[l].delivery = "leased" => effectRows'[l].owner = b
    BY DEF WorkIsTaken
  <2>1. CASE l = k
    BY <1>2, <1>3, <1>4, <2>1
  <2>2. CASE l # k
    <3>1. l \in working[b]
      BY <1>3, <2>2
    <3>2. QED
      BY <1>1, <2>2, <3>1 DEF LeasingInv, WorkIsTaken
  <2>3. QED
    BY <2>1, <2>2
<1>6. ExclusiveExecutor'
  <2> SUFFICES ASSUME NEW b \in Adapters, NEW c \in Adapters, NEW l \in EffectKeys,
                      l \in working'[b], l \in working'[c]
               PROVE  b = c
    BY DEF ExclusiveExecutor
  <2>1. CASE l = k
    <3>1. b = a /\ c = a
      BY <1>3, <1>4, <2>1
    <3> QED BY <3>1
  <2>2. CASE l # k
    <3>1. l \in working[b] /\ l \in working[c]
      BY <1>3, <2>2
    <3> QED BY <3>1 DEF LeasingInv, ExclusiveExecutor
  <2> QED BY <2>1, <2>2
<1>7. ApprovalGates'
  BY <1>1, <1>2 DEF LeasingInv, ApprovalGates, Claim
<1>8. QED
  BY <1>5, <1>6, <1>7 DEF LeasingInv

\* Its only worker leaves a failed effect.
LEMMA FailLeasing ==
  ASSUME FencedInv, LeasingInv, NEW a \in Adapters, NEW k \in EffectKeys,
         NEW max \in 1..MaxAttempts, Fail(a, k, max)
  PROVE  LeasingInv'
<1>1. \A l \in EffectKeys : l # k => effectRows'[l] = effectRows[l]
  BY DEF FencedInv, PlaybookTypeOK, Fail
<1>2. effectRows'[k].delivery # "delivered"
  BY DEF FencedInv, PlaybookTypeOK, Fail
<1>3. \A b \in Adapters : working'[b] = IF b = a THEN working[b] \ {k} ELSE working[b]
  BY DEF FencedInv, PlaybookTypeOK, Fail
<1>4. \A b \in Adapters : k \notin working'[b]
  <2>1. \A b \in Adapters : k \in working[b] => b = a
    BY DEF LeasingInv, ExclusiveExecutor, Fail
  <2>2. QED
    BY <1>3, <2>1
<1>5. ExclusiveExecutor'
  BY <1>3 DEF LeasingInv, ExclusiveExecutor
<1>6. WorkIsTaken'
  <2> SUFFICES ASSUME NEW b \in Adapters, NEW l \in EffectKeys, l \in working'[b]
               PROVE  /\ effectRows'[l].delivery \in {"leased", "delivered"}
                      /\ effectRows'[l].delivery = "leased" => effectRows'[l].owner = b
    BY DEF WorkIsTaken
  <2>1. l # k /\ l \in working[b]
    BY <1>3, <1>4
  <2>2. QED
    BY <1>1, <2>1 DEF LeasingInv, WorkIsTaken
<1>7. ApprovalGates'
  BY <1>1, <1>2 DEF LeasingInv, ApprovalGates, Fail
<1>8. QED
  BY <1>5, <1>6, <1>7 DEF LeasingInv

LEMMA AckLeasing ==
  ASSUME FencedInv, LeasingInv, NEW c \in Parties, NEW k \in EffectKeys, Ack(c, k)
  PROVE  LeasingInv'
<1>1. \A l \in EffectKeys : l # k => effectRows'[l] = effectRows[l]
  BY DEF FencedInv, PlaybookTypeOK, Ack, MarkDelivered
<1>2. effectRows'[k].delivery = "delivered"
  BY DEF FencedInv, PlaybookTypeOK, Row, Ack, MarkDelivered
<1>3. \A b \in Adapters : working'[b] \subseteq working[b]
  BY DEF FencedInv, PlaybookTypeOK, Ack, MarkDelivered
<1>4. QED
  BY <1>1, <1>2, <1>3 DEF LeasingInv, WorkIsTaken, ExclusiveExecutor, ApprovalGates, Ack

LEMMA LapseLeasing ==
  ASSUME FencedInv, LeasingInv, NEW k \in EffectKeys, LeaseLapses(k)
  PROVE  LeasingInv'
<1>1. \A l \in EffectKeys : /\ effectRows'[l].delivery = effectRows[l].delivery
                       /\ effectRows'[l].owner = effectRows[l].owner
  BY DEF FencedInv, PlaybookTypeOK, Row, LeaseLapses
<1>2. QED
  BY <1>1 DEF LeasingInv, WorkIsTaken, ExclusiveExecutor, ApprovalGates, LeaseLapses

\* Only open holds are resolved, so an answer stays an answer.
LEMMA ResolveLeasing ==
  ASSUME FencedInv, LeasingInv, NEW k \in EffectKeys,
         NEW to \in {"answered", "cancelled", "expired"}, ResolveHold(k, to)
  PROVE  LeasingInv'
<1>1. \A l \in EffectKeys : hold[l] = "answered" => hold'[l] = "answered"
  BY DEF FencedInv, PlaybookTypeOK, ResolveHold
<1>2. QED
  BY <1>1 DEF ResolveHold, LeasingInv, WorkIsTaken, ExclusiveExecutor, ApprovalGates

LEMMA Step_LeasingInv == FencedInv /\ LeasingInv /\ [PlaybookNext]_pbVars => LeasingInv'
<1> SUFFICES ASSUME FencedInv, LeasingInv, [PlaybookNext]_pbVars PROVE LeasingInv'
  OBVIOUS
<1>1. CASE UNCHANGED pbVars
  BY <1>1, SameWork DEF pbVars
<1>2. ASSUME NEW t \in Transitions, RecordEvidence(t) PROVE LeasingInv'
  BY <1>2, SameWork DEF RecordEvidence
<1>3. ASSUME NEW p \in Movers, TransitionWrite(p) PROVE LeasingInv'
  BY <1>3, WriteLeasing
<1>4. ASSUME NEW p \in Movers, NEW t \in Transitions, TransitionRead(p, t) PROVE LeasingInv'
  BY <1>4, SameWork DEF TransitionRead
<1>5. ASSUME NEW a \in Adapters, NEW k \in EffectKeys, Claim(a, k) PROVE LeasingInv'
  BY <1>5, ClaimLeasing
<1>6. ASSUME NEW a \in Adapters, NEW k \in EffectKeys, NEW max \in 1..MaxAttempts, Fail(a, k, max)
      PROVE  LeasingInv'
  BY <1>6, FailLeasing
<1>7. ASSUME NEW a \in Adapters, NEW k \in EffectKeys, FailRejected(a, k) PROVE LeasingInv'
  <2>1. \A b \in Adapters : working'[b] \subseteq working[b]
    BY <1>7 DEF FailRejected, FencedInv, PlaybookTypeOK
  <2>2. QED
    BY <1>7, <2>1, LessWork DEF FailRejected
<1>8. ASSUME NEW c \in Parties, NEW k \in EffectKeys, Ack(c, k) PROVE LeasingInv'
  BY <1>8, AckLeasing
<1>9. ASSUME NEW k \in EffectKeys, LeaseLapses(k) PROVE LeasingInv'
  BY <1>9, LapseLeasing
<1>10. ASSUME NEW k \in EffectKeys, NEW to \in {"answered", "cancelled", "expired"},
              ResolveHold(k, to)
       PROVE  LeasingInv'
  BY <1>10, ResolveLeasing
<1>11. ASSUME CloseRun PROVE LeasingInv'
  BY <1>11, SameWork DEF CloseRun
<1>12. ASSUME NEW p \in Movers, PlannerCrash(p) PROVE LeasingInv'
  BY <1>12, SameWork DEF PlannerCrash
<1>13. ASSUME NEW a \in Adapters, AdapterCrash(a) PROVE LeasingInv'
  <2>1. \A b \in Adapters : working'[b] \subseteq working[b]
    BY <1>13 DEF AdapterCrash, FencedInv, PlaybookTypeOK
  <2>2. QED
    BY <1>13, <2>1, LessWork DEF AdapterCrash
<1>14. QED
  BY <1>1, <1>2, <1>3, <1>4, <1>5, <1>6, <1>7, <1>8, <1>9, <1>10, <1>11, <1>12, <1>13
  DEF PlaybookNext, Report
-----------------------------------------------------------------------------
LEMMA PlaybookInvariant == PlaybookSpec => [](FencedInv /\ LeasingInv)
<1>1. PlaybookInit => FencedInv /\ LeasingInv
  BY Init_FencedInv
<1>2. FencedInv /\ LeasingInv /\ [PlaybookNext]_pbVars => (FencedInv /\ LeasingInv)'
  BY Step_FencedInv, Step_LeasingInv
<1>3. QED
  BY <1>1, <1>2, PTL DEF PlaybookSpec

\* Attempts never pass the bound a failure was given, and generations stay
\* within one of the last transition (failPlaybookEffect).
THEOREM PlaybookTypeCorrect == PlaybookSpec => []PlaybookTypeOK
<1>1. FencedInv => PlaybookTypeOK
  BY DEF FencedInv
<1>2. QED
  BY <1>1, PlaybookInvariant, PTL

\* The compare-and-set on generation lets one of the processes that read it
\* write effects (transitionPlaybook).
THEOREM GenerationsHaveOneTransition == PlaybookSpec => []OneTransitionPerGeneration
<1>1. FencedInv => OneTransitionPerGeneration
  BY DEF FencedInv
<1>2. QED
  BY <1>1, PlaybookInvariant, PTL

\* The checks of transitionPlaybook, made before its transaction, still hold
\* of the state the transaction leaves.
THEOREM TransitionsAreFenced == PlaybookSpec => TransitionsStartWhereDeclared
<1> DEFINE Fenced == \A p \in Movers :
                       checked[p].op = "transition" /\ checked'[p] = AtRest /\ runtime' # runtime
                         => runtime.state \in From[checked[p].t]
<1>1. FencedInv /\ [PlaybookNext]_pbVars => [Fenced]_pbVars
  <2> SUFFICES ASSUME FencedInv, PlaybookNext,
                      NEW p \in Movers, checked[p].op = "transition", checked'[p] = AtRest,
                      runtime' # runtime
               PROVE  runtime.state \in From[checked[p].t]
    BY DEF pbVars
  <2>1. PICK q \in Movers : TransitionWrite(q)
    <3>1. checked' # checked
      BY DEF AtRest
    <3>2. QED
      BY <3>1 DEF PlaybookNext, Report, RecordEvidence, TransitionRead, Claim, Fail,
                  FailRejected, Ack, LeaseLapses, ResolveHold, CloseRun, PlannerCrash,
                  AdapterCrash
  <2>2. q = p
    BY <2>1 DEF TransitionWrite, FencedInv, PlaybookTypeOK, AtRest
  <2>3. runtime.generation = checked[p].generation
    BY <2>1, <2>2 DEF TransitionWrite
  <2>4. QED
    BY <2>3 DEF FencedInv, ReadsAreFenced
<1>2. QED
  BY <1>1, PlaybookInvariant, PTL DEF PlaybookSpec, TransitionsStartWhereDeclared

\* An approval is delivered only after an answer (ackPlaybookEffect).
THEOREM ApprovalsGate == PlaybookSpec => []ApprovalGates
<1>1. LeasingInv => ApprovalGates
  BY DEF LeasingInv
<1>2. QED
  BY <1>1, PlaybookInvariant, PTL

\* Two adapters never work on one effect (claimPlaybookEffect), also when
\* leases lapse: a lapsed lease is never handed to another adapter.
THEOREM ExecutorIsExclusive == PlaybookSpec => []ExclusiveExecutor
<1>1. LeasingInv => ExclusiveExecutor
  BY DEF LeasingInv
<1>2. QED
  BY <1>1, PlaybookInvariant, PTL
-----------------------------------------------------------------------------
(* PlaybookGate                                                            *)

Present   == Gathered({"pending", "leased", "failed", "delivered", "dead_letter"})
Approved  == {k \in EffectKeys : hold[k] = "answered"}
Delivered == Gathered({"delivered"})
Dead      == Gathered({"dead_letter"})

\* What a process checked stays proved, and holds are opened with the rows of
\* approvals only.
Evident == \A p \in Movers : checked[p].op = "transition" => checked[p].t \in evidence
Asked ==
  \A k \in EffectKeys : hold[k] # "none" =>
    Kind[k[3]] = "human_approval" /\ effectRows[k].delivery # "absent"
AskedInv == Evident /\ Asked

\* The effects on the abstract sets of what a step does to the rows.
LEMMA PresentRows ==
  ASSUME PlaybookTypeOK
  PROVE  Present = {k \in EffectKeys : effectRows[k].delivery # "absent"}
BY DEF PlaybookTypeOK, Row, Present, Gathered

LEMMA PresentRowsNext ==
  ASSUME PlaybookTypeOK'
  PROVE  Present' = {k \in EffectKeys : effectRows'[k].delivery # "absent"}
BY DEF PlaybookTypeOK, Row, Present, Gathered

\* Only k changes, and from a row that exists.
LEMMA OneRow ==
  ASSUME PlaybookTypeOK, PlaybookTypeOK', NEW k \in EffectKeys, NEW r,
         effectRows' = [effectRows EXCEPT ![k] = r],
         effectRows[k].delivery \notin {"absent", "delivered", "dead_letter"},
         r.delivery # "absent"
  PROVE  /\ k \in Present \ (Delivered \cup Dead)
         /\ Present' = Present
         /\ Delivered' = IF r.delivery = "delivered" THEN Delivered \cup {k} ELSE Delivered
         /\ Dead' = IF r.delivery = "dead_letter" THEN Dead \cup {k} ELSE Dead
<1>1. \A l \in EffectKeys : effectRows'[l] = IF l = k THEN r ELSE effectRows[l]
  BY DEF PlaybookTypeOK
<1>2. k \in Present \ (Delivered \cup Dead)
  BY PresentRows DEF Delivered, Dead, Gathered
<1>3. Present' = Present
  BY <1>1, PresentRows, PresentRowsNext
<1>4. Delivered' = IF r.delivery = "delivered" THEN Delivered \cup {k} ELSE Delivered
  BY <1>1 DEF Delivered, Gathered
<1>5. Dead' = IF r.delivery = "dead_letter" THEN Dead \cup {k} ELSE Dead
  BY <1>1 DEF Dead, Gathered
<1> QED BY <1>2, <1>3, <1>4, <1>5

LEMMA EmitRows ==
  ASSUME FencedInv, PlaybookTypeOK', NEW t \in Transitions, NEW g \in 1..MaxGeneration, Emit(t, g)
  PROVE  /\ Present' = Present \cup {<<t, g, e>> : e \in Effects[t]}
         /\ UNCHANGED <<Approved, Delivered, Dead>>
<1>1. /\ \A k \in EffectKeys : \/ effectRows'[k] = effectRows[k]
                               \/ /\ effectRows[k].delivery = "absent"
                                  /\ effectRows'[k].delivery = "pending"
                                  /\ k[1] = t /\ k[2] = g
      /\ \A k \in EffectKeys : hold[k] # "none" => hold'[k] = hold[k]
  BY EmitStep
<1>2. \A k \in Emitted(t, g) : effectRows'[k].delivery # "absent"
  BY DEF Emit, NewRow, Emitted
<1>3. Emitted(t, g) = {<<t, g, e>> : e \in Effects[t]}
  <2>1. \A e \in Effects[t] : <<t, g, e>> \in Emitted(t, g)
    BY DEF Emitted, EffectKeys
  <2>2. \A k \in Emitted(t, g) : k[3] \in Effects[t] /\ k = <<t, g, k[3]>>
    BY DEF Emitted, EffectKeys
  <2> QED BY <2>1, <2>2
<1>4. Present' = Present \cup Emitted(t, g)
  BY <1>1, <1>2, PresentRows, PresentRowsNext DEF FencedInv, Emitted
<1>5. Delivered' = Delivered /\ Dead' = Dead
  BY <1>1 DEF Delivered, Dead, Gathered
<1>6. \A k \in EffectKeys : hold[k] = "none" => hold'[k] \in {"none", "open"}
  BY DEF Emit
<1>7. Approved' = Approved
  BY <1>1, <1>6 DEF Approved
<1> QED BY <1>3, <1>4, <1>5, <1>7
LEMMA AskedStarts == PlaybookInit => AskedInv
BY DEF PlaybookInit, AskedInv, Evident, Asked, AtRest

\* A row that exists goes on existing.
LEMMA RowsStay ==
  ASSUME FencedInv, PlaybookNext, NEW k \in EffectKeys, effectRows[k].delivery # "absent"
  PROVE  effectRows'[k].delivery # "absent"
<1>1. CASE UNCHANGED effectRows
  BY <1>1
<1>2. ASSUME NEW p \in Movers, TransitionWrite(p), ~UNCHANGED effectRows
      PROVE  effectRows'[k].delivery # "absent"
  BY <1>2 DEF TransitionWrite, Emit
<1>3. ASSUME NEW l \in EffectKeys, NEW r, effectRows' = [effectRows EXCEPT ![l] = r],
             r.delivery # "absent"
      PROVE  effectRows'[k].delivery # "absent"
  BY <1>3 DEF FencedInv, PlaybookTypeOK
<1>4. ASSUME NEW a \in Adapters, NEW l \in EffectKeys, Claim(a, l)
      PROVE  effectRows'[k].delivery # "absent"
  BY <1>3, <1>4 DEF Claim, Lease, FencedInv, PlaybookTypeOK, Row
<1>5. ASSUME NEW a \in Adapters, NEW l \in EffectKeys, NEW max \in 1..MaxAttempts, Fail(a, l, max)
      PROVE  effectRows'[k].delivery # "absent"
  <2>1. PICK d \in {"failed", "dead_letter"} :
          effectRows' = [effectRows EXCEPT ![l] =
            [delivery |-> d, owner |-> NoOwner, lapsed |-> FALSE,
             attempts |-> effectRows[l].attempts + 1]]
    BY <1>5 DEF Fail
  <2> QED BY <1>3, <2>1
<1>6. ASSUME NEW c \in Parties, NEW l \in EffectKeys, Ack(c, l)
      PROVE  effectRows'[k].delivery # "absent"
  BY <1>3, <1>6 DEF Ack, MarkDelivered, FencedInv, PlaybookTypeOK, Row
<1>7. ASSUME NEW l \in EffectKeys, LeaseLapses(l)
      PROVE  effectRows'[k].delivery # "absent"
  BY <1>7 DEF LeaseLapses, FencedInv, PlaybookTypeOK, Row
<1> QED
  BY <1>1, <1>2, <1>4, <1>5, <1>6, <1>7
  DEF PlaybookNext, Report, RecordEvidence, TransitionRead, FailRejected, ResolveHold, CloseRun,
      PlannerCrash, AdapterCrash

LEMMA AskedGoesOn == FencedInv /\ AskedInv /\ [PlaybookNext]_pbVars => AskedInv'
<1> SUFFICES ASSUME FencedInv, AskedInv, [PlaybookNext]_pbVars PROVE AskedInv'
  OBVIOUS
<1>1. CASE UNCHANGED pbVars
  BY <1>1 DEF pbVars, AskedInv, Evident, Asked
<1>2. CASE PlaybookNext
  <2>1. Evident'
    <3> SUFFICES ASSUME NEW p \in Movers, checked'[p].op = "transition"
                 PROVE  checked'[p].t \in evidence'
      BY DEF Evident
    <3>1. evidence \subseteq evidence'
      BY <1>2 DEF PlaybookNext, Report, RecordEvidence, TransitionRead, TransitionWrite, Claim, Fail,
                  FailRejected, Ack, LeaseLapses, ResolveHold, CloseRun, PlannerCrash,
                  AdapterCrash
    <3>2. CASE checked'[p] = checked[p]
      BY <3>1, <3>2 DEF AskedInv, Evident
    <3>3. ASSUME NEW q \in Movers, NEW t \in Transitions, TransitionRead(q, t),
                 checked'[p] # checked[p]
          PROVE  checked'[p].t \in evidence'
      BY <3>3 DEF TransitionRead, FencedInv, PlaybookTypeOK
    <3>4. ASSUME NEW q \in Movers, TransitionWrite(q) \/ PlannerCrash(q)
          PROVE  checked'[p] = checked[p]
      BY <3>4 DEF TransitionWrite, PlannerCrash, FencedInv, PlaybookTypeOK, AtRest
    <3> QED
      BY <1>2, <3>2, <3>3, <3>4
      DEF PlaybookNext, Report, RecordEvidence, Claim, Fail, FailRejected, Ack, LeaseLapses,
          ResolveHold, CloseRun, AdapterCrash
  <2>2. Asked'
    <3> SUFFICES ASSUME NEW k \in EffectKeys, hold'[k] # "none"
                 PROVE  Kind[k[3]] = "human_approval" /\ effectRows'[k].delivery # "absent"
      BY DEF Asked
    <3>1. CASE hold[k] # "none"
      BY <1>2, <3>1, RowsStay DEF AskedInv, Asked
    <3>2. ASSUME NEW p \in Movers, TransitionWrite(p), hold[k] = "none"
          PROVE  Kind[k[3]] = "human_approval" /\ effectRows'[k].delivery # "absent"
      BY <3>2 DEF TransitionWrite, Emit, NewRow
    <3>3. ASSUME NEW l \in EffectKeys, NEW to, ResolveHold(l, to)
          PROVE  hold[k] # "none"
      BY <3>3 DEF ResolveHold, FencedInv, PlaybookTypeOK
    <3> QED
      BY <1>2, <3>1, <3>2, <3>3
      DEF PlaybookNext, Report, RecordEvidence, TransitionRead, Claim, Fail, FailRejected, Ack,
          LeaseLapses, CloseRun, PlannerCrash, AdapterCrash
  <2> QED BY <2>1, <2>2 DEF AskedInv
<1> QED BY <1>1, <1>2
-----------------------------------------------------------------------------
GateState ==
  <<runtime.state, runtime.generation, evidence, Present, Approved, Delivered, Dead, run = "active">>
GateNext == Promise!PlaybookGateNext \/ UNCHANGED GateState

\* The mapping, by the names used here.
LEMMA GateMoves ==
  /\ \A t \in Transitions : Promise!Prove(t) \/ Promise!Apply(t) => GateNext
  /\ \A k \in Present : Promise!Approve(k) \/ Promise!Deliver(k) \/ Promise!GiveUp(k) => GateNext
  /\ Promise!Close => GateNext
BY DEF GateNext, Promise!PlaybookGateNext, Present

\* A step that settles nothing.
LEMMA GateRests ==
  ASSUME UNCHANGED <<runtime, evidence, run, Present, Approved, Delivered, Dead>>
  PROVE  GateNext
BY DEF GateNext, GateState

LEMMA SameRows ==
  ASSUME UNCHANGED <<effectRows, hold>>
  PROVE  UNCHANGED <<Present, Approved, Delivered, Dead>>
BY DEF Present, Approved, Delivered, Dead, Gathered

LEMMA WriteRefines ==
  ASSUME FencedInv, FencedInv', AskedInv, NEW p \in Movers, TransitionWrite(p)
  PROVE  GateNext
<1> DEFINE t == checked[p].t
           g == checked[p].generation + 1
<1>1. t \in Transitions /\ g \in 1..MaxGeneration
  BY DEF FencedInv, PlaybookTypeOK, TransitionWrite, AtRest
<1>2. CASE runtime.generation = checked[p].generation
  <2>1. /\ runtime' = [state |-> To[t], generation |-> g] /\ Emit(t, g)
        /\ UNCHANGED <<evidence, run>> /\ g = runtime.generation + 1
    BY <1>2 DEF TransitionWrite
  <2>2. runtime.state \in From[t] /\ t \in evidence
    BY <1>2 DEF TransitionWrite, FencedInv, ReadsAreFenced, AskedInv, Evident
  <2>3. /\ Present' = Present \cup {<<t, g, e>> : e \in Effects[t]}
        /\ UNCHANGED <<Approved, Delivered, Dead>>
    BY <1>1, <2>1, EmitRows DEF FencedInv
  <2>4. runtime'.state = To[t] /\ runtime'.generation = runtime.generation + 1
    BY <2>1
  <2> HIDE DEF t, g
  <2>5. Promise!Apply(t)
    BY <2>1, <2>2, <2>3, <2>4 DEF Promise!Apply, Present, Approved, Delivered, Dead
  <2> QED BY <1>1, <2>5, GateMoves
<1>3. CASE runtime.generation # checked[p].generation
  BY <1>3, SameRows, GateRests DEF TransitionWrite
<1> QED BY <1>2, <1>3

LEMMA AckRefines ==
  ASSUME FencedInv, FencedInv', NEW c \in Parties, NEW k \in EffectKeys, Ack(c, k)
  PROVE  GateNext
<1> DEFINE r == [effectRows[k] EXCEPT !.delivery = "delivered", !.owner = NoOwner, !.lapsed = FALSE]
<1>1. effectRows' = [effectRows EXCEPT ![k] = r] /\ r.delivery = "delivered"
  BY DEF Ack, MarkDelivered, FencedInv, PlaybookTypeOK, Row
<1>2. effectRows[k].delivery \notin {"absent", "delivered", "dead_letter"}
  BY DEF Ack, MayAck
<1> HIDE DEF r
<1>3. /\ k \in Present \ (Delivered \cup Dead) /\ Present' = Present
      /\ Delivered' = Delivered \cup {k} /\ Dead' = Dead
  BY <1>1, <1>2, OneRow DEF FencedInv
<1>4. Approved' = Approved /\ UNCHANGED <<runtime, evidence, run>>
  BY DEF Ack, Approved
<1>5. k[3] \in {e \in EffectIds : Kind[e] = "human_approval"} => k \in Approved
  BY KeyParts DEF Ack, Approved
<1>6. Promise!Deliver(k)
  BY <1>3, <1>4, <1>5 DEF Promise!Deliver, Promise!Unsettled, Present, Approved, Delivered, Dead
<1> QED BY <1>3, <1>6, GateMoves

\* The row of a failure, as far as the mapping sees it.
LEMMA FailRow ==
  ASSUME FencedInv, FencedInv', NEW k \in EffectKeys, effectRows[k].delivery = "leased",
         NEW d \in {"leased", "failed", "dead_letter"}, NEW r, r.delivery = d,
         effectRows' = [effectRows EXCEPT ![k] = r]
  PROVE  /\ k \in Present \ (Delivered \cup Dead) /\ Present' = Present
         /\ Delivered' = Delivered
         /\ Dead' = IF d = "dead_letter" THEN Dead \cup {k} ELSE Dead
<1>1. r.delivery # "absent" /\ r.delivery # "delivered"
  OBVIOUS
<1> QED BY <1>1, OneRow DEF FencedInv

LEMMA FailRefines ==
  ASSUME FencedInv, FencedInv', NEW a \in Adapters, NEW k \in EffectKeys,
         NEW max \in 1..MaxAttempts, Fail(a, k, max)
  PROVE  GateNext
<1>1. effectRows[k].delivery = "leased" /\ UNCHANGED <<evidence, hold>>
  BY DEF Fail, Leases
<1>2. Approved' = Approved
  BY <1>1 DEF Approved
<1>3. PICK d \in {"failed", "dead_letter"} :
        /\ \E r : effectRows' = [effectRows EXCEPT ![k] = r] /\ r.delivery = d
        /\ IF d = "dead_letter" THEN DeadLetter ELSE UNCHANGED <<runtime, run>>
  <2> DEFINE row(d) == [delivery |-> d, owner |-> NoOwner, lapsed |-> FALSE,
                        attempts |-> effectRows[k].attempts + 1]
  <2>1. \/ effectRows' = [effectRows EXCEPT ![k] = row("failed")] /\ UNCHANGED <<runtime, run>>
        \/ effectRows' = [effectRows EXCEPT ![k] = row("dead_letter")] /\ DeadLetter
    BY DEF Fail
  <2>2. row("failed").delivery = "failed" /\ row("dead_letter").delivery = "dead_letter"
    OBVIOUS
  <2> HIDE DEF row
  <2> QED BY <2>1, <2>2
<1>4. CASE d = "failed"
  <2>1. UNCHANGED <<Present, Delivered, Dead>>
    BY <1>1, <1>3, <1>4, FailRow
  <2> QED BY <1>1, <1>2, <1>3, <1>4, <2>1, GateRests
<1>5. CASE d = "dead_letter"
  <2>1. /\ k \in Present \ (Delivered \cup Dead) /\ Present' = Present
        /\ Delivered' = Delivered /\ Dead' = Dead \cup {k}
    BY <1>1, <1>3, <1>5, FailRow
  <2>2. IF Blocked \in States /\ runtime.state # Blocked
          THEN /\ runtime'.state = Blocked /\ runtime'.generation = runtime.generation + 1
               /\ run' = run
          ELSE run' # "active" /\ runtime' = runtime
    BY <1>3, <1>5 DEF DeadLetter
  <2>3. Promise!GiveUp(k)
    BY <1>1, <1>2, <2>1, <2>2
    DEF Promise!GiveUp, Promise!Unsettled, Present, Approved, Delivered, Dead
  <2> QED BY <2>1, <2>3, GateMoves
<1> QED BY <1>3, <1>4, <1>5

\* A lease that is taken, or that lapses, changes nothing else.
LEMMA LeaseRow ==
  ASSUME FencedInv, NEW k \in EffectKeys, (\E a \in Adapters : Claim(a, k)) \/ LeaseLapses(k)
  PROVE  \A l \in EffectKeys :
           effectRows'[l].delivery = IF l = k THEN "leased" ELSE effectRows[l].delivery
<1>1. CASE LeaseLapses(k)
  BY <1>1 DEF LeaseLapses, FencedInv, PlaybookTypeOK, Row
<1>2. CASE \E a \in Adapters : Claim(a, k)
  BY <1>2, ClaimRow
<1> QED BY <1>1, <1>2

LEMMA LeaseRefines ==
  ASSUME FencedInv, NEW k \in EffectKeys,
         (\E a \in Adapters : Claim(a, k)) \/ LeaseLapses(k)
  PROVE  GateNext
<1>1. /\ effectRows[k].delivery \in {"pending", "failed", "leased"}
      /\ UNCHANGED <<runtime, evidence, run, hold>>
  BY DEF Claim, LeaseLapses
<1>2. UNCHANGED <<Present, Approved, Delivered, Dead>>
  BY <1>1, LeaseRow DEF Present, Approved, Delivered, Dead, Gathered
<1> QED BY <1>1, <1>2, GateRests

LEMMA ResolveRefines ==
  ASSUME FencedInv, FencedInv', AskedInv, NEW k \in EffectKeys,
         NEW to \in {"answered", "cancelled", "expired"}, ResolveHold(k, to)
  PROVE  GateNext
<1>1. /\ hold[k] = "open" /\ hold' = [hold EXCEPT ![k] = to]
      /\ UNCHANGED <<runtime, evidence, run, effectRows>>
  BY DEF ResolveHold
<1>2. UNCHANGED <<Present, Delivered, Dead>>
  BY <1>1 DEF Present, Delivered, Dead, Gathered
<1>3. Approved' = IF to = "answered" THEN Approved \cup {k} ELSE Approved
  BY <1>1 DEF Approved, FencedInv, PlaybookTypeOK
<1>4. CASE to # "answered"
  BY <1>1, <1>2, <1>3, <1>4, GateRests
<1>5. CASE to = "answered"
  <2>1. k \in Present \ Approved /\ k[3] \in {e \in EffectIds : Kind[e] = "human_approval"}
    BY <1>1, KeyParts, PresentRows DEF AskedInv, Asked, Approved, FencedInv
  <2>2. Promise!Approve(k)
    BY <1>1, <1>2, <1>3, <1>5, <2>1 DEF Promise!Approve, Present, Approved, Delivered, Dead
  <2> QED BY <2>1, <2>2, GateMoves
<1> QED BY <1>4, <1>5

LEMMA PlaybookRefines ==
  ASSUME FencedInv, FencedInv', AskedInv, [PlaybookNext]_pbVars
  PROVE  GateNext
<1>1. CASE UNCHANGED <<runtime, evidence, run, effectRows, hold>>
  BY <1>1, SameRows, GateRests
<1>2. ASSUME NEW t \in Transitions, RecordEvidence(t) PROVE GateNext
  <2>1. Promise!Prove(t)
    BY <1>2, SameRows DEF RecordEvidence, Promise!Prove, Present, Approved, Delivered, Dead
  <2> QED BY <2>1, GateMoves
<1>3. CASE CloseRun
  <2>1. Promise!Close
    BY <1>3, SameRows DEF CloseRun, Promise!Close, Present, Approved, Delivered, Dead
  <2> QED BY <2>1, GateMoves
<1> QED
  BY <1>1, <1>2, <1>3, WriteRefines, AckRefines, FailRefines, LeaseRefines, ResolveRefines
  DEF PlaybookNext, Report, pbVars, TransitionRead, FailRejected, PlannerCrash, AdapterCrash

\* The rows, leases and holds, and the check before the transaction, implement the
\* abstract Playbook (transitionPlaybook, failPlaybookEffect, ackPlaybookEffect).
THEOREM RuntimeImplementsPlaybook == PlaybookSpec => ImplementsPlaybook
<1>1. PlaybookInit => Promise!PlaybookGateInit
  BY DEF PlaybookInit, Promise!PlaybookGateInit, Gathered, NewRow
<1>2. FencedInv /\ FencedInv' /\ AskedInv /\ [PlaybookNext]_pbVars
        => [Promise!PlaybookGateNext]_(Promise!gateVars)
  BY PlaybookRefines DEF GateNext, GateState, Promise!gateVars, Present, Approved, Delivered, Dead
<1> QED
  BY <1>1, <1>2, AskedStarts, AskedGoesOn, PlaybookInvariant, PTL
  DEF PlaybookSpec, ImplementsPlaybook, Promise!PlaybookGateSpec
=============================================================================
