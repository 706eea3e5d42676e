------------------------------ MODULE Messaging ------------------------------
(***************************************************************************)
(* Delegation between Pi instances: agent_send publishes a command through *)
(* the broker, the target's turn handles it, agent_end publishes the       *)
(* answer, and the sender is woken, or sees it in agent_await.             *)
(*                                                                         *)
(* One process is one event loop: a handler runs to its next await.  The   *)
(* awaits are the publishes of agent_send and agent_end and the race of    *)
(* agent_await; a promise that is resolved resumes its waiter before the   *)
(* next message or timer is handled.  The broker (QoS 1, clean sessions)   *)
(* may deliver a message more than once and in any order, and nothing      *)
(* obliges it to deliver: a message that is lost stays under way.          *)
(***************************************************************************)
EXTENDS Naturals, Sequences

CONSTANTS
  Instances,    \* Pi processes
  Assignments,  \* assignment_ids
  Sender,       \* Sender[a]: the instance that makes assignment a
  Routes,       \* Routes[a]: sets of instances the command may be published to
  MaxHops,      \* PI_ORCH_MAX_HOPS
  SeenCap,      \* SEEN_ASSIGNMENTS_CAP
  Copies,       \* bound: Copies[a], deliveries of the command, and of each answer
  Guarded,      \* instances under the guard on announced actions
  Reloading,    \* instances that may be asked to prepare a reload
  Restarting,   \* instances that may die and start again
  Prompted,     \* instances that have turns of their own
  MayRefuse,    \* instances whose Pi may throw from sendMessage
  NoTask,       \* no assignment
  OwnTask       \* a turn of the instance's own: a user, a wake-up, a timer

ASSUME SenderAssumption == Sender \in [Assignments -> Instances]
ASSUME RoutesAssumption ==
  /\ Routes \in [Assignments -> SUBSET SUBSET Instances]
  /\ \A a \in Assignments: \A route \in Routes[a]: Sender[a] \notin route
ASSUME TaskAssumption == NoTask \notin Assignments /\ OwnTask \notin Assignments \cup {NoTask}
ASSUME LimitAssumption ==
  MaxHops \in Nat /\ SeenCap \in Nat \ {0} /\ Copies \in [Assignments -> Nat \ {0}]

VARIABLES
  sent,           \* sent[a]: how far agent_send is
  hops,           \* hops[a] of the envelope
  commands,       \* deliveries of commands under way: <<assignment, target, copy>>
  replies,        \* deliveries of answers under way
  pendingReplies, \* the sender's entry of an assignment, by its result
  awaited,        \* entry.awaiting
  waiter,         \* a call of agent_await is in its race for this entry
  seenAssignments, \* oldest first
  inboundQueue,   \* assignments taken in and not answered, in Map order
  currentInbound,
  mail,           \* messages Pi holds until a turn takes them
  turn,           \* what the turn in progress handles; NoTask when there is none
  ending,         \* the answer agent_end is publishing: to what, about what
  reload,         \* reloadRequested
  outcomes,       \* history: answers and timeouts the sender's entry got
  told,           \* history: how many of them a turn of the sender was told
  taken           \* history: assignments each process took in, in order

senderVars == <<sent, hops, pendingReplies, awaited, waiter, outcomes, told>>
targetVars == <<seenAssignments, inboundQueue, currentInbound, mail, turn, ending, reload, taken>>
msgVars == <<senderVars, targetVars, commands, replies>>

Tasks == Assignments \cup {NoTask, OwnTask}
Answers == [of: Assignments, about: Assignments \cup {OwnTask}]
Replies == Answers \X Instances \X Nat

MsgTypeOK ==
  /\ sent \in [Assignments -> {"no", "publishing", "sent", "failed"}]
  /\ hops \in [Assignments -> Nat]
  /\ commands \subseteq Assignments \X Instances \X Nat
  /\ replies \subseteq Replies
  /\ pendingReplies \in [Assignments -> {"absent", "pending", "answered", "timeout"}]
  /\ awaited \in [Assignments -> BOOLEAN]
  /\ waiter \in [Assignments -> BOOLEAN]
  /\ seenAssignments \in [Instances -> Seq(Assignments)]
  /\ \A i \in Instances: Len(seenAssignments[i]) <= SeenCap
  /\ inboundQueue \in [Instances -> Seq(Assignments)]
  /\ currentInbound \in [Instances -> Assignments \cup {NoTask}]
  /\ mail \in [Instances -> Seq(Assignments)]
  /\ turn \in [Instances -> Tasks]
  /\ ending \in [Instances -> Answers \cup {NoTask}]
  /\ reload \in [Instances -> BOOLEAN]
  /\ outcomes \in [Assignments -> Nat]
  /\ told \in [Assignments -> Nat]
  /\ taken \in [Instances -> Seq(Assignments)]

MsgInit ==
  /\ sent = [a \in Assignments |-> "no"]
  /\ hops = [a \in Assignments |-> 0]
  /\ commands = {}
  /\ replies = {}
  /\ pendingReplies = [a \in Assignments |-> "absent"]
  /\ awaited = [a \in Assignments |-> FALSE]
  /\ waiter = [a \in Assignments |-> FALSE]
  /\ seenAssignments = [i \in Instances |-> <<>>]
  /\ inboundQueue = [i \in Instances |-> <<>>]
  /\ currentInbound = [i \in Instances |-> NoTask]
  /\ mail = [i \in Instances |-> <<>>]
  /\ turn = [i \in Instances |-> NoTask]
  /\ ending = [i \in Instances |-> NoTask]
  /\ reload = [i \in Instances |-> FALSE]
  /\ outcomes = [a \in Assignments |-> 0]
  /\ told = [a \in Assignments |-> 0]
  /\ taken = [i \in Instances |-> <<>>]
-----------------------------------------------------------------------------
(* The sender.                                                             *)

\* A tool call of a turn of i has not returned: the turn goes no further.
InToolCall(i) == \E a \in Assignments: Sender[a] = i /\ (sent[a] = "publishing" \/ waiter[a])

\* `new_round' starts a chain; otherwise the hops are those of currentInbound.
HopsOf(i, newRound) ==
  IF newRound \/ currentInbound[i] = NoTask THEN 0 ELSE hops[currentInbound[i]] + 1

\* agent_send up to the publish it awaits.  Presence decides the route: the
\* target, every instance of the role, the planner or the watcher's topic.  With
\* nobody online it looks again 150 ms after it has read the hops, which here
\* is one step.
AgentSend(a) ==
  LET i == Sender[a] IN
  /\ turn[i] # NoTask /\ sent[a] = "no"
  /\ \E newRound \in BOOLEAN, route \in Routes[a]:
       /\ HopsOf(i, newRound) < MaxHops
       /\ hops' = [hops EXCEPT ![a] = HopsOf(i, newRound)]
       /\ commands' = commands \cup ({a} \X route \X (1..Copies[a]))
  /\ sent' = [sent EXCEPT ![a] = "publishing"]
  /\ UNCHANGED <<targetVars, replies, pendingReplies, awaited, waiter, outcomes, told>>

\* The publish returns: only now the sender knows the assignment.
Registered(a) ==
  /\ sent[a] = "publishing"
  /\ sent' = [sent EXCEPT ![a] = "sent"]
  /\ pendingReplies' = [pendingReplies EXCEPT ![a] = "pending"]
  /\ UNCHANGED <<targetVars, commands, replies, hops, awaited, waiter, outcomes, told>>

\* The publish throws, which does not say that nobody received it.
SendFails(a) ==
  /\ sent[a] = "publishing"
  /\ sent' = [sent EXCEPT ![a] = "failed"]
  /\ UNCHANGED <<targetVars, commands, replies, hops, pendingReplies, awaited, waiter,
                 outcomes, told>>

\* agent_await on an entry without a result: on any other it returns at once.
AwaitStarts(a) ==
  /\ turn[Sender[a]] # NoTask
  /\ pendingReplies[a] = "pending" /\ ~waiter[a]
  /\ awaited' = [awaited EXCEPT ![a] = TRUE]
  /\ waiter' = [waiter EXCEPT ![a] = TRUE]
  /\ UNCHANGED <<targetVars, commands, replies, sent, hops, pendingReplies, outcomes, told>>

\* Faulty variant: the flag stays up when the call returns.
AwaitKeepsFlag(a) ==
  /\ waiter[a]
  /\ waiter' = [waiter EXCEPT ![a] = FALSE]
  /\ UNCHANGED <<targetVars, commands, replies, sent, hops, pendingReplies, awaited,
                 outcomes, told>>

\* The call's own timeout_ms wins the race.
AwaitTimesOut(a) ==
  /\ waiter[a]
  /\ waiter' = [waiter EXCEPT ![a] = FALSE]
  /\ awaited' = [awaited EXCEPT ![a] = FALSE]
  /\ UNCHANGED <<targetVars, commands, replies, sent, hops, pendingReplies, outcomes, told>>

\* Faulty variant: the waking message is sent whoever waits.
WakesAlways(a) == a \in Assignments

\* Whether the sender is woken by a message when its entry gets a result, and
\* whether Pi takes that message.
Wakes(a) == ~awaited[a]
Woken(a) == {n \in {0, 1}: IF ~Wakes(a) THEN n = 0 ELSE n = 1 \/ Sender[a] \in MayRefuse}

\* entry.resolve: the waiter, if there is one, returns the result; a turn that
\* is not waiting is woken.
Resolve(a, result) ==
  /\ pendingReplies' = [pendingReplies EXCEPT ![a] = result]
  /\ waiter' = [waiter EXCEPT ![a] = FALSE]
  /\ awaited' = [awaited EXCEPT ![a] = awaited[a] /\ ~waiter[a]]
  /\ outcomes' = [outcomes EXCEPT ![a] = @ + 1]
  /\ \E n \in Woken(a):
       told' = [told EXCEPT ![a] = @ + n + (IF waiter[a] THEN 1 ELSE 0)]

\* handleResponse.  A second answer, or one that comes after the timeout,
\* replaces the result; without an entry it is ignored as stale.
HandleResponse(m) ==
  /\ replies' = replies \ {m}
  /\ IF pendingReplies[m[1].of] = "absent"
     THEN UNCHANGED senderVars
     ELSE Resolve(m[1].of, "answered") /\ UNCHANGED <<sent, hops>>
  /\ UNCHANGED <<targetVars, commands>>

\* The timer agent_send has set; handleResponse clears it.
Timeout(a) ==
  /\ pendingReplies[a] = "pending"
  /\ Resolve(a, "timeout")
  /\ UNCHANGED <<targetVars, commands, replies, sent, hops>>

\* scheduleEviction, five minutes after a result.
Evict(a) ==
  /\ pendingReplies[a] \in {"answered", "timeout"}
  /\ pendingReplies' = [pendingReplies EXCEPT ![a] = "absent"]
  /\ UNCHANGED <<targetVars, commands, replies, sent, hops, awaited, waiter, outcomes, told>>
-----------------------------------------------------------------------------
(* The target.                                                             *)

In(s) == {s[k]: k \in 1..Len(s)}

\* Map.delete: the others keep their order.  A key occurs at most once.
Without(s, a) ==
  IF a \notin In(s) THEN s
  ELSE LET k == CHOOSE k \in 1..Len(s): s[k] = a IN
       [j \in 1..(Len(s) - 1) |-> IF j < k THEN s[j] ELSE s[j + 1]]

\* Faulty variant: the oldest key goes one assignment too early.
RememberTooFew(s, a) ==
  LET grown == Append(s, a) IN IF Len(grown) >= SeenCap THEN Tail(grown) ELSE grown

\* rememberAssignment: the Map grows by one and then drops its oldest key.
Remember(s, a) ==
  LET grown == Append(s, a) IN IF Len(grown) > SeenCap THEN Tail(grown) ELSE grown

\* Faulty variant: no reload barrier.
RejectedByHops(i, a) == i \in Instances /\ hops[a] >= MaxHops

\* Dropped before anything is remembered: too many hops, or a reload is asked.
Rejected(i, a) == hops[a] >= MaxHops \/ reload[i]

\* handleCommand takes the assignment in; when Pi throws, it is forgotten
\* again, except that it stays in seenAssignments.
TakeIn(i, a) ==
  /\ seenAssignments' = [seenAssignments EXCEPT ![i] = Remember(@, a)]
  /\ taken' = [taken EXCEPT ![i] = Append(@, a)]
  /\ \/ /\ inboundQueue' =
             [inboundQueue EXCEPT ![i] = IF a \in In(@) THEN @ ELSE Append(@, a)]
        /\ currentInbound' = [currentInbound EXCEPT ![i] = a]
        /\ mail' = [mail EXCEPT ![i] = Append(@, a)]
     \/ /\ i \in MayRefuse
        /\ inboundQueue' = [inboundQueue EXCEPT ![i] = Without(@, a)]
        /\ currentInbound' = [currentInbound EXCEPT ![i] = NoTask]
        /\ UNCHANGED mail

\* Bound: an assignment is not delivered again while its answer is being
\* published, which would take SeenCap others in between to be accepted.
HandleCommand(i, m) ==
  /\ m[2] = i /\ (ending[i] # NoTask => ending[i].of # m[1])
  /\ commands' = commands \ {m}
  /\ IF Rejected(i, m[1]) \/ m[1] \in In(seenAssignments[i])
     THEN UNCHANGED <<seenAssignments, taken, inboundQueue, currentInbound, mail>>
     ELSE TakeIn(i, m[1])
  /\ UNCHANGED <<senderVars, replies, turn, ending, reload>>

\* Pi hands the oldest message to a new turn or, when the model has finished
\* with what it was doing, to the one in progress.
TakeMail(i) ==
  /\ mail[i] # <<>> /\ ~InToolCall(i) /\ ending[i] = NoTask
  /\ turn' = [turn EXCEPT ![i] = Head(mail[i])]
  /\ mail' = [mail EXCEPT ![i] = Tail(@)]
  /\ UNCHANGED <<senderVars, commands, replies, seenAssignments, inboundQueue, currentInbound,
                 ending, reload, taken>>

OwnTurn(i) ==
  /\ i \in Prompted /\ turn[i] = NoTask /\ ending[i] = NoTask
  /\ turn' = [turn EXCEPT ![i] = OwnTask]
  /\ UNCHANGED <<senderVars, commands, replies, seenAssignments, inboundQueue, currentInbound, mail,
                 ending, reload, taken>>

\* What agent_end answers: the newest assignment that is not fulfilled.
Newest(i) == inboundQueue[i][Len(inboundQueue[i])]

\* agent_end up to the publish it awaits: the text is that of the turn.
EndTurn(i) ==
  /\ turn[i] # NoTask /\ ~InToolCall(i) /\ inboundQueue[i] # <<>>
  /\ ending' = [ending EXCEPT ![i] = [of |-> Newest(i), about |-> turn[i]]]
  /\ turn' = [turn EXCEPT ![i] = NoTask]
  /\ UNCHANGED <<senderVars, commands, replies, seenAssignments, inboundQueue, currentInbound, mail,
                 reload, taken>>

\* agent_end with nothing to answer, or of a planner that announced an action
\* and called no tool: nothing is acknowledged.
EndUnanswered(i) ==
  /\ turn[i] # NoTask /\ ~InToolCall(i)
  /\ inboundQueue[i] = <<>> \/ i \in Guarded
  /\ turn' = [turn EXCEPT ![i] = NoTask]
  /\ UNCHANGED <<senderVars, commands, replies, seenAssignments, inboundQueue, currentInbound, mail,
                 ending, reload, taken>>

\* Faulty variant: currentInbound is left on the answered assignment.
AnswerKeepsCurrent(i) ==
  /\ ending[i] # NoTask
  /\ replies' = replies \cup ({ending[i]} \X {i} \X (1..Copies[ending[i].of]))
  /\ inboundQueue' = [inboundQueue EXCEPT ![i] = Without(@, ending[i].of)]
  /\ ending' = [ending EXCEPT ![i] = NoTask]
  /\ UNCHANGED <<senderVars, commands, seenAssignments, currentInbound, mail, turn, reload, taken>>

\* The publish of the answer returns.  That the sender may see the answer a
\* little sooner makes no difference: what follows touches only the target.
AnswerSent(i) ==
  /\ ending[i] # NoTask
  /\ replies' = replies \cup ({ending[i]} \X {i} \X (1..Copies[ending[i].of]))
  /\ inboundQueue' = [inboundQueue EXCEPT ![i] = Without(@, ending[i].of)]
  /\ currentInbound' = [currentInbound EXCEPT ![i] = IF @ = ending[i].of THEN NoTask ELSE @]
  /\ ending' = [ending EXCEPT ![i] = NoTask]
  /\ UNCHANGED <<senderVars, commands, seenAssignments, mail, turn, reload, taken>>

\* It throws: the assignment stays open until another turn ends.
AnswerFails(i) ==
  /\ ending[i] # NoTask
  /\ ending' = [ending EXCEPT ![i] = NoTask]
  /\ UNCHANGED <<senderVars, commands, replies, seenAssignments, inboundQueue, currentInbound, mail,
                 turn, reload, taken>>

ReloadPrepare(i) ==
  /\ i \in Reloading /\ ~reload[i]
  /\ reload' = [reload EXCEPT ![i] = TRUE]
  /\ UNCHANGED <<senderVars, commands, replies, seenAssignments, inboundQueue, currentInbound, mail,
                 turn, ending, taken>>

ReloadCancel(i) ==
  /\ reload[i]
  /\ reload' = [reload EXCEPT ![i] = FALSE]
  /\ UNCHANGED <<senderVars, commands, replies, seenAssignments, inboundQueue, currentInbound, mail,
                 turn, ending, taken>>
-----------------------------------------------------------------------------
(* Processes that die.                                                     *)

\* Everything above but the wire is memory of the process.
Restarts(i) ==
  LET mine == {a \in Assignments: Sender[a] = i}
      Reset(f, v) == [a \in Assignments |-> IF a \in mine THEN v ELSE f[a]] IN
  /\ i \in Restarting
  /\ sent' = [a \in Assignments |->
                IF a \in mine /\ sent[a] = "publishing" THEN "failed" ELSE sent[a]]
  /\ pendingReplies' = Reset(pendingReplies, "absent")
  /\ awaited' = Reset(awaited, FALSE)
  /\ waiter' = Reset(waiter, FALSE)
  /\ seenAssignments' = [seenAssignments EXCEPT ![i] = <<>>]
  /\ inboundQueue' = [inboundQueue EXCEPT ![i] = <<>>]
  /\ currentInbound' = [currentInbound EXCEPT ![i] = NoTask]
  /\ mail' = [mail EXCEPT ![i] = <<>>]
  /\ turn' = [turn EXCEPT ![i] = NoTask]
  /\ ending' = [ending EXCEPT ![i] = NoTask]
  /\ reload' = [reload EXCEPT ![i] = FALSE]
  /\ taken' = [taken EXCEPT ![i] = <<>>]
  /\ UNCHANGED <<commands, replies, hops, outcomes, told>>

MsgNext ==
  \/ \E a \in Assignments:
       \/ AgentSend(a) \/ Registered(a) \/ SendFails(a)
       \/ AwaitStarts(a) \/ AwaitTimesOut(a) \/ Timeout(a) \/ Evict(a)
  \/ \E m \in replies: HandleResponse(m)
  \/ \E i \in Instances:
       \/ \E m \in commands: HandleCommand(i, m)
       \/ TakeMail(i) \/ OwnTurn(i) \/ EndTurn(i) \/ EndUnanswered(i)
       \/ AnswerSent(i) \/ AnswerFails(i)
       \/ ReloadPrepare(i) \/ ReloadCancel(i) \/ Restarts(i)

MsgSpec == MsgInit /\ [][MsgNext]_msgVars

\* A publish settles, and a timer that was set and not cleared fires.
MsgFairness ==
  \A a \in Assignments:
    WF_msgVars(Registered(a) \/ SendFails(a)) /\ WF_msgVars(Timeout(a))

FairMsgSpec == MsgSpec /\ MsgFairness
-----------------------------------------------------------------------------
(* Properties.                                                             *)

\* The assignment whose hops agent_send inherits is always one the instance
\* has still to answer, whatever arrives while agent_end publishes.
CurrentIsOpen ==
  \A i \in Instances: currentInbound[i] \in In(inboundQueue[i]) \cup {NoTask}

\* A command delivered again is not handled again until SeenCap other
\* assignments have been taken in.
TakenOnce ==
  \A i \in Instances: \A j, k \in 1..Len(taken[i]):
    j < k /\ taken[i][j] = taken[i][k] => k - j > SeenCap

\* Every answer and every timeout that reaches a sender's entry is told to its
\* model exactly once: by the agent_await that is waiting, or by a wake-up.
ToldOnce ==
  \A a \in Assignments: Sender[a] \notin MayRefuse => told[a] = outcomes[a]

\* Whatever becomes of the command and of its target (refused by a reload,
\* lost, crashed, answered before agent_send has registered it), a sender
\* that lives and whose publish goes through is told something in the end.
AlwaysWoken ==
  \A a \in {b \in Assignments : Sender[b] \notin Restarting \cup MayRefuse} :
    []<>(sent[a] \in {"no", "failed"} \/ told[a] > 0)

\* reloadReady, as far as messages go.
ReloadReady(i) ==
  /\ reload[i] /\ currentInbound[i] = NoTask /\ inboundQueue[i] = <<>>
  /\ \A a \in Assignments: Sender[a] = i => pendingReplies[a] # "pending" /\ ~awaited[a]

\* An instance that has said it can be reloaded takes no assignment in, so that
\* none is lost with the process, until the request is cancelled.
ReadyTakesNothing ==
  [][\A i \in Instances:
       ReloadReady(i) /\ reload'[i] => inboundQueue'[i] = <<>> /\ currentInbound'[i] = NoTask
    ]_msgVars

\* An answer is the text of a turn that handled the assignment it answers.
AnswersMatch == \A m \in replies: m[1].about = m[1].of
=============================================================================
