-------------------------- MODULE Messaging_proofs --------------------------
(* Proofs about Messaging: types, the window of remembered assignments,    *)
(* currentInbound, what the sender is told, and the reload barrier.        *)
EXTENDS Messaging, SequenceTheorems, TLAPS

LEMMA WithoutType ==
  ASSUME NEW s \in Seq(Assignments), NEW a \in Assignments
  PROVE  /\ Without(s, a) \in Seq(Assignments)
         /\ \A b \in In(s) \ {a}: b \in In(Without(s, a))
         /\ s = <<>> => Without(s, a) = <<>>
<1>1. CASE a \notin In(s)
  BY <1>1 DEF Without
<1>2. CASE a \in In(s)
  <2> DEFINE k == CHOOSE k \in 1..Len(s): s[k] = a
             w == [j \in 1..(Len(s) - 1) |-> IF j < k THEN s[j] ELSE s[j + 1]]
  <2>1. k \in 1..Len(s) /\ s[k] = a
    BY <1>2 DEF In
  <2>2. Without(s, a) = w
    BY <1>2 DEF Without
  <2>3. Len(s) \in Nat /\ Len(s) - 1 \in Nat /\ \A j \in 1..Len(s): s[j] \in Assignments
    BY <2>1
  <2>4. w \in Seq(Assignments) /\ Len(w) = Len(s) - 1
    <3>1. \A j \in 1..(Len(s) - 1): w[j] \in Assignments
      BY <2>1, <2>3
    <3> QED
      BY <2>3, <3>1
  <2>5. ASSUME NEW b \in In(s) \ {a} PROVE b \in In(w)
    <3>1. PICK j \in 1..Len(s): s[j] = b
      BY DEF In
    <3>2. j # k
      BY <2>1, <3>1
    <3>3. CASE j < k
      <4>1. j \in 1..(Len(s) - 1) /\ w[j] = b
        BY <2>1, <2>3, <3>1, <3>3
      <4> QED
        BY <4>1, <2>4 DEF In
    <3>4. CASE j > k
      <4>1. j - 1 \in 1..(Len(s) - 1) /\ w[j - 1] = b
        BY <2>1, <2>3, <3>1, <3>4
      <4> QED
        BY <4>1, <2>4 DEF In
    <3> QED
      BY <2>1, <3>2, <3>3, <3>4
  <2>6. s # <<>>
    BY <2>1
  <2> QED
    BY <2>2, <2>4, <2>5, <2>6
<1> QED
  BY <1>1, <1>2

\* What the window of seenAssignments knows about the history.
Window(s, t) ==
  /\ s \in Seq(Assignments) /\ t \in Seq(Assignments)
  /\ Len(s) <= SeenCap /\ Len(s) <= Len(t)
  /\ Len(s) = SeenCap \/ Len(s) = Len(t)
  /\ \A j \in 1..Len(s): s[j] = t[Len(t) - Len(s) + j]

LEMMA RememberWindow ==
  ASSUME NEW s, NEW t, Window(s, t), NEW a \in Assignments
  PROVE  Window(Remember(s, a), Append(t, a))
<1>0. PICK g, u: g = Append(s, a) /\ u = Append(t, a)
  OBVIOUS
<1>1. /\ g \in Seq(Assignments) /\ g # <<>> /\ Len(g) = Len(s) + 1
      /\ \A j \in 1..Len(s): g[j] = s[j]
      /\ g[Len(s) + 1] = a
  BY <1>0, AppendProperties DEF Window
<1>2. /\ u \in Seq(Assignments) /\ Len(u) = Len(t) + 1
      /\ \A j \in 1..Len(t): u[j] = t[j]
      /\ u[Len(t) + 1] = a
  BY <1>0, AppendProperties DEF Window
<1>3. Len(s) \in Nat /\ Len(t) \in Nat /\ SeenCap \in Nat \ {0}
  BY LimitAssumption, LenProperties DEF Window
<1>4. \A j \in 1..Len(g): g[j] = u[Len(u) - Len(g) + j]
  <2> TAKE j \in 1..Len(g)
  <2>1. CASE j = Len(s) + 1
    BY <2>1, <1>1, <1>2, <1>3
  <2>2. CASE j \in 1..Len(s)
    <3>1. Len(t) - Len(s) + j \in 1..Len(t) /\ s[j] = t[Len(t) - Len(s) + j]
      BY <2>2, <1>3 DEF Window
    <3>2. Len(u) - Len(g) + j = Len(t) - Len(s) + j
      BY <1>1, <1>2, <1>3
    <3> QED
      BY <2>2, <3>1, <3>2, <1>1, <1>2
  <2> QED
    BY <2>1, <2>2, <1>1, <1>3
<1>7. Len(s) <= SeenCap /\ Len(s) <= Len(t) /\ (Len(s) = SeenCap \/ Len(s) = Len(t))
  BY DEF Window
<1>5. CASE Len(g) > SeenCap
  <2>1. Remember(s, a) = Tail(g)
    BY <1>0, <1>5 DEF Remember
  <2>2. /\ Tail(g) \in Seq(Assignments) /\ Len(Tail(g)) = Len(s)
        /\ \A j \in 1..Len(s): Tail(g)[j] = g[j + 1]
    BY <1>1, <1>3, HeadTailProperties
  <2>3. \A j \in 1..Len(s): Tail(g)[j] = u[Len(u) - Len(s) + j]
    <3> TAKE j \in 1..Len(s)
    <3>1. j + 1 \in 1..Len(g) /\ Len(u) - Len(g) + (j + 1) = Len(u) - Len(s) + j
      BY <1>1, <1>2, <1>3
    <3>2. g[j + 1] = u[Len(u) - Len(g) + (j + 1)]
      BY <1>4, <3>1
    <3> QED
      BY <2>2, <3>1, <3>2
  <2> QED
    <3>1. Len(s) = SeenCap /\ Len(s) <= Len(u)
      BY <1>1, <1>2, <1>3, <1>5, <1>7
    <3>2. Window(Tail(g), u)
      BY <2>2, <2>3, <1>2, <3>1 DEF Window
    <3> QED
      BY <2>1, <3>2, <1>0
<1>6. CASE Len(g) <= SeenCap
  <2>1. Remember(s, a) = g
    BY <1>0, <1>6, <1>1, <1>3 DEF Remember
  <2> QED
    <3>1. Len(g) = Len(u) /\ Len(g) <= SeenCap
      BY <1>1, <1>2, <1>3, <1>6, <1>7
    <3>2. Window(g, u)
      BY <1>1, <1>2, <1>4, <3>1 DEF Window
    <3> QED
      BY <2>1, <3>2, <1>0
<1> QED
  BY <1>1, <1>3, <1>5, <1>6

\* TakenOnce for one history.
Spaced(t) ==
  \A j, k \in 1..Len(t): j < k /\ t[j] = t[k] => k - j > SeenCap

LEMMA AppendSpaced ==
  ASSUME NEW s, NEW t, Window(s, t), Spaced(t), NEW a \in Assignments, a \notin In(s)
  PROVE  Spaced(Append(t, a))
<1> DEFINE u == Append(t, a)
<1>1. /\ Len(u) = Len(t) + 1
      /\ \A j \in 1..Len(t): u[j] = t[j]
      /\ u[Len(t) + 1] = a
  BY AppendProperties DEF Window
<1>2. Len(s) \in Nat /\ Len(t) \in Nat /\ SeenCap \in Nat \ {0}
  BY LimitAssumption, LenProperties DEF Window
<1> SUFFICES ASSUME NEW j \in 1..Len(u), NEW k \in 1..Len(u), j < k, u[j] = u[k]
             PROVE  k - j > SeenCap
  BY DEF Spaced
<1>3. CASE k \in 1..Len(t)
  BY <1>1, <1>2, <1>3 DEF Spaced
<1>4. CASE k = Len(t) + 1
  <2>1. j \in 1..Len(t) /\ t[j] = a
    BY <1>1, <1>2, <1>4
  <2>2. ~(j > Len(t) - Len(s))
    <3> SUFFICES ASSUME j > Len(t) - Len(s) PROVE FALSE
      OBVIOUS
    <3> DEFINE p == j - (Len(t) - Len(s))
    <3>1. p \in 1..Len(s) /\ Len(t) - Len(s) + p = j
      BY <1>2, <2>1 DEF Window
    <3>2. s[p] = a
      BY <3>1, <2>1 DEF Window
    <3> QED
      BY <3>1, <3>2 DEF In
  <2>3. Len(s) = SeenCap
    BY <2>1, <2>2, <1>2 DEF Window
  <2> QED
    BY <2>1, <2>2, <2>3, <1>2, <1>4
<1> QED
  BY <1>1, <1>2, <1>3, <1>4
-----------------------------------------------------------------------------
(* Types.                                                                  *)

LEMMA RememberType ==
  ASSUME NEW s \in Seq(Assignments), Len(s) <= SeenCap, NEW a \in Assignments
  PROVE  Remember(s, a) \in Seq(Assignments) /\ Len(Remember(s, a)) <= SeenCap
<1>0. PICK g: g = Append(s, a)
  OBVIOUS
<1>1. g \in Seq(Assignments) /\ g # <<>> /\ Len(g) = Len(s) + 1
  BY <1>0, AppendProperties
<1>2. Tail(g) \in Seq(Assignments) /\ Len(Tail(g)) = Len(s)
  BY <1>1, HeadTailProperties, LenProperties
<1> QED
  BY <1>0, <1>1, <1>2, LenProperties, LimitAssumption DEF Remember

LEMMA MsgTypeInit == MsgInit => MsgTypeOK
  BY LimitAssumption DEF MsgInit, MsgTypeOK, Tasks

LEMMA SenderTypes ==
  ASSUME MsgTypeOK, NEW a \in Assignments,
         \/ AgentSend(a) \/ Registered(a) \/ SendFails(a)
         \/ AwaitStarts(a) \/ AwaitTimesOut(a) \/ Timeout(a) \/ Evict(a)
  PROVE  MsgTypeOK'
<1>1. CASE AgentSend(a)
  <2>1. PICK newRound \in BOOLEAN, route \in Routes[a]:
          /\ hops' = [hops EXCEPT ![a] = HopsOf(Sender[a], newRound)]
          /\ commands' = commands \cup ({a} \X route \X (1..Copies[a]))
    BY <1>1 DEF AgentSend
  <2>2. HopsOf(Sender[a], newRound) \in Nat
    BY SenderAssumption DEF MsgTypeOK, HopsOf
  <2>3. hops' \in [Assignments -> Nat]
    BY <2>1, <2>2 DEF MsgTypeOK
  <2>4. commands' \subseteq Assignments \X Instances \X Nat
    <3>1. route \subseteq Instances
      BY RoutesAssumption
    <3>2. 1..Copies[a] \subseteq Nat
      BY LimitAssumption
    <3>3. {a} \X route \X (1..Copies[a]) \subseteq Assignments \X Instances \X Nat
      BY <3>1, <3>2
    <3> QED
      BY <2>1, <3>3 DEF MsgTypeOK
  <2> QED
    BY <1>1, <2>3, <2>4 DEF AgentSend, MsgTypeOK, targetVars
<1>2. CASE Registered(a)
  BY <1>2 DEF Registered, MsgTypeOK, targetVars
<1>3. CASE SendFails(a)
  BY <1>3 DEF SendFails, MsgTypeOK, targetVars
<1>4. CASE AwaitStarts(a)
  BY <1>4 DEF AwaitStarts, MsgTypeOK, targetVars
<1>5. CASE AwaitTimesOut(a)
  BY <1>5 DEF AwaitTimesOut, MsgTypeOK, targetVars
<1>6. CASE Timeout(a)
  <2>1. PICK n \in {0, 1}: told' = [told EXCEPT ![a] = @ + n + (IF waiter[a] THEN 1 ELSE 0)]
    BY <1>6 DEF Timeout, Resolve, Woken
  <2>2. told' \in [Assignments -> Nat]
    BY <2>1 DEF MsgTypeOK
  <2> QED
    BY <1>6, <2>2 DEF Timeout, Resolve, MsgTypeOK, targetVars
<1>7. CASE Evict(a)
  BY <1>7 DEF Evict, MsgTypeOK, targetVars
<1> QED
  BY <1>1, <1>2, <1>3, <1>4, <1>5, <1>6, <1>7

LEMMA ResponseTypes ==
  ASSUME MsgTypeOK, NEW m \in replies, HandleResponse(m)
  PROVE  MsgTypeOK'
<1> DEFINE a == m[1].of
<1>1. a \in Assignments
  BY DEF MsgTypeOK, Replies, Answers
<1>2. CASE pendingReplies[a] = "absent"
  BY <1>2 DEF HandleResponse, MsgTypeOK, senderVars, targetVars
<1>3. CASE pendingReplies[a] # "absent"
  <2>1. Resolve(a, "answered")
    BY <1>3 DEF HandleResponse
  <2>2. PICK n \in {0, 1}: told' = [told EXCEPT ![a] = @ + n + (IF waiter[a] THEN 1 ELSE 0)]
    BY <2>1 DEF Resolve, Woken
  <2>3. told' \in [Assignments -> Nat]
    BY <1>1, <2>2 DEF MsgTypeOK
  <2>4. pendingReplies' \in [Assignments -> {"absent", "pending", "answered", "timeout"}]
    BY <2>1 DEF Resolve, MsgTypeOK
  <2>5. /\ waiter' \in [Assignments -> BOOLEAN]
        /\ awaited' \in [Assignments -> BOOLEAN]
        /\ outcomes' \in [Assignments -> Nat]
    BY <1>1, <2>1 DEF Resolve, MsgTypeOK
  <2> QED
    BY <1>3, <2>3, <2>4, <2>5 DEF HandleResponse, MsgTypeOK, targetVars
<1> QED
  BY <1>2, <1>3

LEMMA CommandTypes ==
  ASSUME MsgTypeOK, NEW i \in Instances, NEW m \in commands, HandleCommand(i, m)
  PROVE  MsgTypeOK'
<1> DEFINE a == m[1]
<1>1. a \in Assignments
  BY DEF MsgTypeOK
<1>2. CASE Rejected(i, a) \/ a \in In(seenAssignments[i])
  BY <1>2 DEF HandleCommand, MsgTypeOK, senderVars
<1>3. CASE ~(Rejected(i, a) \/ a \in In(seenAssignments[i]))
  <2>1. TakeIn(i, a)
    BY <1>3 DEF HandleCommand
  <2>2. /\ seenAssignments' \in [Instances -> Seq(Assignments)]
        /\ \A j \in Instances: Len(seenAssignments'[j]) <= SeenCap
    BY <1>1, <2>1, RememberType DEF TakeIn, MsgTypeOK
  <2>3. taken' \in [Instances -> Seq(Assignments)]
    BY <1>1, <2>1, AppendProperties DEF TakeIn, MsgTypeOK
  <2>4. inboundQueue' \in [Instances -> Seq(Assignments)]
    <3>1. inboundQueue[i] \in Seq(Assignments)
      BY DEF MsgTypeOK
    <3>2. /\ Append(inboundQueue[i], a) \in Seq(Assignments)
          /\ Without(inboundQueue[i], a) \in Seq(Assignments)
      BY <1>1, <3>1, AppendProperties, WithoutType
    <3>3. PICK q \in Seq(Assignments): inboundQueue' = [inboundQueue EXCEPT ![i] = q]
      BY <2>1, <3>1, <3>2 DEF TakeIn
    <3> QED
      BY <3>3 DEF MsgTypeOK
  <2>5. currentInbound' \in [Instances -> Assignments \cup {NoTask}]
    BY <1>1, <2>1 DEF TakeIn, MsgTypeOK
  <2>6. mail' \in [Instances -> Seq(Assignments)]
    <3>1. Append(mail[i], a) \in Seq(Assignments)
      BY <1>1, AppendProperties DEF MsgTypeOK
    <3>2. mail' = mail \/ mail' = [mail EXCEPT ![i] = Append(mail[i], a)]
      BY <2>1 DEF TakeIn
    <3> QED
      BY <3>1, <3>2 DEF MsgTypeOK
  <2> QED
    BY <2>2, <2>3, <2>4, <2>5, <2>6 DEF HandleCommand, MsgTypeOK, senderVars
<1> QED
  BY <1>2, <1>3

LEMMA TargetTypes ==
  ASSUME MsgTypeOK, NEW i \in Instances,
         \/ TakeMail(i) \/ OwnTurn(i) \/ EndTurn(i) \/ EndUnanswered(i)
         \/ AnswerSent(i) \/ AnswerFails(i)
         \/ ReloadPrepare(i) \/ ReloadCancel(i)
  PROVE  MsgTypeOK'
<1>1. CASE TakeMail(i)
  <2>1. Head(mail[i]) \in Assignments /\ Tail(mail[i]) \in Seq(Assignments)
    BY <1>1, HeadTailProperties DEF TakeMail, MsgTypeOK
  <2> QED
    BY <1>1, <2>1 DEF TakeMail, MsgTypeOK, Tasks, senderVars
<1>2. CASE OwnTurn(i)
  BY <1>2 DEF OwnTurn, MsgTypeOK, Tasks, senderVars
<1>3. CASE EndTurn(i)
  <2>1. Newest(i) \in Assignments
    <3>1. inboundQueue[i] \in Seq(Assignments) /\ inboundQueue[i] # <<>>
      BY <1>3 DEF EndTurn, MsgTypeOK
    <3>2. Len(inboundQueue[i]) \in 1..Len(inboundQueue[i])
      BY <3>1, EmptySeq, LenProperties
    <3> QED
      BY <3>1, <3>2, ElementOfSeq DEF Newest
  <2>2. [of |-> Newest(i), about |-> turn[i]] \in Answers
    BY <1>3, <2>1 DEF EndTurn, MsgTypeOK, Tasks, Answers
  <2>3. ending' \in [Instances -> Answers \cup {NoTask}]
    BY <1>3, <2>2 DEF EndTurn, MsgTypeOK
  <2> QED
    BY <1>3, <2>3 DEF EndTurn, MsgTypeOK, Tasks, senderVars
<1>4. CASE EndUnanswered(i)
  BY <1>4 DEF EndUnanswered, MsgTypeOK, Tasks, senderVars
<1>5. CASE AnswerSent(i)
  <2>1. ending[i] \in Answers /\ ending[i].of \in Assignments
    BY <1>5 DEF AnswerSent, MsgTypeOK, Answers
  <2>2. replies' \subseteq Replies
    BY <1>5, <2>1, LimitAssumption DEF AnswerSent, MsgTypeOK, Replies
  <2>3. inboundQueue' \in [Instances -> Seq(Assignments)]
    BY <1>5, <2>1, WithoutType DEF AnswerSent, MsgTypeOK
  <2>4. currentInbound' \in [Instances -> Assignments \cup {NoTask}]
    BY <1>5 DEF AnswerSent, MsgTypeOK
  <2> QED
    BY <1>5, <2>2, <2>3, <2>4 DEF AnswerSent, MsgTypeOK, senderVars
<1>6. CASE AnswerFails(i)
  BY <1>6 DEF AnswerFails, MsgTypeOK, senderVars
<1>7. CASE ReloadPrepare(i)
  BY <1>7 DEF ReloadPrepare, MsgTypeOK, senderVars
<1>8. CASE ReloadCancel(i)
  BY <1>8 DEF ReloadCancel, MsgTypeOK, senderVars
<1> QED
  BY <1>1, <1>2, <1>3, <1>4, <1>5, <1>6, <1>7, <1>8

LEMMA CrashTypes ==
  ASSUME MsgTypeOK, NEW i \in Instances, Restarts(i)
  PROVE  MsgTypeOK'
<1>1. /\ sent' \in [Assignments -> {"no", "publishing", "sent", "failed"}]
      /\ pendingReplies' \in [Assignments -> {"absent", "pending", "answered", "timeout"}]
      /\ awaited' \in [Assignments -> BOOLEAN]
      /\ waiter' \in [Assignments -> BOOLEAN]
  BY DEF Restarts, MsgTypeOK
<1>2. /\ seenAssignments' \in [Instances -> Seq(Assignments)]
      /\ \A j \in Instances: Len(seenAssignments'[j]) <= SeenCap
  BY LimitAssumption, EmptySeq DEF Restarts, MsgTypeOK
<1>3. /\ inboundQueue' \in [Instances -> Seq(Assignments)]
      /\ mail' \in [Instances -> Seq(Assignments)]
      /\ taken' \in [Instances -> Seq(Assignments)]
  BY EmptySeq DEF Restarts, MsgTypeOK
<1>4. /\ currentInbound' \in [Instances -> Assignments \cup {NoTask}]
      /\ turn' \in [Instances -> Tasks]
      /\ ending' \in [Instances -> Answers \cup {NoTask}]
      /\ reload' \in [Instances -> BOOLEAN]
  BY DEF Restarts, MsgTypeOK, Tasks
<1> QED
  BY <1>1, <1>2, <1>3, <1>4 DEF Restarts, MsgTypeOK

LEMMA MsgTypeStep == MsgTypeOK /\ [MsgNext]_msgVars => MsgTypeOK'
<1> SUFFICES ASSUME MsgTypeOK, [MsgNext]_msgVars PROVE MsgTypeOK'
  OBVIOUS
<1>1. CASE UNCHANGED msgVars
  BY <1>1 DEF msgVars, senderVars, targetVars, MsgTypeOK
<1> QED
  BY <1>1, SenderTypes, ResponseTypes, CommandTypes, TargetTypes, CrashTypes DEF MsgNext

\* Every reachable state of the messaging between instances is well typed, for
\* any instances, assignments, routes and bounds: seenAssignments never grows
\* beyond its cap, and every queue and every answer is about real assignments.
THEOREM MsgTypesAreCorrect == MsgSpec => []MsgTypeOK
  BY MsgTypeInit, MsgTypeStep, PTL DEF MsgSpec
-----------------------------------------------------------------------------
(* currentInbound.                                                         *)

LEMMA AppendKeeps ==
  ASSUME NEW s \in Seq(Assignments), NEW a \in Assignments
  PROVE  a \in In(Append(s, a)) /\ \A b \in In(s): b \in In(Append(s, a))
<1>1. /\ Len(Append(s, a)) = Len(s) + 1 /\ Len(s) \in Nat
      /\ \A k \in 1..Len(s): Append(s, a)[k] = s[k]
      /\ Append(s, a)[Len(s) + 1] = a
  BY AppendProperties, LenProperties
<1>2. a \in In(Append(s, a))
  <2>1. Len(s) + 1 \in 1..Len(Append(s, a))
    BY <1>1
  <2> QED
    BY <1>1, <2>1 DEF In
<1>3. ASSUME NEW b \in In(s) PROVE b \in In(Append(s, a))
  <2>1. PICK k \in 1..Len(s): s[k] = b
    BY DEF In
  <2>2. k \in 1..Len(Append(s, a)) /\ Append(s, a)[k] = b
    BY <1>1, <2>1
  <2> QED
    BY <2>2 DEF In
<1> QED
  BY <1>2, <1>3

LEMMA CurrentStep == MsgTypeOK /\ CurrentIsOpen /\ [MsgNext]_msgVars => CurrentIsOpen'
<1> SUFFICES ASSUME MsgTypeOK, CurrentIsOpen, [MsgNext]_msgVars PROVE CurrentIsOpen'
  OBVIOUS
<1>1. CASE UNCHANGED <<inboundQueue, currentInbound>>
  BY <1>1 DEF CurrentIsOpen
<1>2. ASSUME NEW i \in Instances, NEW m \in commands, HandleCommand(i, m)
      PROVE  CurrentIsOpen'
  <2> DEFINE a == m[1]
  <2>1. a \in Assignments
    BY DEF MsgTypeOK
  <2>2. CASE UNCHANGED <<inboundQueue, currentInbound>>
    BY <2>2 DEF CurrentIsOpen
  <2>3. CASE TakeIn(i, a)
    <3>1. inboundQueue[i] \in Seq(Assignments)
      BY DEF MsgTypeOK
    <3>2. \/ currentInbound' = [currentInbound EXCEPT ![i] = NoTask]
          \/ /\ currentInbound' = [currentInbound EXCEPT ![i] = a]
             /\ a \in In(inboundQueue'[i])
      <4>1. CASE i \in MayRefuse /\ currentInbound' = [currentInbound EXCEPT ![i] = NoTask]
        BY <4>1
      <4>2. CASE /\ inboundQueue' = [inboundQueue EXCEPT
                      ![i] = IF a \in In(@) THEN @ ELSE Append(@, a)]
                 /\ currentInbound' = [currentInbound EXCEPT ![i] = a]
        <5>1. inboundQueue'[i] =
                IF a \in In(inboundQueue[i]) THEN inboundQueue[i] ELSE Append(inboundQueue[i], a)
          BY <4>2 DEF MsgTypeOK
        <5>2. a \in In(inboundQueue'[i])
          BY <2>1, <3>1, <5>1, AppendKeeps
        <5> QED
          BY <4>2, <5>2
      <4> QED
        BY <2>3, <4>1, <4>2 DEF TakeIn
    <3>3. currentInbound'[i] \in In(inboundQueue'[i]) \cup {NoTask}
      BY <3>2 DEF MsgTypeOK
    <3>4. \A j \in Instances \ {i}:
            currentInbound'[j] = currentInbound[j] /\ inboundQueue'[j] = inboundQueue[j]
      BY <2>3 DEF TakeIn, MsgTypeOK
    <3> QED
      BY <3>3, <3>4 DEF CurrentIsOpen
  <2> QED
    BY <1>2, <2>2, <2>3 DEF HandleCommand
<1>3. ASSUME NEW i \in Instances, AnswerSent(i) PROVE CurrentIsOpen'
  <2> DEFINE a == ending[i].of
  <2>1. a \in Assignments /\ inboundQueue[i] \in Seq(Assignments)
    BY <1>3 DEF AnswerSent, MsgTypeOK, Answers
  <2>2. inboundQueue'[i] = Without(inboundQueue[i], a)
    BY <1>3 DEF AnswerSent, MsgTypeOK
  <2>3. currentInbound'[i] = IF currentInbound[i] = a THEN NoTask ELSE currentInbound[i]
    BY <1>3 DEF AnswerSent, MsgTypeOK
  <2>4. currentInbound'[i] \in In(inboundQueue'[i]) \cup {NoTask}
    BY <2>1, <2>2, <2>3, WithoutType DEF CurrentIsOpen
  <2>5. \A j \in Instances \ {i}:
          currentInbound'[j] = currentInbound[j] /\ inboundQueue'[j] = inboundQueue[j]
    BY <1>3 DEF AnswerSent, MsgTypeOK
  <2> QED
    BY <2>4, <2>5 DEF CurrentIsOpen
<1>4. ASSUME NEW i \in Instances, Restarts(i) PROVE CurrentIsOpen'
  BY <1>4 DEF Restarts, CurrentIsOpen, MsgTypeOK
<1>5. ASSUME NEW a \in Assignments,
             \/ AgentSend(a) \/ Registered(a) \/ SendFails(a)
             \/ AwaitStarts(a) \/ AwaitTimesOut(a) \/ Timeout(a) \/ Evict(a)
      PROVE  UNCHANGED <<inboundQueue, currentInbound>>
  BY <1>5 DEF AgentSend, Registered, SendFails, AwaitStarts, AwaitTimesOut, Timeout, Evict, targetVars
<1>6. ASSUME NEW m \in replies, HandleResponse(m) PROVE UNCHANGED <<inboundQueue, currentInbound>>
  BY <1>6 DEF HandleResponse, targetVars
<1>7. ASSUME NEW i \in Instances,
             \/ TakeMail(i) \/ OwnTurn(i) \/ EndTurn(i) \/ EndUnanswered(i)
             \/ AnswerFails(i) \/ ReloadPrepare(i) \/ ReloadCancel(i)
      PROVE  UNCHANGED <<inboundQueue, currentInbound>>
  BY <1>7 DEF TakeMail, OwnTurn, EndTurn, EndUnanswered, AnswerFails, ReloadPrepare, ReloadCancel
<1>8. CASE UNCHANGED msgVars
  BY <1>1, <1>8 DEF msgVars, targetVars
<1> QED
  BY <1>1, <1>2, <1>3, <1>4, <1>5, <1>6, <1>7, <1>8 DEF MsgNext

\* The assignment whose hops and campaign agent_send inherits is always one
\* that the instance has still to answer, for any number of instances.
THEOREM CurrentStaysOpen == MsgSpec => []CurrentIsOpen
<1>1. MsgInit => CurrentIsOpen
  BY DEF MsgInit, CurrentIsOpen
<1> QED
  BY <1>1, CurrentStep, MsgTypesAreCorrect, PTL DEF MsgSpec
-----------------------------------------------------------------------------
(* The window of remembered assignments.                                   *)

WindowInv == \A i \in Instances: Window(seenAssignments[i], taken[i]) /\ Spaced(taken[i])

LEMMA EmptyWindow == Window(<<>>, <<>>) /\ Spaced(<<>>)
  BY LimitAssumption, EmptySeq DEF Window, Spaced

LEMMA WindowStep == MsgTypeOK /\ WindowInv /\ [MsgNext]_msgVars => WindowInv'
<1> SUFFICES ASSUME MsgTypeOK, WindowInv, [MsgNext]_msgVars PROVE WindowInv'
  OBVIOUS
<1>1. CASE UNCHANGED <<seenAssignments, taken>>
  BY <1>1 DEF WindowInv
<1>2. ASSUME NEW i \in Instances, NEW m \in commands, HandleCommand(i, m) PROVE WindowInv'
  <2> DEFINE a == m[1]
  <2>1. a \in Assignments
    BY DEF MsgTypeOK
  <2>2. CASE Rejected(i, a) \/ a \in In(seenAssignments[i])
    BY <1>1, <1>2, <2>2 DEF HandleCommand
  <2>3. CASE ~(Rejected(i, a) \/ a \in In(seenAssignments[i]))
    <3>1. /\ seenAssignments' = [seenAssignments EXCEPT ![i] = Remember(seenAssignments[i], a)]
          /\ taken' = [taken EXCEPT ![i] = Append(taken[i], a)]
      BY <1>2, <2>3 DEF HandleCommand, TakeIn
    <3>2. /\ Window(Remember(seenAssignments[i], a), Append(taken[i], a))
          /\ Spaced(Append(taken[i], a))
      BY <2>1, <2>3, RememberWindow, AppendSpaced DEF WindowInv
    <3>3. \A j \in Instances:
            /\ seenAssignments'[j] = IF j = i THEN Remember(seenAssignments[i], a) ELSE seenAssignments[j]
            /\ taken'[j] = IF j = i THEN Append(taken[i], a) ELSE taken[j]
      BY <3>1 DEF MsgTypeOK
    <3> QED
      BY <3>2, <3>3 DEF WindowInv
  <2> QED
    BY <2>2, <2>3
<1>3. ASSUME NEW i \in Instances, Restarts(i) PROVE WindowInv'
  <2>1. \A j \in Instances:
          /\ seenAssignments'[j] = IF j = i THEN <<>> ELSE seenAssignments[j]
          /\ taken'[j] = IF j = i THEN <<>> ELSE taken[j]
    BY <1>3 DEF Restarts, MsgTypeOK
  <2> QED
    BY <2>1, EmptyWindow DEF WindowInv
<1>4. ASSUME NEW a \in Assignments,
             \/ AgentSend(a) \/ Registered(a) \/ SendFails(a)
             \/ AwaitStarts(a) \/ AwaitTimesOut(a) \/ Timeout(a) \/ Evict(a)
      PROVE  UNCHANGED <<seenAssignments, taken>>
  BY <1>4 DEF AgentSend, Registered, SendFails, AwaitStarts, AwaitTimesOut, Timeout, Evict, targetVars
<1>5. ASSUME NEW m \in replies, HandleResponse(m) PROVE UNCHANGED <<seenAssignments, taken>>
  BY <1>5 DEF HandleResponse, targetVars
<1>6. ASSUME NEW i \in Instances,
             \/ TakeMail(i) \/ OwnTurn(i) \/ EndTurn(i) \/ EndUnanswered(i)
             \/ AnswerSent(i) \/ AnswerFails(i) \/ ReloadPrepare(i) \/ ReloadCancel(i)
      PROVE  UNCHANGED <<seenAssignments, taken>>
  BY <1>6 DEF TakeMail, OwnTurn, EndTurn, EndUnanswered, AnswerSent, AnswerFails, ReloadPrepare,
              ReloadCancel
<1>7. CASE UNCHANGED msgVars
  BY <1>1, <1>7 DEF msgVars, targetVars
<1> QED
  BY <1>1, <1>2, <1>3, <1>4, <1>5, <1>6, <1>7 DEF MsgNext

\* A redelivered command is handled again only after SEEN_ASSIGNMENTS_CAP other
\* assignments, for any cap and any history of one process.
THEOREM CommandsAreTakenOnce == MsgSpec => []TakenOnce
<1>1. MsgInit => WindowInv
  <2> SUFFICES ASSUME MsgInit, NEW i \in Instances PROVE Window(seenAssignments[i], taken[i]) /\ Spaced(taken[i])
    BY DEF WindowInv
  <2>1. seenAssignments[i] = <<>> /\ taken[i] = <<>>
    BY DEF MsgInit
  <2> QED
    BY <2>1, EmptyWindow
<1>2. WindowInv => TakenOnce
  BY DEF WindowInv, Spaced, TakenOnce
<1> QED
  BY <1>1, <1>2, WindowStep, MsgTypesAreCorrect, PTL DEF MsgSpec
-----------------------------------------------------------------------------
(* What the sender is told.                                                *)

\* The flag is up exactly while a call waits, and then there is no result.
AwaitInv ==
  \A a \in Assignments:
    /\ awaited[a] = waiter[a]
    /\ waiter[a] => pendingReplies[a] = "pending"

ToldInv == AwaitInv /\ ToldOnce

LEMMA ResolveStep ==
  ASSUME MsgTypeOK, ToldInv, NEW a \in Assignments, NEW result, Resolve(a, result)
  PROVE  ToldInv'
<1>1. PICK n \in Woken(a): told' = [told EXCEPT ![a] = @ + n + (IF waiter[a] THEN 1 ELSE 0)]
  BY DEF Resolve
<1>2. waiter[a] \in BOOLEAN /\ awaited[a] = waiter[a]
  BY DEF MsgTypeOK, ToldInv, AwaitInv
<1>3. ASSUME NEW b \in Assignments
      PROVE  /\ waiter'[b] = IF b = a THEN FALSE ELSE waiter[b]
             /\ awaited'[b] = IF b = a THEN FALSE ELSE awaited[b]
             /\ b # a => pendingReplies'[b] = pendingReplies[b]
  BY <1>2 DEF Resolve, MsgTypeOK
<1>4. AwaitInv'
  BY <1>3 DEF ToldInv, AwaitInv
<1>5. Sender[a] \notin MayRefuse => n + (IF waiter[a] THEN 1 ELSE 0) = 1
  BY <1>2 DEF Woken, Wakes
<1>6. ASSUME NEW b \in Assignments, Sender[b] \notin MayRefuse
      PROVE  told'[b] = outcomes'[b]
  <2>1. told[b] = outcomes[b] /\ told[b] \in Nat
    BY <1>6 DEF ToldInv, ToldOnce, MsgTypeOK
  <2>2. CASE b = a
    <3>1. told'[a] = told[a] + n + (IF waiter[a] THEN 1 ELSE 0)
      BY <1>1 DEF MsgTypeOK
    <3>2. outcomes'[a] = outcomes[a] + 1
      BY DEF Resolve, MsgTypeOK
    <3>3. n \in Nat
      BY DEF Woken
    <3> QED
      BY <1>5, <1>6, <2>1, <2>2, <3>1, <3>2, <3>3
  <2>3. CASE b # a
    BY <1>1, <2>1, <2>3 DEF Resolve, MsgTypeOK
  <2> QED
    BY <2>2, <2>3
<1>7. ToldOnce'
  BY <1>6 DEF ToldOnce
<1> QED
  BY <1>4, <1>7 DEF ToldInv

LEMMA ToldStep == MsgTypeOK /\ ToldInv /\ [MsgNext]_msgVars => ToldInv'
<1> SUFFICES ASSUME MsgTypeOK, ToldInv, [MsgNext]_msgVars PROVE ToldInv'
  OBVIOUS
<1> DEFINE kept == UNCHANGED <<pendingReplies, awaited, waiter, outcomes, told>>
<1>1. CASE kept
  BY <1>1 DEF ToldInv, AwaitInv, ToldOnce
<1>2. ASSUME NEW a \in Assignments, AgentSend(a) \/ SendFails(a) PROVE kept
  BY <1>2 DEF AgentSend, SendFails
<1>3. ASSUME NEW a \in Assignments, Registered(a) \/ Evict(a) PROVE ToldInv'
  <2>1. UNCHANGED <<awaited, waiter, outcomes, told>>
    BY <1>3 DEF Registered, Evict
  <2>2. \A b \in Assignments: pendingReplies[b] = "pending" => pendingReplies'[b] = "pending"
    BY <1>3 DEF Registered, Evict, MsgTypeOK
  <2> QED
    BY <2>1, <2>2 DEF ToldInv, AwaitInv, ToldOnce
<1>4. ASSUME NEW a \in Assignments, AwaitStarts(a) PROVE ToldInv'
  BY <1>4 DEF AwaitStarts, ToldInv, AwaitInv, ToldOnce, MsgTypeOK
<1>5. ASSUME NEW a \in Assignments, AwaitTimesOut(a) PROVE ToldInv'
  BY <1>5 DEF AwaitTimesOut, ToldInv, AwaitInv, ToldOnce, MsgTypeOK
<1>6. ASSUME NEW a \in Assignments, Timeout(a) PROVE ToldInv'
  BY <1>6, ResolveStep DEF Timeout
<1>7. ASSUME NEW m \in replies, HandleResponse(m) PROVE ToldInv'
  <2>1. m[1].of \in Assignments
    BY DEF MsgTypeOK, Replies, Answers
  <2>2. CASE pendingReplies[m[1].of] = "absent"
    BY <1>1, <1>7, <2>2 DEF HandleResponse, senderVars
  <2>3. CASE pendingReplies[m[1].of] # "absent"
    BY <1>7, <2>1, <2>3, ResolveStep DEF HandleResponse
  <2> QED
    BY <2>2, <2>3
<1>8. ASSUME NEW i \in Instances, NEW m \in commands, HandleCommand(i, m) PROVE kept
  BY <1>8 DEF HandleCommand, senderVars
<1>9. ASSUME NEW i \in Instances,
             \/ TakeMail(i) \/ OwnTurn(i) \/ EndTurn(i) \/ EndUnanswered(i)
             \/ AnswerSent(i) \/ AnswerFails(i) \/ ReloadPrepare(i) \/ ReloadCancel(i)
      PROVE  kept
  BY <1>9 DEF TakeMail, OwnTurn, EndTurn, EndUnanswered, AnswerSent, AnswerFails, ReloadPrepare,
              ReloadCancel, senderVars
<1>10. ASSUME NEW i \in Instances, Restarts(i) PROVE ToldInv'
  <2>1. UNCHANGED <<outcomes, told>>
    BY <1>10 DEF Restarts
  <2>2. ASSUME NEW a \in Assignments
        PROVE  /\ awaited'[a] = IF Sender[a] = i THEN FALSE ELSE awaited[a]
               /\ waiter'[a] = IF Sender[a] = i THEN FALSE ELSE waiter[a]
               /\ Sender[a] # i => pendingReplies'[a] = pendingReplies[a]
    BY <1>10 DEF Restarts
  <2> QED
    BY <2>1, <2>2 DEF ToldInv, AwaitInv, ToldOnce
<1>11. CASE UNCHANGED msgVars
  BY <1>1, <1>11 DEF msgVars, senderVars
<1> QED
  BY <1>1, <1>2, <1>3, <1>4, <1>5, <1>6, <1>7, <1>8, <1>9, <1>10, <1>11 DEF MsgNext

\* Every answer and every timeout an entry gets is told to the sender's model
\* exactly once, by agent_await or by a wake-up and never by both, for any
\* number of answers, also late and repeated ones.
THEOREM OutcomesAreToldOnce == MsgSpec => []ToldOnce
<1>1. MsgInit => ToldInv
  BY DEF MsgInit, ToldInv, AwaitInv, ToldOnce
<1>2. ToldInv => ToldOnce
  BY DEF ToldInv
<1> QED
  BY <1>1, <1>2, ToldStep, MsgTypesAreCorrect, PTL DEF MsgSpec
-----------------------------------------------------------------------------
(* The reload barrier.                                                     *)

LEMMA ReadyStep ==
  ASSUME MsgTypeOK, [MsgNext]_msgVars, NEW i \in Instances, ReloadReady(i), reload'[i]
  PROVE  inboundQueue'[i] = <<>> /\ currentInbound'[i] = NoTask
<1>1. inboundQueue[i] = <<>> /\ currentInbound[i] = NoTask /\ reload[i]
  BY DEF ReloadReady
<1>2. CASE UNCHANGED <<inboundQueue, currentInbound>>
  BY <1>1, <1>2
<1>3. ASSUME NEW j \in Instances, NEW m \in commands, HandleCommand(j, m)
      PROVE  inboundQueue'[i] = <<>> /\ currentInbound'[i] = NoTask
  <2>1. CASE j = i
    <3>1. Rejected(i, m[1])
      BY <1>1 DEF Rejected
    <3> QED
      BY <1>2, <1>3, <2>1, <3>1 DEF HandleCommand
  <2>2. CASE j # i
    BY <1>1, <1>3, <2>2 DEF HandleCommand, TakeIn, MsgTypeOK
  <2> QED
    BY <2>1, <2>2
<1>4. ASSUME NEW j \in Instances, AnswerSent(j)
      PROVE  inboundQueue'[i] = <<>> /\ currentInbound'[i] = NoTask
  <2>1. CASE j = i
    <3>1. ending[i].of \in Assignments /\ inboundQueue[i] \in Seq(Assignments)
      BY <1>4, <2>1 DEF AnswerSent, MsgTypeOK, Answers
    <3>2. Without(inboundQueue[i], ending[i].of) = <<>>
      BY <1>1, <3>1, WithoutType
    <3> QED
      BY <1>1, <1>4, <2>1, <3>2 DEF AnswerSent, MsgTypeOK
  <2>2. CASE j # i
    BY <1>1, <1>4, <2>2 DEF AnswerSent, MsgTypeOK
  <2> QED
    BY <2>1, <2>2
<1>5. ASSUME NEW j \in Instances, Restarts(j)
      PROVE  inboundQueue'[i] = <<>> /\ currentInbound'[i] = NoTask
  BY <1>1, <1>5 DEF Restarts, MsgTypeOK
<1>6. ASSUME NEW a \in Assignments,
             \/ AgentSend(a) \/ Registered(a) \/ SendFails(a)
             \/ AwaitStarts(a) \/ AwaitTimesOut(a) \/ Timeout(a) \/ Evict(a)
      PROVE  UNCHANGED <<inboundQueue, currentInbound>>
  BY <1>6 DEF AgentSend, Registered, SendFails, AwaitStarts, AwaitTimesOut, Timeout, Evict, targetVars
<1>7. ASSUME NEW m \in replies, HandleResponse(m) PROVE UNCHANGED <<inboundQueue, currentInbound>>
  BY <1>7 DEF HandleResponse, targetVars
<1>8. ASSUME NEW j \in Instances,
             \/ TakeMail(j) \/ OwnTurn(j) \/ EndTurn(j) \/ EndUnanswered(j)
             \/ AnswerFails(j) \/ ReloadPrepare(j) \/ ReloadCancel(j)
      PROVE  UNCHANGED <<inboundQueue, currentInbound>>
  BY <1>8 DEF TakeMail, OwnTurn, EndTurn, EndUnanswered, AnswerFails, ReloadPrepare, ReloadCancel
<1>9. CASE UNCHANGED msgVars
  BY <1>2, <1>9 DEF msgVars, targetVars
<1> QED
  BY <1>2, <1>3, <1>4, <1>5, <1>6, <1>7, <1>8, <1>9 DEF MsgNext

\* Between the moment an instance reports that it can be reloaded and the
\* cancellation, no assignment enters it that the reload would lose.
THEOREM ReadyInstancesTakeNothing == MsgSpec => ReadyTakesNothing
<1>1. MsgTypeOK /\ [MsgNext]_msgVars =>
        [\A i \in Instances:
           ReloadReady(i) /\ reload'[i] => inboundQueue'[i] = <<>> /\ currentInbound'[i] = NoTask
        ]_msgVars
  BY ReadyStep
<1> QED
  BY <1>1, MsgTypesAreCorrect, PTL DEF MsgSpec, ReadyTakesNothing
=============================================================================
