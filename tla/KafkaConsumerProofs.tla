------------------------ MODULE KafkaConsumerProofs ------------------------
(***************************************************************************)
(* The invariants of KafkaConsumer for any number of runners, messages,    *)
(* subscriptions, restarts and rebalances.                                 *)
(***************************************************************************)
EXTENDS KafkaConsumer, TLAPS

\* Offsets that need no handler any more.
Done == finished \cup skipped

\* The handler loop has a message while it handles or commits one, and the
\* poller has one while it sends; Start starts both.
InHand ==
    \A r \in Runners :
        /\ poller[r] = "new" => task[r] = "new"
        /\ task[r] \in {"handle", "commit"} => cur[r] # None
        /\ poller[r] = "send" => held[r] # None

\* o is being handled by runner r, or stands in the first n places of its queue.
Ahead(r, n, o) ==
    \/ task[r] = "handle" /\ cur[r] = o
    \/ \E j \in 1..n : queue[r][j] = o

\* o is being handled or stands anywhere in the queue.
Waiting(r, o) ==
    \/ task[r] = "handle" /\ cur[r] = o
    \/ \E j \in 1 .. Len(queue[r]) : queue[r][j] = o

\* The order of the pipeline, place by place: the message being handled, ...
CurInOrder ==
    \A r \in Runners :
        task[r] = "handle" => \A o \in 0 .. cur[r] - 1 : o \in Done

\* ... the messages in the queue, ...
QueueInOrder ==
    \A r \in Runners : \A i \in 1 .. Len(queue[r]) :
        \A o \in 0 .. queue[r][i] - 1 : o \in Done \/ Ahead(r, i - 1, o)

\* ... the message the poller wants to send, ...
HeldInOrder ==
    \A r \in Runners :
        poller[r] = "send" =>
            \A o \in 0 .. held[r] - 1 : o \in Done \/ Waiting(r, o)

\* ... and the one Poll returns next.
PositionInOrder ==
    \A r \in Runners :
        r \in assigned /\ poller[r] # "done" =>
            \A o \in 0 .. position[r] - 1 :
                \/ o \in Done
                \/ Waiting(r, o)
                \/ poller[r] = "send" /\ held[r] = o

\* A message that is being committed was handled, and so was all before it.
CommitInOrder ==
    \A r \in Runners :
        task[r] = "commit" =>
            cur[r] \in succeeded /\ \A o \in 0 .. cur[r] - 1 : o \in Done

\* The inductive invariant.
ConsumerInv ==
    /\ TypeOK /\ InHand
    /\ CurInOrder /\ QueueInOrder /\ HeldInOrder /\ PositionInOrder
    /\ CommitInOrder /\ CommittedIsHandled

USE DEF None

----------------------------------------------------------------------------
(* The actions.                                                             *)

\* A new message is behind everything that was read.
LEMMA AppendInv ==
    ASSUME ConsumerInv, Append1
    PROVE  ConsumerInv'
<1> USE DEF configVars, brokerVars, pipeVars, stopVars, historyVars, faultVars,
            Append1
<1>1. TypeOK'
    BY BoundsAssumption DEF ConsumerInv, TypeOK, InHand, Messages
<1>2. /\ InHand'
      /\ CurInOrder'
      /\ QueueInOrder'
      /\ HeldInOrder'
      /\ PositionInOrder'
      /\ CommitInOrder'
      /\ CommittedIsHandled'
    BY DEF ConsumerInv, InHand, CurInOrder, QueueInOrder, HeldInOrder,
           PositionInOrder, CommitInOrder, CommittedIsHandled, Done, Ahead,
           Waiting
<1> QED
    BY <1>1, <1>2
    DEF ConsumerInv

\* A runner that is given the partition starts where the group has committed,
\* or where the subscription begins.
LEMMA GroupAssignInv ==
    ASSUME ConsumerInv, NEW r \in Runners, GroupAssign(r)
    PROVE  ConsumerInv'
<1> USE DEF configVars, brokerVars, pipeVars, stopVars, historyVars, faultVars,
            GroupAssign, Assign, Joined, GroupMode, offsetResetPolicy
<1>1. TypeOK'
    BY BoundsAssumption DEF ConsumerInv, TypeOK, InHand, Messages
<1>2. CurInOrder'
    BY DEF ConsumerInv, TypeOK, InHand, Messages, CurInOrder, Done
<1>3. QueueInOrder'
    BY DEF ConsumerInv, TypeOK, InHand, Messages, QueueInOrder, Done, Ahead
<1>4. HeldInOrder'
    BY DEF ConsumerInv, TypeOK, InHand, Messages, HeldInOrder, Done, Waiting
<1>5. PositionInOrder'
    BY DEF ConsumerInv, TypeOK, InHand, Messages, PositionInOrder, Done,
           Waiting, CommittedIsHandled
<1>6. CommitInOrder'
    BY DEF ConsumerInv, TypeOK, InHand, Messages, CommitInOrder, Done
<1>7. CommittedIsHandled'
    BY DEF ConsumerInv, TypeOK, InHand, Messages, CommittedIsHandled
<1>8. InHand'
    BY DEF ConsumerInv, InHand
<1> QED
    BY <1>1, <1>2, <1>3, <1>4, <1>5, <1>6, <1>7, <1>8
    DEF ConsumerInv

\* The same for a partition taken from a live runner, whose pipeline stays.
LEMMA RebalanceInv ==
    ASSUME ConsumerInv, NEW r \in Runners, Rebalance(r)
    PROVE  ConsumerInv'
<1> USE DEF configVars, brokerVars, pipeVars, stopVars, historyVars, faultVars,
            Rebalance, Assign, Joined, GroupMode, offsetResetPolicy
<1>1. TypeOK'
    BY BoundsAssumption DEF ConsumerInv, TypeOK, InHand, Messages
<1>2. CurInOrder'
    BY DEF ConsumerInv, TypeOK, InHand, Messages, CurInOrder, Done
<1>3. QueueInOrder'
    BY DEF ConsumerInv, TypeOK, InHand, Messages, QueueInOrder, Done, Ahead
<1>4. HeldInOrder'
    BY DEF ConsumerInv, TypeOK, InHand, Messages, HeldInOrder, Done, Waiting
<1>5. PositionInOrder'
    BY DEF ConsumerInv, TypeOK, InHand, Messages, PositionInOrder, Done,
           Waiting, CommittedIsHandled
<1>6. CommitInOrder'
    BY DEF ConsumerInv, TypeOK, InHand, Messages, CommitInOrder, Done
<1>7. CommittedIsHandled'
    BY DEF ConsumerInv, TypeOK, InHand, Messages, CommittedIsHandled
<1>8. InHand'
    BY DEF ConsumerInv, InHand
<1> QED
    BY <1>1, <1>2, <1>3, <1>4, <1>5, <1>6, <1>7, <1>8
    DEF ConsumerInv

\* subscribe leaves the place to the group, or skips what is before the offset.
LEMMA StartInv ==
    ASSUME ConsumerInv, NEW r \in Runners, Start(r)
    PROVE  ConsumerInv'
<1> USE DEF configVars, brokerVars, pipeVars, stopVars, historyVars, faultVars,
            Start
<1> DEFINE Placed(at) == /\ assigned' = assigned \cup {r}
                         /\ position' = [position EXCEPT ![r] = at]
                         /\ skipped' = skipped \cup (0 .. at - 1)
<1>a. /\ task' = [task EXCEPT ![r] = "select"]
      /\ poller' = [poller EXCEPT ![r] = "poll"] /\ poller[r] = "new"
      /\ task[r] = "new"
    BY DEF ConsumerInv, InHand
<1>b. UNCHANGED <<assigned, position, skipped>> \/ \E at \in 0..MaxLog : Placed(at)
  <2>1. CASE GroupMode
    BY <2>1 DEF subscribe
  <2>2. CASE ~GroupMode
    <3>1. (IF offset <= log THEN offset ELSE offsetResetPolicy) \in 0..MaxLog
      BY <2>2, BoundsAssumption
      DEF ConsumerInv, TypeOK, GroupMode, offsetResetPolicy, OffsetLatest, OffsetEarliest
    <3> QED
      BY <2>2, <3>1 DEF subscribe
  <2> QED
    BY <2>1, <2>2
<1>1. TypeOK'
  <2>1. CASE UNCHANGED <<assigned, position, skipped>>
    BY <1>a, <2>1 DEF ConsumerInv, TypeOK
  <2>2. ASSUME NEW at \in 0..MaxLog, Placed(at) PROVE TypeOK'
    <3>1. skipped' \subseteq Messages /\ position' \in [Runners -> 0..MaxLog]
      BY <2>2, BoundsAssumption DEF ConsumerInv, TypeOK, Messages
    <3> QED
      BY <1>a, <2>2, <3>1 DEF ConsumerInv, TypeOK
  <2> QED
    BY <1>b, <2>1, <2>2
<1>2. InHand'
    BY DEF ConsumerInv, TypeOK, InHand, Messages
<1>3. CurInOrder'
    BY <1>b DEF ConsumerInv, TypeOK, InHand, Messages, CurInOrder, Done
<1>4. QueueInOrder'
    BY <1>a, <1>b DEF ConsumerInv, TypeOK, InHand, Messages, QueueInOrder,
                      Done, Ahead
<1>5. HeldInOrder'
    BY <1>a, <1>b DEF ConsumerInv, TypeOK, InHand, Messages, HeldInOrder, Done,
                      Waiting
<1>6. PositionInOrder'
  <2>1. CASE UNCHANGED <<assigned, position, skipped>>
    BY <1>a, <2>1 DEF ConsumerInv, TypeOK, PositionInOrder, Done, Waiting
  <2>2. ASSUME NEW at \in 0..MaxLog, Placed(at) PROVE PositionInOrder'
    BY <1>a, <2>2 DEF ConsumerInv, TypeOK, PositionInOrder, Done, Waiting
  <2> QED
    BY <1>b, <2>1, <2>2
<1>7. CommitInOrder'
    BY <1>b DEF ConsumerInv, TypeOK, InHand, Messages, CommitInOrder, Done
<1>8. CommittedIsHandled'
    BY <1>b DEF ConsumerInv, TypeOK, InHand, Messages, CommittedIsHandled
<1> QED
    BY <1>1, <1>2, <1>3, <1>4, <1>5, <1>6, <1>7, <1>8
    DEF ConsumerInv

\* The polled message comes behind all that the runner has.
LEMMA PollInv ==
    ASSUME ConsumerInv, NEW r \in Runners, Poll(r)
    PROVE  ConsumerInv'
<1> USE DEF configVars, brokerVars, pipeVars, stopVars, historyVars, faultVars,
            Poll
<1>a. /\ position[r] \in Messages /\ position[r] + 1 \in 0..MaxLog
      /\ poller[r] = "poll" /\ r \in assigned
    BY BoundsAssumption DEF ConsumerInv, TypeOK, Messages
<1>b. \A o \in 0 .. position[r] - 1 : o \in Done \/ Waiting(r, o)
    BY <1>a DEF ConsumerInv, PositionInOrder
<1>c. /\ held'[r] = position[r] /\ position'[r] = position[r] + 1 /\ poller'[r] = "send"
      /\ \A s \in Runners : s # r => held'[s] = held[s] /\ position'[s] = position[s]
                                     /\ poller'[s] = poller[s]
    BY DEF ConsumerInv, TypeOK
<1>d. Done' = Done /\ \A s \in Runners : \A o : Waiting(s, o)' <=> Waiting(s, o)
    BY DEF Done, Waiting
<1>1. TypeOK'
    BY <1>a DEF ConsumerInv, TypeOK, InHand, Messages
<1>2. InHand'
    BY DEF ConsumerInv, TypeOK, InHand, Messages
<1>3. HeldInOrder'
    BY <1>b, <1>c, <1>d DEF ConsumerInv, HeldInOrder
<1>4. PositionInOrder'
    BY <1>a, <1>b, <1>c, <1>d DEF ConsumerInv, PositionInOrder, Messages
<1>5. /\ CurInOrder'
      /\ QueueInOrder'
      /\ CommitInOrder'
      /\ CommittedIsHandled'
    BY DEF ConsumerInv, CurInOrder, QueueInOrder, CommitInOrder,
           CommittedIsHandled, Done, Ahead
<1> QED
    BY <1>1, <1>2, <1>3, <1>4, <1>5
    DEF ConsumerInv

\* A message that the poller puts into the buffer has its predecessors ahead of
\* it in the queue; one that it hands over directly is next to be handled.
LEMMA SendInv ==
    ASSUME ConsumerInv, NEW r \in Runners, Send(r)
    PROVE  ConsumerInv'
<1> DEFINE n == Len(queue[r])
<1>0. /\ held[r] \in Messages /\ cur \in [Runners -> {None} \cup Messages]
      /\ queue \in [Runners -> Seq(Messages)] /\ n \in Nat /\ n <= capacity
      /\ capacity \in Nat
      /\ poller \in [Runners -> {"new", "poll", "send", "done"}]
      /\ task \in [Runners -> {"new", "select", "handle", "commit", "done"}]
      /\ held \in [Runners -> {None} \cup Messages]
    BY DEF ConsumerInv, TypeOK, InHand, Send
<1>1. /\ poller[r] = "send" /\ poller' = [poller EXCEPT ![r] = "poll"]
      /\ held' = [held EXCEPT ![r] = None]
      /\ UNCHANGED <<configVars, brokerVars, stopVars, historyVars, faultVars>>
    BY DEF Send
<1>2. /\ Done' = Done /\ capacity' = capacity
      /\ UNCHANGED <<position, assigned, committed, finished, succeeded, skipped>>
    BY <1>1 DEF Done, brokerVars, historyVars, configVars
<1>3. \A s \in Runners : s # r => poller'[s] = poller[s] /\ held'[s] = held[s]
    BY <1>0, <1>1
<1>4. \A o \in 0 .. held[r] - 1 : o \in Done \/ Ahead(r, n, o)
    BY <1>1 DEF ConsumerInv, HeldInOrder, Waiting, Ahead
<1>5. CASE hasRoom(r) /\ queue' = [queue EXCEPT ![r] = Append(@, held[r])]
           /\ UNCHANGED <<task, cur>>
  <2>1. /\ queue'[r] = Append(queue[r], held[r]) /\ Len(queue'[r]) = n + 1
        /\ queue' \in [Runners -> Seq(Messages)]
        /\ queue'[r][n + 1] = held[r] /\ \A i \in 1..n : queue'[r][i] = queue[r][i]
    BY <1>0, <1>5
  <2>2. \A s \in Runners : s # r => queue'[s] = queue[s]
    BY <1>0, <1>5
  <2>3. ASSUME NEW s \in Runners, NEW m \in Nat, m <= Len(queue[s]), NEW o,
               Ahead(s, m, o)
        PROVE  Ahead(s, m, o)'
    BY <1>0, <1>5, <2>1, <2>2, <2>3 DEF Ahead
  <2>4. TypeOK'
    <3>1. \A s \in Runners : Len(queue'[s]) <= capacity'
      BY <1>0, <1>2, <1>5, <2>1, <2>2 DEF hasRoom, ConsumerInv, TypeOK
    <3> QED
      BY <1>0, <1>1, <1>5, <2>1, <3>1
      DEF ConsumerInv, TypeOK, configVars, brokerVars, stopVars, historyVars, faultVars
  <2>5. InHand' /\ CurInOrder' /\ CommitInOrder'
    BY <1>0, <1>1, <1>2, <1>5 DEF ConsumerInv, InHand, CurInOrder, CommitInOrder
  <2>6. QueueInOrder'
    <3> SUFFICES ASSUME NEW s \in Runners, NEW i \in 1 .. Len(queue'[s]),
                        NEW o \in 0 .. queue'[s][i] - 1
                 PROVE  o \in Done \/ Ahead(s, i - 1, o)'
      BY <1>2 DEF QueueInOrder
    <3>1. CASE s = r /\ i = n + 1
      BY <1>0, <1>4, <2>1, <2>3, <3>1
    <3>2. CASE ~(s = r /\ i = n + 1)
      <4>1. i \in 1 .. Len(queue[s]) /\ queue'[s][i] = queue[s][i]
        <5>1. CASE s = r
          <6>1. i \in 1 .. n + 1 /\ i # n + 1
            BY <2>1, <3>2, <5>1
          <6>2. i \in 1..n
            BY <1>0, <6>1
          <6> QED
            BY <2>1, <5>1, <6>2
        <5>2. CASE s # r
          BY <2>2, <5>2
        <5> QED
          BY <5>1, <5>2
      <4>2. Len(queue[s]) \in Nat
        BY <1>0
      <4>3. o \in Done \/ Ahead(s, i - 1, o)
        BY <4>1 DEF ConsumerInv, QueueInOrder
      <4>4. i - 1 \in Nat /\ i - 1 <= Len(queue[s])
        BY <4>1, <4>2
      <4> QED
        BY <2>3, <4>3, <4>4
    <3> QED
      BY <3>1, <3>2
  <2>7. ASSUME NEW s \in Runners, NEW o, Waiting(s, o)
        PROVE  Waiting(s, o)'
    BY <1>0, <1>5, <2>1, <2>2, <2>7 DEF Waiting
  <2>8. HeldInOrder'
    <3> SUFFICES ASSUME NEW s \in Runners, poller'[s] = "send",
                        NEW o \in 0 .. held'[s] - 1
                 PROVE  o \in Done \/ Waiting(s, o)'
      BY <1>2 DEF HeldInOrder
    <3>1. s # r
      BY <1>0, <1>1
    <3>2. o \in Done \/ Waiting(s, o)
      BY <1>3, <3>1 DEF ConsumerInv, HeldInOrder
    <3> QED
      BY <2>7, <3>2
  <2>9. PositionInOrder'
    <3> SUFFICES ASSUME NEW s \in Runners, s \in assigned, poller'[s] # "done",
                        NEW o \in 0 .. position[s] - 1
                 PROVE  \/ o \in Done
                        \/ Waiting(s, o)'
                        \/ poller'[s] = "send" /\ held'[s] = o
      BY <1>2 DEF PositionInOrder
    <3>1. \/ o \in Done
          \/ Waiting(s, o)
          \/ poller[s] = "send" /\ held[s] = o
      BY <1>0, <1>1 DEF ConsumerInv, PositionInOrder
    <3>2. held[r] = o => Waiting(r, o)'
      BY <1>0, <2>1 DEF Waiting
    <3> QED
      BY <1>3, <2>7, <3>1, <3>2
  <2>10. CommittedIsHandled'
    BY <1>2 DEF ConsumerInv, CommittedIsHandled
  <2> QED
    BY <2>4, <2>5, <2>6, <2>8, <2>9, <2>10 DEF ConsumerInv
<1>6. CASE capacity = 0 /\ task[r] = "select" /\ UNCHANGED queue
           /\ cur' = [cur EXCEPT ![r] = held[r]]
           /\ task' = [task EXCEPT ![r] = "handle"]
  <2>1. n = 0
    BY <1>0, <1>6
  <2>2. \A o \in 0 .. held[r] - 1 : o \in Done
    BY <1>4, <1>6, <2>1 DEF Ahead
  <2>3. \A s \in Runners : s # r => task'[s] = task[s] /\ cur'[s] = cur[s]
    BY <1>0, <1>6
  <2>4. cur'[r] = held[r] /\ task'[r] = "handle"
    BY <1>0, <1>6
  <2>5. TypeOK'
    BY <1>0, <1>1, <1>6
    DEF ConsumerInv, TypeOK, configVars, brokerVars, stopVars, historyVars, faultVars
  <2>6. InHand' /\ CurInOrder' /\ CommitInOrder'
    BY <1>0, <1>1, <1>2, <2>2, <2>3, <2>4
    DEF ConsumerInv, InHand, CurInOrder, CommitInOrder, Messages
  <2>7. QueueInOrder'
    BY <1>0, <1>2, <1>6, <2>1, <2>3 DEF ConsumerInv, QueueInOrder, Ahead
  <2>8. HeldInOrder'
    BY <1>0, <1>1, <1>2, <1>3, <1>6, <2>3 DEF ConsumerInv, HeldInOrder, Waiting
  <2>9. PositionInOrder'
    BY <1>0, <1>1, <1>2, <1>3, <1>6, <2>1, <2>3, <2>4
    DEF ConsumerInv, PositionInOrder, Waiting
  <2>10. CommittedIsHandled'
    BY <1>2 DEF ConsumerInv, CommittedIsHandled
  <2> QED
    BY <2>5, <2>6, <2>7, <2>8, <2>9, <2>10 DEF ConsumerInv
<1> QED
    BY <1>5, <1>6 DEF Send

\* The poller drops its message and polls no more.
LEMMA PollerReturnsInv ==
    ASSUME ConsumerInv, NEW r \in Runners, PollerReturns(r)
    PROVE  ConsumerInv'
<1> USE DEF configVars, brokerVars, pipeVars, stopVars, historyVars, faultVars,
            PollerReturns, watchesContext
<1>1. TypeOK'
    BY BoundsAssumption DEF ConsumerInv, TypeOK, InHand, Messages
<1>2. InHand'
    BY DEF ConsumerInv, TypeOK, InHand, Messages
<1>3. HeldInOrder'
    BY DEF ConsumerInv, TypeOK, InHand, Messages, HeldInOrder, Done, Waiting
<1>4. PositionInOrder'
    BY DEF ConsumerInv, TypeOK, InHand, Messages, PositionInOrder, Done,
           Waiting
<1>5. /\ CurInOrder'
      /\ QueueInOrder'
      /\ CommitInOrder'
      /\ CommittedIsHandled'
    BY DEF ConsumerInv, CurInOrder, QueueInOrder, CommitInOrder,
           CommittedIsHandled, Done, Ahead
<1> QED
    BY <1>1, <1>2, <1>3, <1>4, <1>5
    DEF ConsumerInv

\* The message the handler loop takes moves ahead of the rest of the queue.
LEMMA ReceiveInv ==
    ASSUME ConsumerInv, NEW r \in Runners, Receive(r)
    PROVE  ConsumerInv'
<1> DEFINE n == Len(queue[r])
<1>0. /\ queue \in [Runners -> Seq(Messages)] /\ n \in Nat \ {0}
      /\ task \in [Runners -> {"new", "select", "handle", "commit", "done"}]
      /\ cur \in [Runners -> {None} \cup Messages]
      /\ capacity \in Nat
    BY DEF ConsumerInv, TypeOK, Receive
<1>1. /\ task[r] = "select" /\ task' = [task EXCEPT ![r] = "handle"]
      /\ cur' = [cur EXCEPT ![r] = Head(queue[r])]
      /\ queue' = [queue EXCEPT ![r] = Tail(@)]
      /\ UNCHANGED <<configVars, brokerVars, poller, held, stopVars, historyVars,
                     faultVars>>
    BY DEF Receive
<1>2. /\ Done' = Done /\ capacity' = capacity
      /\ UNCHANGED <<position, assigned, committed, finished, succeeded, skipped>>
    BY <1>1 DEF Done, brokerVars, historyVars, configVars
<1>3. /\ task'[r] = "handle" /\ cur'[r] = queue[r][1] /\ cur'[r] \in Messages
      /\ Len(queue'[r]) = n - 1 /\ queue'[r] \in Seq(Messages)
      /\ \A i \in 1 .. n - 1 : queue'[r][i] = queue[r][i + 1]
    BY <1>0, <1>1
<1>4. \A s \in Runners :
          s # r => task'[s] = task[s] /\ cur'[s] = cur[s] /\ queue'[s] = queue[s]
    BY <1>0, <1>1
<1>5. ASSUME NEW m \in 1..n, NEW o, Ahead(r, m, o)
      PROVE  Ahead(r, m - 1, o)'
  <2>1. PICK j \in 1..m : queue[r][j] = o
    BY <1>1, <1>5 DEF Ahead
  <2>2. CASE j = 1
    BY <1>3, <2>1, <2>2 DEF Ahead
  <2>3. CASE j # 1
    <3>1. j - 1 \in 1 .. m - 1 /\ j - 1 \in 1 .. n - 1 /\ (j - 1) + 1 = j
      BY <1>0, <2>3
    <3>2. queue'[r][j - 1] = o
      BY <1>3, <2>1, <3>1
    <3> QED
      BY <3>1, <3>2 DEF Ahead
  <2> QED
    BY <2>2, <2>3
<1>6. \A s \in Runners : s # r => \A m, o : Ahead(s, m, o)' <=> Ahead(s, m, o)
    BY <1>4 DEF Ahead
<1>7. ASSUME NEW s \in Runners, NEW o, Waiting(s, o)
      PROVE  Waiting(s, o)'
  <2>1. CASE s = r
    <3>1. PICK m \in 1..n : m = n
      BY <1>0
    <3>2. Ahead(r, m, o)
      BY <1>7, <2>1, <3>1 DEF Ahead, Waiting
    <3>3. Ahead(r, m - 1, o)'
      BY <1>5, <3>2
    <3> QED
      BY <1>3, <2>1, <3>1, <3>3 DEF Ahead, Waiting
  <2>2. CASE s # r
    BY <1>4, <1>7, <2>2 DEF Waiting
  <2> QED
    BY <2>1, <2>2
<1>8. TypeOK'
  <2>1. queue' \in [Runners -> Seq(Messages)]
    BY <1>0, <1>1, <1>3
  <2>2. cur' \in [Runners -> {None} \cup Messages]
    BY <1>0, <1>1, <1>3
  <2>3. \A s \in Runners : Len(queue'[s]) <= capacity'
    BY <1>0, <1>2, <1>3, <1>4 DEF ConsumerInv, TypeOK
  <2> QED
    BY <1>0, <1>1, <2>1, <2>2, <2>3
    DEF ConsumerInv, TypeOK, configVars, brokerVars, stopVars, historyVars, faultVars
<1>9. InHand'
    BY <1>0, <1>1, <1>3, <1>4 DEF ConsumerInv, InHand, Messages
<1>10. CurInOrder'
  <2>1. \A o \in 0 .. queue[r][1] - 1 : o \in Done \/ Ahead(r, 0, o)
    BY <1>0 DEF ConsumerInv, QueueInOrder
  <2>2. \A o : ~Ahead(r, 0, o)
    BY <1>1 DEF Ahead
  <2> QED
    BY <1>2, <1>3, <1>4, <2>1, <2>2 DEF ConsumerInv, CurInOrder
<1>11. QueueInOrder'
  <2> SUFFICES ASSUME NEW s \in Runners, NEW i \in 1 .. Len(queue'[s]),
                      NEW o \in 0 .. queue'[s][i] - 1
               PROVE  o \in Done \/ Ahead(s, i - 1, o)'
    BY <1>2 DEF QueueInOrder
  <2>1. CASE s = r
    <3>1. i + 1 \in 1..n /\ i \in 1 .. n - 1 /\ i \in 1..n /\ (i + 1) - 1 = i
      BY <1>0, <1>3, <2>1
    <3>2. o \in Done \/ Ahead(r, i, o)
      BY <1>3, <2>1, <3>1 DEF ConsumerInv, QueueInOrder
    <3> QED
      BY <1>5, <2>1, <3>1, <3>2
  <2>2. CASE s # r
    BY <1>4, <1>6, <2>2 DEF ConsumerInv, QueueInOrder
  <2> QED
    BY <2>1, <2>2
<1>12. HeldInOrder'
  <2> SUFFICES ASSUME NEW s \in Runners, poller[s] = "send", NEW o \in 0 .. held[s] - 1
               PROVE  o \in Done \/ Waiting(s, o)'
    BY <1>1, <1>2 DEF HeldInOrder
  <2>1. o \in Done \/ Waiting(s, o)
    BY DEF ConsumerInv, HeldInOrder
  <2> QED
    BY <1>7, <2>1
<1>13. PositionInOrder'
  <2> SUFFICES ASSUME NEW s \in Runners, s \in assigned, poller[s] # "done",
                      NEW o \in 0 .. position[s] - 1
               PROVE  \/ o \in Done
                      \/ Waiting(s, o)'
                      \/ poller[s] = "send" /\ held[s] = o
    BY <1>1, <1>2 DEF PositionInOrder
  <2>1. \/ o \in Done
        \/ Waiting(s, o)
        \/ poller[s] = "send" /\ held[s] = o
    BY DEF ConsumerInv, PositionInOrder
  <2> QED
    BY <1>7, <2>1
<1>14. CommitInOrder'
    BY <1>2, <1>3, <1>4 DEF ConsumerInv, CommitInOrder
<1>15. CommittedIsHandled'
    BY <1>2 DEF ConsumerInv, CommittedIsHandled
<1> QED
    BY <1>8, <1>9, <1>10, <1>11, <1>12, <1>13, <1>14, <1>15 DEF ConsumerInv

\* A message that leaves the pipeline is finished.
LEMMA HandlerReturnsInv ==
    ASSUME ConsumerInv, NEW r \in Runners, NEW ok \in BOOLEAN, HandlerReturns(r, ok)
    PROVE  ConsumerInv'
<1> USE DEF configVars, brokerVars, pipeVars, stopVars, historyVars, faultVars,
            HandlerReturns, afterHandler
<1>1. TypeOK'
    BY BoundsAssumption DEF ConsumerInv, TypeOK, InHand, Messages
<1>2. InHand'
    BY DEF ConsumerInv, TypeOK, InHand, Messages
<1>3. CurInOrder'
    BY DEF ConsumerInv, TypeOK, InHand, Messages, CurInOrder, Done
<1>4. QueueInOrder'
    BY DEF ConsumerInv, TypeOK, InHand, Messages, QueueInOrder, Done, Ahead
<1>5. HeldInOrder'
    BY DEF ConsumerInv, TypeOK, InHand, Messages, HeldInOrder, Done, Waiting
<1>6. PositionInOrder'
    BY DEF ConsumerInv, TypeOK, InHand, Messages, PositionInOrder, Done,
           Waiting
<1>7. CommitInOrder'
    BY DEF ConsumerInv, TypeOK, InHand, Messages, CommitInOrder, Done,
           CurInOrder
<1>8. CommittedIsHandled'
    BY DEF ConsumerInv, TypeOK, InHand, Messages, CommittedIsHandled
<1> QED
    BY <1>1, <1>2, <1>3, <1>4, <1>5, <1>6, <1>7, <1>8
    DEF ConsumerInv

\* CommitMessage, or its failure.
LEMMA CommitInv ==
    ASSUME ConsumerInv, NEW r \in Runners, CommitMessage(r)
    PROVE  ConsumerInv'
<1> USE DEF configVars, brokerVars, pipeVars, stopVars, historyVars, faultVars,
            CommitMessage
<1>1. TypeOK'
  <2>1. committed' \in {None} \cup (1..MaxLog)
    BY BoundsAssumption DEF ConsumerInv, TypeOK, InHand, Messages
  <2> QED
    BY <2>1 DEF ConsumerInv, TypeOK
<1>2. InHand'
    BY DEF ConsumerInv, TypeOK, InHand, Messages
<1>3. CurInOrder'
    BY DEF ConsumerInv, TypeOK, InHand, Messages, CurInOrder, Done
<1>4. QueueInOrder'
    BY DEF ConsumerInv, TypeOK, InHand, Messages, QueueInOrder, Done, Ahead
<1>5. HeldInOrder'
    BY DEF ConsumerInv, TypeOK, InHand, Messages, HeldInOrder, Done, Waiting
<1>6. PositionInOrder'
    BY DEF ConsumerInv, TypeOK, InHand, Messages, PositionInOrder, Done,
           Waiting
<1>7. CommitInOrder'
    BY DEF ConsumerInv, TypeOK, InHand, Messages, CommitInOrder, Done
<1>8. CommittedIsHandled'
  <2>1. cur[r] \in succeeded /\ 0 .. cur[r] - 1 \subseteq finished \cup skipped
    BY DEF ConsumerInv, CommitInOrder, Done
  <2>2. cur[r] \in Nat /\ (cur[r] + 1) - 1 = cur[r] /\ cur[r] \in finished
    BY <2>1 DEF ConsumerInv, TypeOK, InHand, Messages
  <2>3. 0 .. cur[r] = (0 .. cur[r] - 1) \cup {cur[r]}
    BY <2>2
  <2>4. CASE committed' = cur[r] + 1
    BY <2>1, <2>2, <2>3, <2>4 DEF CommittedIsHandled
  <2>5. CASE committed' = committed
    BY <2>5 DEF ConsumerInv, CommittedIsHandled
  <2> QED
    BY <2>4, <2>5
<1> QED
    BY <1>1, <1>2, <1>3, <1>4, <1>5, <1>6, <1>7, <1>8
    DEF ConsumerInv

\* The handler loop ends and leaves its queue alone.
LEMMA TaskReturnsInv ==
    ASSUME ConsumerInv, NEW r \in Runners, TaskReturns(r)
    PROVE  ConsumerInv'
<1> USE DEF configVars, brokerVars, pipeVars, stopVars, historyVars, faultVars,
            TaskReturns
<1>1. TypeOK'
    BY BoundsAssumption DEF ConsumerInv, TypeOK, InHand, Messages
<1>2. InHand'
    BY DEF ConsumerInv, TypeOK, InHand, Messages
<1>3. CurInOrder'
    BY DEF ConsumerInv, TypeOK, InHand, Messages, CurInOrder, Done
<1>4. QueueInOrder'
    BY DEF ConsumerInv, TypeOK, InHand, Messages, QueueInOrder, Done, Ahead
<1>5. HeldInOrder'
    BY DEF ConsumerInv, TypeOK, InHand, Messages, HeldInOrder, Done, Waiting
<1>6. PositionInOrder'
    BY DEF ConsumerInv, TypeOK, InHand, Messages, PositionInOrder, Done,
           Waiting
<1>7. CommitInOrder'
    BY DEF ConsumerInv, TypeOK, InHand, Messages, CommitInOrder, Done
<1>8. CommittedIsHandled'
    BY DEF ConsumerInv, CommittedIsHandled
<1> QED
    BY <1>1, <1>2, <1>3, <1>4, <1>5, <1>6, <1>7, <1>8
    DEF ConsumerInv

\* Stop cancels a context.
LEMMA StopCancelInv ==
    ASSUME ConsumerInv, NEW r \in Runners, StopCancel(r)
    PROVE  ConsumerInv'
<1> USE DEF configVars, brokerVars, pipeVars, stopVars, historyVars, faultVars,
            StopCancel
<1>1. TypeOK'
    BY BoundsAssumption DEF ConsumerInv, TypeOK, InHand, Messages
<1>2. /\ InHand'
      /\ CurInOrder'
      /\ QueueInOrder'
      /\ HeldInOrder'
      /\ PositionInOrder'
      /\ CommitInOrder'
      /\ CommittedIsHandled'
    BY DEF ConsumerInv, InHand, CurInOrder, QueueInOrder, HeldInOrder,
           PositionInOrder, CommitInOrder, CommittedIsHandled, Done, Ahead,
           Waiting
<1> QED
    BY <1>1, <1>2
    DEF ConsumerInv

\* A closed consumer loses the partition.
LEMMA StopCloseInv ==
    ASSUME ConsumerInv, NEW r \in Runners, StopClose(r)
    PROVE  ConsumerInv'
<1> USE DEF configVars, brokerVars, pipeVars, stopVars, historyVars, faultVars,
            StopClose
<1>1. TypeOK'
    BY BoundsAssumption DEF ConsumerInv, TypeOK, InHand, Messages
<1>2. PositionInOrder'
    BY DEF ConsumerInv, TypeOK, InHand, Messages, PositionInOrder, Done,
           Waiting
<1>3. /\ InHand'
      /\ CurInOrder'
      /\ QueueInOrder'
      /\ HeldInOrder'
      /\ CommitInOrder'
      /\ CommittedIsHandled'
    BY DEF ConsumerInv, InHand, CurInOrder, QueueInOrder, HeldInOrder,
           CommitInOrder, CommittedIsHandled, Done, Ahead, Waiting
<1> QED
    BY <1>1, <1>2, <1>3
    DEF ConsumerInv

\* A restart empties every pipeline and keeps what the group has committed.
LEMMA RestartInv ==
    ASSUME ConsumerInv, Restart
    PROVE  ConsumerInv'
<1> USE DEF configVars, brokerVars, pipeVars, stopVars, historyVars, faultVars,
            Restart, PerRunner
<1>1. TypeOK'
    BY BoundsAssumption DEF ConsumerInv, TypeOK, InHand, Messages
<1>2. InHand'
    BY DEF ConsumerInv, TypeOK, InHand, Messages
<1>3. CurInOrder'
    BY DEF ConsumerInv, TypeOK, InHand, Messages, CurInOrder, Done
<1>4. QueueInOrder'
    BY DEF ConsumerInv, TypeOK, InHand, Messages, QueueInOrder, Done, Ahead
<1>5. HeldInOrder'
    BY DEF ConsumerInv, TypeOK, InHand, Messages, HeldInOrder, Done, Waiting
<1>6. PositionInOrder'
    BY DEF ConsumerInv, TypeOK, InHand, Messages, PositionInOrder, Done,
           Waiting
<1>7. CommitInOrder'
    BY DEF ConsumerInv, TypeOK, InHand, Messages, CommitInOrder, Done
<1>8. CommittedIsHandled'
    BY DEF ConsumerInv, CommittedIsHandled
<1> QED
    BY <1>1, <1>2, <1>3, <1>4, <1>5, <1>6, <1>7, <1>8
    DEF ConsumerInv

----------------------------------------------------------------------------
(* The pipeline.                                                            *)

\* Three sequences one after the other: the places there are, ...
LEMMA ThreeParts ==
    ASSUME NEW S, NEW f \in Seq(S), NEW q \in Seq(S), NEW l \in Seq(S)
    PROVE  /\ DOMAIN ((f \o q) \o l) = 1 .. (Len(f) + Len(q) + Len(l))
           /\ \A i \in 1 .. Len(f) : ((f \o q) \o l)[i] = f[i]
           /\ \A i \in 1 .. Len(l) : ((f \o q) \o l)[Len(f) + Len(q) + i] = l[i]
<1>1. /\ f \o q \in Seq(S) /\ Len(f \o q) = Len(f) + Len(q)
      /\ Len(f) \in Nat /\ Len(q) \in Nat /\ Len(l) \in Nat
    OBVIOUS
<1>2. \A i \in 1 .. Len(f) : ((f \o q) \o l)[i] = f[i]
    BY <1>1
<1>3. \A i \in 1 .. Len(l) : ((f \o q) \o l)[Len(f) + Len(q) + i] = l[i]
    BY <1>1
<1> QED
    BY <1>1, <1>2, <1>3

\* ... and what is in the middle.
LEMMA MiddlePart ==
    ASSUME NEW S, NEW f \in Seq(S), NEW q \in Seq(S), NEW l \in Seq(S),
           NEW i \in 1 .. Len(q)
    PROVE  ((f \o q) \o l)[Len(f) + i] = q[i]
<1>1. /\ f \o q \in Seq(S) /\ Len(f \o q) = Len(f) + Len(q)
      /\ Len(f) \in Nat /\ Len(q) \in Nat /\ Len(l) \in Nat
    OBVIOUS
<1>2. Len(f) + i \in 1 .. Len(f) + Len(q)
    BY <1>1
<1>3. ((f \o q) \o l)[Len(f) + i] = (f \o q)[Len(f) + i]
    BY <1>1, <1>2
<1>4. (f \o q)[Len(f) + i] = q[i]
    BY <1>1, <1>2
<1> QED
    BY <1>3, <1>4

\* What is ahead of a place, place by place, is ahead of it in Pipeline(r).
LEMMA PipelineFollows == ConsumerInv => PipelineInOrder
<1> SUFFICES ASSUME ConsumerInv, NEW r \in Runners
             PROVE  LET p == Pipeline(r)
                    IN  /\ \A i \in DOMAIN p : \A o \in 0 .. p[i] - 1 :
                               \/ o \in finished \cup skipped
                               \/ \E j \in 1 .. i - 1 : p[j] = o
                        /\ r \in assigned /\ poller[r] # "done" =>
                               \A o \in 0 .. position[r] - 1 :
                                   \/ o \in finished \cup skipped
                                   \/ \E j \in DOMAIN p : p[j] = o
    BY DEF PipelineInOrder
<1> DEFINE first == IF task[r] = "handle" THEN <<cur[r]>> ELSE << >>
           last  == IF poller[r] = "send" THEN <<held[r]>> ELSE << >>
           p     == Pipeline(r)
           n     == Len(queue[r])
           a     == IF task[r] = "handle" THEN 1 ELSE 0
           h     == IF poller[r] = "send" THEN 1 ELSE 0
<1>1. /\ queue[r] \in Seq(Messages) /\ n \in Nat
      /\ first \in Seq(Messages) /\ last \in Seq(Messages)
    BY DEF ConsumerInv, TypeOK, InHand
<1>2. /\ Len(first) = a /\ a \in {0, 1} /\ (a = 1 <=> task[r] = "handle")
      /\ Len(last) = h /\ h \in {0, 1} /\ (h = 1 <=> poller[r] = "send")
      /\ (a = 1 => first[1] = cur[r]) /\ (h = 1 => last[1] = held[r])
    OBVIOUS
<1>3. p = (first \o queue[r]) \o last
    BY DEF Pipeline
<1> HIDE DEF first, last, p, n, a, h
<1>p. DOMAIN p = 1 .. a + n + h
    BY <1>1, <1>2, <1>3, ThreeParts DEF n
<1>4. \A i \in 1..n : p[a + i] = queue[r][i]
  <2>1. ASSUME NEW i \in 1 .. Len(queue[r])
        PROVE  ((first \o queue[r]) \o last)[Len(first) + i] = queue[r][i]
    BY <1>1, MiddlePart
  <2> QED
    BY <1>2, <1>3, <2>1 DEF n
<1>5. task[r] = "handle" => p[1] = cur[r]
  <2>1. \A i \in 1 .. Len(first) : p[i] = first[i]
    BY <1>1, <1>3, ThreeParts
  <2> QED
    BY <1>2, <2>1
<1>6. poller[r] = "send" => p[a + n + 1] = held[r]
  <2>1. \A i \in 1 .. Len(last) : p[Len(first) + Len(queue[r]) + i] = last[i]
    BY <1>1, <1>3, ThreeParts
  <2> QED
    BY <1>2, <2>1 DEF n
<1>7. ASSUME NEW m \in 0..n, NEW o, Ahead(r, m, o)
      PROVE  \E j \in 1 .. a + m : p[j] = o
  <2>1. CASE task[r] = "handle" /\ cur[r] = o
    <3>1. 1 \in 1 .. a + m
      BY <1>1, <1>2, <2>1
    <3> QED
      BY <1>5, <2>1, <3>1
  <2>2. CASE \E j \in 1..m : queue[r][j] = o
    <3>1. PICK j \in 1..m : queue[r][j] = o
      BY <2>2
    <3>2. a + j \in 1 .. a + m /\ p[a + j] = o
      BY <1>1, <1>2, <1>4, <3>1
    <3> QED
      BY <3>2
  <2> QED
    BY <1>7, <2>1, <2>2 DEF Ahead
<1>8. ASSUME NEW o, Waiting(r, o)
      PROVE  \E j \in 1 .. a + n : p[j] = o
  <2>1. Ahead(r, n, o)
    BY <1>8 DEF Waiting, Ahead, n
  <2> QED
    BY <1>1, <1>7, <2>1
<1>9. ASSUME NEW i \in DOMAIN p, NEW o \in 0 .. p[i] - 1
      PROVE  o \in finished \cup skipped \/ \E j \in 1 .. i - 1 : p[j] = o
  <2>1. i \in 1 .. a + n + h
    BY <1>p
  <2>2. CASE i <= a
    <3>1. i = 1 /\ task[r] = "handle"
      BY <1>2, <2>1, <2>2
    <3> QED
      BY <1>5, <3>1 DEF ConsumerInv, CurInOrder, Done
  <2>3. CASE i > a /\ i <= a + n
    <3>0. i - a \in 1..n /\ i = a + (i - a)
      BY <1>1, <1>2, <2>1, <2>3
    <3>1. PICK k \in 1..n : i = a + k
      BY <3>0
    <3>2. o \in Done \/ Ahead(r, k - 1, o)
      BY <1>4, <3>1 DEF ConsumerInv, QueueInOrder, n
    <3>3. k - 1 \in 0..n /\ a + (k - 1) = i - 1
      BY <1>1, <1>2, <3>1
    <3>4. Ahead(r, k - 1, o) => \E j \in 1 .. a + (k - 1) : p[j] = o
      BY <1>7, <3>3
    <3> QED
      BY <3>2, <3>3, <3>4 DEF Done
  <2>4. CASE i > a + n
    <3>1. i = a + n + 1 /\ poller[r] = "send" /\ i - 1 = a + n
      BY <1>1, <1>2, <2>1, <2>4
    <3>2. o \in Done \/ Waiting(r, o)
      BY <1>6, <3>1 DEF ConsumerInv, HeldInOrder
    <3> QED
      BY <1>8, <3>1, <3>2 DEF Done
  <2> QED
    BY <1>1, <1>2, <2>1, <2>2, <2>3, <2>4
<1>10. ASSUME r \in assigned /\ poller[r] # "done", NEW o \in 0 .. position[r] - 1
       PROVE  o \in finished \cup skipped \/ \E j \in DOMAIN p : p[j] = o
  <2>1. DOMAIN p = 1 .. a + n + h /\ 1 .. a + n \subseteq DOMAIN p
    BY <1>1, <1>2, <1>p
  <2>2. o \in Done \/ Waiting(r, o) \/ (poller[r] = "send" /\ held[r] = o)
    BY <1>10 DEF ConsumerInv, PositionInOrder
  <2>3. CASE Waiting(r, o)
    BY <1>8, <2>1, <2>3
  <2>4. CASE poller[r] = "send" /\ held[r] = o
    <3>1. a + n + 1 \in DOMAIN p
      BY <1>1, <1>2, <2>1, <2>4
    <3> QED
      BY <1>6, <2>4, <3>1
  <2> QED
    BY <2>2, <2>3, <2>4 DEF Done
<1> QED
    BY <1>9, <1>10 DEF p

----------------------------------------------------------------------------
(* The theorems.                                                            *)

\* The invariant holds initially.
LEMMA InitInv == Init => ConsumerInv
<1> SUFFICES ASSUME Init PROVE ConsumerInv
    OBVIOUS
<1> USE DEF Init, PerRunner
<1>1. TypeOK
  <2>1. offset \in Nat \cup {OffsetLatest, OffsetEarliest} /\ capacity \in Nat
    BY BoundsAssumption DEF QueueCapacity
  <2>2. log \in 0..MaxLog /\ restarts \in 0..MaxRestarts
        /\ rebalances \in 0..MaxRebalances /\ 0 \in 0..MaxLog
    BY BoundsAssumption
  <2>3. \A r \in Runners : Len(queue[r]) <= capacity
    BY <2>1
  <2> QED
    BY <2>1, <2>2, <2>3 DEF TypeOK
<1>2. InHand
    BY DEF InHand
<1>3. CurInOrder /\ QueueInOrder /\ HeldInOrder /\ PositionInOrder /\ CommitInOrder
    BY DEF CurInOrder, QueueInOrder, HeldInOrder, PositionInOrder, CommitInOrder
<1>4. CommittedIsHandled
    BY DEF CommittedIsHandled
<1> QED
    BY <1>1, <1>2, <1>3, <1>4 DEF ConsumerInv

\* Every step preserves the invariant.
LEMMA NextInv == ConsumerInv /\ [Next]_vars => ConsumerInv'
<1> SUFFICES ASSUME ConsumerInv, [Next]_vars PROVE ConsumerInv'
    OBVIOUS
<1>1. CASE Append1 \/ Restart
    BY <1>1, AppendInv, RestartInv
<1>2. ASSUME NEW r \in Runners, RunnerNext(r) PROVE ConsumerInv'
    BY <1>2, GroupAssignInv, RebalanceInv, StartInv, PollInv, SendInv,
       PollerReturnsInv, ReceiveInv, HandlerReturnsInv, CommitInv, TaskReturnsInv,
       StopCancelInv, StopCloseInv
    DEF RunnerNext
<1>3. CASE UNCHANGED vars
  <2> USE <1>3 DEF ConsumerInv, vars, configVars, brokerVars, pipeVars, stopVars,
                   historyVars, faultVars
  <2>1. TypeOK' /\ InHand' /\ CommittedIsHandled'
    BY DEF TypeOK, InHand, CommittedIsHandled
  <2>2. CurInOrder' /\ QueueInOrder' /\ CommitInOrder'
    BY DEF CurInOrder, QueueInOrder, CommitInOrder, Done, Ahead
  <2>3. HeldInOrder' /\ PositionInOrder'
    BY DEF HeldInOrder, PositionInOrder, Done, Waiting
  <2> QED
    BY <2>1, <2>2, <2>3
<1> QED
    BY <1>1, <1>2, <1>3 DEF Next

\* The invariant of the consumer side, whatever crashes, restarts and rebalances
\* interrupt the runners.
THEOREM ConsumerInvariant == Spec => []ConsumerInv
<1> QED
    BY InitInv, NextInv, PTL DEF Spec

\* The group never commits past a message no handler has seen.
THEOREM ConsumerCommittedIsHandled == Spec => []CommittedIsHandled
<1>1. ConsumerInv => CommittedIsHandled
    BY DEF ConsumerInv
<1> QED
    BY <1>1, ConsumerInvariant, PTL

\* Everything before a message in a runner is handled or ahead of it there.
THEOREM ConsumerPipelineInOrder == Spec => []PipelineInOrder
<1> QED
    BY PipelineFollows, ConsumerInvariant, PTL
=============================================================================
