--------------------------- MODULE KafkaConsumer ---------------------------
(***************************************************************************)
(* The consumer side of the Kafka component: a pool of ConsumerRunners of  *)
(* one group that read one partition of one topic                          *)
(* (internal/kafka/client.go; kafka/client.go is the same code in the      *)
(* public package).  A runner has two goroutines: the poller moves         *)
(* messages from Poll into a bounded channel, the handler loop takes them  *)
(* out, calls the handler and commits the message when the handler         *)
(* returned nil.  The process may die and start again at any moment, and   *)
(* the group may move the partition from one runner to another.            *)
(*                                                                         *)
(* The broker, the group coordinator and the confluent client are external *)
(* and modelled by what this code asks of them.  A message is its offset.  *)
(* AwaitTermination and its counter are part of AppLifecycle.              *)
(***************************************************************************)
EXTENDS Integers, Sequences

CONSTANTS
    PoolSize,       \* the number of runners SubscribeByOffset creates
    Subscriptions,  \* the pairs <<offset, queue capacity>> a topic may be subscribed with
    FirstLog,       \* messages in the partition at the start
    MaxLog,         \* bound: messages ever appended to the partition
    MaxRestarts,    \* bound: how often the process dies or is restarted
    MaxRebalances   \* bound: how often the group takes the partition from a live runner

OffsetLatest   == -1
OffsetEarliest == -2
None           == -1    \* no offset committed; no message in hand

ASSUME BoundsAssumption ==
    /\ PoolSize \in Nat \ {0}
    /\ MaxLog \in Nat /\ MaxRestarts \in Nat /\ MaxRebalances \in Nat
    /\ FirstLog \in 0..MaxLog
    /\ Subscriptions \subseteq (Nat \cup {OffsetLatest, OffsetEarliest}) \X Int

VARIABLES
    offset,         \* offset the topic is subscribed by, the same for all runners
    capacity,       \* capacity of every runner's queue
    log,            \* number of messages in the partition
    committed,      \* the group's committed offset: the next one to read, or None
    assigned,       \* runners the partition is assigned to
    position,       \* position[r]: next offset Poll returns
    poller,         \* poller[r]: where the polling goroutine is
    held,           \* held[r]: message the poller wants to send, or None
    queue,          \* queue[r]: messages in the channel
    task,           \* task[r]: where the handler loop is
    cur,            \* cur[r]: message the handler loop works on, or None
    cancelled,      \* runners whose context is cancelled
    closed,         \* runners whose consumer is closed
    finished,       \* history: offsets for which a handler has returned
    succeeded,      \* history: offsets for which a handler has returned nil
    skipped,        \* history: offsets a subscription started beyond
    restarts, rebalances

brokerVars  == <<log, committed, assigned, position>>
pipeVars    == <<poller, held, queue, task, cur>>
stopVars    == <<cancelled, closed>>
historyVars == <<finished, succeeded, skipped>>
configVars  == <<offset, capacity>>
faultVars   == <<restarts, rebalances>>
vars == <<configVars, brokerVars, pipeVars, stopVars, historyVars, faultVars>>

Runners  == 1..PoolSize      \* in the order of consumerRunners
Messages == 0 .. (MaxLog - 1)

TypeOK ==
    /\ offset \in Nat \cup {OffsetLatest, OffsetEarliest}
    /\ capacity \in Nat
    /\ log \in 0..MaxLog
    /\ committed \in {None} \cup (1..MaxLog)
    /\ assigned \subseteq Runners
    /\ position \in [Runners -> 0..MaxLog]
    /\ poller \in [Runners -> {"new", "poll", "send", "done"}]
    /\ task \in [Runners -> {"new", "select", "handle", "commit", "done"}]
    /\ held \in [Runners -> {None} \cup Messages]
    /\ cur \in [Runners -> {None} \cup Messages]
    /\ queue \in [Runners -> Seq(Messages)]
    /\ \A r \in Runners : Len(queue[r]) <= capacity
    /\ closed \subseteq cancelled /\ cancelled \subseteq Runners
    /\ succeeded \subseteq finished /\ finished \subseteq Messages
    /\ skipped \subseteq Messages
    /\ restarts \in 0..MaxRestarts
    /\ rebalances \in 0..MaxRebalances

----------------------------------------------------------------------------
(* Creating the runners.                                                    *)

\* SetQueueCapacity and the local max: a negative capacity is an unbuffered queue.
QueueCapacity(value) == IF value < 0 THEN 0 ELSE value

\* Mutant: every subscription reads from the end.
offsetResetPolicyLatest == log

\* offsetResetPolicy: where reading starts when the group has no usable offset.
offsetResetPolicy == IF offset = OffsetLatest THEN log ELSE 0

GroupMode == offset \in {OffsetLatest, OffsetEarliest}

\* NewConsumerRunnerWithOffsetAndQueue, for every slot of the pool: nothing
\* runs yet, no message is in hand, the queue is empty.
PerRunner(value) == [r \in Runners |-> value]

Init ==
    /\ poller = PerRunner("new") /\ task = PerRunner("new")
    /\ held = PerRunner(None) /\ cur = PerRunner(None)
    /\ queue = PerRunner(<< >>)
    /\ assigned = {} /\ position = PerRunner(0)
    /\ cancelled = {} /\ closed = {}
    /\ \E subscription \in Subscriptions :
           /\ offset = subscription[1]
           /\ capacity = QueueCapacity(subscription[2])
    /\ log = FirstLog
    /\ committed = None
    /\ finished = {} /\ succeeded = {} /\ skipped = {}
    /\ restarts = 0 /\ rebalances = 0

----------------------------------------------------------------------------
(* The broker and the group.                                                *)

\* A producer appends a message.
Append1 ==
    /\ log < MaxLog
    /\ log' = log + 1
    /\ UNCHANGED <<configVars, committed, assigned, position, pipeVars,
                   stopVars, historyVars, faultVars>>

\* Runner r is given the partition: it reads on from the committed offset, or
\* from where its reset policy says when there is none.
Assign(r) ==
    LET start == IF committed # None THEN committed ELSE offsetResetPolicy
    IN  /\ assigned' = {r}
        /\ position' = [position EXCEPT ![r] = start]
        /\ skipped' = IF committed # None THEN skipped ELSE skipped \cup (0 .. start - 1)

Joined(r) == GroupMode /\ poller[r] # "new" /\ r \notin closed

\* The group assigns the partition nobody has.
GroupAssign(r) ==
    /\ Joined(r)
    /\ assigned = {}
    /\ Assign(r)
    /\ UNCHANGED <<configVars, log, committed, pipeVars, stopVars, finished,
                   succeeded, faultVars>>

\* The group moves the partition away from a live runner.  What that runner has
\* polled stays in its queue, and it remains a member that may commit.
Rebalance(r) ==
    /\ Joined(r)
    /\ assigned # {} /\ r \notin assigned
    /\ rebalances < MaxRebalances
    /\ rebalances' = rebalances + 1
    /\ Assign(r)
    /\ UNCHANGED <<configVars, log, committed, pipeVars, stopVars, finished,
                   succeeded, restarts>>

----------------------------------------------------------------------------
(* ConsumerRunner.                                                          *)

\* subscribe: by the group for "latest" and "earliest", otherwise the runner
\* assigns itself every partition of the topic at the fixed offset; an offset
\* beyond the end of the log is reset by the policy.
subscribe(r) ==
    LET start == IF offset <= log THEN offset ELSE offsetResetPolicy
    IN  IF GroupMode
        THEN UNCHANGED <<assigned, position, skipped>>
        ELSE /\ assigned' = assigned \cup {r}
             /\ position' = [position EXCEPT ![r] = start]
             /\ skipped' = skipped \cup (0 .. start - 1)

\* Start: subscribe, then the two goroutines; Component.Start takes the runners
\* in order.
Start(r) ==
    /\ poller[r] = "new"
    /\ \A s \in 1 .. r - 1 : poller[s] # "new"
    /\ subscribe(r)
    /\ poller' = [poller EXCEPT ![r] = "poll"]
    /\ task' = [task EXCEPT ![r] = "select"]
    /\ UNCHANGED <<configVars, log, committed, held, queue, cur, stopVars,
                   finished, succeeded, faultVars>>

\* Poll returns a message.  The context was checked before Poll, so it may be
\* cancelled by now; a closed consumer returns no message.  A poll that returns
\* nothing or an error goes round the loop again.
Poll(r) ==
    /\ poller[r] = "poll"
    /\ r \in assigned \ closed
    /\ position[r] < log
    /\ held' = [held EXCEPT ![r] = position[r]]
    /\ position' = [position EXCEPT ![r] = @ + 1]
    /\ poller' = [poller EXCEPT ![r] = "send"]
    /\ UNCHANGED <<configVars, log, committed, assigned, queue, task, cur,
                   stopVars, historyVars, faultVars>>

\* The channel's buffer.
hasRoom(r) == Len(queue[r]) < capacity

\* Mutant: a full queue drops the message instead of making the poller wait.
SendOrDrop(r) ==
    /\ poller[r] = "send"
    /\ queue' = [queue EXCEPT ![r] = IF hasRoom(r) THEN Append(@, held[r]) ELSE @]
    /\ held' = [held EXCEPT ![r] = None]
    /\ poller' = [poller EXCEPT ![r] = "poll"]
    /\ UNCHANGED <<configVars, brokerVars, task, cur, stopVars, historyVars,
                   faultVars>>

\* r.queue <- message: into the buffer, or, when the queue has none, straight
\* to the handler loop that waits for it.
Send(r) ==
    /\ poller[r] = "send"
    /\ \/ /\ hasRoom(r)
          /\ queue' = [queue EXCEPT ![r] = Append(@, held[r])]
          /\ UNCHANGED <<task, cur>>
       \/ /\ capacity = 0
          /\ task[r] = "select"
          /\ cur' = [cur EXCEPT ![r] = held[r]]
          /\ task' = [task EXCEPT ![r] = "handle"]
          /\ UNCHANGED queue
    /\ held' = [held EXCEPT ![r] = None]
    /\ poller' = [poller EXCEPT ![r] = "poll"]
    /\ UNCHANGED <<configVars, brokerVars, stopVars, historyVars, faultVars>>

\* Mutant: only the check before Poll watches the context.
watchesContextBeforePoll(r) == poller[r] = "poll"

\* Both selects of the poller have a case for the context.
watchesContext(r) == poller[r] \in {"poll", "send"}

\* The poller sees the cancelled context, before Poll or while it waits to send,
\* and drops the message in its hand; the deferred close ends the queue.
PollerReturns(r) ==
    /\ watchesContext(r)
    /\ r \in cancelled
    /\ held' = [held EXCEPT ![r] = None]
    /\ poller' = [poller EXCEPT ![r] = "done"]
    /\ UNCHANGED <<configVars, brokerVars, queue, task, cur, stopVars,
                   historyVars, faultVars>>

\* The handler loop takes the next message.  When the context is cancelled as
\* well, select may still choose the queue.
Receive(r) ==
    /\ task[r] = "select"
    /\ queue[r] # << >>
    /\ cur' = [cur EXCEPT ![r] = Head(queue[r])]
    /\ queue' = [queue EXCEPT ![r] = Tail(@)]
    /\ task' = [task EXCEPT ![r] = "handle"]
    /\ UNCHANGED <<configVars, brokerVars, poller, held, stopVars, historyVars,
                   faultVars>>

\* Mutant: committed whatever the handler returned.
afterHandlerAlways(ok) == "commit"

afterHandler(ok) == IF ok THEN "commit" ELSE "select"

\* The handler returns.  Only a message it accepted goes on to CommitMessage.
HandlerReturns(r, ok) ==
    /\ task[r] = "handle"
    /\ finished' = finished \cup {cur[r]}
    /\ succeeded' = IF ok THEN succeeded \cup {cur[r]} ELSE succeeded
    /\ task' = [task EXCEPT ![r] = afterHandler(ok)]
    /\ cur' = [cur EXCEPT ![r] = IF afterHandler(ok) = "commit" THEN @ ELSE None]
    /\ UNCHANGED <<configVars, brokerVars, poller, held, queue, stopVars,
                   skipped, faultVars>>

\* CommitMessage: the group's offset becomes the one after the message.  The
\* commit of a closed consumer fails, any other one may; the error is dropped.
CommitMessage(r) ==
    /\ task[r] = "commit"
    /\ \/ r \notin closed /\ committed' = cur[r] + 1
       \/ UNCHANGED committed
    /\ task' = [task EXCEPT ![r] = "select"]
    /\ cur' = [cur EXCEPT ![r] = None]
    /\ UNCHANGED <<configVars, log, assigned, position, poller, held, queue,
                   stopVars, historyVars, faultVars>>

\* The handler loop returns on the cancelled context or on the closed queue.
TaskReturns(r) ==
    /\ task[r] = "select"
    /\ r \in cancelled \/ (poller[r] = "done" /\ queue[r] = << >>)
    /\ task' = [task EXCEPT ![r] = "done"]
    /\ UNCHANGED <<configVars, brokerVars, poller, held, queue, cur, stopVars,
                   historyVars, faultVars>>

\* Component.Stop stops one runner after the other: r.cancel(), then Close.
StopCancel(r) ==
    /\ \A s \in Runners : poller[s] # "new"
    /\ r \notin cancelled
    /\ closed = 1 .. r - 1
    /\ cancelled' = cancelled \cup {r}
    /\ UNCHANGED <<configVars, brokerVars, pipeVars, closed, historyVars, faultVars>>

\* consumer.Close leaves the group, which may then assign the partition to a
\* runner that has not been stopped yet.
StopClose(r) ==
    /\ r \in cancelled \ closed
    /\ closed' = closed \cup {r}
    /\ assigned' = assigned \ {r}
    /\ UNCHANGED <<configVars, log, committed, position, pipeVars, cancelled,
                   historyVars, faultVars>>

\* The process dies, or ends after Stop, and is started again.
Restart ==
    /\ restarts < MaxRestarts
    /\ restarts' = restarts + 1
    /\ poller' = PerRunner("new") /\ task' = PerRunner("new")
    /\ held' = PerRunner(None) /\ cur' = PerRunner(None)
    /\ queue' = PerRunner(<< >>)
    /\ assigned' = {} /\ position' = PerRunner(0)
    /\ cancelled' = {} /\ closed' = {}
    /\ UNCHANGED <<configVars, log, committed, historyVars, rebalances>>

----------------------------------------------------------------------------
RunnerNext(r) ==
    \/ GroupAssign(r) \/ Rebalance(r)
    \/ Start(r) \/ Poll(r) \/ Send(r) \/ PollerReturns(r)
    \/ Receive(r) \/ (\E ok \in BOOLEAN : HandlerReturns(r, ok))
    \/ CommitMessage(r) \/ TaskReturns(r)
    \/ StopCancel(r) \/ StopClose(r)

Next ==
    \/ Append1 \/ Restart
    \/ \E r \in Runners : RunnerNext(r)

Spec == Init /\ [][Next]_vars

\* Goroutines are scheduled, the group assigns a free partition, handlers return
\* and Stop, once called, goes on.  Nobody need produce, stop or crash.
Fairness ==
    \A r \in Runners :
        /\ WF_vars(GroupAssign(r)) /\ WF_vars(Start(r))
        /\ WF_vars(Poll(r)) /\ WF_vars(Send(r)) /\ WF_vars(PollerReturns(r))
        /\ WF_vars(Receive(r)) /\ WF_vars(\E ok \in BOOLEAN : HandlerReturns(r, ok))
        /\ WF_vars(CommitMessage(r)) /\ WF_vars(TaskReturns(r))
        /\ WF_vars(cancelled # {} /\ StopCancel(r)) /\ WF_vars(StopClose(r))

FairSpec == Spec /\ Fairness

----------------------------------------------------------------------------
(* Properties.                                                              *)

\* Whatever is below the committed offset has been handled: a crash, a rebalance
\* that leaves polled messages behind in another runner's queue, a failed or a
\* late commit never makes the group forget a message no handler has seen.  Only
\* messages before the start of a subscription are exempt.
CommittedIsHandled ==
    committed # None =>
        /\ 0 .. committed - 1 \subseteq finished \cup skipped
        /\ committed - 1 \in succeeded

\* Messages a runner has still to work off, oldest first.
Pipeline(r) ==
    (IF task[r] = "handle" THEN <<cur[r]>> ELSE << >>)
        \o queue[r] \o (IF poller[r] = "send" THEN <<held[r]>> ELSE << >>)

\* Why CommittedIsHandled holds: everything before a message on its way through
\* a runner has been handled, or is on its way ahead of it in the same runner.
PipelineInOrder ==
    \A r \in Runners :
        LET p == Pipeline(r)
        IN  /\ \A i \in DOMAIN p : \A o \in 0 .. p[i] - 1 :
                   o \in finished \cup skipped \/ \E j \in 1 .. i - 1 : p[j] = o
            /\ r \in assigned /\ poller[r] # "done" =>
                   \A o \in 0 .. position[r] - 1 :
                       o \in finished \cup skipped \/ \E j \in DOMAIN p : p[j] = o

\* Under "earliest", every message of the partition reaches a handler unless the
\* component is stopped: no order of polls, rebalances, crashes and failed
\* commits strands one.
EveryMessageHandled ==
    (offset = OffsetEarliest) ~> (0 .. log - 1 \subseteq finished \/ cancelled # {})

\* Stop ends both goroutines of every runner, even of one whose poller is waiting
\* for room in the queue, so that AwaitTermination's wait group is released.
GoroutinesEnd ==
    (cancelled # {}) ~> (cancelled = {} \/ \A r \in Runners : {poller[r], task[r]} = {"done"})
=============================================================================
