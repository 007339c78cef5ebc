--------------------------- MODULE RabbitConsumer ---------------------------
(***************************************************************************)
(* The consumers of the RabbitMQ component (rabbitmq/client.go,            *)
(* app/module/rabbitmq_component.go): ConsumerRunners on one queue, whose  *)
(* handler uses the Deduplicator the way docs/deduplicator-usage.md shows: *)
(* TryMark, return on an error or a duplicate, do the work, Clear when it  *)
(* fails.                                                                  *)
(*                                                                         *)
(* The broker, amqp091 and the handler's work are external.  A message is  *)
(* ready in the queue, delivered to a runner's channel and unacked, or     *)
(* settled; a channel that closes gives its unacked messages back.  A      *)
(* delivery goes through a client-side buffer, which a closed channel may  *)
(* drop.  AwaitTermination and its counter are part of AppLifecycle.       *)
(***************************************************************************)
EXTENDS Integers, Sequences, FiniteSets

CONSTANTS
    Subscriptions,  \* number of Subscribe calls, one runner each
    Messages,       \* the messages in the queue
    Deduped,        \* those whose handler asks the Deduplicator first
    Options,        \* the ConsumerOptions a component may be configured with
    MaxFaults,      \* bound: failures of the handler, of Redis, of the connection; expiries
    MaxRestarts,    \* bound: how often the process dies or is restarted
    None

ASSUME ConsumerAssumption ==
    /\ Subscriptions \in Nat \ {0} /\ MaxFaults \in Nat /\ MaxRestarts \in Nat
    /\ Deduped \subseteq Messages /\ None \notin Messages
    /\ Options \subseteq [AutoAck : BOOLEAN, Prefetch : Int, Requeue : BOOLEAN, Tag : BOOLEAN]

Runners == 1..Subscriptions      \* in the order of consumerRunners

VARIABLES
    options,    \* the same for every runner
    ready,      \* messages in the queue
    unacked,    \* unacked[r]: delivered on r's channel and not acknowledged
    chan,       \* chan[r]: r's channel
    limit,      \* limit[r]: the prefetch limit of the channel, 0 for none
    buffer,     \* buffer[r]: delivered and not yet received by the loop
    task,       \* task[r]: where the loop and handle are
    cur,        \* cur[r]: the delivery being handled
    cancelled,  \* runners whose context is cancelled
    marks,      \* the Deduplicator's keys in Redis
    effects,    \* history: how often the work was done, up to 2
    rejected,   \* history: failed and nacked without requeue
    interrupted,\* history: marked, and then the work failed, the process died or a reply was lost
    unmarked,   \* history: messages whose mark expired
    faults, restarts

brokerVars  == <<ready, unacked, chan, limit>>
loopVars    == <<buffer, task, cur>>
historyVars == <<effects, rejected, interrupted, unmarked>>
faultVars   == <<faults, restarts>>
vars == <<options, brokerVars, loopVars, cancelled, marks, historyVars, faultVars>>

D == INSTANCE Dedupe

TypeOK ==
    /\ options \in [AutoAck : BOOLEAN, Prefetch : Nat, Requeue : BOOLEAN, Tag : BOOLEAN]
    /\ ready \subseteq Messages
    /\ unacked \in [Runners -> SUBSET Messages]
    /\ chan \in [Runners -> {"new", "qos", "open", "cancelled", "closed"}]
    /\ limit \in [Runners -> Nat]
    /\ buffer \in [Runners -> Seq(Messages)]
    /\ task \in [Runners -> {"new", "select", "handle", "work", "ack", "nack", "done"}]
    /\ cur \in [Runners -> Messages \cup {None}]
    /\ cancelled \subseteq Runners
    /\ marks \subseteq Deduped
    /\ effects \in [Messages -> 0..2]
    /\ rejected \cup interrupted \cup unmarked \subseteq Messages
    /\ faults \in 0..MaxFaults /\ restarts \in 0..MaxRestarts

PerRunner(value) == [r \in Runners |-> value]

\* SetPrefetch: a negative value means no limit.
SetPrefetch(value) == IF value < 0 THEN 0 ELSE value

Init ==
    /\ options \in {[o EXCEPT !.Prefetch = SetPrefetch(@)] : o \in Options}
    /\ ready = Messages /\ unacked = PerRunner({})
    /\ chan = PerRunner("new") /\ limit = PerRunner(0)
    /\ buffer = PerRunner(<< >>) /\ task = PerRunner("new") /\ cur = PerRunner(None)
    /\ cancelled = {}
    /\ marks = {}
    /\ effects = [m \in Messages |-> 0]
    /\ rejected = {} /\ interrupted = {} /\ unmarked = {}
    /\ faults = 0 /\ restarts = 0

Goto(r, where) == task' = [task EXCEPT ![r] = where]
Fault == faults < MaxFaults /\ faults' = faults + 1 /\ UNCHANGED restarts

----------------------------------------------------------------------------
(* Start.                                                                   *)

\* ch.Qos is called for a positive Prefetch only.
prefetch(value) == IF value > 0 THEN value ELSE 0

\* Start opens a channel and sets its limit ...
StartChannel(r) ==
    /\ chan[r] = "new"
    /\ \A s \in 1 .. r - 1 : task[s] # "new"
    /\ chan' = [chan EXCEPT ![r] = "qos"]
    /\ limit' = [limit EXCEPT ![r] = prefetch(options.Prefetch)]
    /\ UNCHANGED <<options, ready, unacked, loopVars, cancelled, marks,
                   historyVars, faultVars>>

\* ... and only then consumes and starts the loop.
StartConsume(r) ==
    /\ chan[r] = "qos"
    /\ chan' = [chan EXCEPT ![r] = "open"]
    /\ Goto(r, "select")
    /\ UNCHANGED <<options, ready, unacked, limit, buffer, cur, cancelled, marks,
                   historyVars, faultVars>>

\* The broker delivers; a message delivered with AutoAck is settled at once.
Deliver(r, m) ==
    /\ chan[r] = "open"
    /\ m \in ready
    /\ options.AutoAck \/ limit[r] = 0 \/ Cardinality(unacked[r]) < limit[r]
    /\ ready' = ready \ {m}
    /\ unacked' = IF options.AutoAck THEN unacked
                  ELSE [unacked EXCEPT ![r] = @ \cup {m}]
    /\ buffer' = [buffer EXCEPT ![r] = Append(@, m)]
    /\ UNCHANGED <<options, chan, limit, task, cur, cancelled, marks,
                   historyVars, faultVars>>

----------------------------------------------------------------------------
(* The loop and handle.                                                     *)

Receive(r) ==
    /\ task[r] = "select"
    /\ buffer[r] # << >>
    /\ cur' = [cur EXCEPT ![r] = Head(buffer[r])]
    /\ buffer' = [buffer EXCEPT ![r] = Tail(@)]
    /\ Goto(r, "handle")
    /\ UNCHANGED <<options, brokerVars, cancelled, marks, historyVars, faultVars>>

\* A closed channel drops what it has buffered.
DropBuffer(r) ==
    /\ chan[r] = "closed"
    /\ buffer[r] # << >>
    /\ buffer' = [buffer EXCEPT ![r] = << >>]
    /\ UNCHANGED <<options, brokerVars, task, cur, cancelled, marks,
                   historyVars, faultVars>>

\* Mutant: break instead of return, which leaves only the select.
loopBreaks(r) == FALSE

\* The context is cancelled, or the deliveries channel is closed and drained.
loopEnds(r) ==
    r \in cancelled \/ (chan[r] \in {"cancelled", "closed"} /\ buffer[r] = << >>)

LoopReturns(r) ==
    /\ task[r] = "select"
    /\ loopEnds(r)
    /\ Goto(r, "done")
    /\ UNCHANGED <<options, brokerVars, buffer, cur, cancelled, marks,
                   historyVars, faultVars>>

\* The handler asks the Deduplicator: an error is returned, a duplicate is
\* reported as handled.
AskDeduplicator(r) ==
    /\ task[r] = "handle"
    /\ cur[r] \in Deduped
    /\ \/ /\ \E o \in D!TryMark(cur[r]) :
                /\ marks' = o.marks
                /\ Goto(r, IF o.answer = "yes" THEN "work" ELSE "ack")
          /\ UNCHANGED <<interrupted, faultVars>>
       \/ /\ Fault
          /\ \E o \in D!TryMarkFaulty(cur[r]) :
                /\ marks' = o.marks
                /\ interrupted' = IF o.marks = marks THEN interrupted
                                  ELSE interrupted \cup {cur[r]}
                /\ Goto(r, IF o.answer = "error" THEN "nack" ELSE "ack")
    /\ UNCHANGED <<options, brokerVars, buffer, cur, cancelled, effects,
                   rejected, unmarked>>

NoDeduplicator(r) ==
    /\ task[r] = "handle"
    /\ cur[r] \notin Deduped
    /\ Goto(r, "work")
    /\ UNCHANGED <<options, brokerVars, buffer, cur, cancelled, marks,
                   historyVars, faultVars>>

\* The handler does its work and returns nil ...
WorkDone(r) ==
    /\ task[r] = "work"
    /\ effects' = [effects EXCEPT ![cur[r]] = IF @ < 2 THEN @ + 1 ELSE 2]
    /\ Goto(r, "ack")
    /\ UNCHANGED <<options, brokerVars, buffer, cur, cancelled, marks, rejected,
                   interrupted, unmarked, faultVars>>

\* ... or fails, takes its mark back and returns the error.
WorkFails(r) ==
    /\ task[r] = "work"
    /\ Fault
    /\ IF cur[r] \in Deduped
       THEN /\ \E o \in D!Clear(cur[r]) \cup D!ClearFaulty(cur[r]) : marks' = o.marks
            /\ interrupted' = interrupted \cup {cur[r]}
       ELSE UNCHANGED <<marks, interrupted>>
    /\ Goto(r, "nack")
    /\ UNCHANGED <<options, brokerVars, buffer, cur, cancelled, effects,
                   rejected, unmarked>>

\* Mutant: handle acknowledges before it looks at the error.
settleAsAck(r) == TRUE

acks(r) == task[r] = "ack"

\* Mutant: a delivery whose handler failed is left alone.
answersSuccess(r) == ~options.AutoAck /\ acks(r)

answers(r) == ~options.AutoAck

\* handle's end: with AutoAck nothing, otherwise Ack, or Nack with the Requeue
\* option.  On a closed channel both fail, and the error is dropped.
Settle(r) ==
    /\ task[r] \in {"ack", "nack"}
    /\ LET m     == cur[r]
           valid == answers(r) /\ m \in unacked[r]
       IN  /\ unacked' = IF valid THEN [unacked EXCEPT ![r] = @ \ {m}] ELSE unacked
           /\ ready' = IF valid /\ ~acks(r) /\ options.Requeue
                       THEN ready \cup {m} ELSE ready
           /\ rejected' = IF valid /\ ~acks(r) /\ ~options.Requeue
                          THEN rejected \cup {m} ELSE rejected
    /\ cur' = [cur EXCEPT ![r] = None]
    /\ Goto(r, "select")
    /\ UNCHANGED <<options, chan, limit, buffer, cancelled, marks, effects,
                   interrupted, unmarked, faultVars>>

----------------------------------------------------------------------------
(* Stop, broken connections, restarts.                                      *)

\* The channels rs close: what they had not acknowledged is ready again.
CloseChannels(rs) ==
    /\ ready' = ready \cup UNION {unacked[r] : r \in rs}
    /\ unacked' = [r \in Runners |-> IF r \in rs THEN {} ELSE unacked[r]]
    /\ chan' = [r \in Runners |-> IF r \in rs THEN "closed" ELSE chan[r]]

\* Component.Stop stops one runner after the other: the context first ...
StopCancel(r) ==
    /\ \A s \in Runners : task[s] # "new"
    /\ cancelled = 1 .. r - 1 /\ \A s \in cancelled : chan[s] = "closed"
    /\ cancelled' = cancelled \cup {r}
    /\ UNCHANGED <<options, brokerVars, loopVars, marks, historyVars, faultVars>>

\* ... then, if it has a tag, the consumer ...
StopConsumer(r) ==
    /\ r \in cancelled
    /\ options.Tag /\ chan[r] = "open"
    /\ chan' = [chan EXCEPT ![r] = "cancelled"]
    /\ UNCHANGED <<options, ready, unacked, limit, loopVars, cancelled, marks,
                   historyVars, faultVars>>

\* ... then the channel, while the handler may still be at work.
StopChannel(r) ==
    /\ r \in cancelled
    /\ chan[r] = (IF options.Tag THEN "cancelled" ELSE "open")
    /\ CloseChannels({r})
    /\ UNCHANGED <<options, limit, loopVars, cancelled, marks, historyVars, faultVars>>

\* The connection breaks, and with it every channel.  Nothing reconnects.
ConnectionBreaks ==
    /\ Fault
    /\ \A r \in Runners : task[r] # "new"
    /\ CloseChannels(Runners)
    /\ UNCHANGED <<options, limit, loopVars, cancelled, marks, historyVars>>

\* The process dies, or ends after Stop, and is started again.
Restart ==
    /\ restarts < MaxRestarts /\ restarts' = restarts + 1
    /\ ready' = ready \cup UNION {unacked[r] : r \in Runners}
    /\ unacked' = PerRunner({})
    /\ chan' = PerRunner("new") /\ limit' = PerRunner(0)
    /\ buffer' = PerRunner(<< >>) /\ task' = PerRunner("new") /\ cur' = PerRunner(None)
    /\ cancelled' = {}
    /\ interrupted' = interrupted \cup
           {cur[r] : r \in {s \in Runners : task[s] = "work" /\ cur[s] \in Deduped}}
    /\ UNCHANGED <<options, marks, effects, rejected, unmarked, faults>>

MarkExpires(m) ==
    /\ Fault
    /\ D!Marked(m)
    /\ marks' = D!expired(m)
    /\ unmarked' = unmarked \cup {m}
    /\ UNCHANGED <<options, brokerVars, loopVars, cancelled, effects, rejected,
                   interrupted>>

----------------------------------------------------------------------------
LoopNext(r) ==
    \/ Receive(r) \/ DropBuffer(r) \/ LoopReturns(r)
    \/ AskDeduplicator(r) \/ NoDeduplicator(r)
    \/ WorkDone(r) \/ WorkFails(r) \/ Settle(r)

Next ==
    \/ \E r \in Runners :
          \/ StartChannel(r) \/ StartConsume(r) \/ LoopNext(r)
          \/ \E m \in Messages : Deliver(r, m)
          \/ StopCancel(r) \/ StopConsumer(r) \/ StopChannel(r)
    \/ ConnectionBreaks \/ Restart
    \/ \E m \in Deduped : MarkExpires(m)

Spec == Init /\ [][Next]_vars

\* Goroutines are scheduled, the broker delivers to an open consumer, handlers
\* return, and Stop, once called, goes on.
Fairness ==
    \A r \in Runners :
        /\ WF_vars(StartChannel(r)) /\ WF_vars(StartConsume(r))
        /\ WF_vars(LoopNext(r))
        /\ WF_vars(\E m \in Messages : Deliver(r, m))
        /\ WF_vars(cancelled # {} /\ StopCancel(r))
        /\ WF_vars(StopConsumer(r)) /\ WF_vars(StopChannel(r))

FairSpec == Spec /\ Fairness

----------------------------------------------------------------------------
(* Properties.                                                              *)

settled(m) == m \notin ready /\ \A r \in Runners : m \notin unacked[r]

\* With manual acknowledgement no message is lost: one that has left the queue
\* has been worked on, or was refused without Requeue.  The Deduplicator weakens
\* this: a duplicate is acknowledged while the first delivery is still at work,
\* and a mark whose owner failed or died turns the redelivery away.
NoMessageLost ==
    ~options.AutoAck =>
        \A m \in Messages :
            settled(m) =>
                \/ effects[m] > 0 \/ m \in rejected \/ m \in interrupted
                \/ m \in Deduped /\ \E r \in Runners : cur[r] = m /\ task[r] = "work"

\* The work of a message behind the Deduplicator is done once, however often it
\* is delivered: after Stop, after a break, after a crash, to two runners at
\* once.  Exempt are marks that expired and work that failed and was marked anew.
WorkedOnce ==
    \A m \in Deduped \ unmarked : effects[m] <= 1

\* Every message is settled as long as some consumer lives: no delivery is
\* forgotten in a buffer or left unanswered.
EveryMessageSettled ==
    []<>(\/ \A m \in Messages : settled(m)
         \/ \A r \in Runners : task[r] = "done")

\* Stop ends the loop of every runner.
LoopsEnd ==
    (cancelled # {}) ~> (cancelled = {} \/ \A r \in Runners : task[r] = "done")
=============================================================================
