--------------------------- MODULE KafkaProducer ---------------------------
(***************************************************************************)
(* The producer side of the Kafka component: concurrent Publish and        *)
(* SyncPublish calls, the lazily created Producer with its delivery loop,  *)
(* and CloseProducer, which the shutdown runs                              *)
(* (internal/kafka/client.go, app/module/kafka_component.go; the package   *)
(* kafka holds the same code).                                             *)
(*                                                                         *)
(* A call stands for its goroutine, its message and its deliveryCh.  A     *)
(* producer is named by the call that created it.  The confluent client    *)
(* and the broker are external: a message is queued, settled by the broker *)
(* (or by its message timeout) and then reported.                          *)
(***************************************************************************)
EXTENDS FiniteSets

CONSTANTS
    Call,           \* the calls of Publish and SyncPublish
    Sync,           \* those of SyncPublish
    Cancellable,    \* calls whose context may end
    None

ASSUME CallAssumption ==
    Sync \subseteq Call /\ Cancellable \subseteq Call /\ None \notin Call \cup {"ended"}
    /\ "ended" \notin Call

VARIABLES
    brokers,    \* kc.brokers is not empty; Initialize sets it before anyone publishes
    producer,   \* kc.producer: a producer or None
    state,      \* state[p]: "none", "open" or "closed"
    pc,         \* pc[c]: where the call is
    using,      \* using[c]: the producer ensureProducer returned, None for nil
    result,     \* result[c]: what the call returned
    msg,        \* msg[c]: "none", "queued", then as reported: "ok" or "err"
    events,     \* events[p]: reports in the Events channel
    loop,       \* loop[p]: the report onDelivery is called with, None, or "ended"
    seen,       \* history: reports onDelivery has returned from
    closer,     \* where CloseProducer is
    closing,    \* the producer it closes
    panicked,   \* the process has died of a panic
    timedOut,   \* history: producers whose Flush gave up
    late,       \* history: messages enqueued after Flush had returned
    raced,      \* history: two calls have been creating a producer at once
    refused,    \* history: calls whose producer the client library did not create
    caught      \* history: calls about to read the field when it was cleared

callVars  == <<pc, using, result>>
loopVars  == <<events, loop, seen>>
closeVars == <<closer, closing, timedOut>>
historyVars == <<late, raced, refused, caught>>
vars == <<brokers, producer, state, callVars, msg, loopVars, closeVars, panicked,
          historyVars>>

TypeOK ==
    /\ brokers \in BOOLEAN
    /\ producer \in Call \cup {None}
    /\ state \in [Call -> {"none", "open", "closed"}]
    /\ pc \in [Call -> {"start", "create", "read", "produce", "wait", "end"}]
    /\ using \in [Call -> Call \cup {None}]
    /\ result \in [Call -> {"none", "nil", "error", "ctx", "panic"}]
    /\ msg \in [Call -> {"none", "queued", "ok", "err"}]
    /\ events \in [Call -> SUBSET Call]
    /\ loop \in [Call -> Call \cup {None, "ended"}]
    /\ seen \cup timedOut \cup late \cup refused \cup caught \subseteq Call
    /\ closer \in {"idle", "read", "flush", "close", "wait", "clear", "done"}
    /\ closing \in Call \cup {None}
    /\ panicked \in BOOLEAN /\ raced \in BOOLEAN

Init ==
    /\ brokers \in BOOLEAN
    /\ producer = None
    /\ state = [p \in Call |-> "none"]
    /\ pc = [c \in Call |-> "start"]
    /\ using = [c \in Call |-> None]
    /\ result = [c \in Call |-> "none"]
    /\ msg = [c \in Call |-> "none"]
    /\ events = [p \in Call |-> {}]
    /\ loop = [p \in Call |-> None]
    /\ seen = {} /\ timedOut = {} /\ late = {} /\ refused = {} /\ caught = {}
    /\ closer = "idle" /\ closing = None
    /\ panicked = FALSE /\ raced = FALSE

At(c, where) == ~panicked /\ pc[c] = where
Goto(c, where) == pc' = [pc EXCEPT ![c] = where]

Return(c, value) ==
    /\ Goto(c, "end")
    /\ result' = [result EXCEPT ![c] = value]

\* A panic ends the call, and the process unless a recovery above it stops it:
\* the web server has one, consumers and jobs have none.
Panic(c) == Return(c, "panic") /\ panicked' \in BOOLEAN

----------------------------------------------------------------------------
(* Component.Publish and SyncPublish.                                       *)

\* The topic is empty.
rejectTopic(c) ==
    /\ At(c, "start")
    /\ Return(c, "error")
    /\ UNCHANGED <<brokers, producer, state, using, msg, loopVars, closeVars, panicked,
                   historyVars>>

\* Mutant: the field is not tested.
noProducer == FALSE

hasProducer == producer # None

\* ensureProducer tests the field without a lock; without brokers it panics.
ensureProducer(c) ==
    /\ At(c, "start")
    /\ \/ hasProducer /\ Goto(c, "read") /\ UNCHANGED <<result, panicked, raced>>
       \/ /\ ~hasProducer /\ brokers
          /\ Goto(c, "create")
          /\ raced' = (raced \/ (producer = None /\ \E d \in Call : pc[d] = "create"))
          /\ UNCHANGED <<result, panicked>>
       \/ ~hasProducer /\ ~brokers /\ Panic(c) /\ UNCHANGED raced
    /\ UNCHANGED <<brokers, producer, state, using, msg, loopVars, closeVars,
                   late, refused, caught>>

\* NewProducerWithDelivery starts the delivery loop, and the field is assigned; it
\* panics when the client library refuses the configuration.
newProducer(c) ==
    /\ At(c, "create")
    /\ \/ /\ state' = [state EXCEPT ![c] = "open"]
          /\ producer' = c
          /\ Goto(c, "read")
          /\ UNCHANGED <<result, panicked, refused>>
       \/ Panic(c) /\ refused' = refused \cup {c} /\ UNCHANGED <<producer, state>>
    /\ UNCHANGED <<brokers, using, msg, loopVars, closeVars, late, raced, caught>>

\* The return value is read from the field again, after the test or after the
\* assignment: CloseProducer may have cleared it.
returnProducer(c) ==
    /\ At(c, "read")
    /\ using' = [using EXCEPT ![c] = producer]
    /\ Goto(c, "produce")
    /\ UNCHANGED <<brokers, producer, state, result, msg, loopVars, closeVars, panicked,
                   historyVars>>

\* What a call returns that finds its context ended.
contextError(c) == IF c \in Cancellable THEN {"ctx"} ELSE {}

\* inner.Produce: accepted, or refused because the client is closed or its queue
\* is full.  Publish looks at its context after the message has been accepted.
\* On a nil *Producer it panics.
Produce(c) ==
    /\ At(c, "produce")
    /\ \/ /\ using[c] # None
          /\ state[using[c]] = "open"
          /\ msg' = [msg EXCEPT ![c] = "queued"]
          /\ late' = IF closer = "close" /\ closing = using[c] THEN late \cup {c} ELSE late
          /\ IF c \in Sync THEN Goto(c, "wait") /\ UNCHANGED result
             ELSE \E value \in {"nil"} \cup contextError(c) : Return(c, value)
          /\ UNCHANGED panicked
       \/ using[c] # None /\ Return(c, "error") /\ UNCHANGED <<msg, late, panicked>>
       \/ using[c] = None /\ Panic(c) /\ UNCHANGED <<msg, late>>
    /\ UNCHANGED <<brokers, producer, state, using, loopVars, closeVars,
                   raced, refused, caught>>

\* The context ends while SyncPublish waits: the message stays queued, and the
\* deferred close closes deliveryCh.
contextEnds(c) ==
    /\ At(c, "wait")
    /\ \E value \in contextError(c) : Return(c, value)
    /\ UNCHANGED <<brokers, producer, state, using, msg, loopVars, closeVars, panicked,
                   historyVars>>

Reported(c) == msg[c] \in {"ok", "err"}

\* Mutant: any report counts as success.
resultOfAny(c) == "nil"

\* message.TopicPartition.Error.
resultOf(c) == IF msg[c] = "ok" THEN "nil" ELSE "error"

\* Mutant: failed deliveries are skipped.
answeredOk(c) == msg[c] = "ok"

answered(c) == Reported(c)

\* SyncPublish receives from deliveryCh.
syncPublishReturns(c) ==
    /\ At(c, "wait")
    /\ answered(c)
    /\ Return(c, resultOf(c))
    /\ UNCHANGED <<brokers, producer, state, using, msg, loopVars, closeVars, panicked,
                   historyVars>>

----------------------------------------------------------------------------
(* The client library and the delivery loop.                                *)

Alive(c) == ~panicked /\ using[c] # None /\ state[using[c]] = "open"

\* Mutant: deliveryCh is closed as soon as the message is enqueued.
deliveryChClosedEarly(c) == c \in Sync /\ pc[c] \in {"wait", "end"}

\* defer close(deliveryCh).
deliveryChClosed(c) == c \in Sync /\ pc[c] = "end"

\* The broker has acknowledged the message, or it has been given up, and the
\* client passes the report on: a Publish's to the Events channel, a
\* SyncPublish's to its deliveryCh; sending to a closed deliveryCh panics.
deliver(c) ==
    /\ Alive(c)
    /\ msg[c] = "queued"
    /\ \E outcome \in {"ok", "err"} : msg' = [msg EXCEPT ![c] = outcome]
    /\ events' = IF c \in Sync THEN events
                 ELSE [events EXCEPT ![using[c]] = @ \cup {c}]
    /\ panicked' = deliveryChClosed(c)
    /\ UNCHANGED <<brokers, producer, state, callVars, loop, seen, closeVars, historyVars>>

\* startDeliveryLoop: onDelivery is called with each report in turn.
deliveryLoop(p) ==
    /\ ~panicked
    /\ \/ /\ loop[p] = None
          /\ \E c \in events[p] : /\ loop' = [loop EXCEPT ![p] = c]
                                  /\ events' = [events EXCEPT ![p] = @ \ {c}]
          /\ UNCHANGED seen
       \/ /\ loop[p] \in Call
          /\ seen' = seen \cup {loop[p]}
          /\ loop' = [loop EXCEPT ![p] = None]
          /\ UNCHANGED events
       \/ /\ loop[p] = None /\ events[p] = {} /\ state[p] = "closed"
          /\ loop' = [loop EXCEPT ![p] = "ended"]
          /\ UNCHANGED <<events, seen>>
    /\ UNCHANGED <<brokers, producer, state, callVars, msg, closeVars, panicked, historyVars>>

----------------------------------------------------------------------------
(* CloseProducer and Producer.Close.                                        *)

CloserAt(where) == ~panicked /\ closer = where

\* CloseProducer tests the field, too, and reads it again.
CloseProducer ==
    /\ CloserAt("idle")
    /\ closer' = IF producer = None THEN "done" ELSE "read"
    /\ UNCHANGED <<brokers, producer, state, callVars, msg, loopVars, closing, timedOut,
                   panicked, historyVars>>

readProducer ==
    /\ CloserAt("read")
    /\ closing' = producer
    /\ closer' = "flush"
    /\ UNCHANGED <<brokers, producer, state, callVars, msg, loopVars, timedOut,
                   panicked, historyVars>>

\* Messages and reports the client still has for p.
outstanding(p) == {c \in Call : using[c] = p /\ msg[c] = "queued"} \cup events[p]

\* Mutant: Close does not wait for outstanding messages.
flushedNow(p) == TRUE

flushed(p) == outstanding(p) = {}

\* Flush(5000) returns when nothing is outstanding, or after five seconds.
flush ==
    /\ CloserAt("flush")
    /\ \/ flushed(closing) /\ UNCHANGED timedOut
       \/ outstanding(closing) # {} /\ timedOut' = timedOut \cup {closing}
    /\ closer' = "close"
    /\ UNCHANGED <<brokers, producer, state, callVars, msg, loopVars, closing, panicked,
                   historyVars>>

\* Mutant: the client is flushed and left open.
innerStaysOpen(p) == state

innerClosed(p) == [state EXCEPT ![p] = "closed"]

\* inner.Close: what is not reported by now never is; the Events channel closes.
innerClose ==
    /\ CloserAt("close")
    /\ state' = innerClosed(closing)
    /\ closer' = "wait"
    /\ UNCHANGED <<brokers, producer, callVars, msg, loopVars, closing, timedOut, panicked,
                   historyVars>>

\* Mutant: Close returns without waiting for the delivery loop.
loopEndedOrNot(p) == TRUE

loopEnded(p) == loop[p] = "ended"

\* wg.Wait, then the field is cleared.
wait ==
    /\ CloserAt("wait")
    /\ loopEnded(closing)
    /\ closer' = "clear"
    /\ UNCHANGED <<brokers, producer, state, callVars, msg, loopVars, closing, timedOut,
                   panicked, historyVars>>

clear ==
    /\ CloserAt("clear")
    /\ producer' = None
    /\ caught' = caught \cup {c \in Call : pc[c] = "read"}
    /\ closer' = "done"
    /\ UNCHANGED <<brokers, state, callVars, msg, loopVars, closing, timedOut, panicked,
                   late, raced, refused>>

----------------------------------------------------------------------------
CallNext(c) ==
    \/ rejectTopic(c) \/ ensureProducer(c) \/ newProducer(c) \/ returnProducer(c)
    \/ Produce(c) \/ syncPublishReturns(c)

Closing == CloseProducer \/ readProducer \/ flush \/ innerClose \/ wait \/ clear

Next ==
    \/ \E c \in Call : CallNext(c) \/ contextEnds(c) \/ deliver(c) \/ deliveryLoop(c)
    \/ Closing

Spec == Init /\ [][Next]_vars

\* Goroutines are scheduled, callbacks return, and the client settles every
\* message (message.timeout.ms) and reports it while it is open.
Fairness ==
    /\ WF_vars(Closing)
    /\ \A c \in Call :
           WF_vars(CallNext(c)) /\ WF_vars(deliver(c)) /\ WF_vars(deliveryLoop(c))

FairSpec == Spec /\ Fairness

----------------------------------------------------------------------------
(* Properties.                                                              *)

\* SyncPublish returns nil only for a message the broker has acknowledged.
SyncNilIsDelivered ==
    \A c \in Sync : result[c] = "nil" => msg[c] = "ok"

\* When CloseProducer has returned, every message its producer accepted has had
\* its report handled, unless Flush gave up or the message was enqueued between
\* Flush and Close: a Publish is not lost silently in an orderly shutdown.
ClosedIsReported ==
    closer = "done" /\ closing # None =>
        \A c \in Call :
            using[c] = closing /\ msg[c] # "none" =>
                \/ closing \in timedOut \/ c \in late
                \/ IF c \in Sync THEN Reported(c) ELSE c \in seen

\* No onDelivery callback of the closed producer runs once CloseProducer has
\* returned: what the callback uses is released after that.
NoCallbackAfterClose ==
    closer \in {"clear", "done"} /\ closing # None =>
        loop[closing] = "ended" /\ events[closing] = {}

\* Unless two calls created a producer at the same time, every open producer is
\* the one in the field, so that CloseProducer can reach it.
NoLeakedProducer ==
    ~raced => {p \in Call : state[p] = "open"} \subseteq {producer}

\* The process dies only of a report that comes after its SyncPublish has given
\* up, or of a call that panics; and a call panics only without brokers, when the
\* client library creates no producer, or when CloseProducer cleared the field
\* between its test or assignment of it and the read that follows.
PanicCauses ==
    /\ panicked => \/ \E c \in Sync : result[c] = "ctx" /\ Reported(c)
                   \/ \E c \in Call : result[c] = "panic"
    /\ \A c \in Call : result[c] = "panic" => ~brokers \/ c \in refused \/ c \in caught

\* CloseProducer returns: the delivery loop it waits for always ends.
CloseReturns == (closer = "flush") ~> (closer = "done" \/ panicked)

\* A SyncPublish returns, unless its producer was closed before the report and
\* its context never ends.
SyncReturns ==
    \A c \in Sync :
        (pc[c] = "wait") ~> \/ pc[c] = "end" \/ panicked
                            \/ ~Alive(c) /\ msg[c] = "queued"
=============================================================================
