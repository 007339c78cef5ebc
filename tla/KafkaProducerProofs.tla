------------------------ MODULE KafkaProducerProofs ------------------------
(***************************************************************************)
(* The invariants of KafkaProducer for any set of calls of Publish and     *)
(* SyncPublish against one CloseProducer.                                  *)
(***************************************************************************)
EXTENDS KafkaProducer, TLAPS

\* A call has a result when it has ended, and no message before it has a
\* producer to give it to; until then it has created none of its own.
CallsInOrder ==
    \A c \in Call :
        /\ result[c] = "none" <=> pc[c] # "end"
        /\ pc[c] \in {"start", "create", "read", "produce"} => msg[c] = "none"
        /\ pc[c] \in {"start", "create"} => state[c] = "none"

\* What the result of a SyncPublish says of its message.
SyncResults ==
    \A c \in Sync :
        /\ result[c] = "nil" => msg[c] = "ok"
        /\ result[c] = "error" => msg[c] \in {"none", "err"}

\* A call finds the field empty only when it was cleared under its hands.
ClearedByClose ==
    \A c \in Call :
        /\ pc[c] = "read" => producer # None \/ c \in caught
        /\ pc[c] = "produce" => using[c] # None \/ c \in caught

\* The producer in the field, and the one CloseProducer has, were created.
FieldIsCreated ==
    /\ producer # None => state[producer] # "none"
    /\ closing # None => state[closing] # "none"

\* A delivery loop ends when its producer is closed and every event is handled.
LoopEnds ==
    \A p \in Call : loop[p] = "ended" => state[p] = "closed" /\ events[p] = {}

\* A report of a Publish is in the Events channel, in the loop's hand, or seen.
ReportsKept ==
    \A c \in Call \ Sync :
        Reported(c) =>
            \/ c \in seen
            \/ using[c] # None /\ (c \in events[using[c]] \/ loop[using[c]] = c)

\* How far CloseProducer has come with the producer it closes.
CloserKnows ==
    /\ closer \in {"idle", "read"} => closing = None
    /\ closer = "read" => producer # None
    /\ closer \in {"flush", "close", "wait", "clear"} => closing # None
    /\ closer \in {"wait", "clear", "done"} /\ closing # None => state[closing] = "closed"
    /\ closer \in {"clear", "done"} /\ closing # None => loop[closing] = "ended"

\* After Flush only messages that came late, or that it gave up, are queued.
FlushedOrLate ==
    closer \in {"close", "wait", "clear", "done"} /\ closing # None =>
        \A c \in Call :
            using[c] = closing /\ msg[c] = "queued" => closing \in timedOut \/ c \in late

\* As long as no two calls create a producer at once, a call creates one only
\* when there is none, and CloseProducer closes the one in the field.
OneAtATime ==
    ~raced =>
        /\ \A c, d \in Call : pc[c] = "create" /\ pc[d] = "create" => c = d
        /\ \A c \in Call : pc[c] = "create" => producer = None
        /\ closer \in {"flush", "close", "wait", "clear"} => producer = closing
        /\ \A p \in Call : state[p] = "open" => producer = p

\* The inductive invariant.
ProducerInv ==
    /\ TypeOK
    /\ CallsInOrder /\ SyncResults /\ ClearedByClose
    /\ FieldIsCreated /\ LoopEnds /\ ReportsKept
    /\ CloserKnows /\ FlushedOrLate
    /\ OneAtATime /\ PanicCauses

----------------------------------------------------------------------------
(* The actions.                                                             *)

\* rejectTopic ends a call that has no message.
LEMMA RejectInv ==
    ASSUME ProducerInv, NEW c \in Call, rejectTopic(c)
    PROVE  ProducerInv'
<1> USE DEF callVars, loopVars, closeVars, historyVars, rejectTopic, Return, At, Goto
<1>1. TypeOK'
    BY DEF ProducerInv, TypeOK
<1>2. CallsInOrder'
    BY DEF ProducerInv, TypeOK, CallsInOrder
<1>3. SyncResults'
    BY CallAssumption DEF ProducerInv, TypeOK, SyncResults, CallsInOrder
<1>4. ClearedByClose'
    BY DEF ProducerInv, TypeOK, ClearedByClose
<1>5. OneAtATime'
    BY DEF ProducerInv, TypeOK, OneAtATime
<1>6. PanicCauses'
    BY DEF ProducerInv, TypeOK, PanicCauses, Reported
<1>7. /\ FieldIsCreated'
      /\ LoopEnds'
      /\ ReportsKept'
      /\ CloserKnows'
      /\ FlushedOrLate'
    BY DEF ProducerInv, FieldIsCreated, LoopEnds, ReportsKept, CloserKnows,
           FlushedOrLate, Reported
<1> QED
    BY <1>1, <1>2, <1>3, <1>4, <1>5, <1>6, <1>7
    DEF ProducerInv

\* ensureProducer reads the field; a second call that finds none while one is
\* being created is the race OneAtATime excludes.
LEMMA EnsureInv ==
    ASSUME ProducerInv, NEW c \in Call, ensureProducer(c)
    PROVE  ProducerInv'
<1> USE DEF callVars, loopVars, closeVars, historyVars, ensureProducer, hasProducer,
            Panic, Return, At, Goto
<1>1. TypeOK'
    BY DEF ProducerInv, TypeOK
<1>2. CallsInOrder'
    BY DEF ProducerInv, TypeOK, CallsInOrder
<1>3. ClearedByClose'
    BY DEF ProducerInv, TypeOK, ClearedByClose
<1>4. ReportsKept'
    BY DEF ProducerInv, TypeOK, ReportsKept, Reported, CallsInOrder
<1>5. FlushedOrLate'
    BY DEF ProducerInv, TypeOK, FlushedOrLate, CallsInOrder
<1>6. OneAtATime'
    BY DEF ProducerInv, TypeOK, OneAtATime
<1>7. PanicCauses'
    BY DEF ProducerInv, TypeOK, PanicCauses, Reported
<1>8. SyncResults' /\ FieldIsCreated' /\ LoopEnds' /\ CloserKnows'
    BY CallAssumption DEF ProducerInv, TypeOK, SyncResults, FieldIsCreated, LoopEnds,
                          CloserKnows, CallsInOrder
<1> QED
    BY <1>1, <1>2, <1>3, <1>4, <1>5, <1>6, <1>7, <1>8
    DEF ProducerInv

\* newProducer opens the producer of a call that had none, and assigns the field.
LEMMA NewInv ==
    ASSUME ProducerInv, NEW c \in Call, newProducer(c)
    PROVE  ProducerInv'
<1> USE DEF callVars, loopVars, closeVars, historyVars, newProducer,
            Panic, Return, At, Goto
<1>1. TypeOK'
    BY DEF ProducerInv, TypeOK
<1>2. CallsInOrder'
    BY DEF ProducerInv, TypeOK, CallsInOrder
<1>3. ClearedByClose'
    BY CallAssumption DEF ProducerInv, TypeOK, ClearedByClose
<1>4. FieldIsCreated'
    BY DEF ProducerInv, TypeOK, FieldIsCreated
<1>5. LoopEnds'
    BY DEF ProducerInv, TypeOK, LoopEnds, CallsInOrder
<1>6. CloserKnows'
    BY CallAssumption DEF ProducerInv, TypeOK, CloserKnows, CallsInOrder
<1>7. OneAtATime'
    BY CallAssumption DEF ProducerInv, TypeOK, OneAtATime, CallsInOrder,
                          CloserKnows
<1>8. PanicCauses'
    BY DEF ProducerInv, TypeOK, PanicCauses, Reported
<1>9. SyncResults' /\ ReportsKept' /\ FlushedOrLate'
    BY CallAssumption DEF ProducerInv, TypeOK, SyncResults, ReportsKept,
                          FlushedOrLate, Reported, CallsInOrder
<1> QED
    BY <1>1, <1>2, <1>3, <1>4, <1>5, <1>6, <1>7, <1>8, <1>9
    DEF ProducerInv

\* The second read of the field: it is nil only if CloseProducer cleared it since.
LEMMA ReturnInv ==
    ASSUME ProducerInv, NEW c \in Call, returnProducer(c)
    PROVE  ProducerInv'
<1> USE DEF callVars, loopVars, closeVars, historyVars, returnProducer, At, Goto
<1>1. TypeOK'
    BY DEF ProducerInv, TypeOK
<1>2. CallsInOrder'
    BY DEF ProducerInv, TypeOK, CallsInOrder
<1>3. ClearedByClose'
    BY DEF ProducerInv, TypeOK, ClearedByClose
<1>4. ReportsKept'
    BY DEF ProducerInv, TypeOK, ReportsKept, Reported, CallsInOrder
<1>5. FlushedOrLate'
    BY DEF ProducerInv, TypeOK, FlushedOrLate, CallsInOrder
<1>6. OneAtATime'
    BY DEF ProducerInv, TypeOK, OneAtATime
<1>7. PanicCauses'
    BY DEF ProducerInv, TypeOK, PanicCauses, Reported, ClearedByClose
<1>8. SyncResults' /\ FieldIsCreated' /\ LoopEnds' /\ CloserKnows'
    BY DEF ProducerInv, SyncResults, FieldIsCreated, LoopEnds, CloserKnows
<1> QED
    BY <1>1, <1>2, <1>3, <1>4, <1>5, <1>6, <1>7, <1>8
    DEF ProducerInv

\* Produce queues the message, late if Flush has returned, or refuses it: a
\* closed producer accepts nothing.
LEMMA ProduceInv ==
    ASSUME ProducerInv, NEW c \in Call, Produce(c)
    PROVE  ProducerInv'
<1> USE DEF callVars, loopVars, closeVars, historyVars, Produce, contextError,
            Panic, Return, At, Goto
<1>1. TypeOK'
    BY DEF ProducerInv, TypeOK
<1>2. CallsInOrder'
    BY DEF ProducerInv, TypeOK, CallsInOrder
<1>3. SyncResults'
    BY CallAssumption DEF ProducerInv, TypeOK, SyncResults, CallsInOrder
<1>4. ClearedByClose'
    BY DEF ProducerInv, TypeOK, ClearedByClose
<1>5. ReportsKept'
    BY DEF ProducerInv, TypeOK, ReportsKept, Reported, CallsInOrder
<1>6. FlushedOrLate'
    BY DEF ProducerInv, TypeOK, FlushedOrLate, CloserKnows, CallsInOrder
<1>7. OneAtATime'
    BY DEF ProducerInv, TypeOK, OneAtATime
<1>8. PanicCauses'
    BY DEF ProducerInv, TypeOK, PanicCauses, Reported, ClearedByClose, CallsInOrder
<1>9. FieldIsCreated' /\ LoopEnds' /\ CloserKnows'
    BY DEF ProducerInv, FieldIsCreated, LoopEnds, CloserKnows
<1> QED
    BY <1>1, <1>2, <1>3, <1>4, <1>5, <1>6, <1>7, <1>8, <1>9
    DEF ProducerInv

\* A SyncPublish gives up and leaves its message in the queue.
LEMMA ContextEndsInv ==
    ASSUME ProducerInv, NEW c \in Call, contextEnds(c)
    PROVE  ProducerInv'
<1> USE DEF callVars, loopVars, closeVars, historyVars, contextEnds, contextError, Return,
            At, Goto
<1>1. TypeOK'
    BY DEF ProducerInv, TypeOK
<1>2. CallsInOrder'
    BY DEF ProducerInv, TypeOK, CallsInOrder
<1>3. SyncResults'
    BY CallAssumption DEF ProducerInv, TypeOK, SyncResults, CallsInOrder
<1>4. ClearedByClose'
    BY DEF ProducerInv, TypeOK, ClearedByClose
<1>5. OneAtATime'
    BY DEF ProducerInv, TypeOK, OneAtATime
<1>6. PanicCauses'
    BY DEF ProducerInv, TypeOK, PanicCauses, Reported
<1>7. /\ FieldIsCreated'
      /\ LoopEnds'
      /\ ReportsKept'
      /\ CloserKnows'
      /\ FlushedOrLate'
    BY DEF ProducerInv, FieldIsCreated, LoopEnds, ReportsKept, CloserKnows,
           FlushedOrLate, Reported
<1> QED
    BY <1>1, <1>2, <1>3, <1>4, <1>5, <1>6, <1>7
    DEF ProducerInv

\* SyncPublish returns what the report of its message says.
LEMMA SyncReturnsInv ==
    ASSUME ProducerInv, NEW c \in Call, syncPublishReturns(c)
    PROVE  ProducerInv'
<1> USE DEF callVars, loopVars, closeVars, historyVars, syncPublishReturns, answered,
            resultOf, Reported, Return, At, Goto
<1>1. TypeOK'
    BY DEF ProducerInv, TypeOK
<1>2. CallsInOrder'
    BY DEF ProducerInv, TypeOK, CallsInOrder
<1>3. SyncResults'
    BY CallAssumption DEF ProducerInv, TypeOK, SyncResults, CallsInOrder
<1>4. ClearedByClose'
    BY DEF ProducerInv, TypeOK, ClearedByClose
<1>5. OneAtATime'
    BY DEF ProducerInv, TypeOK, OneAtATime
<1>6. PanicCauses'
    BY DEF ProducerInv, TypeOK, PanicCauses, Reported
<1>7. /\ FieldIsCreated'
      /\ LoopEnds'
      /\ ReportsKept'
      /\ CloserKnows'
      /\ FlushedOrLate'
    BY DEF ProducerInv, FieldIsCreated, LoopEnds, ReportsKept, CloserKnows,
           FlushedOrLate, Reported
<1> QED
    BY <1>1, <1>2, <1>3, <1>4, <1>5, <1>6, <1>7
    DEF ProducerInv

\* A report is passed on by an open producer, or finds its SyncPublish gone,
\* which then returned the error of its context.
LEMMA DeliverInv ==
    ASSUME ProducerInv, NEW c \in Call, deliver(c)
    PROVE  ProducerInv'
<1> USE DEF callVars, loopVars, closeVars, historyVars, deliver, Alive, deliveryChClosed
<1>1. TypeOK'
    BY DEF ProducerInv, TypeOK
<1>2. CallsInOrder'
    BY DEF ProducerInv, TypeOK, CallsInOrder
<1>3. SyncResults'
    BY CallAssumption DEF ProducerInv, TypeOK, SyncResults
<1>4. LoopEnds'
    BY DEF ProducerInv, TypeOK, LoopEnds
<1>5. ReportsKept'
    BY DEF ProducerInv, TypeOK, ReportsKept, Reported
<1>6. FlushedOrLate'
    BY DEF ProducerInv, TypeOK, FlushedOrLate
<1>7. PanicCauses'
    BY CallAssumption DEF ProducerInv, TypeOK, PanicCauses, Reported,
                          CallsInOrder, SyncResults
<1>8. ClearedByClose' /\ FieldIsCreated' /\ CloserKnows' /\ OneAtATime'
    BY DEF ProducerInv, ClearedByClose, FieldIsCreated, CloserKnows, OneAtATime
<1> QED
    BY <1>1, <1>2, <1>3, <1>4, <1>5, <1>6, <1>7, <1>8
    DEF ProducerInv

\* The delivery loop takes a report, returns from onDelivery, or ends.
LEMMA LoopInv ==
    ASSUME ProducerInv, NEW p \in Call, deliveryLoop(p)
    PROVE  ProducerInv'
<1> USE DEF callVars, loopVars, closeVars, historyVars, deliveryLoop
<1>1. TypeOK'
    BY CallAssumption DEF ProducerInv, TypeOK
<1>2. LoopEnds'
    BY CallAssumption DEF ProducerInv, TypeOK, LoopEnds
<1>3. ReportsKept'
    BY CallAssumption DEF ProducerInv, TypeOK, ReportsKept, Reported
<1>4. CloserKnows'
    BY CallAssumption DEF ProducerInv, TypeOK, CloserKnows, LoopEnds
<1>5. /\ CallsInOrder'
      /\ SyncResults'
      /\ ClearedByClose'
      /\ FieldIsCreated'
      /\ FlushedOrLate'
      /\ OneAtATime'
      /\ PanicCauses'
    BY DEF ProducerInv, CallsInOrder, SyncResults, ClearedByClose,
           FieldIsCreated, FlushedOrLate, OneAtATime, PanicCauses, Reported
<1> QED
    BY <1>1, <1>2, <1>3, <1>4, <1>5
    DEF ProducerInv

\* CloseProducer tests the field.
LEMMA CloseProducerInv ==
    ASSUME ProducerInv, CloseProducer
    PROVE  ProducerInv'
<1> USE DEF callVars, loopVars, closeVars, historyVars, CloseProducer, CloserAt
<1>1. TypeOK'
    BY DEF ProducerInv, TypeOK
<1>2. ClearedByClose'
    BY DEF ProducerInv, TypeOK, ClearedByClose
<1>3. FieldIsCreated'
    BY DEF ProducerInv, TypeOK, FieldIsCreated
<1>4. CloserKnows'
    BY DEF ProducerInv, TypeOK, CloserKnows
<1>5. FlushedOrLate'
    BY DEF ProducerInv, TypeOK, FlushedOrLate, CloserKnows
<1>6. OneAtATime'
    BY DEF ProducerInv, TypeOK, OneAtATime
<1>7. PanicCauses'
    BY DEF ProducerInv, TypeOK, PanicCauses, Reported
<1>8. CallsInOrder' /\ SyncResults' /\ LoopEnds' /\ ReportsKept'
    BY DEF ProducerInv, CallsInOrder, SyncResults, LoopEnds, ReportsKept,
           Reported
<1> QED
    BY <1>1, <1>2, <1>3, <1>4, <1>5, <1>6, <1>7, <1>8
    DEF ProducerInv

\* It reads the field again, which nobody else clears.
LEMMA ReadProducerInv ==
    ASSUME ProducerInv, readProducer
    PROVE  ProducerInv'
<1> USE DEF callVars, loopVars, closeVars, historyVars, readProducer, CloserAt
<1>1. TypeOK'
    BY DEF ProducerInv, TypeOK
<1>2. ClearedByClose'
    BY DEF ProducerInv, TypeOK, ClearedByClose
<1>3. FieldIsCreated'
    BY DEF ProducerInv, TypeOK, FieldIsCreated, CloserKnows
<1>4. CloserKnows'
    BY DEF ProducerInv, TypeOK, CloserKnows
<1>5. FlushedOrLate'
    BY DEF ProducerInv, TypeOK, FlushedOrLate
<1>6. OneAtATime'
    BY DEF ProducerInv, TypeOK, OneAtATime
<1>7. PanicCauses'
    BY DEF ProducerInv, TypeOK, PanicCauses, Reported
<1>8. CallsInOrder' /\ SyncResults' /\ LoopEnds' /\ ReportsKept'
    BY DEF ProducerInv, CallsInOrder, SyncResults, LoopEnds, ReportsKept,
           Reported
<1> QED
    BY <1>1, <1>2, <1>3, <1>4, <1>5, <1>6, <1>7, <1>8
    DEF ProducerInv

\* Flush returns with nothing queued, or gives up.
LEMMA FlushInv ==
    ASSUME ProducerInv, flush
    PROVE  ProducerInv'
<1> USE DEF callVars, loopVars, closeVars, historyVars, flush, flushed, outstanding,
            CloserAt
<1>1. TypeOK'
    BY DEF ProducerInv, TypeOK, CloserKnows
<1>2. ClearedByClose'
    BY DEF ProducerInv, TypeOK, ClearedByClose
<1>3. CloserKnows'
    BY DEF ProducerInv, TypeOK, CloserKnows
<1>4. FlushedOrLate'
    BY DEF ProducerInv, TypeOK, FlushedOrLate
<1>5. OneAtATime'
    BY DEF ProducerInv, TypeOK, OneAtATime
<1>6. PanicCauses'
    BY DEF ProducerInv, TypeOK, PanicCauses, Reported
<1>7. /\ CallsInOrder'
      /\ SyncResults'
      /\ FieldIsCreated'
      /\ LoopEnds'
      /\ ReportsKept'
    BY DEF ProducerInv, CallsInOrder, SyncResults, FieldIsCreated, LoopEnds,
           ReportsKept, Reported
<1> QED
    BY <1>1, <1>2, <1>3, <1>4, <1>5, <1>6, <1>7
    DEF ProducerInv

\* inner.Close closes a producer that some call created.
LEMMA InnerCloseInv ==
    ASSUME ProducerInv, innerClose
    PROVE  ProducerInv'
<1> USE DEF callVars, loopVars, closeVars, historyVars, innerClose, innerClosed, CloserAt
<1>1. TypeOK'
    BY DEF ProducerInv, TypeOK
<1>2. CallsInOrder'
    BY DEF ProducerInv, TypeOK, CallsInOrder, FieldIsCreated, CloserKnows
<1>3. ClearedByClose'
    BY DEF ProducerInv, TypeOK, ClearedByClose
<1>4. FieldIsCreated'
    BY DEF ProducerInv, TypeOK, FieldIsCreated
<1>5. LoopEnds'
    BY DEF ProducerInv, TypeOK, LoopEnds
<1>6. CloserKnows'
    BY DEF ProducerInv, TypeOK, CloserKnows
<1>7. FlushedOrLate'
    BY DEF ProducerInv, TypeOK, FlushedOrLate
<1>8. OneAtATime'
    BY DEF ProducerInv, TypeOK, OneAtATime
<1>9. PanicCauses'
    BY DEF ProducerInv, TypeOK, PanicCauses, Reported
<1>10. SyncResults' /\ ReportsKept'
    BY DEF ProducerInv, SyncResults, ReportsKept, Reported
<1> QED
    BY <1>1, <1>2, <1>3, <1>4, <1>5, <1>6, <1>7, <1>8, <1>9, <1>10
    DEF ProducerInv

\* wg.Wait returns when the delivery loop has ended.
LEMMA WaitInv ==
    ASSUME ProducerInv, wait
    PROVE  ProducerInv'
<1> USE DEF callVars, loopVars, closeVars, historyVars, wait, loopEnded, CloserAt
<1>1. TypeOK'
    BY DEF ProducerInv, TypeOK
<1>2. ClearedByClose'
    BY DEF ProducerInv, TypeOK, ClearedByClose
<1>3. CloserKnows'
    BY DEF ProducerInv, TypeOK, CloserKnows
<1>4. FlushedOrLate'
    BY DEF ProducerInv, TypeOK, FlushedOrLate
<1>5. OneAtATime'
    BY DEF ProducerInv, TypeOK, OneAtATime
<1>6. PanicCauses'
    BY DEF ProducerInv, TypeOK, PanicCauses, Reported
<1>7. /\ CallsInOrder'
      /\ SyncResults'
      /\ FieldIsCreated'
      /\ LoopEnds'
      /\ ReportsKept'
    BY DEF ProducerInv, CallsInOrder, SyncResults, FieldIsCreated, LoopEnds,
           ReportsKept, Reported
<1> QED
    BY <1>1, <1>2, <1>3, <1>4, <1>5, <1>6, <1>7
    DEF ProducerInv

\* The field is cleared when the producer in it is closed.
LEMMA ClearInv ==
    ASSUME ProducerInv, clear
    PROVE  ProducerInv'
<1> USE DEF callVars, loopVars, closeVars, historyVars, clear, CloserAt
<1>1. TypeOK'
    BY DEF ProducerInv, TypeOK
<1>2. ClearedByClose'
    BY DEF ProducerInv, TypeOK, ClearedByClose
<1>3. FieldIsCreated'
    BY DEF ProducerInv, TypeOK, FieldIsCreated
<1>4. CloserKnows'
    BY DEF ProducerInv, TypeOK, CloserKnows
<1>5. FlushedOrLate'
    BY DEF ProducerInv, TypeOK, FlushedOrLate
<1>6. OneAtATime'
    BY CallAssumption DEF ProducerInv, TypeOK, OneAtATime, CloserKnows
<1>7. PanicCauses'
    BY DEF ProducerInv, TypeOK, PanicCauses, Reported
<1>8. CallsInOrder' /\ SyncResults' /\ LoopEnds' /\ ReportsKept'
    BY DEF ProducerInv, CallsInOrder, SyncResults, LoopEnds, ReportsKept,
           Reported
<1> QED
    BY <1>1, <1>2, <1>3, <1>4, <1>5, <1>6, <1>7, <1>8
    DEF ProducerInv

----------------------------------------------------------------------------
(* The theorems.                                                            *)

\* The invariant holds initially.
LEMMA InitInv == Init => ProducerInv
<1> SUFFICES ASSUME Init PROVE ProducerInv
    OBVIOUS
<1> USE CallAssumption DEF Init
<1>1. TypeOK
    BY DEF TypeOK
<1>2. CallsInOrder /\ SyncResults /\ ClearedByClose
    BY DEF CallsInOrder, SyncResults, ClearedByClose
<1>3. FieldIsCreated /\ LoopEnds /\ ReportsKept
    BY DEF FieldIsCreated, LoopEnds, ReportsKept, Reported
<1>4. CloserKnows /\ FlushedOrLate /\ OneAtATime /\ PanicCauses
    BY DEF CloserKnows, FlushedOrLate, OneAtATime, PanicCauses
<1> QED
    BY <1>1, <1>2, <1>3, <1>4 DEF ProducerInv

\* Every step preserves the invariant.
LEMMA NextInv == ProducerInv /\ [Next]_vars => ProducerInv'
<1> SUFFICES ASSUME ProducerInv, [Next]_vars PROVE ProducerInv'
    OBVIOUS
<1>1. ASSUME NEW c \in Call, CallNext(c) PROVE ProducerInv'
    BY <1>1, RejectInv, EnsureInv, NewInv, ReturnInv, ProduceInv, SyncReturnsInv
    DEF CallNext
<1>2. ASSUME NEW c \in Call, contextEnds(c) \/ deliver(c) \/ deliveryLoop(c)
      PROVE  ProducerInv'
    BY <1>2, ContextEndsInv, DeliverInv, LoopInv
<1>3. CASE Closing
    BY <1>3, CloseProducerInv, ReadProducerInv, FlushInv, InnerCloseInv, WaitInv,
       ClearInv
    DEF Closing
<1>4. CASE UNCHANGED vars
  <2> USE <1>4 DEF ProducerInv, vars, callVars, loopVars, closeVars, historyVars
  <2>1. TypeOK'
    BY DEF TypeOK
  <2>2. CallsInOrder' /\ SyncResults' /\ ClearedByClose'
    BY DEF CallsInOrder, SyncResults, ClearedByClose
  <2>3. FieldIsCreated' /\ LoopEnds' /\ ReportsKept'
    BY DEF FieldIsCreated, LoopEnds, ReportsKept, Reported
  <2>4. CloserKnows' /\ FlushedOrLate' /\ OneAtATime' /\ PanicCauses'
    BY DEF CloserKnows, FlushedOrLate, OneAtATime, PanicCauses, Reported
  <2> QED
    BY <2>1, <2>2, <2>3, <2>4
<1> QED
    BY <1>1, <1>2, <1>3, <1>4 DEF Next

\* The invariant of the producer side, for any set of concurrent calls.
THEOREM ProducerInvariant == Spec => []ProducerInv
<1> QED
    BY InitInv, NextInv, PTL DEF Spec

\* SyncPublish returns nil only for a message the broker has acknowledged,
\* whatever the calls around it and CloseProducer do.
THEOREM ProducerSyncNilIsDelivered == Spec => []SyncNilIsDelivered
<1>1. ProducerInv => SyncNilIsDelivered
    BY DEF ProducerInv, SyncResults, SyncNilIsDelivered
<1> QED
    BY <1>1, ProducerInvariant, PTL

\* onDelivery does not run any more once Producer.Close has waited for its loop.
THEOREM ProducerNoCallbackAfterClose == Spec => []NoCallbackAfterClose
<1>1. ProducerInv => NoCallbackAfterClose
    BY DEF ProducerInv, TypeOK, CloserKnows, LoopEnds, NoCallbackAfterClose
<1> QED
    BY <1>1, ProducerInvariant, PTL

\* When CloseProducer has returned, what its producer had accepted before Flush
\* returned is reported, unless Flush gave up.
THEOREM ProducerClosedIsReported == Spec => []ClosedIsReported
<1>1. ProducerInv => ClosedIsReported
  <2> SUFFICES ASSUME ProducerInv, closer = "done", closing # None,
                      NEW c \in Call, using[c] = closing, msg[c] # "none",
                      closing \notin timedOut, c \notin late
               PROVE  IF c \in Sync THEN Reported(c) ELSE c \in seen
    BY DEF ClosedIsReported
  <2>1. Reported(c)
    BY DEF ProducerInv, TypeOK, FlushedOrLate, Reported
  <2>2. loop[closing] = "ended" /\ events[closing] = {}
    BY DEF ProducerInv, TypeOK, CloserKnows, LoopEnds
  <2>3. CASE c \notin Sync
    BY <2>1, <2>2, <2>3, CallAssumption DEF ProducerInv, ReportsKept
  <2> QED
    BY <2>1, <2>3
<1> QED
    BY <1>1, ProducerInvariant, PTL

\* Every open producer is in the field unless two calls raced to create one.
THEOREM ProducerNoLeak == Spec => []NoLeakedProducer
<1>1. ProducerInv => NoLeakedProducer
    BY DEF ProducerInv, OneAtATime, NoLeakedProducer
<1> QED
    BY <1>1, ProducerInvariant, PTL

\* A call panics only without brokers, when the library refuses a producer or when
\* the field is cleared between two reads of it, and the process dies only of such
\* a call or of the report of a SyncPublish that has given up.
THEOREM ProducerPanicCauses == Spec => []PanicCauses
<1>1. ProducerInv => PanicCauses
    BY DEF ProducerInv
<1> QED
    BY <1>1, ProducerInvariant, PTL
=============================================================================
