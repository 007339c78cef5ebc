--------------------------- MODULE RedisLockProofs ---------------------------
(***************************************************************************)
(* Safety of the Redis lock for every set of calls, processes and faults.  *)
(***************************************************************************)
EXTENDS RedisLock, TLAPS

\* Whatever is reported, the key is as the command left it or untouched,
\* and an answer other than an error means that the command was executed.
LEMMA OutcomeFacts ==
    ASSUME NEW after, NEW answer, NEW again, NEW ctx,
           NEW o \in outcomes(after, answer, again, ctx)
    PROVE  \/ o.key = after /\ o.answer \in {answer, again, "error"}
           \/ o.key = redis /\ o.answer = "error"
BY DEF outcomes

\* SETNX writes the token of c only where there is none; yes means it did.
LEMMA AcquireOutcome ==
    ASSUME NEW c \in Call, redis \in Call \cup {None}, NEW o \in backendAcquire(c)
    PROVE  /\ o.key = redis \/ (redis = None /\ o.key = c)
           /\ o.answer = "yes" => o.key = c
           /\ o.answer \in {"yes", "no", "error"}
BY OutcomeFacts DEF backendAcquire, YesNo

\* releaseScript touches no other token; an answer means that c has gone.
LEMMA ReleaseOutcome ==
    ASSUME NEW c \in Call, NEW o \in backendRelease(c)
    PROVE  /\ o.key = redis \/ (redis = c /\ o.key = None)
           /\ o.answer # "error" => o.key # c
           /\ o.answer \in {"yes", "no", "error"}
BY OutcomeFacts, NoneType DEF backendRelease, YesNo

\* refreshScript touches no other token, and its own one only when the TTL
\* is zero in milliseconds; no means that c has gone.
LEMMA RefreshOutcome ==
    ASSUME NEW c \in Call, NEW ttl, NEW ctx,
           NEW o \in backendRefresh(c, ttl, ctx)
    PROVE  /\ o.key = redis \/ (ttl = 0 /\ redis = c /\ o.key = None)
           /\ o.answer = "no" => o.key # c
           /\ o.answer \in {"yes", "no", "error"}
BY OutcomeFacts, NoneType DEF backendRefresh, YesNo

\* No Refresh gets a TTL of zero milliseconds.
LEMMA LongTTL == "shortTTL" \notin Faults => \A ttl \in millis : ttl # 0
BY DEF millis

------------------------------------------------------------------------------

\* Every step keeps every variable of the lock in its type.
LEMMA TypeOKStep == TypeOK /\ [Next]_vars => TypeOK'
<1> SUFFICES ASSUME TypeOK, [Next]_vars PROVE TypeOK'
    OBVIOUS
<1> USE DEF TypeOK, PC, WD, Reply, Ended, Goto, WdGoto, ReadReply, At, WdAt
<1>1. ASSUME NEW c \in Call, call(c) PROVE TypeOK'
    BY <1>1 DEF call, rejectArguments, TryLock, Acquire
<1>2. ASSUME NEW c \in Call, leaveQueue(c) \/ newTokenFails(c) \/ backoffEnds(c) \/ dropLocal(c)
      PROVE  TypeOK'
    BY <1>2 DEF leaveQueue, newTokenFails, backoffEnds, dropLocal, giveUp
<1>3. ASSUME NEW c \in Call, acquireCommand(c) PROVE TypeOK'
    BY <1>3, AcquireOutcome DEF acquireCommand
<1>4. ASSUME NEW c \in Call, acquireReply(c) PROVE TypeOK'
  <2>1. mayRetry(c) => attempt[c] + 1 \in 1 .. MaxRetries
    BY MaxRetriesType DEF mayRetry
  <2> QED
    BY <1>4, <2>1 DEF acquireReply, acquired, notAcquired, giveUp
<1>5. ASSUME NEW c \in Call, refreshCommand(c) PROVE TypeOK'
    BY <1>5, RefreshOutcome DEF refreshCommand
<1>6. ASSUME NEW c \in Call, releaseCommand(c) PROVE TypeOK'
    BY <1>6, ReleaseOutcome DEF releaseCommand
<1>7. ASSUME NEW c \in Call, refreshReply(c) \/ releaseReply(c) \/ finalizeReturns(c) PROVE TypeOK'
    BY <1>7 DEF refreshReply, releaseReply, finalizeReturns
<1>8. ASSUME NEW c \in Call, finalize(c) PROVE TypeOK'
    BY <1>8 DEF finalize, finalizeFires, finalizeLocal
<1>9. ASSUME NEW c \in Call, user(c) PROVE TypeOK'
    BY <1>9 DEF user, callRefresh, callRelease, callbackPanics
<1>10. ASSUME NEW c \in Call, watchdogCommand(c) PROVE TypeOK'
  <2>0. PICK ttl \in millis : \E o \in backendRefresh(c, ttl, "live") :
            redis' = o.key /\ wdReply' = [wdReply EXCEPT ![c] = o.answer]
    BY <1>10 DEF watchdogCommand
  <2>1. PICK o \in backendRefresh(c, ttl, "live") :
            redis' = o.key /\ wdReply' = [wdReply EXCEPT ![c] = o.answer]
    BY <2>0
  <2>2. o.key \in Call \cup {None} /\ o.answer \in Reply
    BY RefreshOutcome
  <2> QED
    BY <1>10, <2>1, <2>2 DEF watchdogCommand
<1>11. ASSUME NEW c \in Call,
              tick(c) \/ watchdogReply(c) \/ watchdogFinalized(c) \/ watchdogStops(c)
       PROVE  TypeOK'
    BY <1>11 DEF tick, watchdogReply, watchdogFinalized, watchdogStops
<1>12. ASSUME NEW c \in Call, cancel(c) PROVE TypeOK'
    BY <1>12 DEF cancel, lockVars
<1>13. ASSUME NEW p \in Process, crash(p) PROVE TypeOK'
    BY <1>13 DEF crash
<1>14. CASE expire
    BY <1>14 DEF expire
<1>15. CASE UNCHANGED vars
    BY <1>15 DEF vars
<1> QED
    BY <1>1, <1>2, <1>3, <1>4, <1>5, <1>6, <1>7, <1>8, <1>9, <1>10, <1>11, <1>12,
       <1>13, <1>14, <1>15
    DEF Next, goroutine, watchdog, Quiescent

\* The lock starts in its type.
LEMMA TypeOKInit == Init => TypeOK
BY DEF Init, TypeOK, PC, WD, Reply, Ended

\* Every reachable state of the lock manager has its type.
THEOREM TypeCorrect == Spec => []TypeOK
<1>1. Init => TypeOK
    BY TypeOKInit
<1>2. TypeOK /\ [Next]_vars => TypeOK'
    BY TypeOKStep
<1> QED
    BY <1>1, <1>2, PTL DEF Spec

------------------------------------------------------------------------------

\* A step that removes the token of d from Redis is the TTL running out or
\* the Release of d: scripts compare tokens and SETNX does not overwrite.
LEMMA KeyKept ==
    ASSUME TypeOK, [Next]_vars, "shortTTL" \notin Faults, NEW d \in Call, redis = d
    PROVE  redis' = d \/ d \in expired' \/ (pc[d] = "release" /\ pc'[d] = "deleted")
<1> USE NoneType DEF TypeOK
<1>1. ASSUME NEW c \in Call, acquireCommand(c) PROVE redis' = d
    BY <1>1, AcquireOutcome DEF acquireCommand
<1>2. ASSUME NEW c \in Call, refreshCommand(c) PROVE redis' = d
    BY <1>2, RefreshOutcome, LongTTL DEF refreshCommand
<1>3. ASSUME NEW c \in Call, watchdogCommand(c) PROVE redis' = d
  <2>0. PICK ttl \in millis : \E o \in backendRefresh(c, ttl, "live") : redis' = o.key
    BY <1>3 DEF watchdogCommand
  <2>1. PICK o \in backendRefresh(c, ttl, "live") : redis' = o.key
    BY <2>0
  <2> QED
    BY <2>1, RefreshOutcome, LongTTL
<1>4. ASSUME NEW c \in Call, releaseCommand(c)
      PROVE  redis' = d \/ (pc[d] = "release" /\ pc'[d] = "deleted")
  <2>1. PICK o \in backendRelease(c) : redis' = o.key
    BY <1>4 DEF releaseCommand
  <2>2. redis' = redis \/ c = d
    BY <2>1, ReleaseOutcome
  <2> QED
    BY <1>4, <2>2 DEF releaseCommand, At, Goto
<1>5. CASE expire
    BY <1>5 DEF expire
<1>6. ASSUME NEW c \in Call, call(c) \/ finalize(c) \/ user(c) \/ cancel(c) PROVE redis' = d
    BY <1>6 DEF call, rejectArguments, TryLock, Acquire, finalize, finalizeFires, finalizeLocal,
        user, callRefresh, callRelease, callbackPanics, cancel, lockVars
<1>7. ASSUME NEW c \in Call,
             \/ leaveQueue(c) \/ newTokenFails(c) \/ acquireReply(c) \/ backoffEnds(c)
             \/ dropLocal(c) \/ refreshReply(c) \/ releaseReply(c) \/ finalizeReturns(c)
             \/ tick(c) \/ watchdogReply(c) \/ watchdogFinalized(c) \/ watchdogStops(c)
      PROVE  redis' = d
    BY <1>7 DEF leaveQueue, newTokenFails, acquireReply, backoffEnds, dropLocal, refreshReply,
        releaseReply, finalizeReturns, tick, watchdogReply, watchdogFinalized, watchdogStops
<1>8. ASSUME NEW p \in Process, crash(p) PROVE redis' = d
    BY <1>8 DEF crash
<1>9. CASE UNCHANGED vars
    BY <1>9 DEF vars
<1> QED
    BY <1>1, <1>2, <1>3, <1>4, <1>5, <1>6, <1>7, <1>8, <1>9
    DEF Next, goroutine, watchdog, Quiescent

\* The TTL having run out is never forgotten.
LEMMA ExpiredKept == [Next]_vars => expired \subseteq expired'
<1> SUFFICES ASSUME [Next]_vars PROVE expired \subseteq expired'
    OBVIOUS
<1>1. ASSUME NEW c \in Call, call(c) \/ finalize(c) \/ user(c) \/ cancel(c)
      PROVE  expired \subseteq expired'
    BY <1>1 DEF call, rejectArguments, TryLock, Acquire, finalize, finalizeFires, finalizeLocal,
        user, callRefresh, callRelease, callbackPanics, cancel, lockVars
<1>2. ASSUME NEW c \in Call, goroutine(c) PROVE expired \subseteq expired'
    BY <1>2 DEF goroutine, leaveQueue, newTokenFails, acquireCommand, acquireReply, backoffEnds,
        dropLocal, refreshCommand, refreshReply, releaseCommand, releaseReply, finalizeReturns
<1>3. ASSUME NEW c \in Call, watchdog(c) PROVE expired \subseteq expired'
    BY <1>3 DEF watchdog, tick, watchdogCommand, watchdogReply, watchdogFinalized, watchdogStops
<1>4. ASSUME NEW p \in Process, crash(p) PROVE expired \subseteq expired'
    BY <1>4 DEF crash
<1>5. CASE expire
    BY <1>5 DEF expire
<1>6. CASE UNCHANGED vars
    BY <1>6 DEF vars
<1> QED
    BY <1>1, <1>2, <1>3, <1>4, <1>5, <1>6 DEF Next, Quiescent

\* A call comes to run under the lock, or to be told yes, only in these ways.
LEMMA CriticalFrom ==
    ASSUME TypeOK, [Next]_vars, NEW d \in Call
    PROVE  /\ Critical(d)' => Critical(d) \/ (pc[d] = "attempted" /\ reply[d] = "yes")
           /\ pc'[d] = "attempted" /\ reply'[d] = "yes" =>
                 \/ pc[d] = "attempted" /\ reply[d] = "yes"
                 \/ pc[d] = "attempt" /\ redis' = d
<1> DEFINE Goal ==
       /\ Critical(d)' => Critical(d) \/ (pc[d] = "attempted" /\ reply[d] = "yes")
       /\ pc'[d] = "attempted" /\ reply'[d] = "yes" =>
             \/ pc[d] = "attempted" /\ reply[d] = "yes"
             \/ pc[d] = "attempt" /\ redis' = d
<1> SUFFICES Goal
    OBVIOUS
<1> USE DEF TypeOK, Critical, At, WdAt, Goto, WdGoto, ReadReply
<1>1. ASSUME NEW c \in Call, acquireCommand(c) PROVE Goal
    BY <1>1, AcquireOutcome DEF acquireCommand
<1>2. ASSUME NEW c \in Call, refreshCommand(c) \/ releaseCommand(c) PROVE Goal
    BY <1>2 DEF refreshCommand, releaseCommand
<1>3. ASSUME NEW c \in Call, call(c) \/ finalize(c) \/ cancel(c) PROVE Goal
    BY <1>3 DEF call, rejectArguments, TryLock, Acquire, finalize, finalizeFires, finalizeLocal,
        cancel, lockVars
<1>4. ASSUME NEW c \in Call, user(c) PROVE Goal
    BY <1>4 DEF user, callRefresh, callRelease, callbackPanics
<1>5. ASSUME NEW c \in Call, acquireReply(c) PROVE Goal
    BY <1>5 DEF acquireReply, acquired, notAcquired, giveUp
<1>6. ASSUME NEW c \in Call,
             leaveQueue(c) \/ newTokenFails(c) \/ backoffEnds(c) \/ dropLocal(c) PROVE Goal
    BY <1>6 DEF leaveQueue, newTokenFails, backoffEnds, dropLocal, giveUp
<1>7. ASSUME NEW c \in Call, refreshReply(c) \/ releaseReply(c) \/ finalizeReturns(c) PROVE Goal
    BY <1>7 DEF refreshReply, releaseReply, finalizeReturns
<1>8. ASSUME NEW c \in Call, watchdog(c) PROVE Goal
    BY <1>8 DEF watchdog, tick, watchdogCommand, watchdogReply, watchdogFinalized, watchdogStops
<1>9. ASSUME NEW p \in Process, crash(p) PROVE Goal
    BY <1>9 DEF crash
<1>10. CASE expire \/ UNCHANGED vars
    BY <1>10 DEF expire, vars
<1> HIDE DEF Goal
<1> QED
    BY <1>1, <1>2, <1>3, <1>4, <1>5, <1>6, <1>7, <1>8, <1>9, <1>10 DEF Next, goroutine, Quiescent

\* HolderInv is inductive when no Refresh gets a TTL below a millisecond.
LEMMA HolderInvStep ==
    ASSUME "shortTTL" \notin Faults
    PROVE  HolderInv /\ [Next]_vars => HolderInv'
<1> SUFFICES ASSUME HolderInv, [Next]_vars PROVE HolderInv'
    OBVIOUS
<1>1. TypeOK /\ TypeOK'
    BY TypeOKStep DEF HolderInv
<1>2. ASSUME NEW d \in Call, redis = d \/ d \in expired, pc[d] # "release"
      PROVE  redis' = d \/ d \in expired'
    BY <1>1, <1>2, KeyKept, ExpiredKept
<1>3. CriticalHasKey'
    BY <1>1, <1>2, CriticalFrom DEF HolderInv, YesMeansKey, CriticalHasKey, Critical
<1>4. YesMeansKey'
    BY <1>1, <1>2, CriticalFrom DEF HolderInv, YesMeansKey
<1> QED
    BY <1>1, <1>3, <1>4 DEF HolderInv

\* Two callers run under the Redis lock at once only if the TTL of one of
\* them ran out, for any number of calls and processes, whatever replies are
\* lost, contexts cancelled and processes killed.  Refresh must not be given
\* a TTL below one millisecond.
THEOREM LockMutualExclusion ==
    ASSUME "shortTTL" \notin Faults
    PROVE  Spec => []MutualExclusion
<1>1. Init => HolderInv
    BY TypeOKInit DEF Init, HolderInv, YesMeansKey, CriticalHasKey, Critical
<1>2. HolderInv /\ [Next]_vars => HolderInv'
    BY HolderInvStep
<1>3. HolderInv => MutualExclusion
    BY NoneType DEF HolderInv, TypeOK, CriticalHasKey, MutualExclusion
<1> QED
    BY <1>1, <1>2, <1>3, PTL DEF Spec

\* A caller under the lock has its token in Redis unless the TTL ran out.
THEOREM HolderHasKey ==
    ASSUME "shortTTL" \notin Faults
    PROVE  Spec => []CriticalHasKey
<1>1. Init => HolderInv
    BY TypeOKInit DEF Init, HolderInv, YesMeansKey, CriticalHasKey, Critical
<1>2. HolderInv /\ [Next]_vars => HolderInv'
    BY HolderInvStep
<1>3. HolderInv => CriticalHasKey
    BY DEF HolderInv
<1> QED
    BY <1>1, <1>2, <1>3, PTL DEF Spec

------------------------------------------------------------------------------

\* The token of d enters Redis by the SETNX of d only.
LEMMA KeyWritten ==
    ASSUME TypeOK, [Next]_vars, NEW d \in Call, redis # d, redis' = d
    PROVE  pc[d] = "attempt"
<1> USE NoneType DEF TypeOK
<1>1. ASSUME NEW c \in Call, acquireCommand(c) PROVE pc[d] = "attempt"
    BY <1>1, AcquireOutcome DEF acquireCommand, At
<1>2. ASSUME NEW c \in Call, refreshCommand(c) PROVE FALSE
    BY <1>2, RefreshOutcome DEF refreshCommand
<1>3. ASSUME NEW c \in Call, watchdogCommand(c) PROVE FALSE
  <2>0. PICK ttl \in millis : \E o \in backendRefresh(c, ttl, "live") : redis' = o.key
    BY <1>3 DEF watchdogCommand
  <2>1. PICK o \in backendRefresh(c, ttl, "live") : redis' = o.key
    BY <2>0
  <2> QED
    BY <2>1, RefreshOutcome
<1>4. ASSUME NEW c \in Call, releaseCommand(c) PROVE FALSE
  <2>1. PICK o \in backendRelease(c) : redis' = o.key
    BY <1>4 DEF releaseCommand
  <2> QED
    BY <2>1, ReleaseOutcome
<1>5. CASE expire
    BY <1>5 DEF expire
<1>6. ASSUME NEW c \in Call, call(c) \/ finalize(c) \/ user(c) \/ cancel(c) PROVE FALSE
    BY <1>6 DEF call, rejectArguments, TryLock, Acquire, finalize, finalizeFires, finalizeLocal,
        user, callRefresh, callRelease, callbackPanics, cancel, lockVars
<1>7. ASSUME NEW c \in Call,
             \/ leaveQueue(c) \/ newTokenFails(c) \/ acquireReply(c) \/ backoffEnds(c)
             \/ dropLocal(c) \/ refreshReply(c) \/ releaseReply(c) \/ finalizeReturns(c)
             \/ tick(c) \/ watchdogReply(c) \/ watchdogFinalized(c) \/ watchdogStops(c)
      PROVE  FALSE
    BY <1>7 DEF leaveQueue, newTokenFails, acquireReply, backoffEnds, dropLocal, refreshReply,
        releaseReply, finalizeReturns, tick, watchdogReply, watchdogFinalized, watchdogStops
<1>8. ASSUME NEW p \in Process, crash(p) PROVE FALSE
    BY <1>8 DEF crash
<1>9. CASE UNCHANGED vars
    BY <1>9 DEF vars
<1> QED
    BY <1>1, <1>2, <1>3, <1>4, <1>5, <1>6, <1>7, <1>8, <1>9
    DEF Next, goroutine, watchdog, Quiescent

\* A call comes to know that its token has gone only when it has, and what
\* a call without a lock has not done yet.
LEMMA GoneFrom ==
    ASSUME TypeOK, [Next]_vars, NEW d \in Call
    PROVE  /\ KeyIsGone(d)' => KeyIsGone(d) \/ redis' # d
           /\ NoLockYet(d)' => NoLockYet(d) /\ (wd[d] = "off" => once'[d] = once[d] \/ KeyIsGone(d))
                               /\ (wd[d] = "off" => wd'[d] = "off")
<1> DEFINE Goal ==
      /\ KeyIsGone(d)' => KeyIsGone(d) \/ redis' # d
      /\ NoLockYet(d)' => NoLockYet(d) /\ (wd[d] = "off" => once'[d] = once[d] \/ KeyIsGone(d))
                               /\ (wd[d] = "off" => wd'[d] = "off")
<1> SUFFICES Goal
    OBVIOUS
<1> USE DEF TypeOK, KeyIsGone, NoLockYet, At, WdAt, Goto, WdGoto, ReadReply
<1>1. ASSUME NEW c \in Call, acquireCommand(c) PROVE Goal
    BY <1>1 DEF acquireCommand
<1>2. ASSUME NEW c \in Call, refreshCommand(c) PROVE Goal
    BY <1>2, RefreshOutcome DEF refreshCommand
<1>3. ASSUME NEW c \in Call, releaseCommand(c) PROVE Goal
    BY <1>3, ReleaseOutcome DEF releaseCommand
<1>4. ASSUME NEW c \in Call, watchdogCommand(c) PROVE Goal
  <2>0. PICK ttl \in millis : \E o \in backendRefresh(c, ttl, "live") :
            redis' = o.key /\ wdReply' = [wdReply EXCEPT ![c] = o.answer]
    BY <1>4 DEF watchdogCommand
  <2>1. PICK o \in backendRefresh(c, ttl, "live") :
            redis' = o.key /\ wdReply' = [wdReply EXCEPT ![c] = o.answer]
    BY <2>0
  <2>2. wdReply'[c] = "no" => redis' # c
    BY <2>1, RefreshOutcome
  <2> QED
    BY <1>4, <2>1, <2>2 DEF watchdogCommand
<1>5. ASSUME NEW c \in Call, call(c) \/ cancel(c) PROVE Goal
    BY <1>5 DEF call, rejectArguments, TryLock, Acquire, cancel, lockVars
<1>6. ASSUME NEW c \in Call, finalize(c) PROVE Goal
    BY <1>6 DEF finalize, finalizeFires, finalizeLocal
<1>7. ASSUME NEW c \in Call, user(c) PROVE Goal
    BY <1>7 DEF user, callRefresh, callRelease, callbackPanics
<1>8. ASSUME NEW c \in Call, acquireReply(c) PROVE Goal
    BY <1>8 DEF acquireReply, acquired, notAcquired, giveUp
<1>9. ASSUME NEW c \in Call,
             leaveQueue(c) \/ newTokenFails(c) \/ backoffEnds(c) \/ dropLocal(c) PROVE Goal
    BY <1>9 DEF leaveQueue, newTokenFails, backoffEnds, dropLocal, giveUp
<1>10. ASSUME NEW c \in Call, refreshReply(c) \/ releaseReply(c) \/ finalizeReturns(c) PROVE Goal
    BY <1>10 DEF refreshReply, releaseReply, finalizeReturns
<1>11. ASSUME NEW c \in Call,
              tick(c) \/ watchdogReply(c) \/ watchdogFinalized(c) \/ watchdogStops(c) PROVE Goal
    BY <1>11 DEF tick, watchdogReply, watchdogFinalized, watchdogStops
<1>12. ASSUME NEW p \in Process, crash(p) PROVE Goal
    BY <1>12 DEF crash
<1>13. CASE expire \/ UNCHANGED vars
    BY <1>13 DEF expire, vars
<1> HIDE DEF Goal
<1> QED
    BY <1>1, <1>2, <1>3, <1>4, <1>5, <1>6, <1>7, <1>8, <1>9, <1>10, <1>11, <1>12, <1>13
    DEF Next, goroutine, watchdog, Quiescent

\* GoneInv is inductive.
LEMMA GoneInvStep == GoneInv /\ [Next]_vars => GoneInv'
<1> SUFFICES ASSUME GoneInv, [Next]_vars PROVE GoneInv'
    OBVIOUS
<1>1. TypeOK /\ TypeOK'
    BY TypeOKStep DEF GoneInv
<1>2. ASSUME NEW d \in Call, NoLockYet(d) PROVE ~KeyIsGone(d)
    BY <1>2 DEF GoneInv, NoLockYet, KeyIsGone
<1>3. ASSUME NEW d \in Call, KeyIsGone(d)' PROVE redis' # d
  <2>1. CASE KeyIsGone(d)
    <3>1. redis # d /\ pc[d] # "attempt"
      BY <2>1, <1>2 DEF GoneInv, NoLockYet
    <3> QED
      BY <3>1, <1>1, KeyWritten
  <2>2. CASE ~KeyIsGone(d)
    BY <1>1, <1>3, <2>2, GoneFrom
  <2> QED
    BY <2>1, <2>2
<1>4. ASSUME NEW d \in Call, NoLockYet(d)' PROVE once'[d] = "unfired" /\ wd'[d] = "off"
    BY <1>1, <1>2, <1>4, GoneFrom DEF GoneInv
<1> QED
    BY <1>1, <1>3, <1>4 DEF GoneInv

\* The empty state satisfies GoneInv.
LEMMA GoneInvInit == Init => GoneInv
BY TypeOKInit, NoneType DEF Init, GoneInv, KeyIsGone

\* A Lock is finalized, and its local slot passed on, only after its token
\* has left Redis, under every fault of the model.
THEOREM FinalizedAfterKey == Spec => []FinalizedLeavesNoKey
<1>1. Init => GoneInv
    BY GoneInvInit
<1>2. GoneInv /\ [Next]_vars => GoneInv'
    BY GoneInvStep
<1>3. GoneInv => FinalizedLeavesNoKey
    BY DEF GoneInv, KeyIsGone, FinalizedLeavesNoKey
<1> QED
    BY <1>1, <1>2, <1>3, PTL DEF Spec

------------------------------------------------------------------------------
(***************************************************************************)
(* The queues of the processes.  Every step of RedisLock is a step of      *)
(* LocalKeyQueue or leaves the queues alone, so the invariant proved there *)
(* holds here: QP brings in its proofs.  Q and QP name the same formulas.  *)
(***************************************************************************)
QP == INSTANCE LocalKeyQueueProofs WITH Key <- Process, KeyOf <- Home

\* SlotInv is inductive under the steps of the queues.
LEMMA QueueStepInv == Q!SlotInv /\ [Q!Next]_(Q!vars) => Q!SlotInv'
<1> USE HomeType, CancellableType
<1>1. QP!SlotInv /\ [QP!Next]_(QP!vars) => QP!SlotInv'
    BY QP!NextSlotInv
<1>2. Q!SlotInv <=> QP!SlotInv
    BY DEF Q!SlotInv, QP!SlotInv, Q!TypeOK, QP!TypeOK, Q!OneBearer, QP!OneBearer,
        Q!BearerIsHeld, QP!BearerIsHeld, Q!WaitersWait, QP!WaitersWait,
        Q!WaitersDistinct, QP!WaitersDistinct, Q!PendingQueued, QP!PendingQueued,
        Q!PoppedStarted, QP!PoppedStarted, Q!EntriesHeld, QP!EntriesHeld, Q!Bearer,
        QP!Bearer, Q!Pending, QP!Pending, Q!Popped, QP!Popped, Q!keyQueueState,
        QP!keyQueueState, Q!Place, QP!Place
<1>3. [Q!Next]_(Q!vars) <=> [QP!Next]_(QP!vars)
    BY DEF Q!Next, QP!Next, Q!Step, QP!Step, Q!vars, QP!vars, Q!tryAcquire, QP!tryAcquire,
        Q!acquire, QP!acquire, Q!takeSlot, QP!takeSlot, Q!enqueue, QP!enqueue,
        Q!waiterReady, QP!waiterReady, Q!ctxReady, QP!ctxReady, Q!removeWaiter,
        QP!removeWaiter, Q!afterRemove, QP!afterRemove, Q!waitersWithout,
        QP!waitersWithout, Q!cutAt, QP!cutAt, Q!release, QP!release, Q!releaseIdle,
        QP!releaseIdle, Q!releasePop, QP!releasePop, Q!closeNext, QP!closeNext,
        Q!cancelContext, QP!cancelContext, Q!Quiescent, QP!Quiescent, Q!stateOf,
        QP!stateOf, Q!newState, QP!newState, Q!withWaiters, QP!withWaiters, Q!PutKey,
        QP!PutKey, Q!DeleteKey, QP!DeleteKey, Q!Move, QP!Move
<1>4. Q!SlotInv' <=> QP!SlotInv'
    BY <1>2, PTL
<1> QED
    BY <1>1, <1>2, <1>3, <1>4

\* The queues start empty.
LEMMA QueueInitInv == Q!Init => Q!SlotInv
<1> USE HomeType, CancellableType
<1>1. QP!Init => QP!SlotInv
    BY QP!InitSlotInv
<1>2. Q!SlotInv <=> QP!SlotInv
    BY DEF Q!SlotInv, QP!SlotInv, Q!TypeOK, QP!TypeOK, Q!OneBearer, QP!OneBearer,
        Q!BearerIsHeld, QP!BearerIsHeld, Q!WaitersWait, QP!WaitersWait,
        Q!WaitersDistinct, QP!WaitersDistinct, Q!PendingQueued, QP!PendingQueued,
        Q!PoppedStarted, QP!PoppedStarted, Q!EntriesHeld, QP!EntriesHeld, Q!Bearer,
        QP!Bearer, Q!Pending, QP!Pending, Q!Popped, QP!Popped, Q!keyQueueState,
        QP!keyQueueState, Q!Place, QP!Place
<1>3. Q!Init <=> QP!Init
    BY DEF Q!Init, QP!Init, Q!newState, QP!newState
<1> QED
    BY <1>1, <1>2, <1>3

\* Every step of the manager is a queue step or none, for the queues.
LEMMA ManagerStepsQueue == [Next]_vars => [Q!Next]_(Q!vars)
<1> SUFFICES ASSUME [Next]_vars PROVE [Q!Next]_(Q!vars)
    OBVIOUS
<1> USE DEF Q!Next, Q!Step
<1>1. ASSUME NEW c \in Call, call(c) PROVE [Q!Next]_(Q!vars)
    BY <1>1 DEF call, rejectArguments, TryLock, Acquire, queueVars, Q!vars
<1>2. ASSUME NEW c \in Call, leaveQueue(c) \/ dropLocal(c) PROVE [Q!Next]_(Q!vars)
    BY <1>2 DEF leaveQueue, dropLocal
<1>3. ASSUME NEW c \in Call,
             \/ newTokenFails(c) \/ acquireCommand(c) \/ acquireReply(c) \/ backoffEnds(c)
             \/ refreshCommand(c) \/ refreshReply(c) \/ releaseCommand(c) \/ releaseReply(c)
             \/ finalizeReturns(c)
      PROVE  UNCHANGED queueVars
    BY <1>3 DEF newTokenFails, acquireCommand, acquireReply, backoffEnds, refreshCommand,
        refreshReply, releaseCommand, releaseReply, finalizeReturns
<1>4. ASSUME NEW c \in Call, finalize(c) PROVE [Q!Next]_(Q!vars)
    BY <1>4 DEF finalize, finalizeFires, finalizeLocal, queueVars, Q!vars
<1>5. ASSUME NEW c \in Call, user(c) \/ watchdog(c) PROVE UNCHANGED queueVars
    BY <1>5 DEF user, callRefresh, callRelease, callbackPanics,
        watchdog, tick, watchdogCommand, watchdogReply, watchdogFinalized, watchdogStops
<1>6. ASSUME NEW c \in Call, cancel(c) PROVE [Q!Next]_(Q!vars)
    BY <1>6 DEF cancel
<1>7. ASSUME NEW p \in Process, crash(p) PROVE UNCHANGED queueVars
    BY <1>7 DEF crash
<1>8. CASE expire \/ UNCHANGED vars
    BY <1>8 DEF expire, vars, queueVars, Q!vars
<1>9. UNCHANGED queueVars => UNCHANGED Q!vars
    BY DEF queueVars, Q!vars
<1> HIDE DEF Q!Next
<1> QED
    BY <1>1, <1>2, <1>3, <1>4, <1>5, <1>6, <1>7, <1>8, <1>9 DEF Next, goroutine, Quiescent

\* The places of a call in the manager and in its queue stay in step.
LEMMA SlotLinkStep ==
    ASSUME ProcessInv, [Next]_vars, NEW d \in Call
    PROVE  SlotLink(d)'
<1> DEFINE Goal == SlotLink(d)'
<1> SUFFICES Goal
    OBVIOUS
<1> USE DEF SlotLink, InSlot, At, WdAt, Goto, WdGoto, ReadReply, queueVars
<1>0. /\ TypeOK /\ at \in [Call -> Q!Place] /\ SlotLink(d)
      /\ NoLockYet(d) => once[d] = "unfired" /\ wd[d] = "off"
    BY DEF ProcessInv, GoneInv, Q!SlotInv, Q!TypeOK
<1> USE <1>0 DEF TypeOK, NoLockYet
<1>1. ASSUME NEW c \in Call, call(c) PROVE Goal
  <2>1. CASE rejectArguments(c)
    BY <2>1 DEF rejectArguments
  <2>2. CASE TryLock(c)
    BY <2>2 DEF TryLock, Q!tryAcquire, Q!takeSlot, Q!Move
  <2>3. CASE Acquire(c)
    BY <2>3 DEF Acquire, Q!acquire, Q!takeSlot, Q!enqueue, Q!Move
  <2> QED
    BY <1>1, <2>1, <2>2, <2>3 DEF call
<1>2. ASSUME NEW c \in Call, leaveQueue(c) PROVE Goal
    BY <1>2 DEF leaveQueue, Q!waiterReady, Q!ctxReady, Q!removeWaiter, Q!Move
<1>3. ASSUME NEW c \in Call, dropLocal(c) PROVE Goal
    BY <1>3 DEF dropLocal, Q!release, Q!releaseIdle, Q!releasePop, Q!closeNext, Q!Move
<1>4. ASSUME NEW c \in Call, newTokenFails(c) \/ backoffEnds(c) PROVE Goal
    BY <1>4 DEF newTokenFails, backoffEnds, giveUp
<1>5. ASSUME NEW c \in Call, acquireCommand(c) \/ refreshCommand(c) \/ releaseCommand(c) PROVE Goal
    BY <1>5 DEF acquireCommand, refreshCommand, releaseCommand
<1>6. ASSUME NEW c \in Call, acquireReply(c) PROVE Goal
    BY <1>6 DEF acquireReply, acquired, notAcquired, giveUp
<1>7. ASSUME NEW c \in Call, refreshReply(c) \/ releaseReply(c) \/ finalizeReturns(c) PROVE Goal
    BY <1>7 DEF refreshReply, releaseReply, finalizeReturns
<1>8. ASSUME NEW c \in Call, finalizeFires(c) PROVE Goal
    BY <1>8 DEF finalizeFires, PC, Ended
<1>9. ASSUME NEW c \in Call, finalizeLocal(c) PROVE Goal
    BY <1>9 DEF finalizeLocal, Q!release, Q!releaseIdle, Q!releasePop, Q!closeNext, Q!Move
<1>10. ASSUME NEW c \in Call, user(c) PROVE Goal
    BY <1>10 DEF user, callRefresh, callRelease, callbackPanics
<1>11. ASSUME NEW c \in Call, watchdog(c) PROVE Goal
    BY <1>11 DEF watchdog, tick, watchdogCommand, watchdogReply, watchdogFinalized, watchdogStops
<1>12. ASSUME NEW c \in Call, cancel(c) PROVE Goal
    BY <1>12 DEF cancel, lockVars, Q!cancelContext
<1>13. ASSUME NEW p \in Process, crash(p) PROVE Goal
    BY <1>13 DEF crash
<1>14. CASE expire \/ UNCHANGED vars
    BY <1>14 DEF expire, vars
<1> HIDE DEF Goal
<1> QED
    BY <1>1, <1>2, <1>3, <1>4, <1>5, <1>6, <1>7, <1>8, <1>9, <1>10, <1>11, <1>12, <1>13, <1>14
    DEF Next, goroutine, finalize, Quiescent

\* Among the calls of one process at most one talks to Redis or keeps a lock
\* that is not finalized: the queue theorem carried through the manager.
THEOREM ProcessSerialization == Spec => []OneCallPerProcess
<1>1. Init => ProcessInv
    BY GoneInvInit, QueueInitInv
    DEF Init, ProcessInv, SlotLink, InSlot, Q!Init
<1>2. ProcessInv /\ [Next]_vars => ProcessInv'
    BY GoneInvStep, QueueStepInv, ManagerStepsQueue, SlotLinkStep DEF ProcessInv
<1>3. ProcessInv => OneCallPerProcess
    BY DEF ProcessInv, SlotLink, OneCallPerProcess, Q!SlotInv, Q!OneBearer, Q!Bearer
<1> QED
    BY <1>1, <1>2, <1>3, PTL DEF Spec

------------------------------------------------------------------------------
(***************************************************************************)
(* Calls that fail.  A call whose context stays open and whose replies     *)
(* arrive has its token in Redis before it has a lock only while the yes   *)
(* to its SETNX is on its way.                                             *)
(***************************************************************************)
FailedInv ==
    /\ GoneInv
    /\ ctxDone \subseteq Cancellable
    /\ \A c \in Call \ Cancellable :
          NoLockYet(c) /\ redis = c => pc[c] = "attempted" /\ reply[c] = "yes"

\* The token that SETNX wrote is reported: nothing lies about it.
LEMMA WrittenIsTold ==
    ASSUME TypeOK, [Next]_vars, "lost" \notin Faults, NEW d \in Call \ ctxDone,
           redis # d, redis' = d
    PROVE  pc'[d] = "attempted" /\ reply'[d] = "yes"
<1> USE NoneType DEF TypeOK
<1>1. ASSUME NEW c \in Call, acquireCommand(c) PROVE pc'[d] = "attempted" /\ reply'[d] = "yes"
  <2>1. PICK o \in backendAcquire(c) :
            redis' = o.key /\ reply' = [reply EXCEPT ![c] = o.answer]
    BY <1>1 DEF acquireCommand
  <2>2. c = d
    BY <2>1, AcquireOutcome
  <2>3. o.key = redis \/ o.answer = YesNo(redis = None)
    BY <2>2 DEF backendAcquire, outcomes, ctxOf
  <2>4. o.answer = "yes"
    BY <2>1, <2>3, AcquireOutcome DEF YesNo
  <2> QED
    BY <1>1, <2>1, <2>2, <2>4 DEF acquireCommand, Goto
<1>2. ASSUME NEW c \in Call, refreshCommand(c) PROVE FALSE
    BY <1>2, RefreshOutcome DEF refreshCommand
<1>3. ASSUME NEW c \in Call, watchdogCommand(c) PROVE FALSE
  <2>0. PICK ttl \in millis : \E o \in backendRefresh(c, ttl, "live") : redis' = o.key
    BY <1>3 DEF watchdogCommand
  <2>1. PICK o \in backendRefresh(c, ttl, "live") : redis' = o.key
    BY <2>0
  <2> QED
    BY <2>1, RefreshOutcome
<1>4. ASSUME NEW c \in Call, releaseCommand(c) PROVE FALSE
  <2>1. PICK o \in backendRelease(c) : redis' = o.key
    BY <1>4 DEF releaseCommand
  <2> QED
    BY <2>1, ReleaseOutcome
<1>5. CASE expire
    BY <1>5 DEF expire
<1>6. ASSUME NEW c \in Call, call(c) \/ finalize(c) \/ user(c) \/ cancel(c) PROVE FALSE
    BY <1>6 DEF call, rejectArguments, TryLock, Acquire, finalize, finalizeFires, finalizeLocal,
        user, callRefresh, callRelease, callbackPanics, cancel, lockVars
<1>7. ASSUME NEW c \in Call,
             \/ leaveQueue(c) \/ newTokenFails(c) \/ acquireReply(c) \/ backoffEnds(c)
             \/ dropLocal(c) \/ refreshReply(c) \/ releaseReply(c) \/ finalizeReturns(c)
             \/ tick(c) \/ watchdogReply(c) \/ watchdogFinalized(c) \/ watchdogStops(c)
      PROVE  FALSE
    BY <1>7 DEF leaveQueue, newTokenFails, acquireReply, backoffEnds, dropLocal, refreshReply,
        releaseReply, finalizeReturns, tick, watchdogReply, watchdogFinalized, watchdogStops
<1>8. ASSUME NEW p \in Process, crash(p) PROVE FALSE
    BY <1>8 DEF crash
<1>9. CASE UNCHANGED vars
    BY <1>9 DEF vars
<1> QED
    BY <1>1, <1>2, <1>3, <1>4, <1>5, <1>6, <1>7, <1>8, <1>9
    DEF Next, goroutine, watchdog, Quiescent

\* Whoever is told yes takes the lock.
LEMMA YesIsTaken ==
    ASSUME TypeOK, [Next]_vars, NEW d \in Call, pc[d] = "attempted", reply[d] = "yes"
    PROVE  (pc'[d] = "attempted" /\ reply'[d] = "yes") \/ pc'[d] = "locked"
<1> DEFINE Goal == (pc'[d] = "attempted" /\ reply'[d] = "yes") \/ pc'[d] = "locked"
<1> SUFFICES Goal
    OBVIOUS
<1> USE DEF TypeOK, At, WdAt, Goto, WdGoto, ReadReply
<1>1. ASSUME NEW c \in Call, acquireReply(c) PROVE Goal
    BY <1>1 DEF acquireReply, acquired, notAcquired, giveUp
<1>2. ASSUME NEW c \in Call, acquireCommand(c) \/ refreshCommand(c) \/ releaseCommand(c)
      PROVE  Goal
    BY <1>2 DEF acquireCommand, refreshCommand, releaseCommand
<1>3. ASSUME NEW c \in Call, call(c) \/ finalize(c) \/ cancel(c) PROVE Goal
    BY <1>3 DEF call, rejectArguments, TryLock, Acquire, finalize, finalizeFires, finalizeLocal,
        cancel, lockVars
<1>4. ASSUME NEW c \in Call, user(c) PROVE Goal
    BY <1>4 DEF user, callRefresh, callRelease, callbackPanics
<1>5. ASSUME NEW c \in Call,
             leaveQueue(c) \/ newTokenFails(c) \/ backoffEnds(c) \/ dropLocal(c) PROVE Goal
    BY <1>5 DEF leaveQueue, newTokenFails, backoffEnds, dropLocal, giveUp
<1>6. ASSUME NEW c \in Call, refreshReply(c) \/ releaseReply(c) \/ finalizeReturns(c) PROVE Goal
    BY <1>6 DEF refreshReply, releaseReply, finalizeReturns
<1>7. ASSUME NEW c \in Call, watchdog(c) PROVE Goal
    BY <1>7 DEF watchdog, tick, watchdogCommand, watchdogReply, watchdogFinalized, watchdogStops
<1>8. ASSUME NEW p \in Process, crash(p) PROVE Goal
    BY <1>8 DEF crash
<1>9. CASE expire \/ UNCHANGED vars
    BY <1>9 DEF expire, vars
<1> HIDE DEF Goal
<1> QED
    BY <1>1, <1>2, <1>3, <1>4, <1>5, <1>6, <1>7, <1>8, <1>9 DEF Next, goroutine, Quiescent

\* Only a context that may end does.
LEMMA ContextsEnd ==
    ASSUME ctxDone \subseteq Cancellable, [Next]_vars
    PROVE  ctxDone' \subseteq Cancellable
<1>1. [Q!Next]_(Q!vars)
    BY ManagerStepsQueue
<1> QED
    BY <1>1
    DEF Q!Next, Q!Step, Q!vars, Q!tryAcquire, Q!acquire, Q!takeSlot, Q!enqueue, Q!waiterReady,
        Q!ctxReady, Q!removeWaiter, Q!release, Q!releaseIdle, Q!releasePop, Q!closeNext,
        Q!cancelContext, Q!Quiescent

\* FailedInv is inductive when no reply is lost.
LEMMA FailedInvStep ==
    ASSUME "lost" \notin Faults
    PROVE  FailedInv /\ [Next]_vars => FailedInv'
<1> SUFFICES ASSUME FailedInv, [Next]_vars PROVE FailedInv'
    OBVIOUS
<1>1. GoneInv /\ GoneInv' /\ TypeOK
    BY GoneInvStep DEF FailedInv, GoneInv
<1>2. ctxDone' \subseteq Cancellable
    BY ContextsEnd DEF FailedInv
<1>3. ASSUME NEW d \in Call \ Cancellable, NoLockYet(d)', redis' = d
      PROVE  pc'[d] = "attempted" /\ reply'[d] = "yes"
  <2>1. NoLockYet(d)
    BY <1>1, <1>3, GoneFrom
  <2>2. CASE redis = d
    <3>1. pc'[d] # "locked"
      BY <1>3 DEF NoLockYet
    <3> QED
      BY <1>1, <2>1, <2>2, <3>1, YesIsTaken DEF FailedInv
  <2>3. CASE redis # d
    BY <1>1, <1>3, <2>3, WrittenIsTold DEF FailedInv
  <2> QED
    BY <2>2, <2>3
<1> QED
    BY <1>1, <1>2, <1>3 DEF FailedInv

\* A call whose own context stays open and that reported failure has left no
\* token in Redis, whatever happens to the contexts of the others, for any number
\* of calls, processes and crashes.
THEOREM OpenFailedAfterKey ==
    ASSUME "lost" \notin Faults
    PROVE  Spec => [](\A c \in Call \ Cancellable : pc[c] = "failed" => redis # c)
<1>1. Init => FailedInv
    BY GoneInvInit, NoneType DEF Init, FailedInv, Q!Init
<1>2. FailedInv /\ [Next]_vars => FailedInv'
    BY FailedInvStep
<1>3. FailedInv => \A c \in Call \ Cancellable : pc[c] = "failed" => redis # c
    BY DEF FailedInv, NoLockYet
<1> QED
    BY <1>1, <1>2, <1>3, PTL DEF Spec

\* When no context can be cancelled, that is every call that reported failure: a
\* key of a failed call needs a lost reply or a context that ends during SETNX.
THEOREM FailedAfterKey ==
    ASSUME "lost" \notin Faults, Cancellable = {}
    PROVE  Spec => []FailedLeavesNoKey
<1>1. (\A c \in Call \ Cancellable : pc[c] = "failed" => redis # c) => FailedLeavesNoKey
    BY DEF FailedLeavesNoKey
<1> QED
    BY <1>1, OpenFailedAfterKey, PTL

==============================================================================
