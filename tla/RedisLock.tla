------------------------------ MODULE RedisLock ------------------------------
(***************************************************************************)
(* Manager, Lock, the watchdog and RedisBackend of                         *)
(* internal/redislock/manager.go, for one Redis key and any number of      *)
(* processes.  Each process has a Manager with its own LocalKeyQueue; the  *)
(* calls of TryLock, Acquire and WithLock run concurrently in all of them. *)
(* A call stands for its goroutine, its Lock and its owner token (128      *)
(* random bits: tokens of different calls differ).                         *)
(*                                                                         *)
(* A backend call is two steps, the command in Redis and the processing of *)
(* its reply, so that anything may happen between them: the key expires,   *)
(* another process writes it, the process dies.  Time is not modelled: a   *)
(* TTL runs out at any moment, a tick or a backoff timer fires at any      *)
(* moment.                                                                 *)
(***************************************************************************)
EXTENDS Integers, Sequences

CONSTANTS
    Call,        \* calls of TryLock, Acquire and WithLock
    Process,     \* process lifetimes; a restarted process is another one
    Home,        \* the process each call runs in
    ApiOf,       \* the function each call is of: TryLock, Acquire or WithLock
    AutoRefresh, \* the calls with the option WithAutoRefresh
    Cancellable, \* the calls whose context may be cancelled or time out
    Crashable,   \* the processes that may die
    MaxRetries,  \* the maxRetries of FixedBackoff; retries are off below zero
    Faults,      \* what may go wrong, a subset of AllFaults
    None         \* no token: the key does not exist

\* "expire"   the TTL of the key runs out, whoever holds it
\* "backend"  a command fails before Redis executes it
\* "lost"     Redis executes a command and the reply is lost; go-redis then
\*            reports an error, or retries and reports the second reply
\* "panic"    the callback of WithLock panics (RecoveryMiddleware catches it)
\* "entropy"  newToken fails
\* "shortTTL" Refresh is called with a TTL below one millisecond
AllFaults == {"expire", "backend", "lost", "panic", "entropy", "shortTTL"}

ASSUME HomeType == Home \in [Call -> Process]
ASSUME ApiOfType == ApiOf \in [Call -> {"TryLock", "Acquire", "WithLock"}]
ASSUME AutoRefreshType == AutoRefresh \subseteq {c \in Call : ApiOf[c] # "TryLock"}
ASSUME CancellableType == Cancellable \subseteq Call
ASSUME CrashableType == Crashable \subseteq Process
ASSUME FaultsType == Faults \subseteq AllFaults
ASSUME NoneType == None \notin Call
ASSUME MaxRetriesType == MaxRetries \in Int

VARIABLES
    redis,     \* the value of the key: the token of a call, or None
    expired,   \* the calls whose key has run out of TTL (history)
    dead,      \* the processes that have crashed
    pc,        \* where the goroutine of each call is
    attempt,   \* the retry counter of Acquire, 0 outside of its loop
    reply,     \* the reply on its way to the goroutine of a call
    once,      \* Lock.finalizeOnce; it has fired iff released is set and
               \* watchdogStop is closed
    wd,        \* where the watchdog of each lock is
    wdReply,   \* the reply on its way to the watchdog
    keys, at, next, closed, ctxDone   \* the LocalKeyQueue of every process

lockVars == <<redis, expired, dead, pc, attempt, reply, once, wd, wdReply>>
queueVars == <<keys, at, next, closed, ctxDone>>
vars == <<redis, expired, dead, pc, attempt, reply, once, wd, wdReply,
          keys, at, next, closed, ctxDone>>

\* One key per process: localKeyQueue.keys[key] of its Manager.
Q == INSTANCE LocalKeyQueue WITH
        Key <- Process, KeyOf <- Home

\* "idle"       not called yet          "queued"     waiting in queue.acquire
\* "attempt"    about to send SETNX     "attempted"  SETNX reply on its way
\* "backoff"    between two attempts    "drop"       about to run releaseLocal
\* "failed"     returned without a lock "locked"     the caller has the lock
\* "refresh"    inside Lock.Refresh     "refreshed"  its reply on its way
\* "release"    inside Lock.Release     "deleted"    its reply on its way
\* "finalize"   at finalizeOnce.Do      "done"       finished with the lock
\* "unreleased" Release failed or the callback panicked: not finalized
Ended == {"failed", "done", "unreleased"}
PC == {"idle", "queued", "attempt", "attempted", "backoff", "drop", "locked", "refresh",
       "refreshed", "release", "deleted", "finalize"} \cup Ended

\* "off"    startWatchdog was not called   "select"  in its select
\* "refresh", "refreshed", "finalize"      inside l.Refresh, as above
\* "exited" watchdogStop was closed and the goroutine returned
WD == {"off", "select", "refresh", "refreshed", "finalize", "exited"}

Reply == {"yes", "no", "error", "none"}

Init ==
    /\ Q!Init
    /\ redis = None
    /\ expired = {}
    /\ dead = {}
    /\ pc = [c \in Call |-> "idle"]
    /\ attempt = [c \in Call |-> 0]
    /\ reply = [c \in Call |-> "none"]
    /\ once = [c \in Call |-> "unfired"]
    /\ wd = [c \in Call |-> "off"]
    /\ wdReply = [c \in Call |-> "none"]

Alive(c) == Home[c] \notin dead
At(c, where) == Alive(c) /\ pc[c] = where
WdAt(c, where) == Alive(c) /\ wd[c] = where
Goto(c, where) == pc' = [pc EXCEPT ![c] = where]
ReadReply(c) == reply' = [reply EXCEPT ![c] = "none"]
WdGoto(c, where) == wd' = [wd EXCEPT ![c] = where]

-----------------------------------------------------------------------------
(***************************************************************************)
(* RedisBackend: what a command does in Redis and what the client reports. *)
(* An outcome is the new value of the key and the reply.                   *)
(***************************************************************************)

\* after: the key once the command is executed; answer: Redis's reply;
\* again: its reply to the same command sent once more; ctx: the context.
outcomes(after, answer, again, ctx) ==
    {[key |-> after, answer |-> answer]}
    \cup (IF "lost" \in Faults
          THEN {[key |-> after, answer |-> again]} ELSE {})
    \cup (IF "lost" \in Faults \/ ctx = "done"
          THEN {[key |-> after, answer |-> "error"]} ELSE {})
    \cup (IF "backend" \in Faults \/ ctx = "done"
          THEN {[key |-> redis, answer |-> "error"]} ELSE {})

ctxOf(c) == IF c \in ctxDone THEN "done" ELSE "live"

YesNo(b) == IF b THEN "yes" ELSE "no"

\* SETNX key token
backendAcquire(c) ==
    outcomes(IF redis = None THEN c ELSE redis, YesNo(redis = None), "no", ctxOf(c))

\* Mutant of backendRelease: DEL without comparing the token.
backendReleaseAnyToken(c) ==
    outcomes(None, YesNo(redis # None), "no", ctxOf(c))

\* releaseScript: delete the key if it holds the token.
backendRelease(c) ==
    outcomes(IF redis = c THEN None ELSE redis, YesNo(redis = c), "no", ctxOf(c))

\* ttl.Milliseconds() of the TTL given to Refresh, which does not check it:
\* 1 stands for every positive value.
millis == IF "shortTTL" \in Faults THEN {0, 1} ELSE {1}

\* refreshScript: PEXPIRE the key if it holds the token.  A TTL that is
\* zero in milliseconds deletes it.
backendRefresh(c, ttl, ctx) ==
    LET after == IF redis = c /\ ttl = 0 THEN None ELSE redis
    IN  outcomes(after, YesNo(redis = c), YesNo(after = c), ctx)

-----------------------------------------------------------------------------
(***************************************************************************)
(* Manager.TryLock, Acquire and WithLock.                                  *)
(***************************************************************************)

\* An empty key, a TTL that is not positive or a nil callback.
rejectArguments(c) ==
    /\ At(c, "idle")
    /\ Goto(c, "failed")
    /\ UNCHANGED <<redis, expired, dead, attempt, reply, once, wd, wdReply, queueVars>>

TryLock(c) ==
    /\ At(c, "idle")
    /\ ApiOf[c] = "TryLock"
    /\ Q!tryAcquire(c)
    /\ Goto(c, IF at'[c] = "owner" THEN "attempt" ELSE "failed")
    /\ UNCHANGED <<redis, expired, dead, attempt, reply, once, wd, wdReply>>

\* WithLock starts with Acquire.
Acquire(c) ==
    /\ At(c, "idle")
    /\ ApiOf[c] # "TryLock"
    /\ Q!acquire(c)
    /\ Goto(c, IF at'[c] = "owner" THEN "attempt" ELSE "queued")
    /\ UNCHANGED <<redis, expired, dead, attempt, reply, once, wd, wdReply>>

\* queue.acquire's select and removeWaiter.
leaveQueue(c) ==
    /\ At(c, "queued")
    /\ \/ Q!waiterReady(c) /\ Goto(c, "attempt")
       \/ Q!ctxReady(c) /\ UNCHANGED pc
       \/ Q!removeWaiter(c) /\ Goto(c, "failed")
    /\ UNCHANGED <<redis, expired, dead, attempt, reply, once, wd, wdReply>>

\* newToken fails, before the first attempt.
newTokenFails(c) ==
    /\ "entropy" \in Faults
    /\ At(c, "attempt")
    /\ attempt[c] = 0
    /\ Goto(c, "drop")
    /\ UNCHANGED <<redis, expired, dead, attempt, reply, once, wd, wdReply, queueVars>>

\* backend.Acquire, in Redis.
acquireCommand(c) ==
    /\ At(c, "attempt")
    /\ \E o \in backendAcquire(c) :
          /\ redis' = o.key
          /\ reply' = [reply EXCEPT ![c] = o.answer]
    /\ Goto(c, "attempted")
    /\ UNCHANGED <<expired, dead, attempt, once, wd, wdReply, queueVars>>

\* Mutant of notAcquired: a last failed attempt still returns the lock.
notAcquiredReturnsLock(c) ==
    /\ reply[c] = "no"
    /\ Goto(c, "locked")
    /\ attempt' = [attempt EXCEPT ![c] = 0]
    /\ UNCHANGED wd

\* newLock, and startWatchdog if the caller asked for auto refresh.
acquired(c) ==
    /\ reply[c] = "yes"
    /\ Goto(c, "locked")
    /\ IF c \in AutoRefresh THEN WdGoto(c, "select") ELSE UNCHANGED wd
    /\ attempt' = [attempt EXCEPT ![c] = 0]

\* Return without a lock, by way of releaseLocal.
giveUp(c) ==
    /\ Goto(c, "drop")
    /\ attempt' = [attempt EXCEPT ![c] = 0]

\* Mutant of mayRetry: the strategy is asked before the attempt is counted.
mayRetryOnceMore(c) == ApiOf[c] # "TryLock" /\ attempt[c] <= MaxRetries

\* Acquire counts the attempt and the retry strategy allows another one.
mayRetry(c) == ApiOf[c] # "TryLock" /\ attempt[c] + 1 <= MaxRetries

notAcquired(c) ==
    /\ reply[c] = "no"
    /\ \/ mayRetry(c) /\ Goto(c, "backoff") /\ attempt' = [attempt EXCEPT ![c] = @ + 1]
       \/ ~mayRetry(c) /\ giveUp(c)
    /\ UNCHANGED wd

\* Mutant of acquireReply: the context is looked at again after SETNX succeeded.
acquireReplyLateCheck(c) ==
    /\ At(c, "attempted")
    /\ giveUp(c) \/ notAcquired(c)
    /\ ReadReply(c)
    /\ UNCHANGED <<redis, expired, dead, once, wd, wdReply, queueVars>>

acquireReply(c) ==
    /\ At(c, "attempted")
    /\ \/ acquired(c)
       \/ notAcquired(c)
       \/ reply[c] = "error" /\ giveUp(c) /\ UNCHANGED wd
    /\ ReadReply(c)
    /\ UNCHANGED <<redis, expired, dead, once, wdReply, queueVars>>

\* The timer fires, or the context is done first.
backoffEnds(c) ==
    /\ At(c, "backoff")
    /\ \/ Goto(c, "attempt") /\ UNCHANGED attempt
       \/ c \in ctxDone /\ giveUp(c)
    /\ UNCHANGED <<redis, expired, dead, reply, once, wd, wdReply, queueVars>>

\* Mutant of dropLocal: Acquire forgets the deferred releaseLocal.
dropLocalForgets(c) ==
    /\ At(c, "drop")
    /\ Goto(c, "failed")
    /\ UNCHANGED <<redis, expired, dead, attempt, reply, once, wd, wdReply, queueVars>>

\* releaseLocal, called by TryLock and deferred by Acquire when no lock came out.
dropLocal(c) ==
    /\ At(c, "drop")
    /\ Q!release(c) \/ Q!closeNext(c)
    /\ IF at'[c] = "released" THEN Goto(c, "failed") ELSE UNCHANGED pc
    /\ UNCHANGED <<redis, expired, dead, attempt, reply, once, wd, wdReply>>

-----------------------------------------------------------------------------
(***************************************************************************)
(* Lock.Refresh and Lock.Release, called by the holder.                    *)
(***************************************************************************)

\* The callback of WithLock has no access to the Lock.
callRefresh(c) ==
    /\ At(c, "locked")
    /\ ApiOf[c] # "WithLock"
    /\ once[c] = "unfired"
    /\ Goto(c, "refresh")
    /\ UNCHANGED <<redis, expired, dead, attempt, reply, once, wd, wdReply, queueVars>>

refreshCommand(c) ==
    /\ At(c, "refresh")
    /\ \E ttl \in millis : \E o \in backendRefresh(c, ttl, ctxOf(c)) :
          /\ redis' = o.key
          /\ reply' = [reply EXCEPT ![c] = o.answer]
    /\ Goto(c, "refreshed")
    /\ UNCHANGED <<expired, dead, attempt, once, wd, wdReply, queueVars>>

refreshReply(c) ==
    /\ At(c, "refreshed")
    /\ Goto(c, IF reply[c] = "no" THEN "finalize" ELSE "locked")
    /\ ReadReply(c)
    /\ UNCHANGED <<redis, expired, dead, attempt, once, wd, wdReply, queueVars>>

\* Mutant of callRelease: the local slot is passed on before the key is deleted.
callReleaseLocalFirst(c) ==
    /\ At(c, "locked") \/ (At(c, "unreleased") /\ ApiOf[c] # "WithLock")
    /\ once[c] = "unfired"
    /\ Q!release(c)
    /\ Goto(c, "release")
    /\ UNCHANGED <<redis, expired, dead, attempt, reply, once, wd, wdReply>>

\* The callback of WithLock has returned, or the caller releases, perhaps
\* again after an error.  A finalized lock returns ErrLockReleased.
callRelease(c) ==
    /\ At(c, "locked") \/ (At(c, "unreleased") /\ ApiOf[c] # "WithLock")
    /\ Goto(c, IF once[c] = "unfired" THEN "release" ELSE "done")
    /\ UNCHANGED <<redis, expired, dead, attempt, reply, once, wd, wdReply, queueVars>>

\* WithLock releases after fn returns, without defer.
callbackPanics(c) ==
    /\ "panic" \in Faults
    /\ At(c, "locked")
    /\ ApiOf[c] = "WithLock"
    /\ Goto(c, "unreleased")
    /\ UNCHANGED <<redis, expired, dead, attempt, reply, once, wd, wdReply, queueVars>>

releaseCommand(c) ==
    /\ At(c, "release")
    /\ \E o \in backendRelease(c) :
          /\ redis' = o.key
          /\ reply' = [reply EXCEPT ![c] = o.answer]
    /\ Goto(c, "deleted")
    /\ UNCHANGED <<expired, dead, attempt, once, wd, wdReply, queueVars>>

\* Mutant of releaseReply: every error finalizes, whether the key is gone or not.
releaseReplyAlwaysFinalizes(c) ==
    /\ At(c, "deleted")
    /\ Goto(c, "finalize")
    /\ ReadReply(c)
    /\ UNCHANGED <<redis, expired, dead, attempt, once, wd, wdReply, queueVars>>

\* Success and ErrLockNotHeld finalize; any other error leaves the lock as it is.
releaseReply(c) ==
    /\ At(c, "deleted")
    /\ Goto(c, IF reply[c] = "error" THEN "unreleased" ELSE "finalize")
    /\ ReadReply(c)
    /\ UNCHANGED <<redis, expired, dead, attempt, once, wd, wdReply, queueVars>>

-----------------------------------------------------------------------------
(***************************************************************************)
(* Lock.finalize: sync.Once lets the first of the holder and the watchdog  *)
(* run it and makes the other one wait.                                    *)
(***************************************************************************)

\* released = true, close(watchdogStop)
finalizeFires(c) ==
    /\ At(c, "finalize") \/ WdAt(c, "finalize")
    /\ once[c] = "unfired"
    /\ once' = [once EXCEPT ![c] = "running"]
    /\ UNCHANGED <<redis, expired, dead, pc, attempt, reply, wd, wdReply, queueVars>>

\* releaseLocal
finalizeLocal(c) ==
    /\ Alive(c)
    /\ once[c] = "running"
    /\ Q!release(c) \/ Q!closeNext(c)
    /\ once' = [once EXCEPT ![c] = IF at'[c] = "released" THEN "done" ELSE "running"]
    /\ UNCHANGED <<redis, expired, dead, pc, attempt, reply, wd, wdReply>>

finalizeReturns(c) ==
    /\ once[c] = "done"
    /\ At(c, "finalize")
    /\ Goto(c, "done")
    /\ UNCHANGED <<redis, expired, dead, attempt, reply, once, wd, wdReply, queueVars>>

-----------------------------------------------------------------------------
(***************************************************************************)
(* The watchdog of startWatchdog: Refresh on every tick under a context    *)
(* that is detached from the caller's and bounded by the interval.         *)
(***************************************************************************)

\* A tick on a released lock: Refresh returns ErrLockReleased, no step.
tick(c) ==
    /\ WdAt(c, "select")
    /\ once[c] = "unfired"
    /\ WdGoto(c, "refresh")
    /\ UNCHANGED <<redis, expired, dead, pc, attempt, reply, once, wdReply, queueVars>>

watchdogCommand(c) ==
    /\ WdAt(c, "refresh")
    /\ \E ttl \in millis : \E o \in backendRefresh(c, ttl, "live") :
          /\ redis' = o.key
          /\ wdReply' = [wdReply EXCEPT ![c] = o.answer]
    /\ WdGoto(c, "refreshed")
    /\ UNCHANGED <<expired, dead, pc, attempt, reply, once, queueVars>>

watchdogReply(c) ==
    /\ WdAt(c, "refreshed")
    /\ WdGoto(c, IF wdReply[c] = "no" THEN "finalize" ELSE "select")
    /\ wdReply' = [wdReply EXCEPT ![c] = "none"]
    /\ UNCHANGED <<redis, expired, dead, pc, attempt, reply, once, queueVars>>

watchdogFinalized(c) ==
    /\ WdAt(c, "finalize")
    /\ once[c] = "done"
    /\ WdGoto(c, "select")
    /\ UNCHANGED <<redis, expired, dead, pc, attempt, reply, once, wdReply, queueVars>>

\* Mutant of watchdogStops: the loop has no case for watchdogStop.
watchdogNeverStops(c) == FALSE /\ UNCHANGED vars

watchdogStops(c) ==
    /\ WdAt(c, "select")
    /\ once[c] # "unfired"
    /\ WdGoto(c, "exited")
    /\ UNCHANGED <<redis, expired, dead, pc, attempt, reply, once, wdReply, queueVars>>

-----------------------------------------------------------------------------
(***************************************************************************)
(* The environment.                                                        *)
(***************************************************************************)

expire ==
    /\ "expire" \in Faults
    /\ redis # None
    /\ expired' = expired \cup {redis}
    /\ redis' = None
    /\ UNCHANGED <<dead, pc, attempt, reply, once, wd, wdReply, queueVars>>

cancel(c) ==
    /\ Alive(c)
    /\ pc[c] \notin {"idle"} \cup Ended
    /\ Q!cancelContext(c)
    /\ UNCHANGED lockVars

crash(p) ==
    /\ p \in Crashable \ dead
    /\ dead' = dead \cup {p}
    /\ UNCHANGED <<redis, expired, pc, attempt, reply, once, wd, wdReply, queueVars>>

-----------------------------------------------------------------------------

call(c) == rejectArguments(c) \/ TryLock(c) \/ Acquire(c)

\* What the goroutine of a call does on its own.
goroutine(c) ==
    \/ leaveQueue(c) \/ newTokenFails(c) \/ acquireCommand(c) \/ acquireReply(c)
    \/ backoffEnds(c) \/ dropLocal(c)
    \/ refreshCommand(c) \/ refreshReply(c)
    \/ releaseCommand(c) \/ releaseReply(c)
    \/ finalizeReturns(c)

finalize(c) == finalizeFires(c) \/ finalizeLocal(c)

\* What the code that uses the lock decides.
user(c) == callRefresh(c) \/ callRelease(c) \/ callbackPanics(c)

watchdog(c) ==
    \/ tick(c) \/ watchdogCommand(c) \/ watchdogReply(c)
    \/ watchdogFinalized(c) \/ watchdogStops(c)

\* Every live call has ended and every watchdog is gone.
Quiescent ==
    /\ \A c \in Call : Alive(c) => pc[c] \in Ended /\ wd[c] \in {"off", "exited"}
    /\ UNCHANGED vars

Next ==
    \/ \E c \in Call :
          call(c) \/ goroutine(c) \/ finalize(c) \/ user(c) \/ watchdog(c) \/ cancel(c)
    \/ \E p \in Process : crash(p)
    \/ expire
    \/ Quiescent

Spec == Init /\ [][Next]_vars

-----------------------------------------------------------------------------
(***************************************************************************)
(* Fairness.  Runnable goroutines run, timers and tickers fire, a command  *)
(* is answered one way or another, sync.Once serves its callers, and a     *)
(* callback of WithLock returns or panics.  A caller of TryLock or Acquire *)
(* calls Release in the end, though it may refresh any number of times     *)
(* before and need not try again after an error.  Nobody has to make a     *)
(* call, and no fault has to happen.                                       *)
(***************************************************************************)
holderReleases(c) == pc[c] = "locked" /\ callRelease(c)

withLockCalls == {c \in Call : ApiOf[c] = "WithLock"}

runs(c) ==
    \/ goroutine(c) \/ finalize(c)
    \/ c \in withLockCalls /\ (holderReleases(c) \/ callbackPanics(c))

Fairness ==
    /\ \A c \in Call : WF_vars(runs(c))
    /\ \A c \in AutoRefresh : WF_vars(watchdog(c))
    /\ \A c \in Call \ withLockCalls : SF_vars(holderReleases(c))

FairSpec == Spec /\ Fairness

-----------------------------------------------------------------------------

\* The variables have their types; Acquire retries at most MaxRetries times.
TypeOK ==
    /\ redis \in Call \cup {None}
    /\ expired \subseteq Call
    /\ dead \subseteq Process
    /\ pc \in [Call -> PC]
    /\ attempt \in [Call -> {0} \cup (1 .. MaxRetries)]
    /\ reply \in [Call -> Reply]
    /\ once \in [Call -> {"unfired", "running", "done"}]
    /\ wd \in [Call -> WD]
    /\ wdReply \in [Call -> Reply]

\* The caller runs under the lock: TryLock or Acquire returned it, or the
\* callback of WithLock is running.
Critical(c) == pc[c] \in {"locked", "refresh", "refreshed"}

\* Two callers, of any processes, run under the lock at the same time only
\* if the TTL of one of them ran out: no lost reply, retry, cancellation,
\* crash or late command of an old owner lets a second one in.
MutualExclusion ==
    \A c, d \in Call : Critical(c) /\ Critical(d) /\ c # d => c \in expired \/ d \in expired

\* A caller under the lock has its token in Redis unless the TTL ran out.
CriticalHasKey == \A c \in Call : Critical(c) => redis = c \/ c \in expired

\* Between its queue slot and its finalize a call talks to Redis, or has to.
InSlot(c) ==
    \/ pc[c] \in {"attempt", "attempted", "backoff"}
    \/ /\ pc[c] \in {"locked", "refresh", "refreshed", "release", "deleted", "unreleased"}
       /\ once[c] = "unfired"

\* The local queue serializes the calls of one process: nobody sends SETNX
\* while another call of the process is trying or still has its lock.
OneCallPerProcess ==
    \A c, d \in Call : InSlot(c) /\ InSlot(d) /\ Home[c] = Home[d] => c = d

\* A lock is finalized, and its local slot passed on, only after its token
\* has left Redis, whichever of the holder and the watchdog did it.
FinalizedLeavesNoKey == \A c \in Call : once[c] # "unfired" => redis # c

\* A call that reported failure has no token in Redis.  Holds as long as no
\* reply is lost and no context is cancelled during SETNX.
FailedLeavesNoKey == \A c \in Call : pc[c] = "failed" => redis # c

-----------------------------------------------------------------------------
(***************************************************************************)
(* The inductive invariants behind the safety properties.                  *)
(***************************************************************************)

\* SETNX answered yes: the key is there, or was until its TTL ran out.
YesMeansKey ==
    \A c \in Call : pc[c] = "attempted" /\ reply[c] = "yes" => redis = c \/ c \in expired

\* For MutualExclusion; needs Refresh to get TTLs of a millisecond or more.
HolderInv == TypeOK /\ YesMeansKey /\ CriticalHasKey

\* The token of c is not in Redis: it will not come back, because only c
\* writes it, before it has a lock.
KeyIsGone(c) ==
    \/ once[c] # "unfired"
    \/ pc[c] = "finalize" \/ wd[c] = "finalize"
    \/ pc[c] = "deleted" /\ reply[c] # "error"
    \/ pc[c] = "refreshed" /\ reply[c] = "no"
    \/ wd[c] = "refreshed" /\ wdReply[c] = "no"

NoLockYet(c) ==
    pc[c] \in {"idle", "queued", "attempt", "attempted", "backoff", "drop", "failed"}

\* For FinalizedLeavesNoKey.
GoneInv ==
    /\ TypeOK
    /\ \A c \in Call : KeyIsGone(c) => redis # c
    /\ \A c \in Call : NoLockYet(c) => once[c] = "unfired" /\ wd[c] = "off"

\* Where a call is in the queue, given where it is in the manager.
SlotLink(c) ==
    /\ pc[c] = "idle" => at[c] = "new"
    /\ pc[c] = "queued" => at[c] \in {"waiting", "cancelled"}
    /\ InSlot(c) => at[c] = "owner"
    /\ pc[c] = "finalize" /\ once[c] = "unfired" => at[c] = "owner"
    /\ pc[c] = "done" => once[c] # "unfired"
    /\ pc[c] = "drop" \/ once[c] = "running" => at[c] \in {"owner", "handing"}

\* For OneCallPerProcess.
ProcessInv == GoneInv /\ Q!SlotInv /\ \A c \in Call : SlotLink(c)

-----------------------------------------------------------------------------

\* Every call of a process that lives on returns, and every lock handed out is
\* given back, even when another process dies with the key.
EveryCallReturns ==
    []<>(\A c \in Call : Alive(c) => pc[c] \in {"idle"} \cup Ended)

\* Once a call is over its watchdog stops refreshing.
RefreshStops ==
    []<>(\A c \in Call : Alive(c) /\ pc[c] \in Ended => wd[c] \in {"off", "exited"})

=============================================================================
