---------------------------- MODULE LocalKeyQueue ----------------------------
(***************************************************************************)
(* The process-local FIFO queue in front of the Redis lock: localKeyQueue  *)
(* of internal/redislock/manager.go (redislock/manager.go is the same      *)
(* code).  A Call is one invocation of tryAcquire or acquire together with *)
(* the release closure it returns; the queue knows nothing else about its  *)
(* callers, so a goroutine that locks twice is two calls.                  *)
(*                                                                         *)
(* q.mu makes each critical section one atomic step.  What the code does   *)
(* outside of q.mu are steps of their own: choosing a ready case of the    *)
(* select, locking q.mu again in removeWaiter, and close(next) after the   *)
(* unlock in release.                                                      *)
(***************************************************************************)
EXTENDS Naturals, Sequences

CONSTANTS Call,   \* calls of tryAcquire / acquire
          Key,    \* lock keys
          KeyOf,  \* the key each call names
          Cancellable   \* the calls whose context may end while they wait

ASSUME KeyOfType == KeyOf \in [Call -> Key]
ASSUME CancellableType == Cancellable \subseteq Call

VARIABLES
    keys,     \* localKeyQueue.keys: a function whose domain is the map's keys
    at,       \* where each call is
    next,     \* the waiter a releasing call has popped and not yet closed
    closed,   \* the calls whose waiter channel has been closed
    ctxDone   \* the calls whose context is done

vars == <<keys, at, next, closed, ctxDone>>

\* "new"       not called yet
\* "waiting"   in acquire's select, its waiter queued or already popped
\* "cancelled" took the ctx.Done() case, has not entered removeWaiter yet
\* "owner"     got the slot; its releaseFunc has not run
\* "handing"   release popped the next waiter and unlocked; close(next) is due
\* "released"  its releaseFunc is done
\* "refused"   returned without the slot
Place == {"new", "waiting", "cancelled", "owner", "handing", "released", "refused"}

keyQueueState == [held : BOOLEAN, waiters : Seq(Call)]

newState == [held |-> FALSE, waiters |-> <<>>]

\* state.waiters = w
withWaiters(s, w) == [held |-> s.held, waiters |-> w]

\* state := q.keys[key], created when it is nil
stateOf(k) == IF k \in DOMAIN keys THEN keys[k] ELSE newState

\* q.keys[k] = s
PutKey(k, s) == [x \in DOMAIN keys \cup {k} |-> IF x = k THEN s ELSE keys[x]]

\* delete(q.keys, k)
DeleteKey(k) == [x \in DOMAIN keys \ {k} |-> keys[x]]

Move(c, place) == at' = [at EXCEPT ![c] = place]

-----------------------------------------------------------------------------

Init ==
    /\ keys = [k \in {} |-> newState]
    /\ at = [c \in Call |-> "new"]
    /\ next = [c \in Call |-> c]
    /\ closed = {}
    /\ ctxDone = {}

\* The branch tryAcquire and acquire share: the slot is free, take it.
takeSlot(c) ==
    /\ ~stateOf(KeyOf[c]).held
    /\ keys' = PutKey(KeyOf[c], [held |-> TRUE, waiters |-> stateOf(KeyOf[c]).waiters])
    /\ Move(c, "owner")
    /\ UNCHANGED <<next, closed, ctxDone>>

tryAcquire(c) ==
    /\ at[c] = "new"
    /\ \/ takeSlot(c)
       \/ /\ stateOf(KeyOf[c]).held
          /\ Move(c, "refused")
          /\ UNCHANGED <<keys, next, closed, ctxDone>>

enqueue(c) ==
    /\ stateOf(KeyOf[c]).held
    /\ keys' = LET s == stateOf(KeyOf[c])
               IN  PutKey(KeyOf[c], withWaiters(s, Append(s.waiters, c)))
    /\ Move(c, "waiting")
    /\ UNCHANGED <<next, closed, ctxDone>>

acquire(c) ==
    /\ at[c] = "new"
    /\ takeSlot(c) \/ enqueue(c)

\* The environment cancels the context passed to a call, or lets it time out.
cancelContext(c) ==
    /\ c \in Cancellable \ ctxDone
    /\ ctxDone' = ctxDone \cup {c}
    /\ UNCHANGED <<keys, at, next, closed>>

\* select, case <-waiter
waiterReady(c) ==
    /\ at[c] = "waiting"
    /\ c \in closed
    /\ Move(c, "owner")
    /\ UNCHANGED <<keys, next, closed, ctxDone>>

\* select, case <-ctx.Done(): Go picks either case when both are ready.
ctxReady(c) ==
    /\ at[c] = "waiting"
    /\ c \in ctxDone
    /\ Move(c, "cancelled")
    /\ UNCHANGED <<keys, next, closed, ctxDone>>

\* append(waiters[:i], waiters[i+1:]...)
cutAt(w, i) == [j \in 1 .. Len(w) - 1 |-> IF j < i THEN w[j] ELSE w[j + 1]]

\* Mutant of waitersWithout: the loop cuts the element after the match.
waitersWithoutOffByOne(s, c) ==
    IF \E i \in 1 .. Len(s.waiters) : s.waiters[i] = c
    THEN cutAt(s.waiters, 1 + CHOOSE i \in 1 .. Len(s.waiters) : s.waiters[i] = c)
    ELSE s.waiters

\* The waiters of s after the loop of removeWaiter: c may have been popped.
waitersWithout(s, c) ==
    IF \E i \in 1 .. Len(s.waiters) : s.waiters[i] = c
    THEN cutAt(s.waiters, CHOOSE i \in 1 .. Len(s.waiters) : s.waiters[i] = c)
    ELSE s.waiters

\* What removeWaiter leaves in the map for the key of c.
afterRemove(c) ==
    LET k == KeyOf[c]
        w == waitersWithout(keys[k], c)
    IN  IF ~keys[k].held /\ w = <<>>
        THEN DeleteKey(k)
        ELSE PutKey(k, withWaiters(keys[k], w))

removeWaiter(c) ==
    /\ at[c] = "cancelled"
    /\ keys' = IF KeyOf[c] \in DOMAIN keys THEN afterRemove(c) ELSE keys
    /\ Move(c, "refused")
    /\ UNCHANGED <<next, closed, ctxDone>>

\* release with nobody waiting: the entry leaves the map.
releaseIdle(c) ==
    /\ stateOf(KeyOf[c]).waiters = <<>>
    /\ keys' = DeleteKey(KeyOf[c])
    /\ Move(c, "released")
    /\ UNCHANGED <<next, closed, ctxDone>>

\* Mutant of releasePop: held is reset before the waiter has been woken.
releasePopUnheld(c) ==
    LET s == stateOf(KeyOf[c])
    IN  /\ s.waiters # <<>>
        /\ keys' = PutKey(KeyOf[c], [held |-> FALSE, waiters |-> Tail(s.waiters)])
        /\ next' = [next EXCEPT ![c] = Head(s.waiters)]
        /\ Move(c, "handing")
        /\ UNCHANGED <<closed, ctxDone>>

\* Mutant of releasePop: the last waiter is served first.
releasePopLast(c) ==
    LET s == stateOf(KeyOf[c])
        n == Len(s.waiters)
    IN  /\ s.waiters # <<>>
        /\ keys' = PutKey(KeyOf[c], withWaiters(s, SubSeq(s.waiters, 1, n - 1)))
        /\ next' = [next EXCEPT ![c] = s.waiters[n]]
        /\ Move(c, "handing")
        /\ UNCHANGED <<closed, ctxDone>>

\* release with waiters: pop the first one; the entry stays held.
releasePop(c) ==
    LET s == stateOf(KeyOf[c])
    IN  /\ s.waiters # <<>>
        /\ keys' = PutKey(KeyOf[c], withWaiters(s, Tail(s.waiters)))
        /\ next' = [next EXCEPT ![c] = Head(s.waiters)]
        /\ Move(c, "handing")
        /\ UNCHANGED <<closed, ctxDone>>

\* The closure of releaseFunc, run once, up to q.mu.Unlock().
release(c) ==
    /\ at[c] = "owner"
    /\ releaseIdle(c) \/ releasePop(c)

\* close(next), after the unlock.
closeNext(c) ==
    /\ at[c] = "handing"
    /\ closed' = closed \cup {next[c]}
    /\ Move(c, "released")
    /\ UNCHANGED <<keys, next, ctxDone>>

\* Every call has returned and no slot is owned.
Quiescent ==
    /\ \A c \in Call : at[c] \in {"released", "refused"}
    /\ UNCHANGED vars

Step(c) ==
    \/ tryAcquire(c)
    \/ acquire(c)
    \/ waiterReady(c)
    \/ ctxReady(c)
    \/ removeWaiter(c)
    \/ release(c)
    \/ closeNext(c)

Next ==
    \/ \E c \in Call : Step(c) \/ cancelContext(c)
    \/ Quiescent

Spec == Init /\ [][Next]_vars

-----------------------------------------------------------------------------
(***************************************************************************)
(* Fairness.  A goroutine that can run does run: a ready select proceeds,  *)
(* q.mu is granted (sync.Mutex does not starve), close(next) follows the   *)
(* unlock.  WF of release is the duty of the callers: the owner of the     *)
(* slot runs its release closure.  Nobody is obliged to make a call or to  *)
(* cancel a context.                                                       *)
(***************************************************************************)
Progress(c) ==
    waiterReady(c) \/ ctxReady(c) \/ removeWaiter(c) \/ release(c) \/ closeNext(c)

Fairness == \A c \in Call : WF_vars(Progress(c))

FairSpec == Spec /\ Fairness

-----------------------------------------------------------------------------

TypeOK ==
    /\ DOMAIN keys \subseteq Key
    /\ keys \in [DOMAIN keys -> keyQueueState]
    /\ at \in [Call -> Place]
    /\ next \in [Call -> Call]
    /\ closed \subseteq Call
    /\ ctxDone \subseteq Call

\* c is still inside acquire: it has not seen its channel or its context.
Pending(c) == at[c] \in {"waiting", "cancelled"}

\* release took c off the waiters: its channel is closed or about to be.
Popped(c) ==
    \/ c \in closed
    \/ \E d \in Call : at[d] = "handing" /\ next[d] = c

\* The slot of its key is with c: owned, or on its way to it.
Bearer(c) == at[c] = "owner" \/ (Pending(c) /\ Popped(c))

\* Two calls never own the slot of one key: what lets Manager run at most
\* one backend.Acquire per key in a process.
MutualExclusion ==
    \A c, d \in Call :
        at[c] = "owner" /\ at[d] = "owner" /\ KeyOf[c] = KeyOf[d] => c = d

\* At most one call per key has the slot or has it coming: release never
\* hands it on while somebody else can still take it.
OneBearer ==
    \A c, d \in Call : Bearer(c) /\ Bearer(d) /\ KeyOf[c] = KeyOf[d] => c = d

\* While a bearer exists the map says so: a newcomer of tryAcquire or
\* acquire sees held and cannot barge in between release and wake-up.
BearerIsHeld ==
    \A c \in Call : Bearer(c) => KeyOf[c] \in DOMAIN keys /\ keys[KeyOf[c]].held

\* The queued channels belong to calls still inside acquire, of that key,
\* none of which has been popped already.
WaitersWait ==
    \A k \in DOMAIN keys : \A i \in 1 .. Len(keys[k].waiters) :
        LET w == keys[k].waiters[i]
        IN  KeyOf[w] = k /\ Pending(w) /\ ~Popped(w)

\* No channel is queued twice.
WaitersDistinct ==
    \A k \in DOMAIN keys : \A i, j \in 1 .. Len(keys[k].waiters) :
        keys[k].waiters[i] = keys[k].waiters[j] => i = j

\* A call still inside acquire is in the waiters until release pops it, and
\* its entry is in the map: no waiter is ever forgotten by the map.
PendingQueued ==
    \A c \in Call : Pending(c) /\ ~Popped(c) =>
        /\ KeyOf[c] \in DOMAIN keys
        /\ \E i \in 1 .. Len(keys[KeyOf[c]].waiters) : keys[KeyOf[c]].waiters[i] = c

\* A popped call has left "new", its key is the one released, and its
\* channel is closed by one release only: closing it twice would panic.
PoppedStarted ==
    /\ \A c \in closed : at[c] # "new"
    /\ \A d \in Call : at[d] = "handing" =>
          /\ at[next[d]] # "new"
          /\ next[d] \notin closed
          /\ KeyOf[next[d]] = KeyOf[d]
          /\ \A e \in Call : at[e] = "handing" /\ next[e] = next[d] => e = d

\* An entry of the map is always held: the map leaks no idle entry.
EntriesHeld == \A k \in DOMAIN keys : keys[k].held

\* The inductive invariant.
SlotInv ==
    /\ TypeOK
    /\ OneBearer
    /\ BearerIsHeld
    /\ WaitersWait
    /\ WaitersDistinct
    /\ PendingQueued
    /\ PoppedStarted
    /\ EntriesHeld

\* Under FairSpec a call that waits in acquire returns, with the slot or
\* without it.
EveryWaiterReturns ==
    \A c \in Call : at[c] = "waiting" ~> at[c] \in {"owner", "refused"}

-----------------------------------------------------------------------------
(***************************************************************************)
(* FIFO.  The line of a key is the popped call that has not returned from  *)
(* acquire yet, if there is one, and then the waiters of the entry.        *)
(***************************************************************************)
inFront(k) == {c \in Call : KeyOf[c] = k /\ Pending(c) /\ Popped(c)}

lineOf(k) ==
    LET queued == stateOf(k).waiters
    IN  IF inFront(k) = {} THEN queued
        ELSE <<CHOOSE c \in inFront(k) : TRUE>> \o queued

holderOf(k) == {c \in Call : KeyOf[c] = k /\ at[c] = "owner"}

Fifo == INSTANCE FifoLock WITH
            holder <- [k \in Key |-> holderOf(k)],
            line   <- [k \in Key |-> lineOf(k)]

\* Every step of the queue is a step of the FIFO lock or changes nothing
\* that it can see: no overtaking, no barging, no slot for two.
ImplementsFifo == Fifo!Spec

=============================================================================
