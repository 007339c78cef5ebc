------------------------- MODULE LocalKeyQueueProofs -------------------------
(***************************************************************************)
(* SlotInv is an inductive invariant of LocalKeyQueue for every set of     *)
(* calls and keys; mutual exclusion follows, and every step refines one of *)
(* FifoLock.  One lemma per action.                                        *)
(***************************************************************************)
EXTENDS LocalKeyQueue, TLAPS

\* The empty map and no calls satisfy the invariant.
LEMMA InitSlotInv == Init => SlotInv
<1> SUFFICES ASSUME Init PROVE SlotInv
    OBVIOUS
<1> USE KeyOfType DEF Init
<1>1. TypeOK
    BY DEF TypeOK, keyQueueState, Place
<1>2. \A c \in Call : ~Bearer(c) /\ ~Pending(c)
    BY DEF Bearer, Pending
<1>3. DOMAIN keys = {}
    OBVIOUS
<1>4. PoppedStarted
    BY DEF PoppedStarted
<1> QED
    BY <1>1, <1>2, <1>3, <1>4
    DEF SlotInv, OneBearer, BearerIsHeld, WaitersWait, WaitersDistinct,
        PendingQueued, EntriesHeld

\* takeSlot: nobody bears the slot of a key whose entry is not held.
LEMMA TakeSlotInv ==
    ASSUME SlotInv, NEW c \in Call, at[c] = "new", takeSlot(c)
    PROVE  SlotInv'
<1> DEFINE k == KeyOf[c]
<1> USE KeyOfType
<1>0. k \in Key
    OBVIOUS
<1>1. k \notin DOMAIN keys
    BY DEF takeSlot, SlotInv, EntriesHeld, stateOf
<1>2. /\ keys' = [x \in DOMAIN keys \cup {k} |->
                    IF x = k THEN [held |-> TRUE, waiters |-> <<>>] ELSE keys[x]]
      /\ at' = [at EXCEPT ![c] = "owner"]
      /\ UNCHANGED <<next, closed, ctxDone>>
    BY <1>1 DEF takeSlot, stateOf, newState, PutKey, Move
<1>3. TypeOK'
    BY <1>0, <1>2 DEF SlotInv, TypeOK, keyQueueState, Place
<1>4. \A d \in Call : Popped(d)' = Popped(d) /\ (d # c => at'[d] = at[d])
    BY <1>2 DEF Popped, SlotInv, TypeOK
<1>5. \A d \in Call : KeyOf[d] = k => ~Bearer(d)
    BY <1>1 DEF SlotInv, BearerIsHeld
<1>6. \A d \in Call : Bearer(d)' <=> (Bearer(d) \/ d = c)
    BY <1>2, <1>4 DEF Bearer, Pending, SlotInv, TypeOK
<1>7. OneBearer'
    BY <1>5, <1>6 DEF SlotInv, OneBearer
<1>8. BearerIsHeld'
    BY <1>2, <1>6 DEF SlotInv, BearerIsHeld
<1>9. \A d \in Call : Pending(d)' <=> Pending(d)
    BY <1>2 DEF Pending, SlotInv, TypeOK
<1>10. WaitersWait'
    BY <1>2, <1>4, <1>9 DEF SlotInv, WaitersWait, TypeOK, keyQueueState
<1>11. WaitersDistinct'
    BY <1>2 DEF SlotInv, WaitersDistinct
<1>12. PendingQueued'
    BY <1>1, <1>2, <1>4, <1>9 DEF SlotInv, PendingQueued
<1>13. PoppedStarted'
    BY <1>2 DEF SlotInv, PoppedStarted, TypeOK
<1>14. EntriesHeld'
    BY <1>2 DEF SlotInv, EntriesHeld
<1> QED
    BY <1>3, <1>7, <1>8, <1>10, <1>11, <1>12, <1>13, <1>14 DEF SlotInv

\* enqueue: the newcomer goes behind the waiters of an entry that is held.
LEMMA EnqueueInv ==
    ASSUME SlotInv, NEW c \in Call, at[c] = "new", enqueue(c)
    PROVE  SlotInv'
<1> DEFINE k == KeyOf[c]
           w == keys[k].waiters
<1> USE KeyOfType
<1>1. k \in DOMAIN keys /\ keys[k] \in keyQueueState /\ w \in Seq(Call)
    BY DEF enqueue, stateOf, newState, SlotInv, TypeOK, keyQueueState
<1>2. /\ keys' = [x \in DOMAIN keys |->
                    IF x = k THEN [held |-> keys[k].held, waiters |-> Append(w, c)]
                    ELSE keys[x]]
      /\ at' = [at EXCEPT ![c] = "waiting"]
      /\ UNCHANGED <<next, closed, ctxDone>>
    BY <1>1 DEF enqueue, stateOf, withWaiters, PutKey, Move
<1>3. /\ DOMAIN keys' = DOMAIN keys
      /\ \A x \in DOMAIN keys : x # k => keys'[x] = keys[x]
      /\ keys'[k].held = keys[k].held
      /\ keys'[k].waiters = Append(w, c)
      /\ keys'[k] \in keyQueueState
    BY <1>1, <1>2 DEF SlotInv, TypeOK, keyQueueState
<1>4. TypeOK'
    BY <1>2, <1>3 DEF SlotInv, TypeOK, Place
<1>5. \A d \in Call : (Popped(d)' <=> Popped(d)) /\ (d # c => at'[d] = at[d])
    BY <1>2 DEF Popped, SlotInv, TypeOK
<1>6. ~Popped(c) /\ ~Pending(c) /\ ~Bearer(c)
    BY DEF Popped, Pending, Bearer, SlotInv, PoppedStarted
<1>7. \A d \in Call : Pending(d)' <=> (Pending(d) \/ d = c)
    BY <1>2, <1>5 DEF Pending, SlotInv, TypeOK
<1>8. \A d \in Call : Bearer(d)' <=> Bearer(d)
    BY <1>2, <1>5, <1>6, <1>7 DEF Bearer, SlotInv, TypeOK
<1>9. OneBearer' /\ BearerIsHeld'
    BY <1>3, <1>8 DEF SlotInv, OneBearer, BearerIsHeld
<1>10. \A i \in 1 .. Len(w) : w[i] # c
    BY <1>1, <1>6 DEF SlotInv, WaitersWait
<1>11. /\ Len(Append(w, c)) = Len(w) + 1
       /\ Append(w, c)[Len(w) + 1] = c
       /\ \A i \in 1 .. Len(w) : Append(w, c)[i] = w[i]
       /\ Len(w) \in Nat
    BY <1>1
<1>12. WaitersWait'
  <2> SUFFICES ASSUME NEW x \in DOMAIN keys, NEW i \in 1 .. Len(keys'[x].waiters),
                      NEW d, d = keys'[x].waiters[i]
               PROVE  KeyOf[d] = x /\ Pending(d)' /\ ~Popped(d)'
    BY <1>3 DEF WaitersWait
  <2>1. CASE x = k /\ i = Len(w) + 1
    BY <2>1, <1>3, <1>5, <1>6, <1>7, <1>11
  <2>2. CASE x = k /\ i \in 1 .. Len(w)
    <3>1. d = w[i] /\ d \in Call
      BY <2>2, <1>1, <1>3, <1>11
    <3> QED
      BY <3>1, <2>2, <1>1, <1>5, <1>7 DEF SlotInv, WaitersWait
  <2>3. CASE x # k
    <3>1. d = keys[x].waiters[i] /\ d \in Call /\ i \in 1 .. Len(keys[x].waiters)
      BY <2>3, <1>3 DEF SlotInv, TypeOK, keyQueueState
    <3> QED
      BY <3>1, <1>5, <1>7 DEF SlotInv, WaitersWait
  <2> QED
    BY <2>1, <2>2, <2>3, <1>3, <1>11
<1>13. WaitersDistinct'
  <2> SUFFICES ASSUME NEW x \in DOMAIN keys,
                      NEW i \in 1 .. Len(keys'[x].waiters),
                      NEW j \in 1 .. Len(keys'[x].waiters),
                      keys'[x].waiters[i] = keys'[x].waiters[j]
               PROVE  i = j
    BY <1>3 DEF WaitersDistinct
  <2>1. CASE x = k
    BY <2>1, <1>1, <1>3, <1>10, <1>11 DEF SlotInv, WaitersDistinct
  <2>2. CASE x # k
    BY <2>2, <1>3 DEF SlotInv, WaitersDistinct
  <2> QED
    BY <2>1, <2>2
<1>14. PendingQueued'
  <2> SUFFICES ASSUME NEW d \in Call, Pending(d)', ~Popped(d)'
               PROVE  /\ KeyOf[d] \in DOMAIN keys
                      /\ \E i \in 1 .. Len(keys'[KeyOf[d]].waiters) :
                            keys'[KeyOf[d]].waiters[i] = d
    BY <1>3 DEF PendingQueued
  <2>1. CASE d = c
    BY <2>1, <1>1, <1>3, <1>11
  <2>2. CASE d # c
    <3>1. PICK i \in 1 .. Len(keys[KeyOf[d]].waiters) :
            KeyOf[d] \in DOMAIN keys /\ keys[KeyOf[d]].waiters[i] = d
      BY <2>2, <1>5, <1>7 DEF SlotInv, PendingQueued
    <3>2. CASE KeyOf[d] = k
      BY <3>1, <3>2, <1>3, <1>11
    <3>3. CASE KeyOf[d] # k
      BY <3>1, <3>3, <1>3
    <3> QED
      BY <3>2, <3>3
  <2> QED
    BY <2>1, <2>2
<1>15. PoppedStarted' /\ EntriesHeld'
    BY <1>2, <1>3 DEF SlotInv, PoppedStarted, EntriesHeld, TypeOK
<1> QED
    BY <1>4, <1>9, <1>12, <1>13, <1>14, <1>15 DEF SlotInv

\* The steps that move one call and touch neither the map nor a channel:
\* being refused by tryAcquire, taking a case of the select.
LEMMA MoveInv ==
    ASSUME SlotInv, NEW c \in Call, NEW place,
           UNCHANGED <<keys, next, closed>>, ctxDone' \subseteq Call,
           at' = [at EXCEPT ![c] = place],
           \/ at[c] = "new" /\ place = "refused"
           \/ at[c] = "waiting" /\ place = "owner" /\ c \in closed
           \/ at[c] = "waiting" /\ place = "cancelled"
    PROVE  SlotInv'
<1> USE KeyOfType
<1>1. TypeOK'
    BY DEF SlotInv, TypeOK, Place
<1>2. \A d \in Call : Popped(d)' <=> Popped(d)
    BY DEF Popped, SlotInv, TypeOK
<1>3. \A d \in Call : Bearer(d)' <=> Bearer(d)
    BY <1>2 DEF Bearer, Pending, Popped, SlotInv, TypeOK
<1>4. \A d \in Call : /\ Pending(d)' => Pending(d)
                      /\ Pending(d) /\ ~Popped(d) => Pending(d)'
    BY DEF Pending, Popped, SlotInv, TypeOK
<1>5. OneBearer' /\ BearerIsHeld' /\ WaitersDistinct' /\ EntriesHeld'
    BY <1>3 DEF SlotInv, OneBearer, BearerIsHeld, WaitersDistinct, EntriesHeld
<1>6. WaitersWait'
    BY <1>2, <1>4 DEF SlotInv, WaitersWait, TypeOK, keyQueueState
<1>7. PendingQueued'
    BY <1>2, <1>4 DEF SlotInv, PendingQueued
<1>8. PoppedStarted'
    BY DEF SlotInv, PoppedStarted, TypeOK
<1> QED
    BY <1>1, <1>5, <1>6, <1>7, <1>8 DEF SlotInv

\* cancelContext touches nothing the invariant speaks of.
LEMMA CancelContextInv ==
    ASSUME SlotInv, NEW c \in Call, cancelContext(c)
    PROVE  SlotInv'
<1>1. UNCHANGED <<keys, at, next, closed>> /\ ctxDone' \subseteq Call
    BY CancellableType DEF cancelContext, SlotInv, TypeOK
<1> QED
    BY <1>1 DEF SlotInv, TypeOK, OneBearer, BearerIsHeld, WaitersWait, WaitersDistinct,
        PendingQueued, PoppedStarted, EntriesHeld, Bearer, Pending, Popped

\* Cutting the one occurrence of c out of a sequence without repetitions
\* loses c, keeps the others and repeats nothing.
LEMMA WaitersWithoutFacts ==
    ASSUME NEW s \in keyQueueState, NEW c \in Call,
           \A i, j \in 1 .. Len(s.waiters) : s.waiters[i] = s.waiters[j] => i = j
    PROVE  LET w == s.waiters
               v == waitersWithout(s, c)
           IN  /\ v \in Seq(Call)
               /\ \A i \in 1 .. Len(v) : v[i] # c /\ \E j \in 1 .. Len(w) : v[i] = w[j]
               /\ \A j \in 1 .. Len(w) : w[j] # c => \E i \in 1 .. Len(v) : v[i] = w[j]
               /\ \A i, j \in 1 .. Len(v) : v[i] = v[j] => i = j
<1> DEFINE w == s.waiters
           v == waitersWithout(s, c)
<1>1. w \in Seq(Call) /\ Len(w) \in Nat
    BY DEF keyQueueState
<1>2. CASE \A i \in 1 .. Len(w) : w[i] # c
  <2>1. v = w
    BY <1>2 DEF waitersWithout
  <2> QED
    BY <2>1, <1>1, <1>2
<1>3. ASSUME NEW n \in 1 .. Len(w), w[n] = c
      PROVE  /\ v \in Seq(Call)
             /\ \A i \in 1 .. Len(v) : v[i] # c /\ \E j \in 1 .. Len(w) : v[i] = w[j]
             /\ \A j \in 1 .. Len(w) : w[j] # c => \E i \in 1 .. Len(v) : v[i] = w[j]
             /\ \A i, j \in 1 .. Len(v) : v[i] = v[j] => i = j
  <2>1. n = CHOOSE i \in 1 .. Len(w) : w[i] = c
    BY <1>3
  <2>2. v = [j \in 1 .. Len(w) - 1 |-> IF j < n THEN w[j] ELSE w[j + 1]]
    BY <1>3, <2>1 DEF waitersWithout, cutAt
  <2>3. Len(w) - 1 \in Nat /\ \A j \in 1 .. Len(w) : w[j] \in Call
    BY <1>1
  <2>4. \A j \in 1 .. Len(w) - 1 : (IF j < n THEN w[j] ELSE w[j + 1]) \in Call
    BY <2>3
  <2>5. v \in Seq(Call) /\ Len(v) = Len(w) - 1
    BY <2>2, <2>3, <2>4
  <2>6. \A i \in 1 .. Len(v) : v[i] # c /\ \E j \in 1 .. Len(w) : v[i] = w[j]
    <3> TAKE i \in 1 .. Len(v)
    <3>1. CASE i < n
      BY <3>1, <1>3, <2>2, <2>5, <1>1
    <3>2. CASE ~(i < n)
      <4>1. v[i] = w[i + 1] /\ i + 1 \in 1 .. Len(w) /\ i + 1 # n
        BY <3>2, <2>2, <2>5, <1>1
      <4> QED
        BY <4>1, <1>3
    <3> QED
      BY <3>1, <3>2
  <2>7. \A j \in 1 .. Len(w) : w[j] # c => \E i \in 1 .. Len(v) : v[i] = w[j]
    <3> SUFFICES ASSUME NEW j \in 1 .. Len(w), w[j] # c
                 PROVE  \E i \in 1 .. Len(v) : v[i] = w[j]
      OBVIOUS
    <3>1. CASE j < n
      <4>1. v[j] = w[j] /\ j \in 1 .. Len(v)
        BY <3>1, <2>2, <2>5, <1>1
      <4> QED
        BY <4>1
    <3>2. CASE j > n
      <4>1. v[j - 1] = w[j] /\ j - 1 \in 1 .. Len(v)
        BY <3>2, <2>2, <2>5, <1>1
      <4> QED
        BY <4>1
    <3> QED
      BY <3>1, <3>2, <1>1, <1>3
  <2>8. \A i, j \in 1 .. Len(v) : v[i] = v[j] => i = j
    <3> SUFFICES ASSUME NEW i \in 1 .. Len(v), NEW j \in 1 .. Len(v), v[i] = v[j]
                 PROVE  i = j
      OBVIOUS
    <3>1. v[i] = (IF i < n THEN w[i] ELSE w[i + 1]) /\ v[j] = (IF j < n THEN w[j] ELSE w[j + 1])
      BY <2>2, <2>5
    <3>2. i \in 1 .. Len(w) /\ i + 1 \in 1 .. Len(w) /\ j \in 1 .. Len(w) /\ j + 1 \in 1 .. Len(w)
      BY <2>5, <1>1
    <3>3. \A a, b \in 1 .. Len(w) : w[a] = w[b] => a = b
      OBVIOUS
    <3>4. CASE i < n /\ j < n
      BY <3>1, <3>2, <3>3, <3>4
    <3>5. CASE i < n /\ ~(j < n)
      <4>1. w[i] = w[j + 1]
        BY <3>1, <3>5
      <4>2. i = j + 1
        BY <4>1, <3>2, <3>3
      <4> QED
        BY <4>2, <3>2, <3>5, <1>1
    <3>6. CASE ~(i < n) /\ j < n
      <4>1. w[i + 1] = w[j]
        BY <3>1, <3>6
      <4>2. i + 1 = j
        BY <4>1, <3>2, <3>3
      <4> QED
        BY <4>2, <3>2, <3>6, <1>1
    <3>7. CASE ~(i < n) /\ ~(j < n)
      <4>1. i + 1 = j + 1
        BY <3>1, <3>2, <3>3, <3>7
      <4> QED
        BY <4>1, <3>2, <1>1
    <3> QED
      BY <3>4, <3>5, <3>6, <3>7
  <2> QED
    BY <2>5, <2>6, <2>7, <2>8
<1> QED
    BY <1>2, <1>3

\* removeWaiter: the call leaves; the entry stays because it is held.
LEMMA RemoveWaiterInv ==
    ASSUME SlotInv, NEW c \in Call, removeWaiter(c)
    PROVE  SlotInv'
<1> DEFINE k == KeyOf[c]
           w == keys[k].waiters
           v == waitersWithout(keys[k], c)
<1> USE KeyOfType
<1>1. k \in DOMAIN keys /\ keys[k] \in keyQueueState /\ keys[k].held
    BY DEF removeWaiter, SlotInv, TypeOK, PendingQueued, BearerIsHeld, EntriesHeld, Bearer, Pending
<1>2. /\ keys' = [x \in DOMAIN keys |->
                    IF x = k THEN [held |-> keys[k].held, waiters |-> v] ELSE keys[x]]
      /\ at' = [at EXCEPT ![c] = "refused"]
      /\ UNCHANGED <<next, closed, ctxDone>>
    BY <1>1 DEF removeWaiter, afterRemove, withWaiters, PutKey, Move
<1>3. /\ v \in Seq(Call)
      /\ \A i \in 1 .. Len(v) : v[i] # c /\ \E j \in 1 .. Len(w) : v[i] = w[j]
      /\ \A j \in 1 .. Len(w) : w[j] # c => \E i \in 1 .. Len(v) : v[i] = w[j]
      /\ \A i, j \in 1 .. Len(v) : v[i] = v[j] => i = j
    BY <1>1, WaitersWithoutFacts DEF SlotInv, WaitersDistinct
<1>4. /\ DOMAIN keys' = DOMAIN keys
      /\ \A x \in DOMAIN keys : x # k => keys'[x] = keys[x]
      /\ keys'[k].held = keys[k].held
      /\ keys'[k].waiters = v
      /\ keys'[k] \in keyQueueState
    BY <1>1, <1>2, <1>3 DEF keyQueueState
<1>5. TypeOK'
    BY <1>2, <1>4 DEF SlotInv, TypeOK, Place
<1>6. \A d \in Call : /\ (Popped(d)' <=> Popped(d))
                      /\ (d # c => at'[d] = at[d])
                      /\ (Pending(d)' <=> (Pending(d) /\ d # c))
    BY <1>2 DEF removeWaiter, Popped, Pending, SlotInv, TypeOK
<1>7. \A d \in Call : Bearer(d)' => Bearer(d)
    BY <1>2, <1>6 DEF Bearer, SlotInv, TypeOK
<1>8. OneBearer' /\ BearerIsHeld' /\ EntriesHeld'
    BY <1>1, <1>4, <1>7 DEF SlotInv, OneBearer, BearerIsHeld, EntriesHeld
<1>9. WaitersWait'
  <2> SUFFICES ASSUME NEW x \in DOMAIN keys, NEW i \in 1 .. Len(keys'[x].waiters),
                      NEW d, d = keys'[x].waiters[i]
               PROVE  KeyOf[d] = x /\ Pending(d)' /\ ~Popped(d)'
    BY <1>4 DEF WaitersWait
  <2>1. PICK j \in 1 .. Len(keys[x].waiters) : d = keys[x].waiters[j] /\ d # c
    <3>1. CASE x = k
      BY <3>1, <1>3, <1>4
    <3>2. CASE x # k
      <4>1. d = keys[x].waiters[i] /\ i \in 1 .. Len(keys[x].waiters)
        BY <3>2, <1>4
      <4> QED
        BY <3>2, <4>1 DEF SlotInv, WaitersWait
    <3> QED
      BY <3>1, <3>2
  <2>2. d \in Call
    BY <2>1 DEF SlotInv, TypeOK, keyQueueState
  <2> QED
    BY <2>1, <2>2, <1>6 DEF SlotInv, WaitersWait
<1>10. WaitersDistinct'
    BY <1>3, <1>4 DEF SlotInv, WaitersDistinct
<1>11. PendingQueued'
  <2> SUFFICES ASSUME NEW d \in Call, d # c, Pending(d), ~Popped(d)
               PROVE  /\ KeyOf[d] \in DOMAIN keys
                      /\ \E i \in 1 .. Len(keys'[KeyOf[d]].waiters) :
                            keys'[KeyOf[d]].waiters[i] = d
    BY <1>4, <1>6 DEF PendingQueued
  <2>1. PICK j \in 1 .. Len(keys[KeyOf[d]].waiters) :
            KeyOf[d] \in DOMAIN keys /\ keys[KeyOf[d]].waiters[j] = d
    BY DEF SlotInv, PendingQueued
  <2>2. CASE KeyOf[d] = k
    BY <2>1, <2>2, <1>3, <1>4
  <2>3. CASE KeyOf[d] # k
    BY <2>1, <2>3, <1>4
  <2> QED
    BY <2>2, <2>3
<1>12. PoppedStarted'
    BY <1>2 DEF SlotInv, PoppedStarted, TypeOK
<1> QED
    BY <1>5, <1>8, <1>9, <1>10, <1>11, <1>12 DEF SlotInv

\* release with an empty queue: the owner is the only bearer of its key and
\* nobody waits, so the entry may go.
LEMMA ReleaseIdleInv ==
    ASSUME SlotInv, NEW c \in Call, at[c] = "owner", releaseIdle(c)
    PROVE  SlotInv'
<1> DEFINE k == KeyOf[c]
<1> USE KeyOfType
<1>1. Bearer(c) /\ k \in DOMAIN keys /\ keys[k].waiters = <<>>
    BY DEF Bearer, SlotInv, BearerIsHeld, releaseIdle, stateOf
<1>2. /\ keys' = [x \in DOMAIN keys \ {k} |-> keys[x]]
      /\ at' = [at EXCEPT ![c] = "released"]
      /\ UNCHANGED <<next, closed, ctxDone>>
    BY DEF releaseIdle, DeleteKey, Move
<1>3. /\ DOMAIN keys' = DOMAIN keys \ {k}
      /\ \A x \in DOMAIN keys' : keys'[x] = keys[x]
    BY <1>2
<1>4. TypeOK'
    BY <1>2, <1>3 DEF SlotInv, TypeOK, Place
<1>5. \A d \in Call : /\ (Popped(d)' <=> Popped(d))
                      /\ (d # c => at'[d] = at[d])
                      /\ (Pending(d)' <=> Pending(d))
    BY <1>2 DEF Popped, Pending, SlotInv, TypeOK
<1>6. \A d \in Call : Bearer(d)' => Bearer(d) /\ d # c
    BY <1>2, <1>5 DEF Bearer, Pending, SlotInv, TypeOK
<1>7. \A d \in Call : Bearer(d)' => KeyOf[d] # k
    BY <1>1, <1>6 DEF SlotInv, OneBearer
<1>8. \A d \in Call : Pending(d) /\ ~Popped(d) => KeyOf[d] # k
    BY <1>1 DEF SlotInv, PendingQueued
<1>9. OneBearer' /\ BearerIsHeld' /\ EntriesHeld' /\ WaitersDistinct'
    BY <1>3, <1>6, <1>7 DEF SlotInv, OneBearer, BearerIsHeld, EntriesHeld, WaitersDistinct
<1>10. WaitersWait'
    BY <1>3, <1>5 DEF SlotInv, WaitersWait, TypeOK, keyQueueState
<1>11. PendingQueued'
    BY <1>3, <1>5, <1>8 DEF SlotInv, PendingQueued
<1>12. PoppedStarted'
    BY <1>2 DEF SlotInv, PoppedStarted, TypeOK
<1> QED
    BY <1>4, <1>9, <1>10, <1>11, <1>12 DEF SlotInv

\* release with waiters: the slot moves from the owner to the head of the
\* waiters, which becomes the one bearer before it knows.
LEMMA ReleasePopInv ==
    ASSUME SlotInv, NEW c \in Call, at[c] = "owner", releasePop(c)
    PROVE  SlotInv'
<1> DEFINE k == KeyOf[c]
           w == keys[k].waiters
           h == Head(w)
           v == Tail(w)
<1> USE KeyOfType
<1>1. Bearer(c) /\ k \in DOMAIN keys /\ keys[k] \in keyQueueState /\ keys[k].held /\ w # <<>>
    BY DEF Bearer, SlotInv, TypeOK, BearerIsHeld, releasePop, stateOf
<1>2. /\ keys' = [x \in DOMAIN keys |->
                    IF x = k THEN [held |-> keys[k].held, waiters |-> v] ELSE keys[x]]
      /\ next' = [next EXCEPT ![c] = h]
      /\ at' = [at EXCEPT ![c] = "handing"]
      /\ UNCHANGED <<closed, ctxDone>>
    BY <1>1 DEF releasePop, stateOf, withWaiters, PutKey, Move
<1>3. /\ w \in Seq(Call) /\ v \in Seq(Call) /\ h = w[1] /\ h \in Call
      /\ Len(w) \in Nat /\ Len(w) > 0 /\ Len(v) = Len(w) - 1
      /\ \A i \in 1 .. Len(v) : v[i] = w[i + 1]
    BY <1>1 DEF keyQueueState
<1>4. /\ DOMAIN keys' = DOMAIN keys
      /\ \A x \in DOMAIN keys : x # k => keys'[x] = keys[x]
      /\ keys'[k].held = keys[k].held
      /\ keys'[k].waiters = v
      /\ keys'[k] \in keyQueueState
    BY <1>1, <1>2, <1>3 DEF keyQueueState
<1>5. TypeOK'
    BY <1>2, <1>3, <1>4 DEF SlotInv, TypeOK, Place
<1>6. KeyOf[h] = k /\ Pending(h) /\ ~Popped(h) /\ h # c /\ h \notin closed
    BY <1>1, <1>3 DEF SlotInv, WaitersWait, Pending, Popped
<1>7. \A d \in Call : /\ (d # c => at'[d] = at[d] /\ next'[d] = next[d])
                      /\ (Pending(d)' <=> Pending(d))
    BY <1>2 DEF Pending, SlotInv, TypeOK
<1>8. \A d \in Call : Popped(d)' <=> (Popped(d) \/ d = h)
  <2>1. at[c] # "handing" /\ at'[c] = "handing" /\ next'[c] = h
    BY <1>2, <1>3 DEF SlotInv, TypeOK
  <2>2. \A e \in Call : e # c => at'[e] = at[e] /\ next'[e] = next[e]
    BY <1>7
  <2> TAKE d \in Call
  <2>3. ASSUME Popped(d)' PROVE Popped(d) \/ d = h
    BY <1>2, <2>1, <2>2, <2>3 DEF Popped
  <2>4. ASSUME NEW e \in Call, at[e] = "handing", next[e] = d PROVE Popped(d)'
    BY <2>1, <2>2, <2>4 DEF Popped
  <2>5. ASSUME d = h \/ d \in closed PROVE Popped(d)'
    BY <1>2, <2>1, <2>5 DEF Popped
  <2>6. ASSUME Popped(d) PROVE Popped(d)'
    <3>1. CASE d \in closed
      BY <2>5, <3>1
    <3>2. CASE \E e \in Call : at[e] = "handing" /\ next[e] = d
      BY <2>4, <3>2
    <3> QED
      BY <2>6, <3>1, <3>2 DEF Popped
  <2> QED
    BY <2>3, <2>5, <2>6
<1>9. \A d \in Call : Bearer(d)' => d = h \/ (Bearer(d) /\ d # c)
  <2>1. at'[c] = "handing" /\ ~Pending(c)
    BY <1>2 DEF SlotInv, TypeOK, Pending
  <2>2. ~Bearer(c)'
    BY <2>1, <1>7 DEF Bearer
  <2> QED
    BY <2>2, <1>7, <1>8 DEF Bearer
<1>10. \A d \in Call : Bearer(d)' /\ KeyOf[d] = k => d = h
    BY <1>1, <1>9 DEF SlotInv, OneBearer
<1>11. OneBearer'
    BY <1>6, <1>9, <1>10 DEF SlotInv, OneBearer
<1>12. BearerIsHeld' /\ EntriesHeld'
    BY <1>1, <1>4, <1>6, <1>9 DEF SlotInv, BearerIsHeld, EntriesHeld
<1>13. \A i \in 1 .. Len(v) : i + 1 \in 1 .. Len(w) /\ v[i] = w[i + 1] /\ v[i] # h
  <2> TAKE i \in 1 .. Len(v)
  <2>1. i + 1 \in 1 .. Len(w) /\ 1 \in 1 .. Len(w) /\ i + 1 # 1
    BY <1>3
  <2> QED
    BY <2>1, <1>1, <1>3 DEF SlotInv, WaitersDistinct
<1>14. WaitersWait'
  <2> SUFFICES ASSUME NEW x \in DOMAIN keys, NEW i \in 1 .. Len(keys'[x].waiters),
                      NEW d, d = keys'[x].waiters[i]
               PROVE  KeyOf[d] = x /\ Pending(d)' /\ ~Popped(d)'
    BY <1>4 DEF WaitersWait
  <2>1. PICK j \in 1 .. Len(keys[x].waiters) : d = keys[x].waiters[j] /\ d # h
    <3>1. CASE x = k
      BY <3>1, <1>4, <1>13
    <3>2. CASE x # k
      <4>1. d = keys[x].waiters[i] /\ i \in 1 .. Len(keys[x].waiters)
        BY <3>2, <1>4
      <4> QED
        BY <3>2, <4>1, <1>6 DEF SlotInv, WaitersWait
    <3> QED
      BY <3>1, <3>2
  <2>2. d \in Call
    BY <2>1 DEF SlotInv, TypeOK, keyQueueState
  <2> QED
    BY <2>1, <2>2, <1>7, <1>8 DEF SlotInv, WaitersWait
<1>15. WaitersDistinct'
  <2> SUFFICES ASSUME NEW x \in DOMAIN keys,
                      NEW i \in 1 .. Len(keys'[x].waiters),
                      NEW j \in 1 .. Len(keys'[x].waiters),
                      keys'[x].waiters[i] = keys'[x].waiters[j]
               PROVE  i = j
    BY <1>4 DEF WaitersDistinct
  <2>1. CASE x = k
    <3>1. i + 1 = j + 1
      BY <2>1, <1>1, <1>4, <1>13 DEF SlotInv, WaitersDistinct
    <3> QED
      BY <3>1, <2>1, <1>3, <1>4
  <2>2. CASE x # k
    BY <2>2, <1>4 DEF SlotInv, WaitersDistinct
  <2> QED
    BY <2>1, <2>2
<1>16. PendingQueued'
  <2> SUFFICES ASSUME NEW d \in Call, d # h, Pending(d), ~Popped(d)
               PROVE  /\ KeyOf[d] \in DOMAIN keys
                      /\ \E i \in 1 .. Len(keys'[KeyOf[d]].waiters) :
                            keys'[KeyOf[d]].waiters[i] = d
    BY <1>4, <1>7, <1>8 DEF PendingQueued
  <2>1. PICK j \in 1 .. Len(keys[KeyOf[d]].waiters) :
            KeyOf[d] \in DOMAIN keys /\ keys[KeyOf[d]].waiters[j] = d
    BY DEF SlotInv, PendingQueued
  <2>2. CASE KeyOf[d] = k
    <3>1. j # 1
      BY <2>1, <2>2, <1>3
    <3>2. j - 1 \in 1 .. Len(v) /\ v[j - 1] = d
      BY <2>1, <2>2, <3>1, <1>3
    <3> QED
      BY <2>1, <2>2, <3>2, <1>4
  <2>3. CASE KeyOf[d] # k
    BY <2>1, <2>3, <1>4
  <2> QED
    BY <2>2, <2>3
<1>17. PoppedStarted'
  <2>1. \A d \in Call : at'[d] # "new" <=> at[d] # "new"
    BY <1>2 DEF SlotInv, TypeOK
  <2>2. \A d \in Call : at'[d] = "handing" => d = c \/ (at[d] = "handing" /\ next'[d] = next[d])
    BY <1>7
  <2>3. next'[c] = h /\ at[h] # "new"
    BY <1>2, <1>6 DEF SlotInv, TypeOK, Pending
  <2>4. \A d \in Call : at[d] = "handing" => next[d] # h
    BY <1>6 DEF Popped
  <2> QED
    BY <2>1, <2>2, <2>3, <2>4, <1>2, <1>3, <1>6 DEF SlotInv, PoppedStarted, TypeOK
<1> QED
    BY <1>5, <1>11, <1>12, <1>14, <1>15, <1>16, <1>17 DEF SlotInv

\* close(next): the popped call was a bearer already.
LEMMA CloseNextInv ==
    ASSUME SlotInv, NEW c \in Call, closeNext(c)
    PROVE  SlotInv'
<1> USE KeyOfType
<1>1. /\ UNCHANGED <<keys, next, ctxDone>>
      /\ closed' = closed \cup {next[c]}
      /\ at' = [at EXCEPT ![c] = "released"]
      /\ at[c] = "handing"
    BY DEF closeNext, Move
<1>2. TypeOK'
    BY <1>1 DEF SlotInv, TypeOK, Place
<1>3. \A d \in Call : Popped(d)' <=> Popped(d)
    BY <1>1 DEF Popped, SlotInv, TypeOK
<1>4. \A d \in Call : (Pending(d)' <=> Pending(d)) /\ (Bearer(d)' <=> Bearer(d))
    BY <1>1, <1>3 DEF Pending, Bearer, SlotInv, TypeOK
<1>5. OneBearer' /\ BearerIsHeld' /\ WaitersDistinct' /\ EntriesHeld' /\ PendingQueued'
    BY <1>1, <1>3, <1>4
    DEF SlotInv, OneBearer, BearerIsHeld, WaitersDistinct, EntriesHeld, PendingQueued
<1>6. WaitersWait'
    BY <1>1, <1>3, <1>4 DEF SlotInv, WaitersWait, TypeOK, keyQueueState
<1>7. PoppedStarted'
    BY <1>1 DEF SlotInv, PoppedStarted, TypeOK
<1> QED
    BY <1>2, <1>5, <1>6, <1>7 DEF SlotInv

\* Every step keeps the invariant.
LEMMA NextSlotInv == SlotInv /\ [Next]_vars => SlotInv'
<1> SUFFICES ASSUME SlotInv, [Next]_vars PROVE SlotInv'
    OBVIOUS
<1>1. ASSUME NEW c \in Call, tryAcquire(c) PROVE SlotInv'
  <2>1. CASE takeSlot(c)
    BY <1>1, <2>1, TakeSlotInv DEF tryAcquire
  <2>2. CASE ~takeSlot(c)
    BY <1>1, <2>2, MoveInv DEF tryAcquire, Move, SlotInv, TypeOK
  <2> QED
    BY <2>1, <2>2
<1>2. ASSUME NEW c \in Call, acquire(c) PROVE SlotInv'
    BY <1>2, TakeSlotInv, EnqueueInv DEF acquire
<1>3. ASSUME NEW c \in Call, waiterReady(c) PROVE SlotInv'
    BY <1>3, MoveInv DEF waiterReady, Move, SlotInv, TypeOK
<1>4. ASSUME NEW c \in Call, ctxReady(c) PROVE SlotInv'
    BY <1>4, MoveInv DEF ctxReady, Move, SlotInv, TypeOK
<1>5. ASSUME NEW c \in Call, removeWaiter(c) PROVE SlotInv'
    BY <1>5, RemoveWaiterInv
<1>6. ASSUME NEW c \in Call, release(c) PROVE SlotInv'
    BY <1>6, ReleaseIdleInv, ReleasePopInv DEF release
<1>7. ASSUME NEW c \in Call, closeNext(c) PROVE SlotInv'
    BY <1>7, CloseNextInv
<1>8. ASSUME NEW c \in Call, cancelContext(c) PROVE SlotInv'
    BY <1>8, CancelContextInv
<1>9. CASE UNCHANGED vars
    BY <1>9 DEF vars, SlotInv, TypeOK, OneBearer, BearerIsHeld, WaitersWait, WaitersDistinct,
        PendingQueued, PoppedStarted, EntriesHeld, Bearer, Pending, Popped
<1> QED
    BY <1>1, <1>2, <1>3, <1>4, <1>5, <1>6, <1>7, <1>8, <1>9 DEF Next, Step, Quiescent

\* SlotInv holds in every reachable state: the slot of a key is with at most
\* one call, and the map and the channels agree on which.
THEOREM SlotInvariant == Spec => []SlotInv
<1>1. Init => SlotInv
    BY InitSlotInv
<1>2. SlotInv /\ [Next]_vars => SlotInv'
    BY NextSlotInv
<1> QED
    BY <1>1, <1>2, PTL DEF Spec

\* localKeyQueue never lets two calls own the slot of one key.
THEOREM QueueMutualExclusion == Spec => []MutualExclusion
<1>1. SlotInv => MutualExclusion
    BY DEF SlotInv, OneBearer, Bearer, MutualExclusion
<1> QED
    BY <1>1, SlotInvariant, PTL

-----------------------------------------------------------------------------
(***************************************************************************)
(* The queue implements FifoLock.  A step on the entry of one key is a     *)
(* step of the abstract lock on that key; the mapping of the others stays. *)
(***************************************************************************)

\* The line made of the call in front, if there is one, and the queued ones.
LineFrom(front, queued) ==
    IF front = {} THEN queued ELSE <<CHOOSE c \in front : TRUE>> \o queued

\* One call in front.
LEMMA LineFromOne ==
    ASSUME NEW c, NEW q PROVE LineFrom({c}, q) = <<c>> \o q
    BY DEF LineFrom

\* Nobody in front.
LEMMA LineFromNone ==
    ASSUME NEW q PROVE LineFrom({}, q) = q
    BY DEF LineFrom

\* What the steps do to a line with one call in front of the queue.
LEMMA ConsFacts ==
    ASSUME NEW S, NEW c \in S, NEW q \in Seq(S)
    PROVE  /\ <<c>> \o q \in Seq(S)
           /\ <<c>> \o q # <<>>
           /\ Len(<<c>> \o q) = Len(q) + 1
           /\ Head(<<c>> \o q) = c
           /\ Tail(<<c>> \o q) = q
           /\ (<<c>> \o q)[1] = c
           /\ \A i \in 1 .. Len(q) : (<<c>> \o q)[i + 1] = q[i]
    OBVIOUS

\* Joining the queue is joining the line.
LEMMA AppendCons ==
    ASSUME NEW S, NEW c \in S, NEW d \in S, NEW q \in Seq(S)
    PROVE  Append(<<c>> \o q, d) = <<c>> \o Append(q, d)
    OBVIOUS

\* A queue whose head moves to the front is the same line.
LEMMA SplitHead ==
    ASSUME NEW S, NEW q \in Seq(S), q # <<>>
    PROVE  <<Head(q)>> \o Tail(q) = q
    OBVIOUS

\* The refinement mapping, key by key.
LEMMA LineIs == \A k : lineOf(k) = LineFrom(inFront(k), stateOf(k).waiters)
    BY DEF lineOf, LineFrom

\* The mapping of a key changes only with the calls and the entry of that key.
LEMMA SameKey ==
    ASSUME NEW k \in Key,
           \A d \in Call : KeyOf[d] = k => /\ (at'[d] = "owner" <=> at[d] = "owner")
                                           /\ (Pending(d)' /\ Popped(d)' <=> Pending(d) /\ Popped(d)),
           stateOf(k)' = stateOf(k)
    PROVE  holderOf(k)' = holderOf(k) /\ lineOf(k)' = lineOf(k)
<1>1. inFront(k)' = inFront(k) /\ holderOf(k)' = holderOf(k)
    BY DEF inFront, holderOf
<1>2. LineFrom(inFront(k)', stateOf(k)'.waiters) = LineFrom(inFront(k), stateOf(k).waiters)
    BY <1>1
<1>3. lineOf(k)' = LineFrom(inFront(k)', stateOf(k)'.waiters)
    BY DEF lineOf, LineFrom
<1> QED
    BY <1>1, <1>2, <1>3, LineIs

\* A step that changes nothing the abstract lock can see.
LEMMA SeesNothing ==
    ASSUME \A k \in Key : holderOf(k)' = holderOf(k) /\ lineOf(k)' = lineOf(k)
    PROVE  UNCHANGED Fifo!vars
    BY DEF Fifo!vars

\* The line in the next state.
LEMMA LineIsNext == \A k : lineOf(k)' = LineFrom(inFront(k)', stateOf(k)'.waiters)
    BY DEF lineOf, LineFrom

\* takeSlot is Take: an entry that is not held has neither holder nor line.
LEMMA TakeSlotTakes ==
    ASSUME SlotInv, NEW c \in Call, at[c] = "new", takeSlot(c)
    PROVE  Fifo!Take(c)
<1> DEFINE k == KeyOf[c]
<1> USE KeyOfType
<1>0. k \in Key
    OBVIOUS
<1>1. k \notin DOMAIN keys
    BY DEF takeSlot, SlotInv, EntriesHeld, stateOf
<1>2. /\ keys' = [x \in DOMAIN keys \cup {k} |->
                    IF x = k THEN [held |-> TRUE, waiters |-> <<>>] ELSE keys[x]]
      /\ at' = [at EXCEPT ![c] = "owner"]
      /\ UNCHANGED <<next, closed, ctxDone>>
    BY <1>1 DEF takeSlot, stateOf, newState, PutKey, Move
<1>3. \A d \in Call : /\ (Popped(d)' <=> Popped(d))
                      /\ (Pending(d)' <=> Pending(d))
                      /\ (d # c => at'[d] = at[d])
    BY <1>2 DEF Popped, Pending, SlotInv, TypeOK
<1>4. \A d \in Call : KeyOf[d] = k => ~Bearer(d)
    BY <1>1 DEF SlotInv, BearerIsHeld
<1>5. holderOf(k) = {} /\ inFront(k) = {} /\ inFront(k)' = {} /\ holderOf(k)' = {c}
    BY <1>2, <1>3, <1>4 DEF holderOf, inFront, Bearer, SlotInv, TypeOK
<1>6. stateOf(k).waiters = <<>> /\ stateOf(k)'.waiters = <<>>
    BY <1>1, <1>2 DEF stateOf, newState
<1>7. lineOf(k) = <<>> /\ lineOf(k)' = <<>>
    BY <1>5, <1>6, LineIs, LineIsNext, LineFromNone
<1>8. ASSUME NEW x \in Key, x # k
      PROVE  holderOf(x)' = holderOf(x) /\ lineOf(x)' = lineOf(x)
  <2>1. stateOf(x)' = stateOf(x)
    BY <1>2, <1>8 DEF stateOf, newState
  <2> QED
    BY <2>1, <1>3, <1>8, SameKey
<1> QED
    BY <1>0, <1>5, <1>7, <1>8 DEF Fifo!Take

\* enqueue is Join.
LEMMA EnqueueJoins ==
    ASSUME SlotInv, NEW c \in Call, at[c] = "new", enqueue(c)
    PROVE  Fifo!Join(c)
<1> DEFINE k == KeyOf[c]
           w == keys[k].waiters
<1> USE KeyOfType
<1>0. k \in Key
    OBVIOUS
<1>1. k \in DOMAIN keys /\ keys[k] \in keyQueueState /\ w \in Seq(Call)
    BY DEF enqueue, stateOf, newState, SlotInv, TypeOK, keyQueueState
<1>2. /\ keys' = [x \in DOMAIN keys |->
                    IF x = k THEN [held |-> keys[k].held, waiters |-> Append(w, c)]
                    ELSE keys[x]]
      /\ at' = [at EXCEPT ![c] = "waiting"]
      /\ UNCHANGED <<next, closed, ctxDone>>
    BY <1>1 DEF enqueue, stateOf, withWaiters, PutKey, Move
<1>3. ~Popped(c)
    BY DEF Popped, SlotInv, PoppedStarted
<1>4. \A d \in Call : /\ (at'[d] = "owner" <=> at[d] = "owner")
                      /\ (Pending(d)' /\ Popped(d)' <=> Pending(d) /\ Popped(d))
    BY <1>2, <1>3 DEF Popped, Pending, SlotInv, TypeOK
<1>5. holderOf(k)' = holderOf(k) /\ inFront(k)' = inFront(k)
    BY <1>4 DEF holderOf, inFront
<1>6. stateOf(k).waiters = w /\ stateOf(k)'.waiters = Append(w, c)
    BY <1>1, <1>2 DEF stateOf
<1>7. lineOf(k)' = Append(lineOf(k), c)
  <2>1. CASE inFront(k) = {}
    BY <2>1, <1>5, <1>6, LineIs, LineIsNext, LineFromNone
  <2>2. CASE inFront(k) # {}
    <3>1. PICK f \in inFront(k) : inFront(k) = {f}
      BY <2>2 DEF inFront, SlotInv, OneBearer, Bearer
    <3>2. f \in Call
      BY <3>1 DEF inFront
    <3>3. lineOf(k) = <<f>> \o w /\ lineOf(k)' = <<f>> \o Append(w, c)
      BY <3>1, <1>5, <1>6, LineIs, LineIsNext, LineFromOne
    <3>4. Append(<<f>> \o w, c) = <<f>> \o Append(w, c)
      BY <3>2, <1>1, AppendCons
    <3> QED
      BY <3>3, <3>4
  <2> QED
    BY <2>1, <2>2
<1>8. ASSUME NEW x \in Key, x # k
      PROVE  holderOf(x)' = holderOf(x) /\ lineOf(x)' = lineOf(x)
  <2>1. stateOf(x)' = stateOf(x)
    BY <1>2, <1>8 DEF stateOf
  <2> QED
    BY <2>1, <1>4, SameKey
<1>9. \A x \in Key : holderOf(x)' = holderOf(x)
    BY <1>5, <1>8
<1> QED
    BY <1>0, <1>7, <1>8, <1>9 DEF Fifo!Join

\* waiterReady is Grant: the call was in front, and nobody held the slot.
LEMMA WaiterReadyGrants ==
    ASSUME SlotInv, NEW c \in Call, waiterReady(c)
    PROVE  Fifo!Grant(c)
<1> DEFINE k == KeyOf[c]
           w == stateOf(k).waiters
<1> USE KeyOfType
<1>0. k \in Key
    OBVIOUS
<1>1. /\ UNCHANGED <<keys, next, closed, ctxDone>>
      /\ at' = [at EXCEPT ![c] = "owner"]
      /\ Pending(c) /\ Popped(c) /\ at[c] = "waiting"
    BY DEF waiterReady, Move, Pending, Popped
<1>2. \A d \in Call : Bearer(d) /\ KeyOf[d] = k => d = c
    BY <1>1 DEF SlotInv, OneBearer, Bearer
<1>3. inFront(k) = {c} /\ holderOf(k) = {}
    BY <1>1, <1>2 DEF inFront, holderOf, Bearer
<1>4. \A d \in Call : /\ (Popped(d)' <=> Popped(d))
                      /\ (Pending(d)' <=> (Pending(d) /\ d # c))
                      /\ (at'[d] = "owner" <=> (at[d] = "owner" \/ d = c))
    BY <1>1 DEF Popped, Pending, SlotInv, TypeOK
<1>5. inFront(k)' = {} /\ holderOf(k)' = {c}
    BY <1>2, <1>3, <1>4 DEF inFront, holderOf, Bearer
<1>6. \A x \in Key : stateOf(x)' = stateOf(x)
    BY <1>1 DEF stateOf
<1>7. w \in Seq(Call)
    BY DEF stateOf, newState, SlotInv, TypeOK, keyQueueState
<1>8. lineOf(k) = <<c>> \o w /\ lineOf(k)' = w
    BY <1>0, <1>3, <1>5, <1>6, LineIs, LineIsNext, LineFromOne, LineFromNone
<1>9. ASSUME NEW x \in Key, x # k
      PROVE  holderOf(x)' = holderOf(x) /\ lineOf(x)' = lineOf(x)
    BY <1>4, <1>6, <1>9, SameKey
<1>10. lineOf(k) # <<>> /\ Head(lineOf(k)) = c /\ Tail(lineOf(k)) = lineOf(k)'
    BY <1>7, <1>8, ConsFacts
<1> QED
    BY <1>0, <1>3, <1>5, <1>9, <1>10 DEF Fifo!Grant

\* Steps of calls that are not in front and own nothing: the abstract lock
\* sees them only if the map changes.
LEMMA MoveSeesNothing ==
    ASSUME SlotInv, UNCHANGED keys,
           \A d \in Call : /\ (at'[d] = "owner" <=> at[d] = "owner")
                           /\ (Pending(d)' /\ Popped(d)' <=> Pending(d) /\ Popped(d))
    PROVE  UNCHANGED Fifo!vars
<1>1. \A x \in Key : stateOf(x)' = stateOf(x)
    BY DEF stateOf
<1>2. \A x \in Key : holderOf(x)' = holderOf(x) /\ lineOf(x)' = lineOf(x)
    BY <1>1, SameKey
<1> QED
    BY <1>2, SeesNothing

\* releaseIdle is Free.
LEMMA ReleaseIdleFrees ==
    ASSUME SlotInv, NEW c \in Call, at[c] = "owner", releaseIdle(c)
    PROVE  Fifo!Free(c)
<1> DEFINE k == KeyOf[c]
<1> USE KeyOfType
<1>0. k \in Key
    OBVIOUS
<1>1. Bearer(c) /\ k \in DOMAIN keys /\ keys[k].waiters = <<>>
    BY DEF Bearer, SlotInv, BearerIsHeld, releaseIdle, stateOf
<1>2. /\ keys' = [x \in DOMAIN keys \ {k} |-> keys[x]]
      /\ at' = [at EXCEPT ![c] = "released"]
      /\ UNCHANGED <<next, closed, ctxDone>>
    BY DEF releaseIdle, DeleteKey, Move
<1>3. \A d \in Call : /\ (Popped(d)' <=> Popped(d))
                      /\ (Pending(d)' <=> Pending(d))
                      /\ (at'[d] = "owner" <=> (at[d] = "owner" /\ d # c))
    BY <1>2 DEF Popped, Pending, SlotInv, TypeOK
<1>4. \A d \in Call : Bearer(d) /\ KeyOf[d] = k => d = c
    BY <1>1 DEF SlotInv, OneBearer
<1>5. holderOf(k) = {c} /\ holderOf(k)' = {} /\ inFront(k) = {} /\ inFront(k)' = {}
    BY <1>3, <1>4 DEF holderOf, inFront, Bearer, Pending
<1>6. stateOf(k).waiters = <<>> /\ stateOf(k)'.waiters = <<>>
    BY <1>1, <1>2 DEF stateOf, newState
<1>7. lineOf(k)' = lineOf(k)
    BY <1>5, <1>6, LineIs, LineIsNext, LineFromNone
<1>8. ASSUME NEW x \in Key, x # k
      PROVE  holderOf(x)' = holderOf(x) /\ lineOf(x)' = lineOf(x)
  <2>1. stateOf(x)' = stateOf(x)
    BY <1>2, <1>8 DEF stateOf, newState
  <2> QED
    BY <2>1, <1>3, <1>8, SameKey
<1>9. \A x \in Key : lineOf(x)' = lineOf(x)
    BY <1>7, <1>8
<1> QED
    BY <1>0, <1>5, <1>8, <1>9 DEF Fifo!Free

\* What releasePop does to the calls: the head of the queue is popped.
LEMMA PopMarksHead ==
    ASSUME SlotInv, NEW c \in Call, NEW h \in Call, at[c] = "owner", h # c,
           next' = [next EXCEPT ![c] = h],
           at' = [at EXCEPT ![c] = "handing"],
           UNCHANGED closed
    PROVE  \A d \in Call : /\ (Popped(d)' <=> (Popped(d) \/ d = h))
                           /\ (Pending(d)' <=> Pending(d))
                           /\ (at'[d] = "owner" <=> (at[d] = "owner" /\ d # c))
<1>1. at'[c] = "handing" /\ next'[c] = h /\ at[c] # "handing"
    BY DEF SlotInv, TypeOK
<1>2. \A e \in Call : e # c => at'[e] = at[e] /\ next'[e] = next[e]
    BY DEF SlotInv, TypeOK
<1> TAKE d \in Call
<1>3. Popped(d)' => Popped(d) \/ d = h
    BY <1>1, <1>2 DEF Popped
<1>4. d = h => Popped(d)'
    BY <1>1 DEF Popped
<1>5. Popped(d) => Popped(d)'
  <2>1. CASE d \in closed
    BY <2>1 DEF Popped
  <2>2. ASSUME NEW e \in Call, at[e] = "handing", next[e] = d PROVE Popped(d)'
    BY <1>1, <1>2, <2>2 DEF Popped
  <2> QED
    BY <2>1, <2>2 DEF Popped
<1> QED
    BY <1>1, <1>2, <1>3, <1>4, <1>5 DEF Pending

\* releasePop is Free: the popped call is still the first of the line.
LEMMA ReleasePopFrees ==
    ASSUME SlotInv, NEW c \in Call, at[c] = "owner", releasePop(c)
    PROVE  Fifo!Free(c)
<1> DEFINE k == KeyOf[c]
           w == keys[k].waiters
           h == Head(w)
<1> USE KeyOfType
<1>0. k \in Key
    OBVIOUS
<1>1. Bearer(c) /\ k \in DOMAIN keys /\ keys[k] \in keyQueueState /\ w # <<>>
    BY DEF Bearer, SlotInv, TypeOK, BearerIsHeld, releasePop, stateOf
<1>2. /\ keys' = [x \in DOMAIN keys |->
                    IF x = k THEN [held |-> keys[k].held, waiters |-> Tail(w)] ELSE keys[x]]
      /\ next' = [next EXCEPT ![c] = h]
      /\ at' = [at EXCEPT ![c] = "handing"]
      /\ UNCHANGED <<closed, ctxDone>>
    BY <1>1 DEF releasePop, stateOf, withWaiters, PutKey, Move
<1>3. w \in Seq(Call) /\ h = w[1] /\ h \in Call /\ 1 \in 1 .. Len(w)
    BY <1>1 DEF keyQueueState
<1>4. KeyOf[h] = k /\ Pending(h) /\ ~Popped(h) /\ h # c
    BY <1>1, <1>3 DEF SlotInv, WaitersWait, Pending
<1>5. \A d \in Call : /\ (Popped(d)' <=> (Popped(d) \/ d = h))
                      /\ (Pending(d)' <=> Pending(d))
                      /\ (at'[d] = "owner" <=> (at[d] = "owner" /\ d # c))
    BY <1>2, <1>3, <1>4, PopMarksHead
<1>6. \A d \in Call : Bearer(d) /\ KeyOf[d] = k => d = c
    BY <1>1 DEF SlotInv, OneBearer
<1>7. holderOf(k) = {c} /\ holderOf(k)' = {} /\ inFront(k) = {} /\ inFront(k)' = {h}
    BY <1>3, <1>4, <1>5, <1>6 DEF holderOf, inFront, Bearer, Pending
<1>8. stateOf(k).waiters = w /\ stateOf(k)'.waiters = Tail(w)
    BY <1>1, <1>2 DEF stateOf
<1>9. lineOf(k) = w /\ lineOf(k)' = <<h>> \o Tail(w)
    BY <1>7, <1>8, LineIs, LineIsNext, LineFromNone, LineFromOne
<1>10. lineOf(k)' = lineOf(k)
    BY <1>1, <1>3, <1>9, SplitHead
<1>11. ASSUME NEW x \in Key, x # k
       PROVE  holderOf(x)' = holderOf(x) /\ lineOf(x)' = lineOf(x)
  <2>1. stateOf(x)' = stateOf(x)
    BY <1>2, <1>11 DEF stateOf
  <2> QED
    BY <2>1, <1>4, <1>5, <1>11, SameKey
<1>12. \A x \in Key : lineOf(x)' = lineOf(x)
    BY <1>10, <1>11
<1> QED
    BY <1>0, <1>7, <1>11, <1>12 DEF Fifo!Free

\* Leaving the front of the line.
LEMMA CutFront ==
    ASSUME NEW S, NEW f \in S, NEW q \in Seq(S)
    PROVE  Fifo!Without(<<f>> \o q, 1) = q
    BY DEF Fifo!Without

\* removeWaiter cuts the queue where the abstract lock cuts the line.
LEMMA CutBehind ==
    ASSUME NEW S, NEW f \in S, NEW q \in Seq(S), NEW i \in 1 .. Len(q)
    PROVE  /\ Fifo!Without(<<f>> \o q, i + 1) = <<f>> \o cutAt(q, i)
           /\ Fifo!Without(q, i) = cutAt(q, i)
    BY DEF Fifo!Without, cutAt

\* The call that removeWaiter cuts out of the queue is at the place found there.
LEMMA CutPlace ==
    ASSUME NEW s, s.waiters \in Seq(Call), NEW c \in Call,
           \E i \in 1 .. Len(s.waiters) : s.waiters[i] = c
    PROVE  \E i \in 1 .. Len(s.waiters) :
              s.waiters[i] = c /\ waitersWithout(s, c) = cutAt(s.waiters, i)
<1> DEFINE n == CHOOSE i \in 1 .. Len(s.waiters) : s.waiters[i] = c
<1>1. n \in 1 .. Len(s.waiters) /\ s.waiters[n] = c
    OBVIOUS
<1>2. waitersWithout(s, c) = cutAt(s.waiters, n)
    BY DEF waitersWithout
<1> QED
    BY <1>1, <1>2

\* removeWaiter is GiveUp: from the front of the line if the call was popped,
\* from its place in the queue otherwise.
LEMMA RemoveWaiterGivesUp ==
    ASSUME SlotInv, NEW c \in Call, removeWaiter(c)
    PROVE  Fifo!GiveUp(c)
<1> DEFINE k == KeyOf[c]
           w == keys[k].waiters
           v == waitersWithout(keys[k], c)
<1> USE KeyOfType
<1>0. k \in Key /\ at[c] = "cancelled" /\ Pending(c)
    BY DEF removeWaiter, Pending
<1>1. k \in DOMAIN keys /\ keys[k] \in keyQueueState /\ keys[k].held /\ w \in Seq(Call)
    BY DEF removeWaiter, SlotInv, TypeOK, PendingQueued, BearerIsHeld, EntriesHeld, Bearer,
           Pending, keyQueueState
<1>2. /\ keys' = [x \in DOMAIN keys |->
                    IF x = k THEN [held |-> keys[k].held, waiters |-> v] ELSE keys[x]]
      /\ at' = [at EXCEPT ![c] = "refused"]
      /\ UNCHANGED <<next, closed, ctxDone>>
    BY <1>1 DEF removeWaiter, afterRemove, withWaiters, PutKey, Move
<1>3. \A d \in Call : /\ (Popped(d)' <=> Popped(d))
                      /\ (Pending(d)' <=> (Pending(d) /\ d # c))
                      /\ (at'[d] = "owner" <=> at[d] = "owner")
    BY <1>2 DEF removeWaiter, Popped, Pending, SlotInv, TypeOK
<1>4. holderOf(k)' = holderOf(k)
    BY <1>3 DEF holderOf
<1>5. stateOf(k).waiters = w /\ stateOf(k)'.waiters = v
    BY <1>1, <1>2 DEF stateOf
<1>6. ASSUME NEW x \in Key, x # k
      PROVE  holderOf(x)' = holderOf(x) /\ lineOf(x)' = lineOf(x)
  <2>1. stateOf(x)' = stateOf(x)
    BY <1>2, <1>6 DEF stateOf
  <2> QED
    BY <2>1, <1>3, <1>6, SameKey
<1>7. \E i \in 1 .. Len(lineOf(k)) :
          lineOf(k)[i] = c /\ lineOf(k)' = Fifo!Without(lineOf(k), i)
  <2>1. CASE Popped(c)
    <3>1. \A d \in Call : Bearer(d) /\ KeyOf[d] = k => d = c
      BY <1>0, <2>1 DEF SlotInv, OneBearer, Bearer
    <3>2. inFront(k) = {c} /\ inFront(k)' = {}
      BY <1>0, <1>3, <2>1, <3>1 DEF inFront, Bearer
    <3>3. v = w
      BY <1>1, <2>1 DEF waitersWithout, SlotInv, WaitersWait
    <3>4. lineOf(k) = <<c>> \o w /\ lineOf(k)' = w
      BY <1>5, <3>2, <3>3, LineIs, LineIsNext, LineFromOne, LineFromNone
    <3>5. 1 \in 1 .. Len(<<c>> \o w) /\ (<<c>> \o w)[1] = c
      BY <1>1, ConsFacts
    <3>6. Fifo!Without(<<c>> \o w, 1) = w
      BY <1>1, CutFront
    <3> QED
      BY <3>4, <3>5, <3>6
  <2>2. CASE ~Popped(c)
    <3>1. \E i \in 1 .. Len(w) : w[i] = c
      BY <1>0, <2>2 DEF SlotInv, PendingQueued
    <3>2. PICK i \in 1 .. Len(w) : w[i] = c /\ v = cutAt(w, i)
      BY <1>1, <3>1, CutPlace
    <3>3. inFront(k)' = inFront(k)
      BY <1>3, <2>2 DEF inFront
    <3>4. CASE inFront(k) = {}
      <4>1. lineOf(k) = w /\ lineOf(k)' = v
        BY <1>5, <3>3, <3>4, LineIs, LineIsNext, LineFromNone
      <4>2. Fifo!Without(w, i) = cutAt(w, i)
        BY <1>1, CutBehind
      <4> QED
        BY <3>2, <4>1, <4>2
    <3>5. CASE inFront(k) # {}
      <4>1. PICK f \in inFront(k) : inFront(k) = {f}
        BY <3>5 DEF inFront, SlotInv, OneBearer, Bearer
      <4>2. f \in Call
        BY <4>1 DEF inFront
      <4>3. lineOf(k) = <<f>> \o w /\ lineOf(k)' = <<f>> \o v
        BY <1>5, <3>3, <4>1, LineIs, LineIsNext, LineFromOne
      <4>4. Fifo!Without(<<f>> \o w, i + 1) = <<f>> \o cutAt(w, i)
        BY <1>1, <4>2, CutBehind
      <4>5. i + 1 \in 1 .. Len(<<f>> \o w) /\ (<<f>> \o w)[i + 1] = c
        BY <1>1, <3>2, <4>2, ConsFacts
      <4> QED
        BY <3>2, <4>3, <4>4, <4>5
    <3> QED
      BY <3>4, <3>5
  <2> QED
    BY <2>1, <2>2
<1>8. \A x \in Key : holderOf(x)' = holderOf(x)
    BY <1>4, <1>6
<1> QED
    BY <1>0, <1>6, <1>7, <1>8 DEF Fifo!GiveUp

\* Every step of the queue is a step of the abstract lock or a stutter of it.
LEMMA NextRefines ==
    ASSUME SlotInv, [Next]_vars
    PROVE  [Fifo!Next]_(Fifo!vars)
<1>1. ASSUME NEW c \in Call, at[c] = "new", takeSlot(c) PROVE Fifo!Next
    BY <1>1, TakeSlotTakes DEF Fifo!Next
<1>2. ASSUME NEW c \in Call, tryAcquire(c), ~takeSlot(c) PROVE UNCHANGED Fifo!vars
  <2>1. UNCHANGED <<keys, next, closed>> /\ at[c] = "new" /\ at' = [at EXCEPT ![c] = "refused"]
    BY <1>2 DEF tryAcquire, Move
  <2>2. \A d \in Call : /\ (at'[d] = "owner" <=> at[d] = "owner")
                        /\ (Pending(d)' /\ Popped(d)' <=> Pending(d) /\ Popped(d))
    BY <2>1 DEF Pending, Popped, SlotInv, TypeOK
  <2> QED
    BY <2>1, <2>2, MoveSeesNothing
<1>3. ASSUME NEW c \in Call, acquire(c), ~takeSlot(c) PROVE Fifo!Next
    BY <1>3, EnqueueJoins DEF acquire, Fifo!Next
<1>4. ASSUME NEW c \in Call, waiterReady(c) PROVE Fifo!Next
    BY <1>4, WaiterReadyGrants DEF Fifo!Next
<1>5. ASSUME NEW c \in Call, ctxReady(c) PROVE UNCHANGED Fifo!vars
  <2>1. UNCHANGED <<keys, next, closed>> /\ at[c] = "waiting" /\ at' = [at EXCEPT ![c] = "cancelled"]
    BY <1>5 DEF ctxReady, Move
  <2>2. \A d \in Call : /\ (at'[d] = "owner" <=> at[d] = "owner")
                        /\ (Pending(d)' /\ Popped(d)' <=> Pending(d) /\ Popped(d))
    BY <2>1 DEF Pending, Popped, SlotInv, TypeOK
  <2> QED
    BY <2>1, <2>2, MoveSeesNothing
<1>6. ASSUME NEW c \in Call, removeWaiter(c) PROVE Fifo!Next
    BY <1>6, RemoveWaiterGivesUp DEF Fifo!Next
<1>7. ASSUME NEW c \in Call, release(c) PROVE Fifo!Next
    BY <1>7, ReleaseIdleFrees, ReleasePopFrees DEF release, Fifo!Next
<1>8. ASSUME NEW c \in Call, closeNext(c) PROVE UNCHANGED Fifo!vars
  <2>1. /\ UNCHANGED <<keys, next>> /\ at[c] = "handing"
        /\ at' = [at EXCEPT ![c] = "released"] /\ closed' = closed \cup {next[c]}
    BY <1>8 DEF closeNext, Move
  <2>2. \A d \in Call : /\ (at'[d] = "owner" <=> at[d] = "owner")
                        /\ (Pending(d)' /\ Popped(d)' <=> Pending(d) /\ Popped(d))
    BY <2>1 DEF Pending, Popped, SlotInv, TypeOK
  <2> QED
    BY <2>1, <2>2, MoveSeesNothing
<1>9. ASSUME UNCHANGED <<keys, at, next, closed>> PROVE UNCHANGED Fifo!vars
  <2>1. \A d \in Call : /\ (at'[d] = "owner" <=> at[d] = "owner")
                        /\ (Pending(d)' /\ Popped(d)' <=> Pending(d) /\ Popped(d))
    BY <1>9 DEF Pending, Popped
  <2> QED
    BY <1>9, <2>1, MoveSeesNothing
<1>10. ASSUME NEW c \in Call, cancelContext(c) PROVE UNCHANGED Fifo!vars
    BY <1>9, <1>10 DEF cancelContext
<1>11. CASE UNCHANGED vars
    BY <1>9, <1>11 DEF vars
<1>12. ASSUME NEW c \in Call, Step(c) PROVE Fifo!Next \/ UNCHANGED Fifo!vars
    BY <1>1, <1>2, <1>3, <1>4, <1>5, <1>6, <1>7, <1>8, <1>12 DEF Step, tryAcquire, acquire
<1> QED
    BY <1>10, <1>11, <1>12 DEF Next, Quiescent

\* localKeyQueue implements the FIFO lock, whatever contexts end: the slot
\* passes to callers in the order in which they queued, and to nobody else.
THEOREM QueueImplementsFifo == Spec => ImplementsFifo
<1>1. Init => Fifo!Init
  <2> SUFFICES ASSUME Init PROVE Fifo!Init
    OBVIOUS
  <2>1. \A k \in Key : holderOf(k) = {} /\ inFront(k) = {} /\ stateOf(k).waiters = <<>>
    BY DEF Init, holderOf, inFront, Pending, stateOf, newState
  <2>2. \A k \in Key : lineOf(k) = <<>>
    BY <2>1, LineIs, LineFromNone
  <2> QED
    BY <2>1, <2>2 DEF Fifo!Init
<1>2. SlotInv /\ [Next]_vars => [Fifo!Next]_(Fifo!vars)
    BY NextRefines
<1> QED
    BY <1>1, <1>2, SlotInvariant, PTL DEF Spec, ImplementsFifo, Fifo!Spec

=============================================================================
