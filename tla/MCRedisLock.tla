----------------------------- MODULE MCRedisLock -----------------------------
(***************************************************************************)
(* Instances of RedisLock for TLC: two calls in one process contend for    *)
(* its queue, a third one in another process contends for the Redis key.   *)
(***************************************************************************)
EXTENDS RedisLock, TLC

CONSTANTS c1, c2, c3, p1, p2

MCHome == [c \in Call |-> IF c = c3 THEN p2 ELSE p1]

\* c1 is the call with a watchdog.
MCApiOf == [c \in Call |-> IF c = c1 THEN "WithLock" ELSE "Acquire"]

\* Both calls of the first process run callbacks.
MCApiOfLive == [c \in Call |-> IF c = c3 THEN "TryLock" ELSE "WithLock"]

=============================================================================
