------------------------------- MODULE Dedupe -------------------------------
(***************************************************************************)
(* The Deduplicator (internal/dedupe/manager.go): marks with a TTL in      *)
(* Redis.  An operation is the set of its outcomes: the marks afterwards   *)
(* and the answer the caller sees.  A command may fail before Redis        *)
(* executes it; the reply of one that was executed may be lost, and        *)
(* go-redis then reports an error or sends the command again.              *)
(***************************************************************************)

VARIABLE marks      \* the keys that are set in Redis

outcome(after, answer) == [marks |-> after, answer |-> answer]

\* Mutant: SET without NX.
SetAlways(key) == outcome(marks \cup {key}, "yes")

\* RedisBackend.TryMark: SET NX with the TTL.
SetNX(key) == outcome(marks \cup {key}, IF key \in marks THEN "no" ELSE "yes")

\* Manager.TryMark with a valid key and TTL.
TryMark(key) == {SetNX(key)}

\* TryMark when something goes wrong; the second SET NX of a retry finds the
\* mark the first one has set.
TryMarkFaulty(key) ==
    {outcome(marks, "error"), outcome(marks \cup {key}, "error"),
     outcome(marks \cup {key}, "no")}

\* Manager.Marked: EXISTS.
Marked(key) == key \in marks

\* Manager.Clear: DEL.
Clear(key) == {outcome(marks \ {key}, "yes")}

ClearFaulty(key) == {outcome(marks, "error"), outcome(marks \ {key}, "error")}

\* The TTL of a mark runs out.
expired(key) == marks \ {key}
=============================================================================
