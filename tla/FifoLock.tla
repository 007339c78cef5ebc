------------------------------- MODULE FifoLock -------------------------------
(***************************************************************************)
(* What the process-local queue promises: per key, at most one call holds  *)
(* the slot, calls that have to wait stand in one line, and the slot goes  *)
(* to the head of the line and to nobody else.  A waiting call may give    *)
(* up from any position.  No mutex, channels or map entries here:          *)
(* LocalKeyQueue implements this specification.                            *)
(***************************************************************************)
EXTENDS Naturals, Sequences

CONSTANTS Call, Key, KeyOf

VARIABLES
    holder,   \* holder[k]: the calls that hold the slot of k, at most one
    line      \* line[k]: the calls waiting for it, first come first

vars == <<holder, line>>

Init ==
    /\ holder = [k \in Key |-> {}]
    /\ line = [k \in Key |-> <<>>]

\* Nobody holds the slot and nobody waits for it: no queueing.
Take(c) ==
    /\ holder[KeyOf[c]] = {}
    /\ line[KeyOf[c]] = <<>>
    /\ holder' = [holder EXCEPT ![KeyOf[c]] = {c}]
    /\ UNCHANGED line

Join(c) ==
    /\ line' = [line EXCEPT ![KeyOf[c]] = Append(@, c)]
    /\ UNCHANGED holder

\* The line without its i-th call; the order of the others stays.
Without(s, i) == [j \in 1 .. Len(s) - 1 |-> IF j < i THEN s[j] ELSE s[j + 1]]

GiveUp(c) ==
    /\ \E i \in 1 .. Len(line[KeyOf[c]]) :
          /\ line[KeyOf[c]][i] = c
          /\ line' = [line EXCEPT ![KeyOf[c]] = Without(@, i)]
    /\ UNCHANGED holder

\* The free slot goes to the head of the line.
Grant(c) ==
    /\ holder[KeyOf[c]] = {}
    /\ line[KeyOf[c]] # <<>>
    /\ Head(line[KeyOf[c]]) = c
    /\ holder' = [holder EXCEPT ![KeyOf[c]] = {c}]
    /\ line' = [line EXCEPT ![KeyOf[c]] = Tail(@)]

Free(c) ==
    /\ holder[KeyOf[c]] = {c}
    /\ holder' = [holder EXCEPT ![KeyOf[c]] = {}]
    /\ UNCHANGED line

Next == \E c \in Call : Take(c) \/ Join(c) \/ GiveUp(c) \/ Grant(c) \/ Free(c)

Spec == Init /\ [][Next]_vars

===============================================================================
