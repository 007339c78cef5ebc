------------------------ MODULE RabbitConsumerProofs ------------------------
(***************************************************************************)
(* The invariants of RabbitConsumer for any number of subscriptions,       *)
(* messages, options, faults and restarts.                                 *)
(***************************************************************************)
EXTENDS RabbitConsumer, TLAPS

\* Runner r does the work of m.
AtWork(r, m) == cur[r] = m /\ task[r] = "work"

\* The loop starts with the consumer and has a message while it is in handle.
InHand ==
    \A r \in Runners :
        /\ chan[r] \in {"new", "qos"} => task[r] = "new"
        /\ task[r] \in {"handle", "work", "ack", "nack"} => cur[r] # None

\* The work of m was done, failed, was cut short, or is being done behind a mark.
Accounted(m) ==
    \/ effects[m] > 0 \/ m \in interrupted
    \/ m \in Deduped /\ \E r \in Runners : AtWork(r, m)

\* A mark was set by a delivery whose work is accounted for ...
MarksAccounted == \A m \in marks : Accounted(m)

\* ... so that handle acknowledges nothing but what is accounted for.
AcksAccounted == \A r \in Runners : task[r] = "ack" => Accounted(cur[r])

\* With manual acknowledgement, what the broker has settled is accounted for or
\* was refused.
SettledAccounted ==
    ~options.AutoAck =>
        \A m \in Messages : settled(m) => Accounted(m) \/ m \in rejected

\* As long as the mark of m has not expired, it keeps every other runner from
\* the work while one is at it, and for good when the work is done.
MarkExcludes ==
    \A m \in Deduped \ unmarked :
        /\ \A r, s \in Runners : AtWork(r, m) /\ AtWork(s, m) => r = s
        /\ \A r \in Runners : AtWork(r, m) => m \in marks /\ effects[m] = 0
        /\ effects[m] > 0 => m \in marks
        /\ effects[m] <= 1

\* The inductive invariant.
QueueInv ==
    /\ TypeOK /\ InHand
    /\ MarksAccounted /\ AcksAccounted /\ SettledAccounted
    /\ MarkExcludes

----------------------------------------------------------------------------
(* The actions.                                                             *)

\* Start opens a channel: no delivery yet.
LEMMA StartChannelInv ==
    ASSUME QueueInv, NEW r \in Runners, StartChannel(r)
    PROVE  QueueInv'
<1> USE DEF brokerVars, loopVars, historyVars, faultVars, StartChannel,
            prefetch
<1>1. TypeOK'
    BY ConsumerAssumption DEF QueueInv, TypeOK, InHand
<1>2. InHand'
    BY DEF QueueInv, TypeOK, InHand
<1>3. /\ MarksAccounted'
      /\ AcksAccounted'
      /\ SettledAccounted'
      /\ MarkExcludes'
    BY DEF QueueInv, MarksAccounted, AcksAccounted, SettledAccounted,
           MarkExcludes, Accounted, AtWork, settled
<1> QED
    BY <1>1, <1>2, <1>3
    DEF QueueInv

\* The loop starts with nothing in hand.
LEMMA StartConsumeInv ==
    ASSUME QueueInv, NEW r \in Runners, StartConsume(r)
    PROVE  QueueInv'
<1> USE DEF brokerVars, loopVars, historyVars, faultVars, StartConsume, Goto
<1>1. TypeOK'
    BY ConsumerAssumption DEF QueueInv, TypeOK, InHand
<1>2. InHand'
    BY DEF QueueInv, TypeOK, InHand
<1>3. MarksAccounted'
    BY DEF QueueInv, TypeOK, InHand, MarksAccounted, Accounted, AtWork
<1>4. AcksAccounted'
    BY DEF QueueInv, TypeOK, InHand, AcksAccounted, Accounted, AtWork
<1>5. SettledAccounted'
    BY DEF QueueInv, TypeOK, InHand, SettledAccounted, settled, Accounted,
           AtWork
<1>6. MarkExcludes'
    BY DEF QueueInv, TypeOK, InHand, MarkExcludes, AtWork
<1> QED
    BY <1>1, <1>2, <1>3, <1>4, <1>5, <1>6
    DEF QueueInv

\* A delivered message is unacked instead of ready; with AutoAck nothing is
\* claimed of it.
LEMMA DeliverInv ==
    ASSUME QueueInv, NEW r \in Runners, NEW m \in Messages, Deliver(r, m)
    PROVE  QueueInv'
<1> USE DEF brokerVars, loopVars, historyVars, faultVars, Deliver
<1>1. TypeOK'
    BY ConsumerAssumption DEF QueueInv, TypeOK, InHand
<1>2. SettledAccounted'
    BY DEF QueueInv, TypeOK, InHand, SettledAccounted, settled, Accounted,
           AtWork
<1>3. InHand' /\ MarksAccounted' /\ AcksAccounted' /\ MarkExcludes'
    BY DEF QueueInv, InHand, MarksAccounted, AcksAccounted, MarkExcludes,
           Accounted, AtWork
<1> QED
    BY <1>1, <1>2, <1>3
    DEF QueueInv

\* The loop takes a delivery and asks nobody yet.
LEMMA ReceiveInv ==
    ASSUME QueueInv, NEW r \in Runners, Receive(r)
    PROVE  QueueInv'
<1> USE DEF brokerVars, loopVars, historyVars, faultVars, Receive, Goto
<1>a. \A s \in Runners : \A m : AtWork(s, m)' <=> AtWork(s, m)
    BY DEF QueueInv, TypeOK, InHand, AtWork
<1>b. \A m : Accounted(m)' <=> Accounted(m)
    BY <1>a DEF Accounted
<1>1. TypeOK'
    BY ConsumerAssumption DEF QueueInv, TypeOK, InHand
<1>2. InHand'
    BY ConsumerAssumption DEF QueueInv, TypeOK, InHand
<1>3. MarksAccounted'
    BY <1>b DEF QueueInv, MarksAccounted
<1>4. AcksAccounted'
    BY <1>b DEF QueueInv, TypeOK, AcksAccounted
<1>5. SettledAccounted'
    BY <1>b DEF QueueInv, SettledAccounted, settled
<1>6. MarkExcludes'
    BY DEF QueueInv, TypeOK, InHand, MarkExcludes, AtWork
<1> QED
    BY <1>1, <1>2, <1>3, <1>4, <1>5, <1>6
    DEF QueueInv

\* What a closed channel drops is ready again already.
LEMMA DropInv ==
    ASSUME QueueInv, NEW r \in Runners, DropBuffer(r)
    PROVE  QueueInv'
<1> USE DEF brokerVars, loopVars, historyVars, faultVars, DropBuffer
<1>1. TypeOK'
    BY ConsumerAssumption DEF QueueInv, TypeOK, InHand
<1>2. /\ InHand'
      /\ MarksAccounted'
      /\ AcksAccounted'
      /\ SettledAccounted'
      /\ MarkExcludes'
    BY DEF QueueInv, InHand, MarksAccounted, AcksAccounted, SettledAccounted,
           MarkExcludes, Accounted, AtWork, settled
<1> QED
    BY <1>1, <1>2
    DEF QueueInv

\* The loop ends between two deliveries.
LEMMA LoopReturnsInv ==
    ASSUME QueueInv, NEW r \in Runners, LoopReturns(r)
    PROVE  QueueInv'
<1> USE DEF brokerVars, loopVars, historyVars, faultVars, LoopReturns, Goto
<1>1. TypeOK'
    BY ConsumerAssumption DEF QueueInv, TypeOK, InHand
<1>2. InHand'
    BY DEF QueueInv, TypeOK, InHand
<1>3. MarksAccounted'
    BY DEF QueueInv, TypeOK, InHand, MarksAccounted, Accounted, AtWork
<1>4. AcksAccounted'
    BY DEF QueueInv, TypeOK, InHand, AcksAccounted, Accounted, AtWork
<1>5. SettledAccounted'
    BY DEF QueueInv, TypeOK, InHand, SettledAccounted, settled, Accounted,
           AtWork
<1>6. MarkExcludes'
    BY DEF QueueInv, TypeOK, InHand, MarkExcludes, AtWork
<1> QED
    BY <1>1, <1>2, <1>3, <1>4, <1>5, <1>6
    DEF QueueInv

\* SET NX answers yes to one runner only; any other answer means that a mark
\* was there, or that this one is counted as interrupted.
LEMMA AskInv ==
    ASSUME QueueInv, NEW r \in Runners, AskDeduplicator(r)
    PROVE  QueueInv'
<1> USE DEF brokerVars, loopVars, historyVars, faultVars, AskDeduplicator
<1> USE DEF D!TryMark, D!TryMarkFaulty, D!SetNX, D!outcome, Fault, Goto
<1>a. cur[r] \in Deduped /\ cur[r] \in Messages /\ task[r] = "handle"
    BY DEF QueueInv, TypeOK, InHand
<1>b. /\ marks' = marks \/ marks' = marks \cup {cur[r]}
      /\ interrupted' = interrupted \/ interrupted' = interrupted \cup {cur[r]}
      /\ \E to \in {"work", "ack", "nack"} :
             /\ task' = [task EXCEPT ![r] = to]
             /\ to = "work" => cur[r] \notin marks /\ marks' = marks \cup {cur[r]}
    OBVIOUS
<1>c. faults' \in 0..MaxFaults /\ restarts' \in 0..MaxRestarts
    BY ConsumerAssumption DEF QueueInv, TypeOK
<1>1. TypeOK'
    BY <1>a, <1>b, <1>c DEF QueueInv, TypeOK
<1>2. InHand'
    BY DEF QueueInv, TypeOK, InHand
<1>3. MarksAccounted'
    BY DEF QueueInv, TypeOK, InHand, MarksAccounted, Accounted, AtWork
<1>4. AcksAccounted'
    BY DEF QueueInv, TypeOK, InHand, AcksAccounted, Accounted, AtWork,
           MarksAccounted
<1>5. SettledAccounted'
    BY DEF QueueInv, TypeOK, InHand, SettledAccounted, settled, Accounted,
           AtWork
<1>6. MarkExcludes'
  <2> SUFFICES ASSUME NEW m \in Deduped \ unmarked
               PROVE  /\ \A s, q \in Runners : AtWork(s, m)' /\ AtWork(q, m)' => s = q
                      /\ \A s \in Runners : AtWork(s, m)' => m \in marks' /\ effects[m] = 0
                      /\ effects[m] > 0 => m \in marks'
                      /\ effects[m] <= 1
    BY DEF MarkExcludes
  <2>1. marks \subseteq marks'
    BY <1>b
  <2>2. \A s \in Runners : AtWork(s, m)' => AtWork(s, m) \/ (s = r /\ m = cur[r])
    BY <1>a, <1>b DEF QueueInv, TypeOK, AtWork
  <2>3. CASE \A s \in Runners : AtWork(s, m)' => AtWork(s, m)
    BY <2>1, <2>3 DEF QueueInv, MarkExcludes
  <2>4. CASE m = cur[r] /\ AtWork(r, m)' /\ ~AtWork(r, m)
    <3>1. m \notin marks /\ m \in marks'
      BY <1>a, <1>b, <2>4 DEF QueueInv, TypeOK, AtWork
    <3>2. \A s \in Runners : ~AtWork(s, m)
      BY <3>1 DEF QueueInv, MarkExcludes
    <3>3. effects[m] \in 0..2 /\ ~(effects[m] > 0)
      BY <3>1, ConsumerAssumption DEF QueueInv, TypeOK, MarkExcludes
    <3>4. effects[m] = 0
      BY <3>3
    <3> QED
      BY <2>2, <3>1, <3>2, <3>4
  <2> QED
    BY <2>2, <2>3, <2>4
<1> QED
    BY <1>1, <1>2, <1>3, <1>4, <1>5, <1>6
    DEF QueueInv

\* Without a Deduplicator every delivery is worked on.
LEMMA NoDeduplicatorInv ==
    ASSUME QueueInv, NEW r \in Runners, NoDeduplicator(r)
    PROVE  QueueInv'
<1> USE DEF brokerVars, loopVars, historyVars, faultVars, NoDeduplicator, Goto
<1>1. TypeOK'
    BY ConsumerAssumption DEF QueueInv, TypeOK, InHand
<1>2. InHand'
    BY DEF QueueInv, TypeOK, InHand
<1>3. MarksAccounted'
    BY DEF QueueInv, TypeOK, InHand, MarksAccounted, Accounted, AtWork
<1>4. AcksAccounted'
    BY DEF QueueInv, TypeOK, InHand, AcksAccounted, Accounted, AtWork
<1>5. SettledAccounted'
    BY DEF QueueInv, TypeOK, InHand, SettledAccounted, settled, Accounted,
           AtWork
<1>6. MarkExcludes'
    BY DEF QueueInv, TypeOK, InHand, MarkExcludes, AtWork
<1> QED
    BY <1>1, <1>2, <1>3, <1>4, <1>5, <1>6
    DEF QueueInv

\* Work that is done counts as an effect.
LEMMA WorkDoneInv ==
    ASSUME QueueInv, NEW r \in Runners, WorkDone(r)
    PROVE  QueueInv'
<1> USE DEF brokerVars, loopVars, historyVars, faultVars, WorkDone, Goto
<1>a. cur[r] \in Messages /\ task[r] = "work" /\ task' = [task EXCEPT ![r] = "ack"]
    BY DEF QueueInv, TypeOK, InHand
<1>b. /\ effects' \in [Messages -> 0..2] /\ effects'[cur[r]] > 0
      /\ \A m \in Messages : effects[m] > 0 => effects'[m] > 0
  <2>1. effects \in [Messages -> 0..2]
    BY DEF QueueInv, TypeOK
  <2>2. PICK e \in 1..2 : effects' = [effects EXCEPT ![cur[r]] = e]
    <3>1. effects[cur[r]] \in 0..2
      BY <1>a, <2>1
    <3>2. (IF effects[cur[r]] < 2 THEN effects[cur[r]] + 1 ELSE 2) \in 1..2
      BY <3>1
    <3> QED
      BY <3>2
  <2> QED
    BY <1>a, <2>1, <2>2
<1>c. \A s \in Runners : \A m : AtWork(s, m) => AtWork(s, m)' \/ (s = r /\ m = cur[r])
    BY <1>a DEF QueueInv, TypeOK, AtWork
<1>d. \A m \in Messages : Accounted(m) => Accounted(m)'
    BY <1>a, <1>b, <1>c DEF QueueInv, TypeOK, Accounted
<1>1. TypeOK'
    BY <1>a, <1>b DEF QueueInv, TypeOK
<1>2. InHand'
    BY DEF QueueInv, TypeOK, InHand
<1>3. MarksAccounted'
    BY <1>d, ConsumerAssumption DEF QueueInv, TypeOK, MarksAccounted
<1>4. AcksAccounted'
  <2> SUFFICES ASSUME NEW s \in Runners, task'[s] = "ack"
               PROVE  Accounted(cur[s])'
    BY DEF AcksAccounted
  <2>1. CASE s = r
    BY <1>b, <2>1 DEF Accounted
  <2>2. CASE s # r
    <3>1. task[s] = "ack" /\ cur[s] \in Messages
      BY <1>a, <2>2 DEF QueueInv, TypeOK, InHand
    <3> QED
      BY <1>d, <3>1 DEF QueueInv, AcksAccounted
  <2> QED
    BY <2>1, <2>2
<1>5. SettledAccounted'
    BY <1>d DEF QueueInv, SettledAccounted, settled
<1>6. MarkExcludes'
    BY DEF QueueInv, TypeOK, InHand, MarkExcludes, AtWork
<1> QED
    BY <1>1, <1>2, <1>3, <1>4, <1>5, <1>6
    DEF QueueInv

\* Work that failed counts as interrupted, whatever became of its mark.
LEMMA WorkFailsInv ==
    ASSUME QueueInv, NEW r \in Runners, WorkFails(r)
    PROVE  QueueInv'
<1> USE DEF brokerVars, loopVars, historyVars, faultVars, WorkFails, D!Clear,
            D!ClearFaulty, D!outcome, Fault, Goto
<1>1. TypeOK'
    BY ConsumerAssumption DEF QueueInv, TypeOK, InHand
<1>2. InHand'
    BY DEF QueueInv, TypeOK, InHand
<1>3. MarksAccounted'
    BY DEF QueueInv, TypeOK, InHand, MarksAccounted, Accounted, AtWork
<1>4. AcksAccounted'
    BY DEF QueueInv, TypeOK, InHand, AcksAccounted, Accounted, AtWork
<1>5. SettledAccounted'
    BY DEF QueueInv, TypeOK, InHand, SettledAccounted, settled, Accounted,
           AtWork
<1>6. MarkExcludes'
    BY DEF QueueInv, TypeOK, InHand, MarkExcludes, AtWork
<1> QED
    BY <1>1, <1>2, <1>3, <1>4, <1>5, <1>6
    DEF QueueInv

\* Only what is accounted for is acknowledged; a Nack requeues or refuses.
LEMMA SettleInv ==
    ASSUME QueueInv, NEW r \in Runners, Settle(r)
    PROVE  QueueInv'
<1> USE DEF brokerVars, loopVars, historyVars, faultVars, Settle, answers,
            acks, Goto
<1>a. \A s \in Runners : \A m : AtWork(s, m)' <=> AtWork(s, m)
    BY DEF QueueInv, TypeOK, InHand, AtWork
<1>b. \A m : Accounted(m)' <=> Accounted(m)
    BY <1>a DEF Accounted
<1>1. TypeOK'
    BY ConsumerAssumption DEF QueueInv, TypeOK, InHand
<1>2. InHand'
    BY DEF QueueInv, TypeOK, InHand
<1>3. MarksAccounted'
    BY <1>b DEF QueueInv, MarksAccounted
<1>4. AcksAccounted'
    BY <1>b DEF QueueInv, TypeOK, AcksAccounted
<1>5. SettledAccounted'
  <2> SUFFICES ASSUME ~options.AutoAck, NEW m \in Messages, settled(m)'
               PROVE  Accounted(m) \/ m \in rejected'
    BY <1>b DEF SettledAccounted
  <2>1. CASE settled(m)
    BY <2>1 DEF QueueInv, SettledAccounted
  <2>2. CASE ~settled(m)
    <3>1. m = cur[r] /\ m \in unacked[r] /\ m \notin ready'
      BY <2>2 DEF QueueInv, TypeOK, settled
    <3>2. CASE task[r] = "ack"
      BY <3>1, <3>2 DEF QueueInv, AcksAccounted
    <3>3. CASE task[r] = "nack"
      BY <3>1, <3>3 DEF QueueInv, TypeOK
    <3> QED
      BY <3>2, <3>3
  <2> QED
    BY <2>1, <2>2
<1>6. MarkExcludes'
    BY DEF QueueInv, TypeOK, InHand, MarkExcludes, AtWork
<1> QED
    BY <1>1, <1>2, <1>3, <1>4, <1>5, <1>6
    DEF QueueInv

\* Stop cancels a context.
LEMMA StopCancelInv ==
    ASSUME QueueInv, NEW r \in Runners, StopCancel(r)
    PROVE  QueueInv'
<1> USE DEF brokerVars, loopVars, historyVars, faultVars, StopCancel
<1>1. TypeOK'
    BY ConsumerAssumption DEF QueueInv, TypeOK, InHand
<1>2. /\ InHand'
      /\ MarksAccounted'
      /\ AcksAccounted'
      /\ SettledAccounted'
      /\ MarkExcludes'
    BY DEF QueueInv, InHand, MarksAccounted, AcksAccounted, SettledAccounted,
           MarkExcludes, Accounted, AtWork, settled
<1> QED
    BY <1>1, <1>2
    DEF QueueInv

\* Stop cancels the consumer: deliveries end.
LEMMA StopConsumerInv ==
    ASSUME QueueInv, NEW r \in Runners, StopConsumer(r)
    PROVE  QueueInv'
<1> USE DEF brokerVars, loopVars, historyVars, faultVars, StopConsumer
<1>1. TypeOK'
    BY ConsumerAssumption DEF QueueInv, TypeOK, InHand
<1>2. InHand'
    BY DEF QueueInv, TypeOK, InHand
<1>3. /\ MarksAccounted'
      /\ AcksAccounted'
      /\ SettledAccounted'
      /\ MarkExcludes'
    BY DEF QueueInv, MarksAccounted, AcksAccounted, SettledAccounted,
           MarkExcludes, Accounted, AtWork, settled
<1> QED
    BY <1>1, <1>2, <1>3
    DEF QueueInv

\* The unacked messages of a closed channel are ready again.
LEMMA StopChannelInv ==
    ASSUME QueueInv, NEW r \in Runners, StopChannel(r)
    PROVE  QueueInv'
<1> USE DEF brokerVars, loopVars, historyVars, faultVars, StopChannel,
            CloseChannels
<1>1. TypeOK'
    BY ConsumerAssumption DEF QueueInv, TypeOK, InHand
<1>2. InHand'
    BY DEF QueueInv, TypeOK, InHand
<1>3. SettledAccounted'
    BY DEF QueueInv, TypeOK, InHand, SettledAccounted, settled, Accounted,
           AtWork
<1>4. MarksAccounted' /\ AcksAccounted' /\ MarkExcludes'
    BY DEF QueueInv, MarksAccounted, AcksAccounted, MarkExcludes, Accounted,
           AtWork
<1> QED
    BY <1>1, <1>2, <1>3, <1>4
    DEF QueueInv

\* And so are those of all channels when the connection breaks.
LEMMA BreaksInv ==
    ASSUME QueueInv, ConnectionBreaks
    PROVE  QueueInv'
<1> USE DEF brokerVars, loopVars, historyVars, faultVars, ConnectionBreaks,
            CloseChannels, Fault
<1>1. TypeOK'
    BY ConsumerAssumption DEF QueueInv, TypeOK, InHand
<1>2. InHand'
    BY DEF QueueInv, TypeOK, InHand
<1>3. SettledAccounted'
    BY DEF QueueInv, TypeOK, InHand, SettledAccounted, settled, Accounted,
           AtWork
<1>4. MarksAccounted' /\ AcksAccounted' /\ MarkExcludes'
    BY DEF QueueInv, MarksAccounted, AcksAccounted, MarkExcludes, Accounted,
           AtWork
<1> QED
    BY <1>1, <1>2, <1>3, <1>4
    DEF QueueInv

\* A restart gives every unacked message back, and counts the work it cut short.
LEMMA RestartInv ==
    ASSUME QueueInv, Restart
    PROVE  QueueInv'
<1> USE DEF brokerVars, loopVars, historyVars, faultVars, Restart, PerRunner
<1>1. TypeOK'
    BY ConsumerAssumption DEF QueueInv, TypeOK, InHand
<1>2. InHand'
    BY DEF QueueInv, TypeOK, InHand
<1>3. MarksAccounted'
    BY DEF QueueInv, TypeOK, InHand, MarksAccounted, Accounted, AtWork
<1>4. AcksAccounted'
    BY DEF QueueInv, TypeOK, InHand, AcksAccounted, Accounted, AtWork
<1>5. SettledAccounted'
  <2> SUFFICES ASSUME ~options.AutoAck, NEW m \in Messages, settled(m)'
               PROVE  Accounted(m)' \/ m \in rejected
    BY DEF SettledAccounted
  <2>1. settled(m)
    BY DEF QueueInv, TypeOK, settled
  <2>2. Accounted(m) \/ m \in rejected
    BY <2>1 DEF QueueInv, SettledAccounted
  <2>3. Accounted(m) => Accounted(m)'
    BY DEF QueueInv, TypeOK, Accounted, AtWork
  <2> QED
    BY <2>2, <2>3
<1>6. MarkExcludes'
    BY DEF QueueInv, TypeOK, InHand, MarkExcludes, AtWork
<1> QED
    BY <1>1, <1>2, <1>3, <1>4, <1>5, <1>6
    DEF QueueInv

\* A mark that expires counts as such.
LEMMA ExpiresInv ==
    ASSUME QueueInv, NEW m \in Deduped, MarkExpires(m)
    PROVE  QueueInv'
<1> USE DEF brokerVars, loopVars, historyVars, faultVars, MarkExpires,
            D!Marked, D!expired, Fault
<1>1. TypeOK'
    BY ConsumerAssumption DEF QueueInv, TypeOK, InHand
<1>2. MarksAccounted'
    BY DEF QueueInv, TypeOK, InHand, MarksAccounted, Accounted, AtWork
<1>3. MarkExcludes'
    BY DEF QueueInv, TypeOK, InHand, MarkExcludes, AtWork
<1>4. InHand' /\ AcksAccounted' /\ SettledAccounted'
    BY DEF QueueInv, InHand, AcksAccounted, SettledAccounted, Accounted,
           AtWork, settled
<1> QED
    BY <1>1, <1>2, <1>3, <1>4
    DEF QueueInv

----------------------------------------------------------------------------
(* The theorems.                                                            *)

\* The invariant holds initially.
LEMMA InitInv == Init => QueueInv
<1> SUFFICES ASSUME Init PROVE QueueInv
    OBVIOUS
<1> USE DEF Init, PerRunner
<1>1. TypeOK
  <2>1. PICK o \in Options : options = [o EXCEPT !.Prefetch = SetPrefetch(@)]
    OBVIOUS
  <2>2. o \in [AutoAck : BOOLEAN, Prefetch : Int, Requeue : BOOLEAN, Tag : BOOLEAN]
    BY ConsumerAssumption
  <2>3. SetPrefetch(o.Prefetch) \in Nat
    BY <2>2 DEF SetPrefetch
  <2>4. options \in [AutoAck : BOOLEAN, Prefetch : Nat, Requeue : BOOLEAN, Tag : BOOLEAN]
    BY <2>1, <2>2, <2>3
  <2>5. faults \in 0..MaxFaults /\ restarts \in 0..MaxRestarts
    BY ConsumerAssumption
  <2> QED
    BY <2>4, <2>5 DEF TypeOK
<1>2. InHand /\ MarksAccounted /\ AcksAccounted
    BY DEF InHand, MarksAccounted, AcksAccounted
<1>3. SettledAccounted
    BY DEF SettledAccounted, settled
<1>4. MarkExcludes
    BY ConsumerAssumption DEF MarkExcludes, AtWork
<1> QED
    BY <1>1, <1>2, <1>3, <1>4 DEF QueueInv

\* Every step preserves the invariant.
LEMMA NextInv == QueueInv /\ [Next]_vars => QueueInv'
<1> SUFFICES ASSUME QueueInv, [Next]_vars PROVE QueueInv'
    OBVIOUS
<1>1. ASSUME NEW r \in Runners, LoopNext(r) PROVE QueueInv'
    BY <1>1, ReceiveInv, DropInv, LoopReturnsInv, AskInv, NoDeduplicatorInv,
       WorkDoneInv, WorkFailsInv, SettleInv
    DEF LoopNext
<1>2. ASSUME NEW r \in Runners,
             \/ StartChannel(r) \/ StartConsume(r)
             \/ \E m \in Messages : Deliver(r, m)
             \/ StopCancel(r) \/ StopConsumer(r) \/ StopChannel(r)
      PROVE  QueueInv'
    BY <1>2, StartChannelInv, StartConsumeInv, DeliverInv, StopCancelInv,
       StopConsumerInv, StopChannelInv
<1>3. CASE ConnectionBreaks \/ Restart \/ \E m \in Deduped : MarkExpires(m)
    BY <1>3, BreaksInv, RestartInv, ExpiresInv
<1>4. CASE UNCHANGED vars
  <2> USE <1>4 DEF QueueInv, vars, brokerVars, loopVars, historyVars, faultVars
  <2>1. TypeOK' /\ InHand'
    BY DEF TypeOK, InHand
  <2>2. MarksAccounted' /\ AcksAccounted' /\ SettledAccounted'
    BY DEF MarksAccounted, AcksAccounted, SettledAccounted, Accounted, AtWork, settled
  <2>3. MarkExcludes'
    BY DEF MarkExcludes, AtWork
  <2> QED
    BY <2>1, <2>2, <2>3
<1> QED
    BY <1>1, <1>2, <1>3, <1>4 DEF Next

\* The invariant of the consumers, whatever breaks, stops and restarts come in
\* between.
THEOREM QueueInvariant == Spec => []QueueInv
<1> QED
    BY InitInv, NextInv, PTL DEF Spec

\* With manual acknowledgement a message leaves the queue only when its work is
\* done, was given up by the handler, or is held back by a mark.
THEOREM QueueNoMessageLost == Spec => []NoMessageLost
<1>1. QueueInv => NoMessageLost
    BY DEF QueueInv, SettledAccounted, Accounted, AtWork, NoMessageLost
<1> QED
    BY <1>1, QueueInvariant, PTL

\* Work behind a mark that has not expired is done once.
THEOREM QueueWorkedOnce == Spec => []WorkedOnce
<1>1. QueueInv => WorkedOnce
    BY DEF QueueInv, MarkExcludes, WorkedOnce
<1> QED
    BY <1>1, QueueInvariant, PTL
=============================================================================
