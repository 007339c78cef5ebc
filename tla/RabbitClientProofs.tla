------------------------- MODULE RabbitClientProofs -------------------------
(***************************************************************************)
(* The invariants of RabbitClient for any number of publishers, openers,   *)
(* faults and calls of Close.                                              *)
(***************************************************************************)
EXTENDS RabbitClient, TLAPS

\* Every connection but the last one has died of a fault or of a Close, so that
\* the numbers never run out ...
ConnsNumbered ==
    /\ conns + (IF liveConn = {} THEN 1 ELSE 0) <= faults + closes + 1
    /\ conn <= conns /\ \A k \in liveConn : k <= conns

\* ... and so has every channel.
ChansNumbered ==
    /\ chans + (IF liveCh = {} THEN 1 ELSE 0) <= faults + closes + 1
    /\ publishCh <= chans /\ \A h \in liveCh : h <= chans
    /\ \A h \in Ids : watcher[h] = "none" <=> h > chans

\* A channel lives on a live connection; a publisher channel that is not open
\* any more is dead, and the flag says nothing without a channel.
ChannelsLive ==
    /\ \A h \in liveCh : connOf[h] \in liveConn
    /\ publishChOpen => publishCh # None
    /\ publishCh # None /\ ~publishChOpen => publishCh \notin liveCh

\* What the watching goroutine of a channel knows of it.
WatchersKnow ==
    \A h \in Ids :
        /\ watcher[h] = "listening" => h \in liveCh
        /\ watcher[h] \in {"notified", "ended", "missed"} => h \notin liveCh
        /\ watcher[h] = "ended" /\ publishCh = h => ~publishChOpen

\* The connection is nil after Connect only if Close has been called.
NilNeedsClose ==
    /\ conn = None /\ closes = 0 => conns = 0
    /\ \A p \in Caller : pc[p] = "connected" => conns > 0

\* What connections and channels are, whoever is calling.
ChannelInv ==
    /\ ChannelOnConnection /\ NoLeakedChannel
    /\ ChansNumbered /\ ChannelsLive /\ WatchersKnow

\* The inductive invariant.
ClientInv ==
    /\ TypeOK
    /\ OneConnection /\ ConnsNumbered
    /\ ChannelInv
    /\ NilNeedsClose /\ PanicNeedsClose

USE DEF None

----------------------------------------------------------------------------
(* Connections and channels that are opened.                                *)

\* A client that has to dial has no open connection and no open channel, and
\* the numbers of the next ones are free.
LEMMA RoomToDial ==
    ASSUME ClientInv, ~usable
    PROVE  /\ liveConn = {} /\ liveCh = {}
           /\ conns + 1 \in Ids /\ chans + 1 \in Ids
<1>1. liveConn = {}
    BY DEF ClientInv, TypeOK, OneConnection, usable, Ids
<1>2. liveCh = {}
    BY <1>1 DEF ClientInv, ChannelInv, ChannelsLive
<1>3. conns + 1 \in Ids
    BY <1>1, ClientAssumption DEF ClientInv, TypeOK, ConnsNumbered, Ids
<1>4. chans + 1 \in Ids
    BY <1>2, ClientAssumption DEF ClientInv, ChannelInv, TypeOK, ChansNumbered, Ids
<1> QED
    BY <1>1, <1>2, <1>3, <1>4

\* A publisher that has to open a channel finds every other one closed.
LEMMA RoomForChannel ==
    ASSUME ClientInv, publishCh = None \/ ~publishChOpen
    PROVE  liveCh = {} /\ chans + 1 \in Ids
<1>1. liveCh = {}
    BY DEF ClientInv, ChannelInv, TypeOK, NoLeakedChannel, ChannelsLive, Ids
<1>2. chans + 1 \in Ids
    BY <1>1, ClientAssumption DEF ClientInv, ChannelInv, TypeOK, ChansNumbered, Ids
<1> QED
    BY <1>1, <1>2

\* amqp.Dial answers when no connection is open.
LEMMA DialKeepsConns ==
    ASSUME ClientInv, ~usable, dialled, faults' = faults \/ openFails, closes' = closes
    PROVE  /\ conn' = conns + 1 /\ conns' = conns + 1 /\ liveConn' = {conns + 1}
           /\ OneConnection' /\ ConnsNumbered'
<1>1. /\ liveConn = {} /\ conns + 1 \in Ids
    BY RoomToDial
<1>2. /\ conn' = conns + 1 /\ conns' = conns + 1 /\ liveConn' = {conns + 1}
    BY <1>1 DEF dialled
<1>3. OneConnection'
    BY <1>2 DEF OneConnection
<1>4. ConnsNumbered'
  <2>1. conns + 1 <= faults + closes + 1
    BY <1>1 DEF ClientInv, ConnsNumbered
  <2>2. /\ faults \in Nat /\ closes \in Nat /\ conns \in Nat
    BY ClientAssumption DEF ClientInv, TypeOK, Ids
  <2>3. liveConn' # {}
    BY <1>2
  <2>4. conns' + (IF liveConn' = {} THEN 1 ELSE 0) <= faults' + closes' + 1
    BY <1>2, <2>1, <2>2, <2>3 DEF openFails
  <2> QED
    BY <1>2, <2>2, <2>4 DEF ConnsNumbered
<1> QED
    BY <1>2, <1>3, <1>4

\* A new connection starts without a publisher channel.
LEMMA ForgetKeepsChannels ==
    ASSUME ClientInv, ~usable, forgetChannel, faults' = faults \/ openFails, closes' = closes,
           UNCHANGED <<liveCh, connOf, watcher, chans>>
    PROVE  ChannelInv'
<1>1. liveCh = {}
    BY RoomToDial
<1>2. /\ faults \in Nat /\ closes \in Nat /\ chans \in Nat
    BY ClientAssumption DEF ClientInv, TypeOK, Ids
<1>3. ChannelOnConnection' /\ NoLeakedChannel' /\ ChannelsLive'
    BY <1>1 DEF forgetChannel, ChannelOnConnection, NoLeakedChannel, ChannelsLive
<1>4. ChansNumbered'
  <2>1. chans + 1 <= faults + closes + 1
    BY <1>1 DEF ClientInv, ChannelInv, ChansNumbered
  <2>2. chans' + (IF liveCh' = {} THEN 1 ELSE 0) <= faults' + closes' + 1
    BY <1>1, <1>2, <2>1 DEF openFails
  <2>3. \A h \in Ids : watcher'[h] = "none" <=> h > chans'
    BY DEF ClientInv, ChannelInv, ChansNumbered
  <2> QED
    BY <1>1, <1>2, <2>2, <2>3 DEF ChansNumbered, forgetChannel
<1>5. WatchersKnow'
    BY <1>1 DEF ClientInv, ChannelInv, WatchersKnow, forgetChannel
<1> QED
    BY <1>3, <1>4, <1>5 DEF ChannelInv

\* A publisher channel opened on the one open connection.
LEMMA OpenKeepsChannels ==
    ASSUME ClientInv, liveCh = {}, chans + 1 \in Ids,
           NEW on \in Ids, conn' = on, liveConn' = {on}, openChannel(on),
           UNCHANGED boundVars
    PROVE  /\ publishCh' \in Ids /\ chans' \in Ids /\ liveCh' \subseteq Ids
           /\ publishChOpen' \in BOOLEAN
           /\ connOf' \in [Ids -> Ids \cup {None}]
           /\ watcher' \in [Ids -> {"none", "starting", "listening", "notified",
                                    "ended", "missed"}]
           /\ ChannelInv'
<1> DEFINE new == chans + 1
<1>1. /\ connOf \in [Ids -> Ids \cup {None}]
      /\ watcher \in [Ids -> {"none", "starting", "listening", "notified",
                              "ended", "missed"}]
      /\ faults \in Nat /\ closes \in Nat /\ chans \in Nat
    BY ClientAssumption DEF ClientInv, TypeOK, Ids
<1>2. /\ publishCh' = new /\ publishChOpen' = TRUE /\ liveCh' = {new}
      /\ chans' = new /\ new # None /\ new \in Nat
    BY <1>1 DEF openChannel
<1>3. /\ connOf' = [connOf EXCEPT ![new] = on]
      /\ watcher' = [watcher EXCEPT ![new] = "starting"]
    BY DEF openChannel
<1>4. ChannelOnConnection' /\ NoLeakedChannel' /\ ChannelsLive'
    BY <1>1, <1>2, <1>3
    DEF ChannelOnConnection, NoLeakedChannel, ChannelsLive
<1>5. ChansNumbered'
  <2>1. new <= faults + closes + 1
    BY DEF ClientInv, ChannelInv, ChansNumbered
  <2>2. chans' + (IF liveCh' = {} THEN 1 ELSE 0) <= faults' + closes' + 1
    BY <1>1, <1>2, <2>1 DEF boundVars
  <2>3. \A h \in Ids : watcher'[h] = "none" <=> h > chans'
    BY <1>1, <1>2, <1>3 DEF ClientInv, ChannelInv, ChansNumbered, Ids
  <2> QED
    BY <1>2, <2>2, <2>3 DEF ChansNumbered
<1>6. WatchersKnow'
  <2>1. ASSUME NEW h \in Ids, h # new
        PROVE  watcher'[h] = watcher[h] /\ watcher[h] # "listening" /\ h \notin liveCh'
    BY <1>1, <1>2, <1>3, <2>1 DEF ClientInv, ChannelInv, WatchersKnow
  <2>2. watcher'[new] = "starting"
    BY <1>1, <1>3
  <2> QED
    BY <1>2, <2>1, <2>2 DEF WatchersKnow
<1>7. /\ publishCh' \in Ids /\ chans' \in Ids /\ liveCh' \subseteq Ids
      /\ publishChOpen' \in BOOLEAN
      /\ connOf' \in [Ids -> Ids \cup {None}]
      /\ watcher' \in [Ids -> {"none", "starting", "listening", "notified",
                               "ended", "missed"}]
    BY <1>1, <1>2, <1>3
<1> QED
    BY <1>4, <1>5, <1>6, <1>7 DEF ChannelInv

----------------------------------------------------------------------------
(* The actions.                                                             *)

\* Connections and channels do not change when only callers move.
LEMMA CallersKeepChannels ==
    ASSUME ClientInv, UNCHANGED <<connVars, chanVars, boundVars>>
    PROVE  OneConnection' /\ ConnsNumbered' /\ ChannelInv'
<1> USE DEF ClientInv, ChannelInv, connVars, chanVars, boundVars
<1>1. OneConnection' /\ ConnsNumbered'
    BY DEF OneConnection, ConnsNumbered
<1>2. ChannelOnConnection' /\ NoLeakedChannel' /\ ChannelsLive' /\ WatchersKnow'
    BY DEF ChannelOnConnection, NoLeakedChannel, ChannelsLive, WatchersKnow
<1>3. ChansNumbered'
    BY DEF ChansNumbered
<1> QED
    BY <1>1, <1>2, <1>3

\* A dial or an open that fails changes no connection and no channel.
LEMMA FaultKeepsChannels ==
    ASSUME ClientInv, openFails, closes' = closes, UNCHANGED <<connVars, chanVars>>
    PROVE  OneConnection' /\ ConnsNumbered' /\ ChannelInv'
<1> USE DEF ClientInv, ChannelInv, connVars, chanVars
<1>1. faults \in Nat /\ closes \in Nat /\ conns \in Nat /\ chans \in Nat
    BY ClientAssumption DEF TypeOK, Ids
<1>2. OneConnection' /\ ConnsNumbered'
    BY <1>1 DEF OneConnection, ConnsNumbered, openFails
<1>3. ChannelOnConnection' /\ NoLeakedChannel' /\ ChannelsLive' /\ WatchersKnow'
    BY DEF ChannelOnConnection, NoLeakedChannel, ChannelsLive, WatchersKnow
<1>4. ChansNumbered'
    BY <1>1 DEF ChansNumbered, openFails
<1> QED
    BY <1>2, <1>3, <1>4

\* Publish rejects a message or takes c.publishMu; it publishes on a channel it
\* was given.
LEMMA CallInv ==
    ASSUME ClientInv, NEW p \in Publisher,
           rejectRoutingKey(p) \/ lockPublish(p) \/ publishWithContext(p)
    PROVE  ClientInv'
<1> USE DEF rejectRoutingKey, lockPublish, publishWithContext, Return, At, Goto
<1>1. TypeOK'
    BY DEF ClientInv, TypeOK, connVars, chanVars, boundVars, Caller
<1>2. OneConnection' /\ ConnsNumbered' /\ ChannelInv'
    BY CallersKeepChannels
<1>3. NilNeedsClose' /\ PanicNeedsClose'
    BY DEF ClientInv, TypeOK, NilNeedsClose, PanicNeedsClose, connVars, boundVars, Caller
<1> QED
    BY <1>1, <1>2, <1>3 DEF ClientInv

\* Only a Close between Connect and connection() makes Channel panic.
LEMMA ChannelKeepsCalls ==
    ASSUME ClientInv, NEW o \in Opener, Channel(o)
    PROVE  NilNeedsClose' /\ PanicNeedsClose'
<1>1. NilNeedsClose'
    BY DEF ClientInv, TypeOK, NilNeedsClose, Channel, At, Goto, connVars, Caller
<1>2. PanicNeedsClose'
  <2>1. UNCHANGED <<conn, closes>> /\ ~panicked /\ pc[o] = "connected"
    BY DEF Channel, At, connVars
  <2>2. CASE UNCHANGED panicked
    BY <2>1, <2>2 DEF PanicNeedsClose
  <2>3. CASE panicked' = (conn = None)
    <3>1. closes \in Nat /\ conns > 0 /\ (conn = None /\ closes = 0 => conns = 0)
      BY <2>1, ClientAssumption DEF ClientInv, TypeOK, NilNeedsClose, Caller
    <3>2. conn = None => closes > 0
      BY <3>1
    <3>3. panicked' => conn = None
      BY <2>3, Zenon
    <3> QED
      BY <2>1, <3>2, <3>3, Zenon DEF PanicNeedsClose
  <2>4. UNCHANGED panicked \/ panicked' = (conn = None)
    BY Zenon DEF Channel, connection
  <2> QED
    BY <2>2, <2>3, <2>4
<1> QED
    BY <1>1, <1>2

\* connection() may find the connection gone, and then Close has been called.
LEMMA ChannelKeepsInv ==
    ASSUME ClientInv, NEW o \in Opener, Channel(o)
    PROVE  ClientInv'
<1>1. CASE UNCHANGED faults
  <2>1. TypeOK'
    BY <1>1 DEF ClientInv, TypeOK, Channel, At, Goto, connVars, chanVars, boundVars, Caller
  <2>2. OneConnection' /\ ConnsNumbered' /\ ChannelInv'
    BY <1>1, CallersKeepChannels DEF Channel, boundVars
  <2> QED
    BY <2>1, <2>2, ChannelKeepsCalls DEF ClientInv
<1>2. CASE openFails
  <2>1. TypeOK'
    BY <1>2, ClientAssumption
    DEF ClientInv, TypeOK, Channel, At, Goto, openFails, connVars, chanVars, Caller
  <2>2. OneConnection' /\ ConnsNumbered' /\ ChannelInv'
    BY <1>2, FaultKeepsChannels DEF Channel
  <2> QED
    BY <2>1, <2>2, ChannelKeepsCalls DEF ClientInv
<1> QED
    BY <1>1, <1>2 DEF Channel

\* Connect keeps a usable connection, or dials and forgets the old channel.
LEMMA ConnectInv ==
    ASSUME ClientInv, NEW o \in Opener, Connect(o)
    PROVE  ClientInv'
<1> USE DEF Connect, At, Goto
<1>1. CASE usable /\ UNCHANGED <<connVars, publishCh, publishChOpen, faults>>
           /\ Goto(o, "connected")
  <2>1. TypeOK'
    BY <1>1 DEF ClientInv, TypeOK, connVars, Caller
  <2>2. OneConnection' /\ ConnsNumbered' /\ ChannelInv'
    BY <1>1, CallersKeepChannels DEF connVars, chanVars, boundVars
  <2>3. NilNeedsClose' /\ PanicNeedsClose'
    BY <1>1, ClientAssumption
    DEF ClientInv, TypeOK, NilNeedsClose, PanicNeedsClose, ConnsNumbered, usable,
        connVars, Caller, Ids
  <2> QED
    BY <2>1, <2>2, <2>3 DEF ClientInv
<1>2. CASE ~usable /\ dialled /\ forgetChannel /\ UNCHANGED faults
           /\ Goto(o, "connected")
  <2>1. conns + 1 \in Ids
    BY <1>2, RoomToDial
  <2>2. /\ conn' = conns + 1 /\ conns' = conns + 1 /\ liveConn' = {conns + 1}
        /\ OneConnection' /\ ConnsNumbered'
    BY <1>2, DialKeepsConns
  <2>3. ChannelInv'
    BY <1>2, ForgetKeepsChannels
  <2>4. TypeOK'
    BY <1>2, <2>1, <2>2 DEF ClientInv, TypeOK, forgetChannel, Caller
  <2>5. NilNeedsClose' /\ PanicNeedsClose'
    BY <2>1, <2>2, ClientAssumption
    DEF ClientInv, TypeOK, NilNeedsClose, PanicNeedsClose, Ids
  <2> QED
    BY <2>2, <2>3, <2>4, <2>5 DEF ClientInv
<1>3. CASE ~usable /\ openFails /\ Goto(o, afterDialError)
           /\ UNCHANGED <<connVars, publishCh, publishChOpen>>
  <2>1. TypeOK'
    BY <1>3, ClientAssumption
    DEF ClientInv, TypeOK, connVars, openFails, afterDialError, Caller
  <2>2. OneConnection' /\ ConnsNumbered' /\ ChannelInv'
    BY <1>3, FaultKeepsChannels DEF chanVars
  <2>3. NilNeedsClose' /\ PanicNeedsClose'
    BY <1>3 DEF ClientInv, TypeOK, NilNeedsClose, PanicNeedsClose, connVars,
                afterDialError, Caller
  <2> QED
    BY <2>1, <2>2, <2>3 DEF ClientInv
<1> QED
    BY <1>1, <1>2, <1>3

\* publisherChannel uses the remembered channel, opens one, or dials first.
LEMMA PublisherChannelInv ==
    ASSUME ClientInv, NEW p \in Publisher, publisherChannel(p)
    PROVE  ClientInv'
<1> USE DEF publisherChannel, At, Goto
<1>1. /\ pc' = [pc EXCEPT ![p] = "send"] /\ closes' = closes /\ faults' = faults
      /\ UNCHANGED boundVars
      /\ publishMu' = publishMu /\ panicked' = panicked /\ ~panicked
    BY DEF boundVars
<1>2. CASE usable /\ publishCh # None /\ publishChOpen
           /\ ch' = [ch EXCEPT ![p] = publishCh] /\ UNCHANGED <<connVars, chanVars>>
  <2>1. TypeOK'
    BY <1>1, <1>2 DEF ClientInv, TypeOK, connVars, chanVars, Caller
  <2>2. OneConnection' /\ ConnsNumbered' /\ ChannelInv'
    BY <1>1, <1>2, CallersKeepChannels
  <2>3. NilNeedsClose' /\ PanicNeedsClose'
    BY <1>1, <1>2
    DEF ClientInv, TypeOK, NilNeedsClose, PanicNeedsClose, connVars, Caller
  <2> QED
    BY <2>1, <2>2, <2>3 DEF ClientInv
<1>3. CASE usable /\ (publishCh = None \/ ~publishChOpen) /\ openChannel(conn)
           /\ ch' = [ch EXCEPT ![p] = chans + 1] /\ UNCHANGED connVars
  <2>1. liveCh = {} /\ chans + 1 \in Ids
    BY <1>3, RoomForChannel
  <2>2. conn \in Ids /\ conn' = conn /\ liveConn' = {conn}
    BY <1>3 DEF ClientInv, TypeOK, OneConnection, usable, connVars
  <2>3. /\ publishCh' \in Ids /\ chans' \in Ids /\ liveCh' \subseteq Ids
        /\ publishChOpen' \in BOOLEAN
        /\ connOf' \in [Ids -> Ids \cup {None}]
        /\ watcher' \in [Ids -> {"none", "starting", "listening", "notified",
                                 "ended", "missed"}]
        /\ ChannelInv'
    BY <1>1, <1>3, <2>1, <2>2, OpenKeepsChannels
  <2>4. TypeOK'
    BY <1>1, <1>3, <2>1, <2>3 DEF ClientInv, TypeOK, connVars, Caller
  <2>5. OneConnection' /\ ConnsNumbered'
    BY <1>1, <1>3 DEF ClientInv, OneConnection, ConnsNumbered, connVars
  <2>6. NilNeedsClose' /\ PanicNeedsClose'
    BY <1>1, <1>3
    DEF ClientInv, TypeOK, NilNeedsClose, PanicNeedsClose, connVars, Caller
  <2> QED
    BY <2>3, <2>4, <2>5, <2>6 DEF ClientInv
<1>4. CASE ~usable /\ dialled /\ openChannel(conns + 1)
           /\ ch' = [ch EXCEPT ![p] = chans + 1]
  <2>1. liveCh = {} /\ chans + 1 \in Ids /\ conns + 1 \in Ids
    BY <1>4, RoomToDial
  <2>2. /\ conn' = conns + 1 /\ conns' = conns + 1 /\ liveConn' = {conns + 1}
        /\ OneConnection' /\ ConnsNumbered'
    BY <1>1, <1>4, DialKeepsConns
  <2>3. /\ publishCh' \in Ids /\ chans' \in Ids /\ liveCh' \subseteq Ids
        /\ publishChOpen' \in BOOLEAN
        /\ connOf' \in [Ids -> Ids \cup {None}]
        /\ watcher' \in [Ids -> {"none", "starting", "listening", "notified",
                                 "ended", "missed"}]
        /\ ChannelInv'
    BY <1>1, <1>4, <2>1, <2>2, OpenKeepsChannels
  <2>4. TypeOK'
    BY <1>1, <1>4, <2>1, <2>2, <2>3 DEF ClientInv, TypeOK, Caller
  <2>5. NilNeedsClose' /\ PanicNeedsClose'
    BY <1>1, <2>1, <2>2, ClientAssumption
    DEF ClientInv, TypeOK, NilNeedsClose, PanicNeedsClose, Caller, Ids
  <2> QED
    BY <2>2, <2>3, <2>4, <2>5 DEF ClientInv
<1> QED
    BY <1>2, <1>3, <1>4

\* publisherChannel fails to dial, or dials and gets no channel, or gets no
\* channel on the connection there is.
LEMMA PublisherChannelFailsInv ==
    ASSUME ClientInv, NEW p \in Publisher, publisherChannelFails(p)
    PROVE  ClientInv'
<1> USE DEF publisherChannelFails, Return, At, Goto
<1>1. CASE UNCHANGED <<connVars, publishCh, publishChOpen>>
  <2>1. TypeOK'
    BY <1>1, ClientAssumption DEF ClientInv, TypeOK, connVars, openFails, Caller
  <2>2. OneConnection' /\ ConnsNumbered' /\ ChannelInv'
    BY <1>1, FaultKeepsChannels DEF chanVars
  <2>3. NilNeedsClose' /\ PanicNeedsClose'
    BY <1>1 DEF ClientInv, TypeOK, NilNeedsClose, PanicNeedsClose, connVars, Caller
  <2> QED
    BY <2>1, <2>2, <2>3 DEF ClientInv
<1>2. CASE ~usable /\ dialled /\ forgetChannel
  <2>1. conns + 1 \in Ids
    BY <1>2, RoomToDial
  <2>2. /\ conn' = conns + 1 /\ conns' = conns + 1 /\ liveConn' = {conns + 1}
        /\ OneConnection' /\ ConnsNumbered'
    BY <1>2, DialKeepsConns
  <2>3. ChannelInv'
    BY <1>2, ForgetKeepsChannels
  <2>4. TypeOK'
    <3>1. faults' \in 0..MaxFaults
      BY ClientAssumption DEF ClientInv, TypeOK, openFails
    <3>2. publishChOpen' \in BOOLEAN /\ publishCh' = None
      BY <1>2 DEF forgetChannel
    <3> QED
      BY <2>1, <2>2, <3>1, <3>2 DEF ClientInv, TypeOK, Caller
  <2>5. NilNeedsClose' /\ PanicNeedsClose'
    BY <2>1, <2>2, ClientAssumption
    DEF ClientInv, TypeOK, NilNeedsClose, PanicNeedsClose, Ids
  <2> QED
    BY <2>2, <2>3, <2>4, <2>5 DEF ClientInv
<1> QED
    BY <1>1, <1>2

\* A goroutine that watches a channel registers, or resets the flag of the
\* channel it was told about.
LEMMA WatchInv ==
    ASSUME ClientInv, NEW h \in Ids, WatchNext(h)
    PROVE  ClientInv'
<1> USE DEF WatchNext, notifyClose, channelLost, isCurrent, connVars, callVars, boundVars
<1>1. TypeOK'
    BY DEF ClientInv, TypeOK
<1>2. OneConnection' /\ ConnsNumbered' /\ ChannelOnConnection' /\ NoLeakedChannel'
    BY DEF ClientInv, ChannelInv, OneConnection, ConnsNumbered, ChannelOnConnection,
           NoLeakedChannel
<1>3. ChansNumbered'
    BY DEF ClientInv, ChannelInv, TypeOK, ChansNumbered
<1>4. ChannelsLive'
    BY DEF ClientInv, ChannelInv, TypeOK, ChannelsLive, WatchersKnow
<1>5. WatchersKnow'
    BY DEF ClientInv, ChannelInv, TypeOK, WatchersKnow
<1>6. NilNeedsClose' /\ PanicNeedsClose'
    BY DEF ClientInv, NilNeedsClose, PanicNeedsClose
<1> QED
    BY <1>1, <1>2, <1>3, <1>4, <1>5, <1>6 DEF ClientInv, ChannelInv

\* Close ends the only connection and the only channel there can be.
LEMMA CloseInv ==
    ASSUME ClientInv, Close
    PROVE  ClientInv'
<1> USE DEF Close, closeConn, callVars
<1>1. liveConn' = {} /\ liveCh' = {}
    BY DEF ClientInv, ChannelInv, OneConnection, ChannelsLive
<1>2. faults \in Nat /\ closes \in Nat /\ conns \in Nat /\ chans \in Nat
    BY ClientAssumption DEF ClientInv, TypeOK, Ids
<1>3. TypeOK'
  <2>1. closes' \in 0..MaxCloses
    BY ClientAssumption DEF ClientInv, TypeOK
  <2>2. watcher' \in [Ids -> {"none", "starting", "listening", "notified",
                              "ended", "missed"}]
    BY DEF ClientInv, TypeOK, told
  <2>3. publishChOpen' \in BOOLEAN
    OBVIOUS
  <2> QED
    BY <1>1, <2>1, <2>2, <2>3 DEF ClientInv, TypeOK
<1>4. OneConnection' /\ ChannelOnConnection' /\ NoLeakedChannel' /\ ChannelsLive'
    BY <1>1 DEF OneConnection, ChannelOnConnection, NoLeakedChannel, ChannelsLive
<1>5. ConnsNumbered'
    BY <1>1, <1>2 DEF ClientInv, ConnsNumbered
<1>6. ChansNumbered'
    BY <1>1, <1>2 DEF ClientInv, ChannelInv, TypeOK, ChansNumbered, told
<1>7. WatchersKnow'
    BY <1>1 DEF ClientInv, ChannelInv, ChannelsLive, OneConnection, WatchersKnow,
                TypeOK, told, channelsOn
<1>8. NilNeedsClose' /\ PanicNeedsClose'
    BY <1>2 DEF ClientInv, NilNeedsClose, PanicNeedsClose
<1> QED
    BY <1>3, <1>4, <1>5, <1>6, <1>7, <1>8 DEF ClientInv, ChannelInv

\* A broken connection takes the publisher channel with it.
LEMMA BreaksInv ==
    ASSUME ClientInv, NEW k \in Ids, connectionBreaks(k)
    PROVE  ClientInv'
<1> USE DEF connectionBreaks, callVars
<1>1. liveConn' = {} /\ liveCh' = {}
    BY DEF ClientInv, ChannelInv, OneConnection, ChannelsLive, channelsOn
<1>2. faults \in Nat /\ closes \in Nat /\ conns \in Nat /\ chans \in Nat
    BY ClientAssumption DEF ClientInv, TypeOK, Ids
<1>3. TypeOK'
    BY <1>1, ClientAssumption DEF ClientInv, TypeOK, told
<1>4. OneConnection' /\ ChannelOnConnection' /\ NoLeakedChannel' /\ ChannelsLive'
    BY <1>1 DEF ClientInv, ChannelInv, OneConnection, ChannelOnConnection,
                NoLeakedChannel, ChannelsLive
<1>5. ConnsNumbered'
    BY <1>1, <1>2 DEF ClientInv, ConnsNumbered
<1>6. ChansNumbered'
    BY <1>1, <1>2 DEF ClientInv, ChannelInv, TypeOK, ChansNumbered, told
<1>7. WatchersKnow'
    BY <1>1 DEF ClientInv, ChannelInv, ChannelsLive, OneConnection, WatchersKnow,
                TypeOK, told, channelsOn
<1>8. NilNeedsClose' /\ PanicNeedsClose'
    BY <1>2 DEF ClientInv, NilNeedsClose, PanicNeedsClose
<1> QED
    BY <1>3, <1>4, <1>5, <1>6, <1>7, <1>8 DEF ClientInv, ChannelInv

\* The broker closes the publisher channel, which is the only one.
LEMMA ClosesInv ==
    ASSUME ClientInv, NEW h \in Ids, channelCloses(h)
    PROVE  ClientInv'
<1> USE DEF channelCloses, callVars, connVars
<1>1. liveCh' = {}
    BY DEF ClientInv, ChannelInv, NoLeakedChannel
<1>2. faults \in Nat /\ closes \in Nat /\ conns \in Nat /\ chans \in Nat
    BY ClientAssumption DEF ClientInv, TypeOK, Ids
<1>3. TypeOK'
    BY <1>1, ClientAssumption DEF ClientInv, TypeOK, told
<1>4. OneConnection' /\ ChannelOnConnection' /\ NoLeakedChannel' /\ ChannelsLive'
    BY <1>1 DEF ClientInv, ChannelInv, OneConnection, ChannelOnConnection,
                NoLeakedChannel, ChannelsLive
<1>5. ConnsNumbered'
    BY <1>2 DEF ClientInv, ConnsNumbered
<1>6. ChansNumbered'
    BY <1>1, <1>2 DEF ClientInv, ChannelInv, TypeOK, ChansNumbered, told
<1>7. WatchersKnow'
    BY <1>1 DEF ClientInv, ChannelInv, NoLeakedChannel, WatchersKnow, TypeOK, told
<1>8. NilNeedsClose' /\ PanicNeedsClose'
    BY DEF ClientInv, NilNeedsClose, PanicNeedsClose
<1> QED
    BY <1>3, <1>4, <1>5, <1>6, <1>7, <1>8 DEF ClientInv, ChannelInv

----------------------------------------------------------------------------
(* The theorems.                                                            *)

\* The invariant holds initially.
LEMMA InitInv == Init => ClientInv
<1> SUFFICES ASSUME Init PROVE ClientInv
    OBVIOUS
<1>1. TypeOK
  <2>1. faults \in 0..MaxFaults /\ closes \in 0..MaxCloses
    BY ClientAssumption DEF Init
  <2>2. publishChOpen \in BOOLEAN /\ panicked \in BOOLEAN
    BY DEF Init
  <2> QED
    BY <2>1, <2>2 DEF Init, TypeOK
<1>2. OneConnection /\ ConnsNumbered
    BY DEF Init, OneConnection, ConnsNumbered
<1>3. ChannelOnConnection /\ NoLeakedChannel /\ ChannelsLive /\ WatchersKnow
    BY DEF Init, ChannelOnConnection, NoLeakedChannel, ChannelsLive, WatchersKnow
<1>4. ChansNumbered
    BY ClientAssumption DEF Init, ChansNumbered, Ids
<1>5. NilNeedsClose /\ PanicNeedsClose
    BY DEF Init, NilNeedsClose, PanicNeedsClose
<1> QED
    BY <1>1, <1>2, <1>3, <1>4, <1>5 DEF ClientInv, ChannelInv

\* Every step preserves the invariant.
LEMMA NextInv == ClientInv /\ [Next]_vars => ClientInv'
<1> SUFFICES ASSUME ClientInv, [Next]_vars PROVE ClientInv'
    OBVIOUS
<1>1. CASE \E p \in Publisher : PublishNext(p)
    BY <1>1, CallInv, PublisherChannelInv, PublisherChannelFailsInv DEF PublishNext
<1>2. CASE \E o \in Opener : Connect(o) \/ Channel(o)
    BY <1>2, ConnectInv, ChannelKeepsInv
<1>3. CASE \E h \in Ids : WatchNext(h) \/ connectionBreaks(h) \/ channelCloses(h)
    BY <1>3, WatchInv, BreaksInv, ClosesInv
<1>4. CASE Close
    BY <1>4, CloseInv
<1>5. CASE UNCHANGED vars
  <2> USE <1>5 DEF ClientInv, vars, callVars
  <2>1. OneConnection' /\ ConnsNumbered' /\ ChannelInv'
    BY CallersKeepChannels
  <2>2. TypeOK'
    BY DEF TypeOK, connVars, chanVars, boundVars
  <2>3. NilNeedsClose' /\ PanicNeedsClose'
    BY DEF NilNeedsClose, PanicNeedsClose, connVars, boundVars
  <2> QED
    BY <2>1, <2>2, <2>3
<1> QED
    BY <1>1, <1>2, <1>3, <1>4, <1>5 DEF Next

\* The invariant of rabbitmq.Client, for any number of goroutines and faults.
THEOREM ClientInvariant == Spec => []ClientInv
<1> QED
    BY InitInv, NextInv, PTL DEF Spec

\* Type correctness: in particular there are never more connections or channels
\* than faults and closes account for.
THEOREM ClientTypeOK == Spec => []TypeOK
<1>1. ClientInv => TypeOK
    BY DEF ClientInv
<1> QED
    BY <1>1, ClientInvariant, PTL

\* A client never has two open connections, and the one it has is the one Close
\* closes.
THEOREM ClientOneConnection == Spec => []OneConnection
<1>1. ClientInv => OneConnection
    BY DEF ClientInv
<1> QED
    BY <1>1, ClientInvariant, PTL

\* Publishers are never left on a channel of a connection that was replaced.
THEOREM ClientChannelOnConnection == Spec => []ChannelOnConnection
<1>1. ClientInv => ChannelOnConnection
    BY DEF ClientInv, ChannelInv
<1> QED
    BY <1>1, ClientInvariant, PTL

\* A publisher channel that was replaced or forgotten is closed.
THEOREM ClientNoLeakedChannel == Spec => []NoLeakedChannel
<1>1. ClientInv => NoLeakedChannel
    BY DEF ClientInv, ChannelInv
<1> QED
    BY <1>1, ClientInvariant, PTL

\* A dead channel that publishers still use has a watching goroutine on its way,
\* or one that came too late to be told.
THEOREM ClientStaleChannelIsNoticed == Spec => []StaleChannelIsNoticed
<1>1. ClientInv => StaleChannelIsNoticed
  <2> SUFFICES ASSUME ClientInv, stale
               PROVE  watcher[publishCh] \in {"starting", "notified", "missed"}
    BY DEF StaleChannelIsNoticed
  <2>1. publishCh \in Ids /\ ~(publishCh > chans)
    BY ClientAssumption
    DEF stale, ClientInv, ChannelInv, TypeOK, ChannelsLive, ChansNumbered, Ids
  <2>2. watcher[publishCh] \notin {"none", "listening", "ended"}
    BY <2>1 DEF stale, ClientInv, ChannelInv, ChansNumbered, WatchersKnow
  <2> QED
    BY <2>1, <2>2 DEF ClientInv, TypeOK
<1> QED
    BY <1>1, ClientInvariant, PTL

\* connection() meets a nil connection only after a Close.
THEOREM ClientPanicNeedsClose == Spec => []PanicNeedsClose
<1>1. ClientInv => PanicNeedsClose
    BY DEF ClientInv
<1> QED
    BY <1>1, ClientInvariant, PTL
=============================================================================
