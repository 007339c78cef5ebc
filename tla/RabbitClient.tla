---------------------------- MODULE RabbitClient ----------------------------
(***************************************************************************)
(* rabbitmq.Client (rabbitmq/client.go): one lazily dialled connection,    *)
(* one publisher channel on it, the goroutine that watches that channel,   *)
(* and the calls of Publish, Channel and Close that share them.            *)
(*                                                                         *)
(* A section under c.mu is one action.  The broker and amqp091 are         *)
(* external: connections and channels are numbered in the order they are   *)
(* opened and die by Close, by an error the broker sends, or when the      *)
(* network breaks.                                                         *)
(***************************************************************************)
EXTENDS Naturals

CONSTANTS
    Publisher,  \* goroutines that publish a message and try again on an error
    Opener,     \* goroutines that open a channel of their own (consumers)
    MaxFaults,  \* bound: broken connections, closed channels, failed dials
    MaxCloses   \* bound: calls of Close

ASSUME ClientAssumption == MaxFaults \in Nat /\ MaxCloses \in Nat

None == 0
Ids  == 1 .. (MaxFaults + MaxCloses + 1)

VARIABLES
    conn,           \* c.conn: a connection or None
    publishCh,      \* c.publishCh: a channel or None
    publishChOpen,
    liveConn,       \* connections that are open
    liveCh,         \* publisher channels that are open
    connOf,         \* connOf[h]: the connection publisher channel h is on
    watcher,        \* watcher[h]: the goroutine started with channel h
    conns, chans,   \* how many have been opened so far
    publishMu,      \* who holds c.publishMu, or None
    pc,             \* where each caller is
    ch,             \* ch[p]: the channel publisherChannel gave p
    faults, closes,
    panicked

connVars == <<conn, liveConn, conns>>
chanVars == <<publishCh, publishChOpen, liveCh, connOf, watcher, chans>>
callVars == <<publishMu, pc, ch>>
boundVars == <<faults, closes>>
vars == <<connVars, chanVars, callVars, boundVars, panicked>>

Caller == Publisher \cup Opener

TypeOK ==
    /\ conn \in Ids \cup {None} /\ liveConn \subseteq Ids
    /\ publishCh \in Ids \cup {None} /\ liveCh \subseteq Ids
    /\ publishChOpen \in BOOLEAN
    /\ connOf \in [Ids -> Ids \cup {None}]
    /\ watcher \in [Ids -> {"none", "starting", "listening", "notified", "ended", "missed"}]
    /\ conns \in Ids \cup {None} /\ chans \in Ids \cup {None}
    /\ publishMu \in Publisher \cup {None}
    /\ pc \in [Caller -> {"idle", "locked", "send", "sent", "rejected",
                          "connected", "opened", "failed"}]
    /\ ch \in [Publisher -> Ids \cup {None}]
    /\ faults \in 0..MaxFaults /\ closes \in 0..MaxCloses
    /\ panicked \in BOOLEAN

Init ==
    /\ conn = None /\ publishCh = None /\ publishChOpen = FALSE
    /\ liveConn = {} /\ liveCh = {} /\ conns = 0 /\ chans = 0
    /\ connOf = [h \in Ids |-> None]
    /\ watcher = [h \in Ids |-> "none"]
    /\ publishMu = None
    /\ pc = [p \in Caller |-> "idle"]
    /\ ch = [p \in Publisher |-> None]
    /\ faults = 0 /\ closes = 0
    /\ panicked = FALSE

At(p, where) == ~panicked /\ pc[p] = where
Goto(p, where) == pc' = [pc EXCEPT ![p] = where]

----------------------------------------------------------------------------
(* Dialling.                                                                *)

\* Mutant: any connection object is taken for an open one.
usableEvenIfClosed == conn # None

\* c.conn != nil && !c.conn.IsClosed()
usable == conn # None /\ conn \in liveConn

\* amqp.Dial answered.
dialled ==
    /\ conns' = conns + 1
    /\ conn' = conns + 1
    /\ liveConn' = liveConn \cup {conns + 1}

\* amqp.Dial, or opening a channel, fails.
openFails ==
    /\ faults < MaxFaults
    /\ faults' = faults + 1

\* Mutant: Connect replaces the connection and keeps the publisher channel.
forgetChannelNot == UNCHANGED <<publishCh, publishChOpen>>

\* A new connection has no publisher channel.
forgetChannel == publishCh' = None /\ publishChOpen' = FALSE

\* Mutant: the error of Dial is dropped.
afterDialErrorGoOn == "connected"

afterDialError == "failed"

\* Connect, called by Channel.
Connect(o) ==
    /\ At(o, "idle")
    /\ \/ /\ usable
          /\ Goto(o, "connected")
          /\ UNCHANGED <<connVars, publishCh, publishChOpen, faults>>
       \/ /\ ~usable
          /\ dialled /\ forgetChannel
          /\ Goto(o, "connected")
          /\ UNCHANGED faults
       \/ /\ ~usable
          /\ openFails
          /\ Goto(o, afterDialError)
          /\ UNCHANGED <<connVars, publishCh, publishChOpen>>
    /\ UNCHANGED <<liveCh, connOf, watcher, chans, publishMu, ch, closes, panicked>>

\* connection() reads c.conn again, without the lock: Close may have set it to
\* nil ...
connection == conn

\* ... and conn.Channel() on a nil connection panics.  It fails on a closed one,
\* and may fail on an open one.
Channel(o) ==
    /\ At(o, "connected")
    /\ \/ /\ connection \in liveConn
          /\ Goto(o, "opened") /\ UNCHANGED <<faults, panicked>>
       \/ /\ connection \in liveConn /\ openFails
          /\ Goto(o, "failed") /\ UNCHANGED panicked
       \/ /\ connection \notin liveConn
          /\ Goto(o, "failed") /\ UNCHANGED faults
          /\ panicked' = (connection = None)
    /\ UNCHANGED <<connVars, chanVars, publishMu, ch, closes>>

----------------------------------------------------------------------------
(* Publish.                                                                 *)

\* The routing key is empty.
rejectRoutingKey(p) ==
    /\ At(p, "idle")
    /\ Goto(p, "rejected")
    /\ UNCHANGED <<connVars, chanVars, publishMu, ch, boundVars, panicked>>

lockPublish(p) ==
    /\ At(p, "idle")
    /\ publishMu = None
    /\ publishMu' = p
    /\ Goto(p, "locked")
    /\ UNCHANGED <<connVars, chanVars, ch, boundVars, panicked>>

\* Publish returns: with an error the caller comes back later.
Return(p, where) == publishMu' = None /\ Goto(p, where)

\* c.conn.Channel() answered: the channel is remembered and a goroutine watches it.
openChannel(on) ==
    /\ chans' = chans + 1
    /\ publishCh' = chans + 1
    /\ publishChOpen' = TRUE
    /\ liveCh' = liveCh \cup {chans + 1}
    /\ connOf' = [connOf EXCEPT ![chans + 1] = on]
    /\ watcher' = [watcher EXCEPT ![chans + 1] = "starting"]

\* publisherChannel: dial if need be, then the remembered channel or a new one.
publisherChannel(p) ==
    /\ At(p, "locked")
    /\ \/ /\ usable /\ publishCh # None /\ publishChOpen
          /\ ch' = [ch EXCEPT ![p] = publishCh]
          /\ UNCHANGED <<connVars, chanVars>>
       \/ /\ usable /\ (publishCh = None \/ ~publishChOpen)
          /\ conn \in liveConn
          /\ openChannel(conn)
          /\ ch' = [ch EXCEPT ![p] = chans + 1]
          /\ UNCHANGED connVars
       \/ /\ ~usable
          /\ dialled
          /\ openChannel(conns + 1)
          /\ ch' = [ch EXCEPT ![p] = chans + 1]
    /\ Goto(p, "send")
    /\ UNCHANGED <<publishMu, boundVars, panicked>>

\* publisherChannel cannot dial, or has a connection and gets no channel on it.
publisherChannelFails(p) ==
    /\ At(p, "locked")
    /\ openFails
    /\ \/ ~usable /\ UNCHANGED <<connVars, publishCh, publishChOpen>>
       \/ ~usable /\ dialled /\ forgetChannel
       \/ /\ usable /\ (publishCh = None \/ ~publishChOpen)
          /\ UNCHANGED <<connVars, publishCh, publishChOpen>>
    /\ Return(p, "idle")
    /\ UNCHANGED <<liveCh, connOf, watcher, chans, ch, closes, panicked>>

\* PublishWithContext: an error on a closed channel.  Nothing confirms that the
\* broker routed the message.
publishWithContext(p) ==
    /\ At(p, "send")
    /\ Return(p, IF ch[p] \in liveCh THEN "sent" ELSE "idle")
    /\ UNCHANGED <<connVars, chanVars, ch, boundVars, panicked>>

----------------------------------------------------------------------------
(* The goroutine that watches the publisher channel.                        *)

\* NotifyClose registers; on a channel that is already closed it closes its
\* argument, and the goroutine ends without having touched publishChOpen.
notifyClose(h) ==
    /\ ~panicked
    /\ watcher[h] = "starting"
    /\ watcher' = [watcher EXCEPT ![h] = IF h \in liveCh THEN "listening" ELSE "missed"]
    /\ UNCHANGED <<connVars, publishCh, publishChOpen, liveCh, connOf, chans,
                   callVars, boundVars, panicked>>

\* Mutant: the flag is reset whichever channel is current.
isCurrentAlways(h) == TRUE

\* Mutant: the flag is never reset.
isCurrentNever(h) == FALSE

\* c.publishCh == ch
isCurrent(h) == publishCh = h

\* An error came: publishChOpen is reset if the channel is still the current one.
channelLost(h) ==
    /\ ~panicked
    /\ watcher[h] = "notified"
    /\ publishChOpen' = (publishChOpen /\ ~isCurrent(h))
    /\ watcher' = [watcher EXCEPT ![h] = "ended"]
    /\ UNCHANGED <<connVars, publishCh, liveCh, connOf, chans, callVars,
                   boundVars, panicked>>

\* What listening goroutines learn when channels hs close: after an error they
\* are notified, after an orderly Close their channel is closed (ok = false).
told(hs, to) ==
    [h \in Ids |-> IF h \in hs /\ watcher[h] = "listening" THEN to ELSE watcher[h]]

channelsOn(k) == {h \in liveCh : connOf[h] = k}

----------------------------------------------------------------------------
(* Close and the faults.                                                    *)

\* Mutant: the connection is dropped without being closed.
closeConnLeaks == liveConn

\* conn.Close()
closeConn == liveConn \ {conn}

\* Close: the publisher channel, then the connection.
Close ==
    /\ ~panicked
    /\ closes < MaxCloses
    /\ closes' = closes + 1
    /\ liveConn' = closeConn
    /\ liveCh' = {h \in liveCh : connOf[h] # conn}
    /\ watcher' = told(channelsOn(conn), "ended")
    /\ conn' = None
    /\ publishCh' = None /\ publishChOpen' = FALSE
    /\ UNCHANGED <<connOf, conns, chans, callVars, faults, panicked>>

\* The network or the broker ends a connection and every channel on it.
connectionBreaks(k) ==
    /\ ~panicked
    /\ faults < MaxFaults /\ faults' = faults + 1
    /\ k \in liveConn
    /\ liveConn' = liveConn \ {k}
    /\ liveCh' = liveCh \ channelsOn(k)
    /\ watcher' = told(channelsOn(k), "notified")
    /\ UNCHANGED <<conn, conns, publishCh, publishChOpen, connOf, chans,
                   callVars, closes, panicked>>

\* The broker closes a channel, for instance after a publish to an exchange that
\* does not exist.
channelCloses(h) ==
    /\ ~panicked
    /\ faults < MaxFaults /\ faults' = faults + 1
    /\ h \in liveCh
    /\ liveCh' = liveCh \ {h}
    /\ watcher' = told({h}, "notified")
    /\ UNCHANGED <<connVars, publishCh, publishChOpen, connOf, chans, callVars,
                   closes, panicked>>

----------------------------------------------------------------------------
PublishNext(p) ==
    rejectRoutingKey(p) \/ lockPublish(p) \/ publisherChannel(p)
        \/ publisherChannelFails(p) \/ publishWithContext(p)

WatchNext(h) == notifyClose(h) \/ channelLost(h)

Next ==
    \/ \E p \in Publisher : PublishNext(p)
    \/ \E o \in Opener : Connect(o) \/ Channel(o)
    \/ \E h \in Ids : WatchNext(h) \/ connectionBreaks(h) \/ channelCloses(h)
    \/ Close

Spec == Init /\ [][Next]_vars

\* Goroutines are scheduled and a free mutex is handed to whoever waits long
\* enough for it (Go's mutexes do not starve); faults come to an end.
Fairness ==
    /\ \A p \in Publisher :
           /\ SF_vars(lockPublish(p))
           /\ WF_vars(publisherChannel(p)) /\ WF_vars(publishWithContext(p))
    /\ \A h \in Ids : WF_vars(WatchNext(h))

FairSpec == Spec /\ Fairness

----------------------------------------------------------------------------
(* Properties.                                                              *)

\* A client has at most one open connection, the one Close will close: whoever
\* replaces c.conn has seen the old one closed.
OneConnection == liveConn \subseteq {conn}

\* The remembered publisher channel is a channel of the current connection: a
\* reconnect by a consumer does not leave publishers on the old connection.
ChannelOnConnection == publishCh # None => connOf[publishCh] = conn

\* Every open channel the client opened to publish is the remembered one; the
\* others are closed and cost nothing.
NoLeakedChannel == liveCh \subseteq {publishCh}

\* Publishers keep a dead channel of a live connection only until the watching
\* goroutine has run, or when that goroutine came too late to be told.
stale == usable /\ publishChOpen /\ publishCh \notin liveCh

StaleChannelIsNoticed ==
    stale => watcher[publishCh] \in {"starting", "notified", "missed"}

\* The only panic is the nil connection of connection(), and it takes a Close
\* between Connect and the read.
PanicNeedsClose == panicked => closes > 0 /\ conn = None

\* Once the faults end every publisher gets its message out, unless the watching
\* goroutine missed the end of the channel publishers are left with.
EveryPublishEnds ==
    <>[](\/ panicked
         \/ stale /\ watcher[publishCh] = "missed"
         \/ \A p \in Publisher : pc[p] \in {"sent", "rejected"})
=============================================================================
