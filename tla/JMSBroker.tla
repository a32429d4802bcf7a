------------------------------- MODULE JMSBroker -------------------------------
(***************************************************************************)
(* A JMS simulator: brokers with a topic and a queue connection of one     *)
(* session each, destinations it publishes to or listens to, and a         *)
(* producer factory that is never emptied, over starts and stops.          *)
(*                                                                         *)
(* The JMS server is external.  It runs the listeners of a session one     *)
(* after the other on the session's thread, keeps what was sent for its    *)
(* receivers, lets only the connection that made a temporary queue read    *)
(* from it, and makes the close of a connection wait for the listener that *)
(* runs.  A response of a rule goes through the simulator registry         *)
(* (AbstractSimRequest.fillResponse), whose monitor a start or a stop      *)
(* holds from begin to end; forwarding to the proxy channel does not.      *)
(***************************************************************************)
EXTENDS Naturals

CONSTANTS
  Name,        \* names of destinations
  Broker,
  Dest,        \* destination folders: unified names, <<name, broker>>
  KindOf,      \* simulator.jms.destination.type
  Pub, Sub,    \* simulator.jms.client.type
  Channel,     \* simulator.jms.destination.proxy.channel, or None
  ReplyTo,     \* names clients want replies at
  None,
  Message,     \* what clients send
  MaxStart     \* bound: starts of the simulator

Kind == {"Topic", "Queue"}
Conn == Broker \X Kind
Key == Name \X Broker
Producer == [conn : Conn, start : Nat]
Temp == [dest : Dest, reply : ReplyTo, start : Nat]

ASSUME JMSAssumption ==
  /\ Dest \subseteq Key /\ ReplyTo \subseteq Name
  /\ KindOf \in [Dest -> Kind]
  /\ Pub \subseteq Dest /\ Sub \subseteq Dest
  /\ Channel \in [Dest -> Key \cup {None}]
  /\ None \notin Key \cup ReplyTo \cup Message \cup Conn \cup Producer \cup Temp
  /\ ReplyTo \cap {"no", "lost", "late"} = {}
  /\ MaxStart \in Nat

VARIABLES
  open,         \* connections that are open
  listening,    \* destinations whose SimMessageListener is set
  producerMap,  \* ProducerFactory.producerMap: a producer's connection and start
  replaced,     \* history: keys whose producer a handler replaced in this start
  temps,        \* consumerMap: temporary queues that listeners read replies from
  life,         \* what the management thread is at
  todo,         \* brokers, destinations or connections its loop has yet to do
  closing,      \* the connection whose close waits for the listener
  starts,
  step,         \* what the thread of a session is at
  msg,          \* the message it has
  channel,      \* the channel its response goes to
  replyTo,      \* external: the JMSReplyTo of a client's message
  to,           \* the destination a message was received at
  via,          \* the temporary queue its forwarded copy asks replies at
  fate,         \* history: what became of a message
  reply,        \* history: where the reply to the forwarded copy was sent
  excused       \* history: messages the JMS server or another client failed

manager == <<life, todo, closing, starts>>
handler == <<step, msg, channel>>
producers == <<producerMap, replaced>>
mail == <<replyTo, to, via>>
history == <<fate, reply, excused>>
vars == <<open, listening, producers, temps, manager, handler, mail, history>>

ConnOf(d) == <<d[2], KindOf[d]>>
ReplyKey(d, r) == <<r, d[2]>>
\* In "create" and "createRelay" getProducer has found no producer, and the
\* listener is about to add one of its own session.
Step == {"idle", "match", "create", "answer", "proxy", "relay", "createRelay"}
Life == {"down", "brokers", "destinations", "up", "stopping"}
\* Ignored: no request could be made.  Missed: not forwarded, for the producer
\* it found while the simulator was not up.
Fate == {"unread", "taken", "ignored", "answered", "forwarded", "failed", "missed"}

TypeOK ==
  /\ open \subseteq Conn /\ listening \subseteq Sub
  /\ producerMap \in [Key -> Producer \cup {None}]
  /\ temps \subseteq Temp /\ replaced \subseteq Key
  /\ life \in Life /\ starts \in 0 .. MaxStart
  /\ todo \subseteq Broker \cup Dest \cup Conn
  /\ closing \in Conn \cup {None}
  /\ step \in [Conn -> Step]
  /\ msg \in [Conn -> Message \cup {None}]
  /\ channel \in [Conn -> Key \cup {None}]
  /\ replyTo \in [Message -> ReplyTo \cup {None}]
  /\ to \in [Message -> Dest \cup {None}]
  /\ via \in [Message -> Temp \cup {None}]
  /\ fate \in [Message -> Fate]
  /\ reply \in [Message -> ReplyTo \cup {"no", "lost", "late"}]
  /\ excused \subseteq Message

Init ==
  /\ open = {} /\ listening = {} /\ temps = {} /\ replaced = {}
  /\ producerMap = [k \in Key |-> None]
  /\ life = "down" /\ todo = {} /\ closing = None /\ starts = 0
  /\ step = [c \in Conn |-> "idle"]
  /\ msg = [c \in Conn |-> None]
  /\ channel = [c \in Conn |-> None]
  /\ replyTo \in [Message -> ReplyTo \cup {None}]
  /\ to = [m \in Message |-> None]
  /\ via = [m \in Message |-> None]
  /\ fate = [m \in Message |-> "unread"]
  /\ reply = [m \in Message |-> "no"]
  /\ excused = {}

-----------------------------------------------------------------------------
(* The management thread, inside startSimulator or stopSimulator.          *)

Start ==
  /\ life = "down" /\ starts < MaxStart
  /\ life' = "brokers" /\ todo' = Broker /\ starts' = starts + 1
  /\ UNCHANGED <<open, listening, producers, temps, closing, handler, mail, history>>

ConnsOf(b) == {b} \X Kind

\* A broker folder may name a factory for topics, for queues, for both.
StartBroker(b) ==
  /\ life = "brokers" /\ b \in todo
  /\ \E S \in SUBSET ConnsOf(b) : open' = open \cup S
  /\ todo' = todo \ {b}
  /\ UNCHANGED <<listening, producers, temps, life, closing, starts, handler,
                 mail, history>>

\* doStop, of a running simulator or after a failed start: every broker that
\* brokerMap has.  Those the start has not come to are closed already.
StopBegins == life' = "stopping" /\ todo' = Conn

\* Mutant of StartBrokerFails: the broker is put into brokerMap once started.
StartBrokerFailsFirst(b) ==
  /\ life = "brokers" /\ b \in todo
  /\ \E S \in SUBSET ConnsOf(b) : open' = open \cup S
  /\ life' = "stopping" /\ todo' = Conn \ ConnsOf(b)
  /\ UNCHANGED <<listening, producers, temps, closing, starts, handler, mail,
                 history>>

\* A lookup or a connection fails, after none, one or both connections were
\* made; brokerMap has the broker before it is started.
StartBrokerFails(b) ==
  /\ life = "brokers" /\ b \in todo
  /\ \E S \in SUBSET ConnsOf(b) : open' = open \cup S
  /\ StopBegins
  /\ UNCHANGED <<listening, producers, temps, closing, starts, handler, mail,
                 history>>

BrokersStarted ==
  /\ life = "brokers" /\ todo = {}
  /\ life' = "destinations" /\ todo' = Dest
  /\ UNCHANGED <<open, listening, producers, temps, closing, starts, handler,
                 mail, history>>

NewProducer(c) == [conn |-> c, start |-> starts]

\* Mutant of AddProducer: a producer that is there stays.
AddProducerIfAbsent(d) ==
  /\ producerMap' = [producerMap EXCEPT ![d] = IF @ = None THEN NewProducer(ConnOf(d)) ELSE @]
  /\ replaced' = replaced \ {d}

AddProducer(d) ==
  /\ producerMap' = [producerMap EXCEPT ![d] = NewProducer(ConnOf(d))]
  /\ replaced' = replaced \ {d}

\* A destination gets its producer, then its listener.
HandleDestination(d) ==
  /\ life = "destinations" /\ d \in todo /\ ConnOf(d) \in open /\ d \in Pub \cup Sub
  /\ IF d \in Pub THEN AddProducer(d) ELSE UNCHANGED producers
  /\ listening' = IF d \in Sub THEN listening \cup {d} ELSE listening
  /\ todo' = todo \ {d}
  /\ UNCHANGED <<open, temps, life, closing, starts, handler, mail, history>>

\* No such broker, session, destination or client type, or JMS fails.
DestinationFails(d) ==
  /\ life = "destinations" /\ d \in todo
  /\ \/ UNCHANGED producers
     \/ d \in Pub /\ ConnOf(d) \in open /\ AddProducer(d)
  /\ StopBegins
  /\ UNCHANGED <<open, listening, temps, closing, starts, handler, mail, history>>

Started ==
  /\ life = "destinations" /\ todo = {}
  /\ life' = "up"
  /\ UNCHANGED <<open, listening, producers, temps, todo, closing, starts, handler,
                 mail, history>>

Stop ==
  /\ life = "up"
  /\ StopBegins
  /\ UNCHANGED <<open, listening, producers, temps, closing, starts, handler, mail,
                 history>>

\* Broker after broker, the topic connection before the queue connection.
ClosesNext(c) ==
  /\ c \in todo
  /\ c[2] = "Queue" => <<c[1], "Topic">> \notin todo
  /\ \A b \in Broker \ {c[1]} : ConnsOf(b) \subseteq todo \/ ConnsOf(b) \cap todo = {}

\* Mutant of CloseConn: no look whether the connection was made.
CloseConnMade(c) ==
  /\ life = "stopping" /\ closing = None /\ ClosesNext(c) /\ c \in open
  /\ closing' = c /\ todo' = todo \ {c}
  /\ UNCHANGED <<open, listening, producers, temps, life, starts, handler, mail,
                 history>>

\* No listener of the connection runs any more from here on, but for the one
\* that does.
CloseConn(c) ==
  /\ life = "stopping" /\ closing = None /\ ClosesNext(c)
  /\ closing' = c /\ todo' = todo \ {c}
  /\ UNCHANGED <<open, listening, producers, temps, life, starts, handler, mail,
                 history>>

\* close returns: consumers and temporary queues are gone with the connection.
ConnClosed ==
  /\ closing # None /\ step[closing] = "idle"
  /\ open' = open \ {closing}
  /\ listening' = {d \in listening : ConnOf(d) # closing}
  /\ temps' = {t \in temps : ConnOf(t.dest) # closing}
  /\ closing' = None
  /\ UNCHANGED <<producers, life, todo, starts, handler, mail, history>>

Stopped ==
  /\ life = "stopping" /\ closing = None /\ todo = {}
  /\ life' = "down"
  /\ UNCHANGED <<open, listening, producers, temps, todo, closing, starts, handler,
                 mail, history>>

ManagerStep ==
  \/ \E b \in Broker : StartBroker(b) \/ StartBrokerFails(b)
  \/ BrokersStarted \/ Started \/ ConnClosed \/ Stopped
  \/ \E d \in Dest : HandleDestination(d) \/ DestinationFails(d)
  \/ \E c \in Conn : CloseConn(c)

-----------------------------------------------------------------------------
(* The session threads.                                                    *)

Live(p) == p # None /\ p.start = starts /\ p.conn \in open

\* Free to run a listener.
Idle(c) == c \in open /\ c # closing /\ step[c] = "idle"
Goto(c, s) == step' = [step EXCEPT ![c] = s]

Finish(c, f) ==
  /\ Goto(c, "idle")
  /\ msg' = [msg EXCEPT ![c] = None]
  /\ channel' = [channel EXCEPT ![c] = None]
  /\ fate' = [fate EXCEPT ![msg[c]] = f]

\* SimMessageListener.onMessage makes a request, or logs that it cannot.
OnMessage(c, d, m) ==
  /\ Idle(c) /\ d \in listening /\ ConnOf(d) = c /\ fate[m] = "unread"
  /\ to' = [to EXCEPT ![m] = d]
  /\ \/ /\ Goto(c, "match") /\ msg' = [msg EXCEPT ![c] = m]
        /\ fate' = [fate EXCEPT ![m] = "taken"]
     \/ /\ fate' = [fate EXCEPT ![m] = "ignored"]
        /\ UNCHANGED <<step, msg>>
  /\ UNCHANGED <<open, listening, producers, temps, manager, channel, replyTo, via,
                 reply, excused>>

\* What genResponse's exception leads to, whichever it is.
NoResponse(c) ==
  IF Channel[to[msg[c]]] # None
    THEN Goto(c, "proxy") /\ UNCHANGED <<msg, channel, fate>>
    ELSE Finish(c, "failed")

Excuse(c) == excused' = excused \cup {msg[c]}

\* A listener puts a producer of its own session, whatever the map has by
\* now: the declared producer, which a start has added since, or another
\* listener's.
AddOwnProducer(k, c) ==
  /\ producerMap' = [producerMap EXCEPT ![k] = NewProducer(c)]
  /\ replaced' = IF producerMap[k] = None THEN replaced ELSE replaced \cup {k}

\* The first rule that matches names a channel, or means the JMSReplyTo, for
\* which doFillResponse then gets the producer.  A message without one is a
\* NullPointerException, which counts as no response.
Matches(c) ==
  LET d == to[msg[c]]
      r == replyTo[msg[c]] IN
  /\ step[c] = "match"
  /\ \/ /\ \E k \in Key : Goto(c, "answer") /\ channel' = [channel EXCEPT ![c] = k]
        /\ UNCHANGED <<msg, fate>>
     \/ /\ r # None
        /\ channel' = [channel EXCEPT ![c] = ReplyKey(d, r)]
        /\ Goto(c, IF producerMap[ReplyKey(d, r)] = None THEN "create" ELSE "answer")
        /\ UNCHANGED <<msg, fate>>
     \/ NoResponse(c)
  /\ UNCHANGED <<open, listening, producers, temps, manager, mail, reply, excused>>

\* Creating it may fail.
CreatesProducer(c) ==
  /\ step[c] = "create"
  /\ \/ /\ AddOwnProducer(channel[c], c) /\ Goto(c, "answer")
        /\ UNCHANGED <<msg, channel, fate>>
     \/ NoResponse(c) /\ UNCHANGED producers
  /\ UNCHANGED <<open, listening, temps, manager, mail, reply, excused>>

\* The response goes through the registry, which has to be free and lets it
\* pass to a running simulator only.
RegistryFree == life \in {"down", "up"}
SendResponse(c) ==
  /\ step[c] = "answer" /\ RegistryFree
  /\ \/ life = "up" /\ Live(producerMap[channel[c]]) /\ Finish(c, "answered")
     \/ NoResponse(c)
  /\ UNCHANGED <<open, listening, producers, temps, manager, mail, reply, excused>>

\* Mutant of TempFor: consumerMap is asked for any temporary queue.
TempForAny(m) ==
  IF \E t \in temps : t.dest = to[m] THEN CHOOSE t \in temps : t.dest = to[m]
  ELSE [dest |-> to[m], reply |-> replyTo[m], start |-> starts]

TempFor(m) == [dest |-> to[m], reply |-> replyTo[m], start |-> starts]

\* The temporary queue is made by the producer's session and read by the
\* listener's, which takes one and the same connection.
CanAskReply(c, p) == TempFor(msg[c]) \in temps \/ p.conn = c

\* The message goes to the proxy channel, its JMSReplyTo replaced.
Forwards(c, p) ==
  LET m == msg[c] IN
  /\ Live(p)
  /\ IF replyTo[m] = None THEN UNCHANGED <<temps, via>>
     ELSE /\ CanAskReply(c, p)
          /\ temps' = temps \cup {TempFor(m)}
          /\ via' = [via EXCEPT ![m] = TempFor(m)]
  /\ Finish(c, "forwarded")
  /\ UNCHANGED excused

\* No producer, a closed session, another connection's temporary queue, or
\* the JMS server: the error is caught and the message reported as failed.
ForwardFails(c, p) ==
  LET m == msg[c] IN
  /\ Finish(c, IF life = "up" THEN "failed" ELSE "missed")
  /\ \/ /\ ~(Live(p) /\ (replyTo[m] = None \/ CanAskReply(c, p)))
        /\ UNCHANGED <<temps, excused>>
     \/ /\ Live(p) /\ Excuse(c)
        /\ temps' \in {temps, IF replyTo[m] # None /\ CanAskReply(c, p)
                                THEN temps \cup {TempFor(m)} ELSE temps}
  /\ UNCHANGED via

Forward(c) ==
  LET p == producerMap[Channel[to[msg[c]]]] IN
  /\ step[c] = "proxy"
  /\ Forwards(c, p) \/ ForwardFails(c, p)
  /\ UNCHANGED <<open, listening, producers, manager, replyTo, to, reply>>

\* Whoever reads the proxy channel replies: TempMessageListener.onMessage.
ReplyArrives(c, m) ==
  /\ Idle(c) /\ fate[m] = "forwarded" /\ reply[m] = "no"
  /\ via[m] \in temps /\ ConnOf(via[m].dest) = c
  /\ Goto(c, "relay") /\ msg' = [msg EXCEPT ![c] = m]
  /\ UNCHANGED <<open, listening, producers, temps, manager, channel, mail, history>>

Undelivered == IF life = "up" THEN "lost" ELSE "late"

\* Where the reply to the message at hand goes: the JMSReplyTo the temporary
\* queue was made for.
RelayKey(c) == ReplyKey(via[msg[c]].dest, via[msg[c]].reply)

RelayEnds(c, how) ==
  /\ Goto(c, "idle") /\ msg' = [msg EXCEPT ![c] = None]
  /\ reply' = [reply EXCEPT ![msg[c]] = how]

\* It is lost if the producer's session is closed, if the server fails, or if
\* it is no text message, for a ClassCastException that nobody catches.
Relay(c) ==
  LET p == producerMap[RelayKey(c)] IN
  /\ step[c] = "relay"
  /\ \/ p = None /\ Goto(c, "createRelay") /\ UNCHANGED <<msg, reply, excused>>
     \/ p # None /\ UNCHANGED excused
        /\ RelayEnds(c, IF Live(p) THEN via[msg[c]].reply ELSE Undelivered)
     \/ RelayEnds(c, "lost") /\ Excuse(c)
  /\ UNCHANGED <<open, listening, producers, temps, manager, channel, mail, fate>>

\* The new producer is added and sends the reply, or the server fails at the
\* one or the other.
CreatesRelay(c) ==
  /\ step[c] = "createRelay"
  /\ \/ /\ AddOwnProducer(RelayKey(c), c)
        /\ \/ RelayEnds(c, via[msg[c]].reply) /\ UNCHANGED excused
           \/ RelayEnds(c, "lost") /\ Excuse(c)
     \/ RelayEnds(c, "lost") /\ Excuse(c) /\ UNCHANGED producers
  /\ UNCHANGED <<open, listening, temps, manager, channel, mail, fate>>

Listener(c) ==
  \/ Matches(c) \/ CreatesProducer(c) \/ SendResponse(c) \/ Forward(c)
  \/ Relay(c) \/ CreatesRelay(c)

Next ==
  \/ Start \/ Stop \/ ManagerStep
  \/ \E c \in Conn, d \in Dest, m \in Message : OnMessage(c, d, m)
  \/ \E c \in Conn, m \in Message : ReplyArrives(c, m)
  \/ \E c \in Conn : Listener(c)

Spec == Init /\ [][Next]_vars

\* Threads go on; nobody has to send, start or stop.
FairSpec ==
  /\ Spec
  /\ WF_vars(ManagerStep)
  /\ \A c \in Conn : WF_vars(Listener(c))

-----------------------------------------------------------------------------
(* Properties.                                                             *)

\* A producer of an earlier start, whose session is closed.
Stale(k) == producerMap[k] # None /\ producerMap[k].start # starts

\* A message that a running simulator neither answers nor forwards has a
\* cause that is not an old producer: no proxy channel it publishes to, a
\* failure of the JMS server, or, when a reply is wanted, a channel on another
\* connection than the listener, which a listener's own producer may also have
\* become that replaced the declared one within this start.  So a restart
\* leaves no old producer behind for a declared channel
\* (JMSSimulator.prepare, handleDestination, onMessage, JMSSimRequest.doFillResponse).
FailedHasCause ==
  [][\A m \in Message : fate[m] # "failed" /\ fate'[m] = "failed" =>
       \/ m \in excused'
       \/ Channel[to[m]] \notin Pub
       \/ replyTo[m] # None /\ (\/ ConnOf(Channel[to[m]]) # ConnOf(to[m])
                                \/ Channel[to[m]] \in replaced)]_vars

\* A reply that is passed on reaches the client that asked for it, whatever
\* other messages were forwarded before it; one that a running simulator
\* loses met a producer kept from an earlier start, or a failure outside
\* (JMSSimulator consumerMap, TempMessageListener.onMessage, ProducerFactory).
RepliesFindTheirWay ==
  \A m \in Message :
    /\ reply[m] \in ReplyTo => reply[m] = replyTo[m]
    /\ reply[m] = "lost" => m \in excused \/ Stale(ReplyKey(to[m], replyTo[m]))

\* A simulator that is not running has no connection, listener or temporary
\* queue left and no listener at work, also after a start that failed half
\* way (JMSSimulator.prepare, doStop, JMSBroker.stop).
NothingOpenWhenDown ==
  life = "down" => /\ open = {} /\ listening = {} /\ temps = {}
                   /\ \A c \in Conn : step[c] = "idle"

\* A stop ends, unless it waits for a listener that waits for the registry
\* the stop itself keeps locked (JMSBroker.stop, getSimulator).
StopEndsOrWaits ==
  (life = "stopping") ~> (life = "down" \/ \E c \in Conn : step[c] = "answer")
==============================================================================
