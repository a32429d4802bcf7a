---------------------------- MODULE JMSBroker_proofs ----------------------------
(* The safety properties of JMSBroker, for any brokers, destinations,       *)
(* messages and number of starts.                                           *)
EXTENDS JMSBroker, TLAPS

----------------------------------------------------------------------------
(* The inductive invariant.                                                *)

\* What the management thread has opened, or not yet closed.
Phases ==
  /\ life # "stopping" => closing = None
  /\ life \in {"down", "brokers"} =>
       listening = {} /\ temps = {} /\ \A c \in Conn : step[c] = "idle"
  /\ life = "down" => open = {}
  /\ life = "brokers" => todo \subseteq Broker
  /\ life = "destinations" => todo \subseteq Dest
  /\ life = "up" => todo = {}
  /\ life = "stopping" => todo \subseteq Conn /\ open \subseteq todo \cup {closing}

\* Whatever reads messages, reads them from an open connection.
Readers ==
  /\ \A d \in listening : ConnOf(d) \in open
  /\ \A t \in temps : ConnOf(t.dest) \in open
  /\ \A c \in Conn : step[c] # "idle" => c \in open

\* The message a session thread has at hand.
HandlerAt(c) ==
  /\ step[c] # "idle" => msg[c] \in Message
  /\ step[c] \in {"match", "create", "answer", "proxy"} =>
       fate[msg[c]] = "taken" /\ ConnOf(to[msg[c]]) = c
  /\ step[c] \in {"relay", "createRelay"} =>
       /\ fate[msg[c]] = "forwarded" /\ reply[msg[c]] = "no"
       /\ via[msg[c]] \in Temp /\ ConnOf(via[msg[c]].dest) = c
Handlers == \A c \in Conn : HandlerAt(c)

\* What is known of a message once it was received, forwarded, replied to.
MailAt(m) ==
  /\ fate[m] # "unread" => to[m] \in Dest
  /\ fate[m] \in {"unread", "taken"} => via[m] = None
  /\ via[m] # None => via[m].dest = to[m] /\ via[m].reply = replyTo[m]
  /\ reply[m] # "no" => fate[m] = "forwarded"
Mails == \A m \in Message : MailAt(m)

\* No producer is from the future; those of the current start are on open
\* connections, and declared channels come to have such a one, on their own
\* connection unless a listener replaced it.
Fresh(d) == /\ producerMap[d] # None /\ producerMap[d].start = starts
            /\ producerMap[d].conn = ConnOf(d) \/ d \in replaced
Producers ==
  /\ \A k \in Key : producerMap[k] # None =>
       /\ producerMap[k].start <= starts
       /\ life = "brokers" => producerMap[k].start < starts
       /\ life \in {"destinations", "up"} /\ producerMap[k].start = starts =>
            producerMap[k].conn \in open
  /\ life = "destinations" => \A d \in Pub \ todo : Fresh(d)
  /\ life = "up" => \A d \in Pub : Fresh(d)

\* A listener about to add a producer saw none: it replaces at most one of the
\* current start.
Unaged(k) == k \in Key /\ (producerMap[k] = None \/ producerMap[k].start = starts)
CreatorAt(c) == /\ step[c] = "create" => Unaged(channel[c])
                /\ step[c] = "createRelay" => Unaged(RelayKey(c))
Creators == \A c \in Conn : CreatorAt(c)

\* A reply is lost for a producer that nothing replaces any more.
Outdated(k) == k \notin Pub /\ producerMap[k] # None /\ producerMap[k].start < starts
LostAt(m) ==
  reply[m] = "lost" /\ m \notin excused =>
    replyTo[m] \in ReplyTo /\ Outdated(ReplyKey(to[m], replyTo[m]))
RoutedAt(m) == reply[m] \in ReplyTo => reply[m] = replyTo[m]
Replies == \A m \in Message : RoutedAt(m) /\ LostAt(m)

IInv == TypeOK /\ Phases /\ Readers /\ Handlers /\ Mails /\ Producers /\ Creators /\ Replies

----------------------------------------------------------------------------
(* Names and connections.                                                  *)

LEMMA Names ==
  /\ \A d \in Dest : d \in Key /\ ConnOf(d) \in Conn
  /\ \A d \in Dest, r \in ReplyTo : ReplyKey(d, r) \in Key
  /\ \A b \in Broker : ConnsOf(b) \subseteq Conn
  /\ Pub \subseteq Dest /\ Sub \subseteq Dest /\ MaxStart \in Nat
BY JMSAssumption DEF ConnOf, ReplyKey, Key, Conn, ConnsOf

LEMMA NotNone ==
  /\ \A k \in Key : k # None
  /\ \A r \in ReplyTo : r # None /\ r \notin {"no", "lost", "late"}
  /\ \A m \in Message : m # None
  /\ \A c \in Conn : c # None
  /\ \A p \in Producer : p # None
  /\ \A t \in Temp : t # None
BY JMSAssumption

LEMMA NewIs ==
  ASSUME TypeOK, NEW c \in Conn
  PROVE  /\ NewProducer(c) \in Producer /\ NewProducer(c) # None
         /\ NewProducer(c).conn = c /\ NewProducer(c).start = starts
<1>1. starts \in Nat
  BY Names DEF TypeOK
<1>2. NewProducer(c) \in Producer
  BY <1>1 DEF NewProducer, Producer
<1>3. QED
  BY <1>2, NotNone DEF NewProducer

\* What AddOwnProducer does to each producer.
LEMMA OwnIs ==
  ASSUME TypeOK, NEW c \in Conn, NEW k \in Key, AddOwnProducer(k, c)
  PROVE  /\ producerMap' \in [Key -> Producer \cup {None}] /\ replaced' \subseteq Key
         /\ producerMap'[k] = NewProducer(c)
         /\ \A q \in Key : q # k => producerMap'[q] = producerMap[q]
         /\ \A q \in Key : q \in replaced => q \in replaced'
         /\ producerMap[k] # None => k \in replaced'
<1>1. NewProducer(c) \in Producer
  BY NewIs
<1>2. QED
  BY <1>1 DEF AddOwnProducer, TypeOK

\* What the two creating steps do to the producers.
Own(c) == \E k \in Key : Unaged(k) /\ AddOwnProducer(k, c)
Adds(c) == UNCHANGED producers \/ Own(c)

LEMMA CreatesAdds ==
  ASSUME IInv, NEW c \in Conn, CreatesProducer(c) \/ CreatesRelay(c)
  PROVE  /\ Adds(c) /\ step[c] # "idle"
         /\ UNCHANGED <<life, todo, starts, open, closing, listening, temps, mail>>
<1>1. CASE CreatesProducer(c)
  BY <1>1 DEF CreatesProducer, IInv, Creators, CreatorAt, Adds, Own, Unaged, manager
<1>2. CASE CreatesRelay(c)
  BY <1>2 DEF CreatesRelay, IInv, Creators, CreatorAt, Adds, Own, Unaged, manager
<1>3. QED
  BY <1>1, <1>2

\* A listener's own producer is as good as the one it replaces, but for its
\* connection.
LEMMA AddsKeeps ==
  ASSUME IInv, NEW c \in Conn, Adds(c), step[c] # "idle", UNCHANGED <<life, todo, starts, open>>
  PROVE  /\ Producers' /\ producerMap' \in [Key -> Producer \cup {None}]
         /\ replaced' \subseteq Key
<1>1. CASE UNCHANGED producers
  BY <1>1 DEF IInv, TypeOK, Producers, Fresh, producers
<1>2. ASSUME NEW k \in Key, AddOwnProducer(k, c)
      PROVE  /\ Producers' /\ producerMap' \in [Key -> Producer \cup {None}]
             /\ replaced' \subseteq Key
  <2>1. /\ NewProducer(c) # None /\ NewProducer(c).conn = c /\ NewProducer(c).start = starts
        /\ c \in open /\ life # "brokers" /\ starts \in Nat
    BY NewIs, Names DEF IInv, Phases, Readers, TypeOK
  <2>2. /\ producerMap' \in [Key -> Producer \cup {None}] /\ replaced' \subseteq Key
        /\ producerMap'[k] = NewProducer(c)
        /\ \A q \in Key : q # k => producerMap'[q] = producerMap[q]
        /\ \A q \in Key : q \in replaced => q \in replaced'
        /\ producerMap[k] # None => k \in replaced'
    BY <1>2, OwnIs DEF IInv
  <2>3. ASSUME NEW d \in Pub, Fresh(d) PROVE Fresh(d)'
    <3>1. d \in Key
      BY Names
    <3>2. CASE d = k
      BY <2>1, <2>2, <2>3, <3>2 DEF Fresh
    <3>3. CASE d # k
      BY <2>2, <2>3, <3>1, <3>3 DEF Fresh
    <3>4. QED
      BY <3>2, <3>3
  <2>4. ASSUME NEW q \in Key, producerMap'[q] # None
        PROVE  /\ producerMap'[q].start <= starts
               /\ life \in {"destinations", "up"} /\ producerMap'[q].start = starts =>
                    producerMap'[q].conn \in open
    <3>1. CASE q = k
      BY <2>1, <2>2, <3>1
    <3>2. CASE q # k
      BY <2>2, <2>4, <3>2 DEF IInv, Producers
    <3>3. QED
      BY <3>1, <3>2
  <2>5. QED
    BY <2>1, <2>2, <2>3, <2>4 DEF IInv, Producers
<1>3. QED
  BY <1>1, <1>2 DEF Adds, Own

\* What Relay and CreatesRelay know of their reply.
LEMMA RelayHas ==
  ASSUME IInv, NEW c \in Conn, Relay(c) \/ CreatesRelay(c)
  PROVE  /\ step[c] \in {"relay", "createRelay"} /\ msg[c] \in Message
         /\ fate[msg[c]] = "forwarded" /\ reply[msg[c]] = "no"
         /\ via[msg[c]].dest = to[msg[c]] /\ via[msg[c]].reply = replyTo[msg[c]]
         /\ to[msg[c]] \in Dest /\ replyTo[msg[c]] \in ReplyTo
         /\ RelayKey(c) = ReplyKey(to[msg[c]], replyTo[msg[c]]) /\ RelayKey(c) \in Key
<1>1. step[c] \in {"relay", "createRelay"} /\ msg[c] \in Message
  BY DEF Relay, CreatesRelay, IInv, Handlers, HandlerAt
<1>2. /\ fate[msg[c]] = "forwarded" /\ reply[msg[c]] = "no"
      /\ via[msg[c]] \in Temp
  BY <1>1 DEF IInv, Handlers, HandlerAt
<1>3. via[msg[c]] # None
  BY <1>2, NotNone
<1>4. via[msg[c]].dest = to[msg[c]] /\ via[msg[c]].reply = replyTo[msg[c]]
  BY <1>1, <1>3 DEF IInv, Mails, MailAt
<1>5. to[msg[c]] \in Dest /\ replyTo[msg[c]] \in ReplyTo
  BY <1>2, <1>4 DEF Temp
<1>6. QED
  BY <1>1, <1>2, <1>4, <1>5, Names DEF RelayKey

\* An outdated producer is none that a listener replaces.
LEMMA OutdatedStays ==
  ASSUME IInv, NEW c \in Conn, Adds(c), UNCHANGED starts, NEW k \in Key, Outdated(k)
  PROVE  Outdated(k)'
<1>1. starts \in Nat
  BY Names DEF IInv, TypeOK
<1>2. CASE UNCHANGED producers
  BY <1>2 DEF Outdated, producers
<1>3. ASSUME NEW q \in Key, Unaged(q), AddOwnProducer(q, c) PROVE Outdated(k)'
  <2>1. k # q
    BY <1>1, <1>3 DEF Outdated, Unaged
  <2>2. producerMap'[k] = producerMap[k]
    BY <1>3, <2>1, OwnIs DEF IInv
  <2>3. QED
    BY <2>2 DEF Outdated
<1>4. QED
  BY <1>2, <1>3 DEF Adds, Own

\* Replies of other messages are as they were.
LEMMA OtherReplies ==
  ASSUME IInv, NEW c \in Conn, Adds(c), UNCHANGED <<starts, to, replyTo>>,
         NEW n \in Message, reply'[n] = reply[n], n \in excused => n \in excused'
  PROVE  RoutedAt(n)' /\ LostAt(n)'
<1>1. RoutedAt(n) /\ LostAt(n)
  BY DEF IInv, Replies
<1>2. RoutedAt(n)'
  BY <1>1 DEF RoutedAt
<1>3. CASE reply[n] # "lost" \/ n \in excused'
  BY <1>2, <1>3 DEF LostAt
<1>4. CASE reply[n] = "lost" /\ n \notin excused'
  <2> DEFINE q == ReplyKey(to[n], replyTo[n])
  <2>1. replyTo[n] \in ReplyTo /\ Outdated(q)
    BY <1>1, <1>4 DEF LostAt
  <2>2. to[n] \in Dest
    BY <1>4 DEF IInv, Mails, MailAt
  <2>3. q \in Key
    BY <2>1, <2>2, Names
  <2>4. Outdated(q)'
    BY <2>1, <2>3, OutdatedStays
  <2>5. /\ replyTo'[n] \in ReplyTo
        /\ q \notin Pub /\ producerMap'[q] # None /\ producerMap'[q].start < starts'
    BY <2>1, <2>4 DEF Outdated
  <2>6. QED
    BY <1>2, <2>5 DEF LostAt, Outdated, ReplyKey
<1>5. QED
  BY <1>3, <1>4

\* What is passed on is what was asked for; what is lost, was to go out on an
\* old producer.
LEMMA RelayReplies ==
  ASSUME IInv, NEW c \in Conn, Relay(c) \/ CreatesRelay(c)
  PROVE  Replies'
<1>1. PICK m \in Message : m = msg[c]
  BY RelayHas
<1> DEFINE k == ReplyKey(to[m], replyTo[m])
<1>2. /\ reply[m] = "no" /\ via[m].reply = replyTo[m]
      /\ to[m] \in Dest /\ replyTo[m] \in ReplyTo /\ k \in Key /\ RelayKey(c) = k
  BY <1>1, RelayHas
<1>3. Adds(c) /\ UNCHANGED <<to, replyTo, starts, life>>
  BY CreatesAdds DEF Relay, Adds, mail, manager
<1>4. ASSUME NEW n \in Message, n # m PROVE RoutedAt(n)' /\ LostAt(n)'
  <2>1. reply'[n] = reply[n] /\ (n \in excused => n \in excused')
    BY <1>1, <1>4 DEF Relay, CreatesRelay, RelayEnds, Excuse, IInv, TypeOK
  <2>2. QED
    BY <1>3, <2>1, OtherReplies
<1>5. CASE \/ reply'[m] = "no" \/ reply'[m] = replyTo[m] \/ reply'[m] = "late"
           \/ reply'[m] = "lost" /\ m \in excused'
  BY <1>2, <1>3, <1>4, <1>5, NotNone DEF Replies, RoutedAt, LostAt
<1>6. CASE /\ producerMap[k] # None /\ ~Live(producerMap[k]) /\ life = "up"
           /\ reply'[m] = "lost" /\ UNCHANGED producers
  <2>1. producerMap[k] \in Producer
    BY <1>2, <1>6 DEF IInv, TypeOK
  <2>2. producerMap[k].start \in Nat /\ starts \in Nat
    BY <2>1, Names DEF Producer, IInv, TypeOK
  <2>3. /\ producerMap[k].start <= starts
        /\ producerMap[k].start = starts => producerMap[k].conn \in open
    BY <1>2, <1>6 DEF IInv, Producers
  <2>4. producerMap[k].start # starts
    BY <1>6, <2>3 DEF Live
  <2>5. k \notin Pub
    BY <1>6, <2>4 DEF IInv, Producers, Fresh
  <2>6. Outdated(k)
    BY <1>6, <2>2, <2>3, <2>4, <2>5 DEF Outdated
  <2>7. /\ replyTo'[m] \in ReplyTo
        /\ k \notin Pub /\ producerMap'[k] # None /\ producerMap'[k].start < starts'
    BY <1>2, <1>3, <1>6, <2>6 DEF Outdated, producers
  <2>8. LostAt(m)'
    BY <1>3, <2>7 DEF LostAt, Outdated, ReplyKey
  <2>9. RoutedAt(m)'
    BY <1>6, NotNone DEF RoutedAt
  <2>10. QED
    BY <1>4, <2>8, <2>9 DEF Replies
<1>7. QED
  <2> HIDE DEF k
  <2>1. reply \in [Message -> ReplyTo \cup {"no", "lost", "late"}]
    BY DEF IInv, TypeOK
  <2>2. CASE Relay(c)
    BY <1>1, <1>2, <1>5, <1>6, <2>1, <2>2 DEF Relay, RelayEnds, Undelivered, Excuse
  <2>3. CASE CreatesRelay(c)
    BY <1>1, <1>2, <1>5, <2>1, <2>3 DEF CreatesRelay, RelayEnds, Excuse
  <2>4. QED
    BY <2>2, <2>3

----------------------------------------------------------------------------
(* Every variable has its type.                                            *)
LEMMA TypeStep == IInv /\ [Next]_vars => TypeOK'
<1> SUFFICES ASSUME IInv, [Next]_vars PROVE TypeOK'
  OBVIOUS
<1> USE Names, NotNone DEF IInv, TypeOK, Step, Life, Fate, manager, handler, producers, mail, history
<1>1. CASE Start
  BY <1>1 DEF Start
<1>2. CASE Stop
  BY <1>2 DEF Stop, StopBegins
<1>3. ASSUME NEW b \in Broker, StartBroker(b) PROVE TypeOK'
  BY <1>3 DEF StartBroker
<1>4. ASSUME NEW b \in Broker, StartBrokerFails(b) PROVE TypeOK'
  BY <1>4, Names DEF StartBrokerFails, StopBegins
<1>5. CASE BrokersStarted
  BY <1>5 DEF BrokersStarted
<1>6. CASE Started
  BY <1>6 DEF Started
<1>7. CASE ConnClosed
  BY <1>7 DEF ConnClosed
<1>8. CASE Stopped
  BY <1>8 DEF Stopped
<1>9. ASSUME NEW d \in Dest, HandleDestination(d) PROVE TypeOK'
  <2>1. NewProducer(ConnOf(d)) \in Producer
    BY NewIs, Names
  <2>2. producerMap' \in [Key -> Producer \cup {None}] /\ replaced' \subseteq Key
    BY <1>9, <2>1 DEF HandleDestination, AddProducer
  <2>3. QED
    BY <1>9, <2>2 DEF HandleDestination
<1>10. ASSUME NEW d \in Dest, DestinationFails(d) PROVE TypeOK'
  <2>1. NewProducer(ConnOf(d)) \in Producer
    BY NewIs, Names
  <2>2. producerMap' \in [Key -> Producer \cup {None}] /\ replaced' \subseteq Key
    BY <1>10, <2>1 DEF DestinationFails, AddProducer
  <2>3. QED
    BY <1>10, <2>2 DEF DestinationFails, StopBegins
<1>11. ASSUME NEW c \in Conn, CloseConn(c) PROVE TypeOK'
  BY <1>11 DEF CloseConn
<1>12. ASSUME NEW c \in Conn, NEW d \in Dest, NEW m \in Message, OnMessage(c, d, m) PROVE TypeOK'
  BY <1>12 DEF OnMessage, Idle, Goto
<1>13. ASSUME NEW c \in Conn, NEW m \in Message, ReplyArrives(c, m) PROVE TypeOK'
  BY <1>13 DEF ReplyArrives, Idle, Goto
<1>14. ASSUME NEW c \in Conn, Matches(c) PROVE TypeOK'
  <2>1. msg[c] \in Message /\ to[msg[c]] \in Dest
    BY <1>14 DEF Matches, Handlers, HandlerAt, Mails, MailAt
  <2>2. channel' \in [Conn -> Key \cup {None}]
    BY <1>14, <2>1 DEF Matches, NoResponse, Finish
  <2>3. /\ step' \in [Conn -> Step] /\ msg' \in [Conn -> Message \cup {None}]
        /\ fate' \in [Message -> Fate]
    BY <1>14, <2>1 DEF Matches, NoResponse, Finish, Goto
  <2>4. UNCHANGED <<open, listening, producers, temps, manager, mail, reply, excused>>
    BY <1>14 DEF Matches
  <2>5. QED
    BY <2>2, <2>3, <2>4
<1>15. ASSUME NEW c \in Conn, CreatesProducer(c) PROVE TypeOK'
  <2>1. producerMap' \in [Key -> Producer \cup {None}] /\ replaced' \subseteq Key
    BY <1>15, CreatesAdds, AddsKeeps
  <2>2. /\ step' \in [Conn -> Step] /\ msg' \in [Conn -> Message \cup {None}]
        /\ channel' \in [Conn -> Key \cup {None}] /\ fate' \in [Message -> Fate]
    BY <1>15 DEF CreatesProducer, NoResponse, Finish, Goto
  <2>3. UNCHANGED <<open, listening, temps, manager, mail, reply, excused>>
    BY <1>15 DEF CreatesProducer
  <2>4. QED
    BY <2>1, <2>2, <2>3
<1>16. ASSUME NEW c \in Conn, SendResponse(c) PROVE TypeOK'
  BY <1>16 DEF SendResponse, NoResponse, Finish, Goto
<1>17. ASSUME NEW c \in Conn, Forward(c) PROVE TypeOK'
  <2>1. step[c] = "proxy" /\ msg[c] \in Message /\ to[msg[c]] \in Dest
    BY <1>17 DEF Forward, Handlers, HandlerAt, Mails, MailAt
  <2>2. replyTo[msg[c]] # None => TempFor(msg[c]) \in Temp
    BY <2>1, Names DEF TempFor, Temp
  <2>3. temps' \subseteq Temp /\ via' \in [Message -> Temp \cup {None}]
    BY <1>17, <2>1, <2>2 DEF Forward, Forwards, ForwardFails
  <2>4. /\ step' \in [Conn -> Step] /\ msg' \in [Conn -> Message \cup {None}]
        /\ channel' \in [Conn -> Key \cup {None}] /\ fate' \in [Message -> Fate]
        /\ excused' \subseteq Message
    BY <1>17, <2>1 DEF Forward, Forwards, ForwardFails, Finish, Goto, Excuse
  <2>5. UNCHANGED <<open, listening, producers, manager, replyTo, to, reply>>
    BY <1>17 DEF Forward
  <2>6. QED
    BY <2>3, <2>4, <2>5
<1>18. ASSUME NEW c \in Conn, Relay(c) PROVE TypeOK'
  <2>1. msg[c] \in Message /\ via[msg[c]].reply \in ReplyTo
    BY <1>18, RelayHas
  <2>2. reply' \in [Message -> ReplyTo \cup {"no", "lost", "late"}] /\ excused' \subseteq Message
    BY <1>18, <2>1 DEF Relay, RelayEnds, Excuse, Undelivered
  <2>3. step' \in [Conn -> Step] /\ msg' \in [Conn -> Message \cup {None}]
    BY <1>18 DEF Relay, RelayEnds, Goto
  <2>4. UNCHANGED <<open, listening, producers, temps, manager, channel, mail, fate>>
    BY <1>18 DEF Relay
  <2>5. QED
    BY <2>2, <2>3, <2>4
<1>19. ASSUME NEW c \in Conn, CreatesRelay(c) PROVE TypeOK'
  <2>1. producerMap' \in [Key -> Producer \cup {None}] /\ replaced' \subseteq Key
    BY <1>19, CreatesAdds, AddsKeeps
  <2>2. msg[c] \in Message /\ via[msg[c]].reply \in ReplyTo
    BY <1>19, RelayHas
  <2>3. reply' \in [Message -> ReplyTo \cup {"no", "lost", "late"}] /\ excused' \subseteq Message
    BY <1>19, <2>2 DEF CreatesRelay, RelayEnds, Excuse
  <2>4. step' \in [Conn -> Step] /\ msg' \in [Conn -> Message \cup {None}]
    BY <1>19 DEF CreatesRelay, RelayEnds, Goto
  <2>5. UNCHANGED <<open, listening, temps, manager, channel, mail, fate>>
    BY <1>19 DEF CreatesRelay
  <2>6. QED
    BY <2>1, <2>3, <2>4, <2>5
<1>20. CASE UNCHANGED vars
  BY <1>20 DEF vars
<1>21. QED
  BY <1>1, <1>2, <1>3, <1>4, <1>5, <1>6, <1>7, <1>8, <1>9, <1>10, <1>11, <1>12, <1>13, <1>14, <1>15, <1>16, <1>17, <1>18, <1>19, <1>20 DEF Next, Listener, ManagerStep

----------------------------------------------------------------------------
(* The phases of the management thread hold.                               *)
LEMMA PhaseStep == IInv /\ [Next]_vars => Phases'
<1> SUFFICES ASSUME IInv, [Next]_vars PROVE Phases'
  OBVIOUS
<1> USE Names, NotNone DEF IInv, TypeOK, Step, Life, Fate, Phases, Readers, Mails, manager, handler, producers, mail, history
<1>1. CASE Start
  BY <1>1 DEF Start
<1>2. CASE Stop
  BY <1>2 DEF Stop, StopBegins
<1>3. ASSUME NEW b \in Broker, StartBroker(b) PROVE Phases'
  BY <1>3 DEF StartBroker
<1>4. ASSUME NEW b \in Broker, StartBrokerFails(b) PROVE Phases'
  BY <1>4 DEF StartBrokerFails, StopBegins
<1>5. CASE BrokersStarted
  BY <1>5 DEF BrokersStarted
<1>6. CASE Started
  BY <1>6 DEF Started
<1>7. CASE ConnClosed
  BY <1>7 DEF ConnClosed
<1>8. CASE Stopped
  BY <1>8 DEF Stopped
<1>9. ASSUME NEW d \in Dest, HandleDestination(d) PROVE Phases'
  BY <1>9 DEF HandleDestination, AddProducer, NewProducer
<1>10. ASSUME NEW d \in Dest, DestinationFails(d) PROVE Phases'
  BY <1>10 DEF DestinationFails, AddProducer, NewProducer, StopBegins
<1>11. ASSUME NEW c \in Conn, CloseConn(c) PROVE Phases'
  BY <1>11 DEF CloseConn
<1>12. ASSUME NEW c \in Conn, NEW d \in Dest, NEW m \in Message, OnMessage(c, d, m) PROVE Phases'
  BY <1>12 DEF OnMessage, Idle, Goto
<1>13. ASSUME NEW c \in Conn, NEW m \in Message, ReplyArrives(c, m) PROVE Phases'
  BY <1>13 DEF ReplyArrives, Idle, Goto
<1>14. ASSUME NEW c \in Conn, Matches(c) PROVE Phases'
  BY <1>14 DEF Matches, NoResponse, Finish, Goto
<1>15. ASSUME NEW c \in Conn, CreatesProducer(c) PROVE Phases'
  BY <1>15, CreatesAdds DEF CreatesProducer, NoResponse, Finish, Goto
<1>16. ASSUME NEW c \in Conn, SendResponse(c) PROVE Phases'
  BY <1>16 DEF SendResponse, NoResponse, Finish, Goto
<1>17. ASSUME NEW c \in Conn, Forward(c) PROVE Phases'
  BY <1>17 DEF Forward, Forwards, ForwardFails, Finish, Goto, TempFor, Excuse
<1>18. ASSUME NEW c \in Conn, Relay(c) PROVE Phases'
  BY <1>18 DEF Relay, RelayEnds, Goto, Excuse, Undelivered
<1>19. ASSUME NEW c \in Conn, CreatesRelay(c) PROVE Phases'
  BY <1>19, CreatesAdds, RelayHas DEF CreatesRelay, RelayEnds, Goto, Excuse
<1>20. CASE UNCHANGED vars
  BY <1>20 DEF vars
<1>21. QED
  BY <1>1, <1>2, <1>3, <1>4, <1>5, <1>6, <1>7, <1>8, <1>9, <1>10, <1>11, <1>12, <1>13, <1>14, <1>15, <1>16, <1>17, <1>18, <1>19, <1>20 DEF Next, Listener, ManagerStep

----------------------------------------------------------------------------
(* Readers have an open connection.                                        *)
LEMMA ReaderStep == IInv /\ [Next]_vars => Readers'
<1> SUFFICES ASSUME IInv, [Next]_vars PROVE Readers'
  OBVIOUS
<1> USE Names, NotNone DEF IInv, TypeOK, Step, Life, Fate, Phases, Readers, manager, handler, producers, mail, history
<1>1. CASE Start
  BY <1>1 DEF Start
<1>2. CASE Stop
  BY <1>2 DEF Stop, StopBegins
<1>3. ASSUME NEW b \in Broker, StartBroker(b) PROVE Readers'
  BY <1>3 DEF StartBroker
<1>4. ASSUME NEW b \in Broker, StartBrokerFails(b) PROVE Readers'
  BY <1>4 DEF StartBrokerFails, StopBegins
<1>5. CASE BrokersStarted
  BY <1>5 DEF BrokersStarted
<1>6. CASE Started
  BY <1>6 DEF Started
<1>7. CASE ConnClosed
  BY <1>7 DEF ConnClosed
<1>8. CASE Stopped
  BY <1>8 DEF Stopped
<1>9. ASSUME NEW d \in Dest, HandleDestination(d) PROVE Readers'
  BY <1>9 DEF HandleDestination, AddProducer, NewProducer
<1>10. ASSUME NEW d \in Dest, DestinationFails(d) PROVE Readers'
  BY <1>10 DEF DestinationFails, AddProducer, NewProducer, StopBegins
<1>11. ASSUME NEW c \in Conn, CloseConn(c) PROVE Readers'
  BY <1>11 DEF CloseConn
<1>12. ASSUME NEW c \in Conn, NEW d \in Dest, NEW m \in Message, OnMessage(c, d, m) PROVE Readers'
  BY <1>12 DEF OnMessage, Idle, Goto
<1>13. ASSUME NEW c \in Conn, NEW m \in Message, ReplyArrives(c, m) PROVE Readers'
  BY <1>13 DEF ReplyArrives, Idle, Goto
<1>14. ASSUME NEW c \in Conn, Matches(c) PROVE Readers'
  BY <1>14 DEF Matches, NoResponse, Finish, Goto
<1>15. ASSUME NEW c \in Conn, CreatesProducer(c) PROVE Readers'
  BY <1>15, CreatesAdds DEF CreatesProducer, NoResponse, Finish, Goto
<1>16. ASSUME NEW c \in Conn, SendResponse(c) PROVE Readers'
  BY <1>16 DEF SendResponse, NoResponse, Finish, Goto
<1>17. ASSUME NEW c \in Conn, Forward(c) PROVE Readers'
  <2>1. step[c] = "proxy" /\ msg[c] \in Message /\ ConnOf(to[msg[c]]) = c /\ c \in open
    BY <1>17 DEF Forward, Handlers, HandlerAt
  <2>2. \A t \in temps' : t \in temps \/ t = TempFor(msg[c])
    BY <1>17 DEF Forward, Forwards, ForwardFails
  <2>3. TempFor(msg[c]).dest = to[msg[c]]
    BY DEF TempFor
  <2>4. \A q \in Conn : step'[q] # "idle" => step[q] # "idle"
    BY <1>17 DEF Forward, Forwards, ForwardFails, Finish, Goto
  <2>5. UNCHANGED <<open, listening>>
    BY <1>17 DEF Forward
  <2>6. QED
    BY <2>1, <2>2, <2>3, <2>4, <2>5
<1>18. ASSUME NEW c \in Conn, Relay(c) PROVE Readers'
  BY <1>18 DEF Relay, RelayEnds, Goto, Excuse, Undelivered
<1>19. ASSUME NEW c \in Conn, CreatesRelay(c) PROVE Readers'
  BY <1>19, CreatesAdds, RelayHas DEF CreatesRelay, RelayEnds, Goto, Excuse
<1>20. CASE UNCHANGED vars
  BY <1>20 DEF vars
<1>21. QED
  BY <1>1, <1>2, <1>3, <1>4, <1>5, <1>6, <1>7, <1>8, <1>9, <1>10, <1>11, <1>12, <1>13, <1>14, <1>15, <1>16, <1>17, <1>18, <1>19, <1>20 DEF Next, Listener, ManagerStep

----------------------------------------------------------------------------
(* A session thread has its message.                                       *)
LEMMA HandlerStep == IInv /\ [Next]_vars => Handlers'
<1> SUFFICES ASSUME IInv, [Next]_vars PROVE Handlers'
  OBVIOUS
<1> USE Names, NotNone DEF IInv, TypeOK, Step, Life, Fate, Handlers, HandlerAt, Mails, MailAt, Readers, manager, handler, producers, mail, history
<1>1. CASE Start
  BY <1>1 DEF Start
<1>2. CASE Stop
  BY <1>2 DEF Stop, StopBegins
<1>3. ASSUME NEW b \in Broker, StartBroker(b) PROVE Handlers'
  BY <1>3 DEF StartBroker
<1>4. ASSUME NEW b \in Broker, StartBrokerFails(b) PROVE Handlers'
  BY <1>4 DEF StartBrokerFails, StopBegins
<1>5. CASE BrokersStarted
  BY <1>5 DEF BrokersStarted
<1>6. CASE Started
  BY <1>6 DEF Started
<1>7. CASE ConnClosed
  BY <1>7 DEF ConnClosed
<1>8. CASE Stopped
  BY <1>8 DEF Stopped
<1>9. ASSUME NEW d \in Dest, HandleDestination(d) PROVE Handlers'
  BY <1>9 DEF HandleDestination, AddProducer, NewProducer
<1>10. ASSUME NEW d \in Dest, DestinationFails(d) PROVE Handlers'
  BY <1>10 DEF DestinationFails, AddProducer, NewProducer, StopBegins
<1>11. ASSUME NEW c \in Conn, CloseConn(c) PROVE Handlers'
  BY <1>11 DEF CloseConn
<1>12. ASSUME NEW c \in Conn, NEW d \in Dest, NEW m \in Message, OnMessage(c, d, m) PROVE Handlers'
  BY <1>12 DEF OnMessage, Idle, Goto
<1>13. ASSUME NEW c \in Conn, NEW m \in Message, ReplyArrives(c, m) PROVE Handlers'
  BY <1>13 DEF ReplyArrives, Idle, Goto
<1>14. ASSUME NEW c \in Conn, Matches(c) PROVE Handlers'
  BY <1>14 DEF Matches, NoResponse, Finish, Goto
<1>15. ASSUME NEW c \in Conn, CreatesProducer(c) PROVE Handlers'
  BY <1>15, CreatesAdds DEF CreatesProducer, NoResponse, Finish, Goto
<1>16. ASSUME NEW c \in Conn, SendResponse(c) PROVE Handlers'
  BY <1>16 DEF SendResponse, NoResponse, Finish, Goto
<1>17. ASSUME NEW c \in Conn, Forward(c) PROVE Handlers'
  BY <1>17 DEF Forward, Forwards, ForwardFails, Finish, Goto, TempFor, Excuse
<1>18. ASSUME NEW c \in Conn, Relay(c) PROVE Handlers'
  BY <1>18 DEF Relay, RelayEnds, Goto, Excuse, Undelivered
<1>19. ASSUME NEW c \in Conn, CreatesRelay(c) PROVE Handlers'
  BY <1>19, CreatesAdds, RelayHas DEF CreatesRelay, RelayEnds, Goto, Excuse
<1>20. CASE UNCHANGED vars
  BY <1>20 DEF vars
<1>21. QED
  BY <1>1, <1>2, <1>3, <1>4, <1>5, <1>6, <1>7, <1>8, <1>9, <1>10, <1>11, <1>12, <1>13, <1>14, <1>15, <1>16, <1>17, <1>18, <1>19, <1>20 DEF Next, Listener, ManagerStep

----------------------------------------------------------------------------
(* What is known of messages stays.                                        *)
LEMMA MailStep == IInv /\ [Next]_vars => Mails'
<1> SUFFICES ASSUME IInv, [Next]_vars PROVE Mails'
  OBVIOUS
<1> USE Names, NotNone DEF IInv, TypeOK, Step, Life, Fate, Mails, MailAt, Handlers, HandlerAt, manager, handler, producers, mail, history
<1>1. CASE Start
  BY <1>1 DEF Start
<1>2. CASE Stop
  BY <1>2 DEF Stop, StopBegins
<1>3. ASSUME NEW b \in Broker, StartBroker(b) PROVE Mails'
  BY <1>3 DEF StartBroker
<1>4. ASSUME NEW b \in Broker, StartBrokerFails(b) PROVE Mails'
  BY <1>4 DEF StartBrokerFails, StopBegins
<1>5. CASE BrokersStarted
  BY <1>5 DEF BrokersStarted
<1>6. CASE Started
  BY <1>6 DEF Started
<1>7. CASE ConnClosed
  BY <1>7 DEF ConnClosed
<1>8. CASE Stopped
  BY <1>8 DEF Stopped
<1>9. ASSUME NEW d \in Dest, HandleDestination(d) PROVE Mails'
  BY <1>9 DEF HandleDestination, AddProducer, NewProducer
<1>10. ASSUME NEW d \in Dest, DestinationFails(d) PROVE Mails'
  BY <1>10 DEF DestinationFails, AddProducer, NewProducer, StopBegins
<1>11. ASSUME NEW c \in Conn, CloseConn(c) PROVE Mails'
  BY <1>11 DEF CloseConn
<1>12. ASSUME NEW c \in Conn, NEW d \in Dest, NEW m \in Message, OnMessage(c, d, m) PROVE Mails'
  BY <1>12 DEF OnMessage, Idle, Goto
<1>13. ASSUME NEW c \in Conn, NEW m \in Message, ReplyArrives(c, m) PROVE Mails'
  BY <1>13 DEF ReplyArrives, Idle, Goto
<1>14. ASSUME NEW c \in Conn, Matches(c) PROVE Mails'
  BY <1>14 DEF Matches, NoResponse, Finish, Goto
<1>15. ASSUME NEW c \in Conn, CreatesProducer(c) PROVE Mails'
  BY <1>15, CreatesAdds DEF CreatesProducer, NoResponse, Finish, Goto
<1>16. ASSUME NEW c \in Conn, SendResponse(c) PROVE Mails'
  BY <1>16 DEF SendResponse, NoResponse, Finish, Goto
<1>17. ASSUME NEW c \in Conn, Forward(c) PROVE Mails'
  BY <1>17 DEF Forward, Forwards, ForwardFails, Finish, Goto, TempFor, Excuse
<1>18. ASSUME NEW c \in Conn, Relay(c) PROVE Mails'
  BY <1>18 DEF Relay, RelayEnds, Goto, Excuse, Undelivered
<1>19. ASSUME NEW c \in Conn, CreatesRelay(c) PROVE Mails'
  BY <1>19, CreatesAdds, RelayHas DEF CreatesRelay, RelayEnds, Goto, Excuse
<1>20. CASE UNCHANGED vars
  BY <1>20 DEF vars
<1>21. QED
  BY <1>1, <1>2, <1>3, <1>4, <1>5, <1>6, <1>7, <1>8, <1>9, <1>10, <1>11, <1>12, <1>13, <1>14, <1>15, <1>16, <1>17, <1>18, <1>19, <1>20 DEF Next, Listener, ManagerStep

----------------------------------------------------------------------------
(* Producers of this start are on open connections.                        *)
LEMMA ProducerStep == IInv /\ [Next]_vars => Producers'
<1> SUFFICES ASSUME IInv, [Next]_vars PROVE Producers'
  OBVIOUS
<1> USE Names, NotNone DEF IInv, TypeOK, Step, Life, Fate, Producers, Phases, Readers, Handlers, HandlerAt, Fresh, Producer, manager, handler, producers, mail, history
<1>1. CASE Start
  BY <1>1 DEF Start
<1>2. CASE Stop
  BY <1>2 DEF Stop, StopBegins
<1>3. ASSUME NEW b \in Broker, StartBroker(b) PROVE Producers'
  BY <1>3 DEF StartBroker
<1>4. ASSUME NEW b \in Broker, StartBrokerFails(b) PROVE Producers'
  BY <1>4 DEF StartBrokerFails, StopBegins
<1>5. CASE BrokersStarted
  BY <1>5 DEF BrokersStarted
<1>6. CASE Started
  BY <1>6 DEF Started
<1>7. CASE ConnClosed
  BY <1>7 DEF ConnClosed
<1>8. CASE Stopped
  BY <1>8 DEF Stopped
<1>9. ASSUME NEW d \in Dest, HandleDestination(d) PROVE Producers'
  <2>1. life = "destinations" /\ UNCHANGED <<life, starts, open>> /\ todo' = todo \ {d}
    BY <1>9 DEF HandleDestination
  <2>2. CASE d \notin Pub
    BY <1>9, <2>1, <2>2 DEF HandleDestination
  <2>3. CASE d \in Pub
    <3>1. /\ \A q \in Key : producerMap'[q] = IF q = d THEN NewProducer(ConnOf(d)) ELSE producerMap[q]
          /\ ConnOf(d) \in open /\ replaced' = replaced \ {d}
      BY <1>9, <2>3 DEF HandleDestination, AddProducer
    <3>2. /\ NewProducer(ConnOf(d)).conn = ConnOf(d) /\ NewProducer(ConnOf(d)).start = starts
          /\ NewProducer(ConnOf(d)) # None
      BY NewIs
    <3>3. \A e \in Pub \ todo' : Fresh(e)'
      <4>1. Fresh(d)'
        BY <2>1, <3>1, <3>2 DEF Fresh
      <4>2. ASSUME NEW e \in Pub \ todo', e # d PROVE Fresh(e)'
        <5>1. Fresh(e) /\ e \in Key
          BY <2>1, <4>2
        <5>2. QED
          BY <2>1, <3>1, <4>2, <5>1 DEF Fresh
      <4>3. QED
        BY <4>1, <4>2
    <3>4. ASSUME NEW q \in Key, producerMap'[q] # None
          PROVE  /\ producerMap'[q].start <= starts
                 /\ producerMap'[q].start = starts => producerMap'[q].conn \in open
      <4>1. starts <= starts
        BY Names DEF TypeOK
      <4>2. QED
        BY <2>1, <3>1, <3>2, <3>4, <4>1
    <3>5. QED
      BY <2>1, <3>3, <3>4
  <2>4. QED
    BY <2>2, <2>3
<1>10. ASSUME NEW d \in Dest, DestinationFails(d) PROVE Producers'
  BY <1>10 DEF DestinationFails, AddProducer, NewProducer, StopBegins
<1>11. ASSUME NEW c \in Conn, CloseConn(c) PROVE Producers'
  BY <1>11 DEF CloseConn
<1>12. ASSUME NEW c \in Conn, NEW d \in Dest, NEW m \in Message, OnMessage(c, d, m) PROVE Producers'
  BY <1>12 DEF OnMessage, Idle, Goto
<1>13. ASSUME NEW c \in Conn, NEW m \in Message, ReplyArrives(c, m) PROVE Producers'
  BY <1>13 DEF ReplyArrives, Idle, Goto
<1>14. ASSUME NEW c \in Conn, Matches(c) PROVE Producers'
  BY <1>14 DEF Matches
<1>15. ASSUME NEW c \in Conn, CreatesProducer(c) PROVE Producers'
  BY <1>15, CreatesAdds, AddsKeeps
<1>16. ASSUME NEW c \in Conn, SendResponse(c) PROVE Producers'
  BY <1>16 DEF SendResponse, NoResponse, Finish, Goto
<1>17. ASSUME NEW c \in Conn, Forward(c) PROVE Producers'
  BY <1>17 DEF Forward, Forwards, ForwardFails, Finish, Goto, TempFor, Excuse
<1>18. ASSUME NEW c \in Conn, Relay(c) PROVE Producers'
  BY <1>18 DEF Relay
<1>19. ASSUME NEW c \in Conn, CreatesRelay(c) PROVE Producers'
  BY <1>19, CreatesAdds, AddsKeeps
<1>20. CASE UNCHANGED vars
  BY <1>20 DEF vars
<1>21. QED
  BY <1>1, <1>2, <1>3, <1>4, <1>5, <1>6, <1>7, <1>8, <1>9, <1>10, <1>11, <1>12, <1>13, <1>14, <1>15, <1>16, <1>17, <1>18, <1>19, <1>20 DEF Next, Listener, ManagerStep

----------------------------------------------------------------------------
(* A listener about to add a producer saw none in this start.              *)

\* No producer ages.
Youthful == \A k \in Key : producerMap'[k] = producerMap[k] \/ producerMap'[k].start = starts

LEMMA CreatorStays ==
  ASSUME IInv, UNCHANGED starts, Youthful, NEW q \in Conn,
         UNCHANGED <<step[q], msg[q], channel[q]>>,
         step[q] = "createRelay" => UNCHANGED via[msg[q]]
  PROVE  CreatorAt(q)'
<1>1. CreatorAt(q)
  BY DEF IInv, Creators
<1>2. CASE step[q] = "create"
  BY <1>1, <1>2 DEF CreatorAt, Unaged, Youthful
<1>3. CASE step[q] = "createRelay"
  <2>1. RelayKey(q)' = RelayKey(q)
    BY <1>3 DEF RelayKey, ReplyKey
  <2>2. Unaged(RelayKey(q))
    BY <1>1, <1>3 DEF CreatorAt
  <2>3. RelayKey(q)' \in Key /\ (producerMap'[RelayKey(q)'] = None \/ producerMap'[RelayKey(q)'].start = starts')
    BY <2>1, <2>2 DEF Unaged, Youthful
  <2>4. QED
    BY <1>3, <2>3 DEF CreatorAt, Unaged
<1>4. QED
  BY <1>2, <1>3 DEF CreatorAt

LEMMA AddsYouthful ==
  ASSUME IInv, NEW c \in Conn, Adds(c) PROVE Youthful
<1>1. CASE UNCHANGED producers
  BY <1>1 DEF producers, Youthful
<1>2. ASSUME NEW k \in Key, AddOwnProducer(k, c) PROVE Youthful
  BY <1>2, OwnIs, NewIs DEF Youthful, IInv
<1>3. QED
  BY <1>1, <1>2 DEF Adds, Own

\* The steps of the management thread, and the steps in which a session gets
\* a message.
LEMMA ManagerCreators ==
  ASSUME IInv, Stop \/ ManagerStep PROVE Creators'
<1>1. UNCHANGED <<starts, step, msg, channel, via>>
  BY DEF Stop, ManagerStep, StartBroker, StartBrokerFails, BrokersStarted, Started, ConnClosed,
         Stopped, HandleDestination, DestinationFails, CloseConn, handler, mail
<1>2. Youthful
  <2>1. ASSUME NEW d \in Dest, AddProducer(d) PROVE Youthful
    BY <2>1, Names, NewIs DEF AddProducer, Youthful, IInv, TypeOK
  <2>2. ASSUME UNCHANGED producers PROVE Youthful
    BY <2>2 DEF producers, Youthful
  <2>3. UNCHANGED producers \/ \E d \in Dest : AddProducer(d)
    BY DEF Stop, ManagerStep, StartBroker, StartBrokerFails, BrokersStarted, Started, ConnClosed,
           Stopped, HandleDestination, DestinationFails, CloseConn
  <2>4. QED
    BY <2>1, <2>2, <2>3
<1>3. QED
  BY <1>1, <1>2, CreatorStays DEF Creators

LEMMA CreatorStep == IInv /\ [Next]_vars => Creators'
<1> SUFFICES ASSUME IInv, [Next]_vars PROVE Creators'
  OBVIOUS
<1>1. CASE Start
  BY <1>1 DEF Start, IInv, Phases, Creators, CreatorAt, handler
<1>2. CASE Stop \/ ManagerStep
  BY <1>2, ManagerCreators
<1> DEFINE Others(c) == \A q \in Conn \ {c} : UNCHANGED <<step[q], msg[q], channel[q]>>
           Elsewhere(c) == \A q \in Conn \ {c} : CreatorAt(q)'
<1>3. ASSUME NEW c \in Conn, Others(c), UNCHANGED <<starts, via>>, Youthful
      PROVE  Elsewhere(c)
  BY <1>3, CreatorStays
<1>4. ASSUME UNCHANGED producers PROVE Youthful
  BY <1>4 DEF producers, Youthful
<1>5. ASSUME NEW c \in Conn, step'[c] \notin {"create", "createRelay"}
      PROVE  CreatorAt(c)'
  BY <1>5 DEF CreatorAt
<1>6. ASSUME NEW c \in Conn, NEW d \in Dest, NEW m \in Message, OnMessage(c, d, m)
      PROVE  Creators'
  <2>1. Others(c) /\ UNCHANGED <<starts, via, producers>> /\ step'[c] \notin {"create", "createRelay"}
    BY <1>6 DEF OnMessage, Idle, Goto, manager, IInv, TypeOK
  <2>2. QED
    BY <1>3, <1>4, <1>5, <2>1 DEF Creators
<1>7. ASSUME NEW c \in Conn, NEW m \in Message, ReplyArrives(c, m) PROVE Creators'
  <2>1. Others(c) /\ UNCHANGED <<starts, via, producers>> /\ step'[c] \notin {"create", "createRelay"}
    BY <1>7 DEF ReplyArrives, Idle, Goto, manager, mail, IInv, TypeOK
  <2>2. QED
    BY <1>3, <1>4, <1>5, <2>1 DEF Creators
<1>8. ASSUME NEW c \in Conn, Matches(c) PROVE Creators'
  <2>1. Others(c) /\ UNCHANGED <<starts, via, producers>>
    BY <1>8 DEF Matches, NoResponse, Finish, Goto, manager, mail, IInv, TypeOK
  <2>2. CASE step'[c] = "create"
    <3>1. /\ replyTo[msg[c]] # None /\ msg[c] \in Message
          /\ channel'[c] = ReplyKey(to[msg[c]], replyTo[msg[c]])
          /\ producerMap[ReplyKey(to[msg[c]], replyTo[msg[c]])] = None
      BY <1>8, <2>2 DEF Matches, NoResponse, Finish, Goto, IInv, TypeOK, Handlers, HandlerAt
    <3>2. ReplyKey(to[msg[c]], replyTo[msg[c]]) \in Key
      BY <1>8, <3>1, Names DEF Matches, IInv, TypeOK, Handlers, HandlerAt, Mails, MailAt
    <3>3. channel'[c] \in Key /\ producerMap'[channel'[c]] = None
      BY <2>1, <3>1, <3>2 DEF producers
    <3>4. CreatorAt(c)'
      BY <2>2, <3>3 DEF CreatorAt, Unaged
    <3>5. QED
      BY <1>3, <1>4, <2>1, <3>4 DEF Creators
  <2>3. CASE step'[c] # "create"
    <3>1. step'[c] # "createRelay"
      BY <1>8 DEF Matches, NoResponse, Finish, Goto, IInv, TypeOK
    <3>2. QED
      BY <1>3, <1>4, <1>5, <2>1, <2>3, <3>1 DEF Creators
  <2>4. QED
    BY <2>2, <2>3
<1>9. ASSUME NEW c \in Conn, CreatesProducer(c) \/ CreatesRelay(c) PROVE Creators'
  <2>1. /\ Others(c) /\ UNCHANGED <<starts, via>> /\ step'[c] \notin {"create", "createRelay"}
    BY <1>9 DEF CreatesProducer, CreatesRelay, RelayEnds, NoResponse, Finish, Goto, manager, mail,
                IInv, TypeOK
  <2>2. Youthful
    BY <1>9, CreatesAdds, AddsYouthful
  <2>3. QED
    BY <1>3, <1>5, <2>1, <2>2 DEF Creators
<1>10. ASSUME NEW c \in Conn, SendResponse(c) PROVE Creators'
  <2>1. Others(c) /\ UNCHANGED <<starts, via, producers>> /\ step'[c] \notin {"create", "createRelay"}
    BY <1>10 DEF SendResponse, NoResponse, Finish, Goto, manager, mail, IInv, TypeOK
  <2>2. QED
    BY <1>3, <1>4, <1>5, <2>1 DEF Creators
<1>11. ASSUME NEW c \in Conn, Forward(c) PROVE Creators'
  <2>1. Others(c) /\ UNCHANGED <<starts, producers>> /\ step'[c] \notin {"create", "createRelay"}
    BY <1>11 DEF Forward, Forwards, ForwardFails, Finish, Goto, manager, IInv, TypeOK
  <2>2. ASSUME NEW q \in Conn, q # c PROVE CreatorAt(q)'
    <3>1. fate[msg[c]] = "taken"
      BY <1>11 DEF Forward, IInv, Handlers, HandlerAt
    <3>2. ASSUME step[q] = "createRelay" PROVE UNCHANGED via[msg[q]]
      <4>1. msg[q] # msg[c] /\ msg[q] \in Message
        BY <3>1, <3>2 DEF IInv, Handlers, HandlerAt
      <4>2. via \in [Message -> Temp \cup {None}]
        BY DEF IInv, TypeOK
      <4>3. UNCHANGED via \/ via' = [via EXCEPT ![msg[c]] = TempFor(msg[c])]
        BY <1>11 DEF Forward, Forwards, ForwardFails
      <4>4. via'[msg[q]] = via[msg[q]]
        BY <4>1, <4>2, <4>3
      <4>5. QED
        BY <2>1, <2>2, <4>4
    <3>3. QED
      BY <1>4, <2>1, <2>2, <3>2, CreatorStays
  <2>3. QED
    BY <1>5, <2>1, <2>2 DEF Creators
<1>12. ASSUME NEW c \in Conn, Relay(c) PROVE Creators'
  <2>1. Others(c) /\ UNCHANGED <<starts, via, producers>>
    BY <1>12 DEF Relay, RelayEnds, Goto, manager, mail, IInv, TypeOK
  <2>2. CASE step'[c] = "createRelay"
    <3>1. producerMap[RelayKey(c)] = None /\ RelayKey(c) \in Key /\ UNCHANGED <<msg, via>>
      BY <1>12, <2>2, RelayHas DEF Relay, RelayEnds, Goto, mail, IInv, TypeOK
    <3>2. RelayKey(c)' = RelayKey(c)
      BY <3>1 DEF RelayKey, ReplyKey
    <3>3. RelayKey(c)' \in Key /\ producerMap'[RelayKey(c)'] = None
      BY <2>1, <3>1, <3>2 DEF producers
    <3>4. CreatorAt(c)'
      BY <2>2, <3>3 DEF CreatorAt, Unaged
    <3>5. QED
      BY <1>3, <1>4, <2>1, <3>4 DEF Creators
  <2>3. CASE step'[c] # "createRelay"
    <3>1. step'[c] # "create"
      BY <1>12 DEF Relay, RelayEnds, Goto, IInv, TypeOK
    <3>2. QED
      BY <1>3, <1>4, <1>5, <2>1, <2>3, <3>1 DEF Creators
  <2>4. QED
    BY <2>2, <2>3
<1>13. CASE UNCHANGED vars
  BY <1>13, <1>4, CreatorStays DEF vars, manager, handler, mail, Creators
<1>14. QED
  BY <1>1, <1>2, <1>6, <1>7, <1>8, <1>9, <1>10, <1>11, <1>12, <1>13 DEF Next, Listener

----------------------------------------------------------------------------
\* The producers of declared channels are none that lost replies met.
LEMMA ReplyKeepsOthers ==
  ASSUME IInv, UNCHANGED <<starts, to, replyTo, reply, excused>>,
         \A k \in Key : k \notin Pub => producerMap'[k] = producerMap[k]
  PROVE  Replies'
<1>1. ASSUME NEW m \in Message, reply[m] = "lost", m \notin excused
      PROVE  LostAt(m)'
  <2> DEFINE k == ReplyKey(to[m], replyTo[m])
  <2>1. replyTo[m] \in ReplyTo /\ Outdated(k) /\ to[m] \in Dest
    BY <1>1 DEF IInv, Replies, LostAt, Mails, MailAt
  <2>2. k \in Key
    BY <2>1, Names
  <2>3. k \notin Pub /\ producerMap'[k] # None /\ producerMap'[k].start < starts'
    BY <2>1, <2>2 DEF Outdated
  <2>4. QED
    BY <2>1, <2>3 DEF LostAt, Outdated, ReplyKey
<1>2. ASSUME NEW m \in Message PROVE RoutedAt(m)' /\ LostAt(m)'
  BY <1>1 DEF IInv, Replies, RoutedAt, LostAt
<1>3. QED
  BY <1>2 DEF Replies

(* Replies find their way.                                                 *)
LEMMA ReplyStep == IInv /\ [Next]_vars => Replies'
<1> SUFFICES ASSUME IInv, [Next]_vars PROVE Replies'
  OBVIOUS
<1> USE Names, NotNone DEF IInv, TypeOK, Step, Life, Fate, Replies, LostAt, Outdated, RoutedAt, Handlers, HandlerAt, Mails, MailAt, Producers, Fresh, Readers, Producer, manager, handler, producers, mail, history
<1>1. CASE Start
  BY <1>1 DEF Start
<1>2. CASE Stop
  BY <1>2 DEF Stop, StopBegins
<1>3. ASSUME NEW b \in Broker, StartBroker(b) PROVE Replies'
  BY <1>3 DEF StartBroker
<1>4. ASSUME NEW b \in Broker, StartBrokerFails(b) PROVE Replies'
  BY <1>4 DEF StartBrokerFails, StopBegins
<1>5. CASE BrokersStarted
  BY <1>5 DEF BrokersStarted
<1>6. CASE Started
  BY <1>6 DEF Started
<1>7. CASE ConnClosed
  BY <1>7 DEF ConnClosed
<1>8. CASE Stopped
  BY <1>8 DEF Stopped
<1>9. ASSUME NEW d \in Dest, HandleDestination(d) PROVE Replies'
  <2>1. UNCHANGED <<starts, to, replyTo, reply, excused>>
    BY <1>9 DEF HandleDestination
  <2>2. \A k \in Key : k \notin Pub => producerMap'[k] = producerMap[k]
    BY <1>9 DEF HandleDestination, AddProducer, producers
  <2>3. QED
    BY <2>1, <2>2, ReplyKeepsOthers
<1>10. ASSUME NEW d \in Dest, DestinationFails(d) PROVE Replies'
  <2>1. UNCHANGED <<starts, to, replyTo, reply, excused>>
    BY <1>10 DEF DestinationFails, StopBegins
  <2>2. \A k \in Key : k \notin Pub => producerMap'[k] = producerMap[k]
    BY <1>10 DEF DestinationFails, AddProducer, producers
  <2>3. QED
    BY <2>1, <2>2, ReplyKeepsOthers
<1>11. ASSUME NEW c \in Conn, CloseConn(c) PROVE Replies'
  BY <1>11 DEF CloseConn
<1>12. ASSUME NEW c \in Conn, NEW d \in Dest, NEW m \in Message, OnMessage(c, d, m) PROVE Replies'
  BY <1>12 DEF OnMessage, Idle, Goto
<1>13. ASSUME NEW c \in Conn, NEW m \in Message, ReplyArrives(c, m) PROVE Replies'
  BY <1>13 DEF ReplyArrives, Idle, Goto
<1>14. ASSUME NEW c \in Conn, Matches(c) PROVE Replies'
  BY <1>14 DEF Matches, NoResponse, Finish, Goto
<1>15. ASSUME NEW c \in Conn, CreatesProducer(c) PROVE Replies'
  <2>1. Adds(c)
    BY <1>15, CreatesAdds
  <2>2. UNCHANGED <<starts, to, replyTo, reply, excused>>
    BY <1>15 DEF CreatesProducer
  <2>3. QED
    BY <2>1, <2>2, OtherReplies
<1>16. ASSUME NEW c \in Conn, SendResponse(c) PROVE Replies'
  BY <1>16 DEF SendResponse, NoResponse, Finish, Goto
<1>17. ASSUME NEW c \in Conn, Forward(c) PROVE Replies'
  BY <1>17 DEF Forward, Forwards, ForwardFails, Finish, Goto, TempFor, Excuse
<1>18. ASSUME NEW c \in Conn, Relay(c) PROVE Replies'
  BY <1>18, RelayReplies
<1>19. ASSUME NEW c \in Conn, CreatesRelay(c) PROVE Replies'
  BY <1>19, RelayReplies
<1>20. CASE UNCHANGED vars
  BY <1>20 DEF vars
<1>21. QED
  BY <1>1, <1>2, <1>3, <1>4, <1>5, <1>6, <1>7, <1>8, <1>9, <1>10, <1>11, <1>12, <1>13, <1>14, <1>15, <1>16, <1>17, <1>18, <1>19, <1>20 DEF Next, Listener, ManagerStep

----------------------------------------------------------------------------
(* Failures have a cause.                                                  *)
Fails(m) == fate[m] # "failed" /\ fate'[m] = "failed"
Caused(m) ==
  \/ m \in excused'
  \/ Channel[to[m]] \notin Pub
  \/ replyTo[m] # None /\ (\/ ConnOf(Channel[to[m]]) # ConnOf(to[m])
                           \/ Channel[to[m]] \in replaced)

\* Nothing but a listener that gets no response or does not forward fails.
LEMMA WhoFails ==
  ASSUME IInv, Next, NEW m \in Message, Fails(m)
  PROVE  \/ \E c \in Conn : NoResponse(c) /\ msg[c] = m
         \/ \E c \in Conn : Forward(c) /\ msg[c] = m
<1> USE DEF IInv, TypeOK, history, Fails
<1>1. CASE Start \/ Stop \/ ManagerStep
  BY <1>1 DEF Start, Stop, ManagerStep, StartBroker, StartBrokerFails, BrokersStarted, Started,
              ConnClosed, Stopped, HandleDestination, DestinationFails, CloseConn
<1>2. ASSUME NEW c \in Conn, NEW d \in Dest, NEW n \in Message, OnMessage(c, d, n) PROVE FALSE
  BY <1>2 DEF OnMessage
<1>3. ASSUME NEW c \in Conn, NEW n \in Message, ReplyArrives(c, n) PROVE FALSE
  BY <1>3 DEF ReplyArrives
<1>4. ASSUME NEW c \in Conn, Matches(c) \/ CreatesProducer(c) \/ SendResponse(c)
      PROVE  NoResponse(c) /\ msg[c] = m
  BY <1>4 DEF Matches, CreatesProducer, SendResponse, NoResponse, Finish
<1>5. ASSUME NEW c \in Conn, Forward(c) PROVE msg[c] = m
  BY <1>5 DEF Forward, Forwards, ForwardFails, Finish
<1>6. ASSUME NEW c \in Conn, Relay(c) \/ CreatesRelay(c) PROVE FALSE
  BY <1>6 DEF Relay, CreatesRelay
<1>7. QED
  BY <1>1, <1>2, <1>3, <1>4, <1>5, <1>6 DEF Next, Listener

LEMMA FailedStep ==
  ASSUME IInv, [Next]_vars, NEW m \in Message, Fails(m)
  PROVE  Caused(m)
<1>1. Next
  BY DEF Fails, vars, history
<1>2. ASSUME NEW c \in Conn, NoResponse(c), msg[c] = m PROVE Caused(m)
  <2>1. Channel[to[m]] = None
    BY <1>2 DEF NoResponse, Fails
  <2>2. None \notin Pub
    BY Names, NotNone
  <2>3. QED
    BY <2>1, <2>2 DEF Caused
<1>3. ASSUME NEW c \in Conn, Forward(c), msg[c] = m PROVE Caused(m)
  <2> DEFINE d == Channel[to[m]]
             p == producerMap[d]
  <2>1. step[c] = "proxy" /\ to[m] \in Dest /\ ConnOf(to[m]) = c
    BY <1>3 DEF Forward, IInv, Handlers, HandlerAt, Mails, MailAt
  <2>2. SUFFICES ASSUME m \notin excused', d \in Pub,
                        replyTo[m] = None \/ (ConnOf(d) = c /\ d \notin replaced)
                 PROVE  FALSE
    BY <2>1 DEF Caused
  <2>3. life = "up" /\ ~(Live(p) /\ (replyTo[m] = None \/ CanAskReply(c, p)))
    BY <1>3, <2>1, <2>2 DEF Forward, Forwards, ForwardFails, Finish, Excuse, Fails, IInv, TypeOK
  <2>4. Fresh(d) /\ d \in Key
    BY <2>2, <2>3, Names DEF IInv, Producers
  <2>5. p # None /\ p.start = starts /\ (p.conn = ConnOf(d) \/ d \in replaced)
    BY <2>4 DEF Fresh
  <2>6. p.conn \in open
    BY <2>3, <2>4, <2>5 DEF IInv, Producers
  <2>7. Live(p)
    BY <2>5, <2>6 DEF Live
  <2>8. QED
    BY <2>2, <2>3, <2>5, <2>7 DEF CanAskReply
<1>4. QED
  BY <1>1, <1>2, <1>3, WhoFails

----------------------------------------------------------------------------
LEMMA InitIInv == Init => IInv
BY NotNone, JMSAssumption DEF Init, IInv, TypeOK, Phases, Readers, Handlers, HandlerAt, Mails, MailAt,
   Producers, Fresh, Creators, CreatorAt, Replies, LostAt, RoutedAt, Step, Life, Fate

LEMMA Invariance == Spec => []IInv
<1>1. IInv /\ [Next]_vars => IInv'
  BY TypeStep, PhaseStep, ReaderStep, HandlerStep, MailStep, ProducerStep, CreatorStep, ReplyStep DEF IInv
<1>2. QED
  BY InitIInv, <1>1, PTL DEF Spec

(* The types of the variables of JMSSimulator, JMSBroker and the sessions. *)
THEOREM TypeCorrect == Spec => []TypeOK
BY Invariance, PTL DEF IInv

(* What a running simulator neither answers nor forwards has a cause other *)
(* than an old producer; a listener's own producer in the channel's place  *)
(* is one (JMSSimulator.prepare, onMessage, JMSSimRequest.doFillResponse). *)
THEOREM FailureIsExplained == Spec => FailedHasCause
<1> DEFINE Explained ==
      \A m \in Message : fate[m] # "failed" /\ fate'[m] = "failed" =>
        \/ m \in excused'
        \/ Channel[to[m]] \notin Pub
        \/ replyTo[m] # None /\ (\/ ConnOf(Channel[to[m]]) # ConnOf(to[m])
                                 \/ Channel[to[m]] \in replaced)
<1>1. IInv /\ [Next]_vars => [Explained]_vars
  BY FailedStep DEF Fails, Caused
<1>2. QED
  BY Invariance, <1>1, PTL DEF Spec, FailedHasCause

(* A reply reaches the client that wants it; one that gets lost met a      *)
(* producer of an earlier start (TempMessageListener, ProducerFactory).    *)
THEOREM RepliesReachTheirClient == Spec => []RepliesFindTheirWay
<1>1. ASSUME IInv, NEW m \in Message, reply[m] = "lost", m \notin excused
      PROVE  Stale(ReplyKey(to[m], replyTo[m]))
  <2>1. replyTo[m] \in ReplyTo /\ Outdated(ReplyKey(to[m], replyTo[m]))
    BY <1>1 DEF IInv, Replies, LostAt
  <2>2. to[m] \in Dest
    BY <1>1 DEF IInv, Mails, MailAt
  <2>3. ReplyKey(to[m], replyTo[m]) \in Key
    BY <2>1, <2>2, Names
  <2>4. starts \in Nat
    BY <1>1, Names DEF IInv, TypeOK
  <2>5. QED
    BY <1>1, <2>1, <2>3, <2>4 DEF Outdated, Stale, IInv, TypeOK, Producer
<1>2. IInv => RepliesFindTheirWay
  BY <1>1 DEF IInv, Replies, RoutedAt, RepliesFindTheirWay
<1>3. QED
  BY Invariance, <1>2, PTL

(* A simulator that is down has nothing open, whatever start or stop led   *)
(* there (JMSSimulator.doStop, JMSBroker.stop).                            *)
THEOREM DownIsClosed == Spec => []NothingOpenWhenDown
<1>1. IInv => NothingOpenWhenDown
  BY DEF IInv, Phases, NothingOpenWhenDown
<1>2. QED
  BY Invariance, <1>1, PTL
================================================================================
