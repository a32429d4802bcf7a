---------------------------- MODULE SocketSimulator ----------------------------
(***************************************************************************)
(* A socket simulator: connections, each handled by an event loop of its   *)
(* own, their ids, the one SocketClient field that all of them proxy       *)
(* through, and stop and start, of which netty does the work later.        *)
(*                                                                         *)
(* External: a handler that is not sharable, as a decoder or a             *)
(* ClientHandler, can be added to one pipeline only, and its channel fails *)
(* otherwise; bind and shutdownGracefully return at once, and the event    *)
(* loops then bind the port, close it and close the connections; a port    *)
(* can be bound by one server channel at a time.                           *)
(***************************************************************************)
EXTENDS Naturals, FiniteSets

CONSTANTS
  Conn,     \* connections; each opens once
  NoConn,
  Id,       \* channel ids the rules give
  Empty,    \* the empty string
  NoId,     \* no id
  MaxStart  \* bound: starts

ASSUME SocketAssumption ==
  /\ NoConn \notin Conn
  /\ Empty \notin Id /\ NoId \notin Id \cup {Empty}
  /\ MaxStart \in Nat
ASSUME FiniteConnections == IsFiniteSet(Conn)

Key == Id \cup {Empty}

VARIABLES
  proxy,        \* simulator.proxy
  ownDecoder,   \* getFrameDecoder returns a new decoder each time
  life, starts, \* "up" or "down"; starts so far, the last is the current one
  binding,      \* starts whose bind the event loop has not come to
  bound,        \* the start whose server channel has the port, 0 for none
  decoderUsed,  \* the decoder is in a pipeline
  wire,         \* "new", "open", "closed", "gone": channelInactive handled
  startOf,      \* the start that accepted a connection
  step,         \* what its handler does
  id,           \* SocketHandler.id
  handlerMap,   \* the connection registered under an id
  sClient,      \* the field: whose channelActive made the client
  client,       \* a connection's SocketClient
  order,        \* history: when it was made, 0 for never
  sentTo,       \* history: the clients its messages went to
  answered,     \* history: connections whose CLOSE a rule answered
  threw         \* history: those whose CLOSE ended in an exception not caught

config == <<proxy, ownDecoder>>
server == <<life, starts, binding, bound>>
channel == <<wire, startOf, step>>
ids == <<id, handlerMap>>
proxying == <<sClient, client, order>>
history == <<sentTo, answered, threw>>
vars == <<config, server, decoderUsed, channel, ids, proxying, history>>

\* "made": not started; "up": connected; "ending": close is called; "failed"
\* to connect.
Client == {"none", "made", "up", "failed", "ending", "ended"}

TypeOK ==
  /\ proxy \in BOOLEAN /\ ownDecoder \in BOOLEAN
  /\ life \in {"up", "down"}
  /\ starts \in 0 .. MaxStart
  /\ binding \subseteq 1 .. starts
  /\ bound \in 0 .. starts
  /\ decoderUsed \in BOOLEAN
  /\ wire \in [Conn -> {"new", "open", "closed", "gone"}]
  /\ startOf \in [Conn -> 0 .. starts]
  /\ step \in [Conn -> {"idle", "open", "dial", "message"}]
  /\ id \in [Conn -> Key \cup {NoId}]
  /\ handlerMap \in [Key -> Conn \cup {NoConn}]
  /\ sClient \in Conn \cup {NoConn}
  /\ client \in [Conn -> Client]
  /\ order \in [Conn -> 0 .. Cardinality(Conn)]
  /\ sentTo \in [Conn -> SUBSET Conn]
  /\ answered \subseteq Conn /\ threw \subseteq Conn

Init ==
  /\ proxy \in BOOLEAN /\ ownDecoder \in BOOLEAN
  /\ life = "down" /\ starts = 0 /\ binding = {} /\ bound = 0
  /\ decoderUsed = FALSE
  /\ wire = [c \in Conn |-> "new"]
  /\ startOf = [c \in Conn |-> 0]
  /\ step = [c \in Conn |-> "idle"]
  /\ id = [c \in Conn |-> NoId]
  /\ handlerMap = [k \in Key |-> NoConn]
  /\ sClient = NoConn
  /\ client = [c \in Conn |-> "none"]
  /\ order = [c \in Conn |-> 0]
  /\ sentTo = [c \in Conn |-> {}]
  /\ answered = {} /\ threw = {}

-----------------------------------------------------------------------------
(* Start and stop, and what the event loops do of them later.              *)

Current(n) == life = "up" /\ n = starts

\* SocketClient.stop of the field's client, if there is one.
\* Mutant of StopClient: its channel is not closed.
StopClientGroup == UNCHANGED client
StopClient == client' = [c \in Conn |->
                IF c = sClient /\ client[c] = "up" THEN "ending" ELSE client[c]]

\* doStart does not wait for its bind.
DoStart ==
  /\ life = "down" /\ starts < MaxStart
  /\ life' = "up" /\ starts' = starts + 1
  /\ binding' = binding \cup {starts + 1}
  /\ UNCHANGED <<config, bound, decoderUsed, channel, ids, proxying, history>>

\* doStop does not wait for the port and the connections to close.
DoStop ==
  /\ life = "up"
  /\ life' = "down"
  /\ StopClient
  /\ UNCHANGED <<config, starts, binding, bound, decoderUsed, channel, ids,
                 sClient, order, history>>

\* The port is free, or the bind fails, which nobody looks at; after a stop
\* the event loop may refuse it as well.
Bind(n) ==
  /\ n \in binding
  /\ binding' = binding \ {n}
  /\ bound' \in IF bound # 0 THEN {bound} ELSE IF Current(n) THEN {n} ELSE {0, n}
  /\ UNCHANGED <<config, life, starts, decoderUsed, channel, ids, proxying, history>>

CloseServer ==
  /\ bound # 0 /\ ~Current(bound)
  /\ bound' = 0
  /\ UNCHANGED <<config, life, starts, binding, decoderUsed, channel, ids, proxying,
                 history>>

\* Mutant of CloseChannel: the worker group is not shut down.
CloseChannelNever(c) == FALSE /\ c \in Conn /\ UNCHANGED vars

\* The worker group of a stopped start closes its connections.
CloseChannel(c) ==
  /\ wire[c] = "open" /\ ~Current(startOf[c])
  /\ wire' = [wire EXCEPT ![c] = "closed"]
  /\ UNCHANGED <<config, server, decoderUsed, startOf, step, ids, proxying, history>>

-----------------------------------------------------------------------------
(* The events of a connection.                                             *)

Goto(c, s) == step' = [step EXCEPT ![c] = s]

\* An exception that leaves the handler: exceptionCaught closes the channel.
Throws(c) ==
  /\ Goto(c, "idle")
  /\ wire' = [wire EXCEPT ![c] = IF @ = "open" THEN "closed" ELSE @]

\* A client connects; without a decoder to add its channel fails.
Connect(c) ==
  /\ bound # 0 /\ wire[c] = "new"
  /\ startOf' = [startOf EXCEPT ![c] = bound]
  /\ IF ownDecoder \/ ~decoderUsed
       THEN wire' = [wire EXCEPT ![c] = "open"] /\ Goto(c, "open")
       ELSE wire' = [wire EXCEPT ![c] = "gone"] /\ UNCHANGED step
  /\ decoderUsed' = TRUE
  /\ UNCHANGED <<config, server, ids, proxying, history>>

\* Mutant of Replace: a client that is there already is kept.
ReplaceNone(c) == sClient' = IF sClient = NoConn THEN c ELSE sClient
Replace(c) == sClient' = c

Made == Cardinality({c \in Conn : order[c] # 0})

\* channelActive: a rule answers OPEN or its answer throws, or proxy mode
\* makes a client, or nothing does.
ChannelActive(c) ==
  /\ step[c] = "open"
  /\ \/ Goto(c, "idle") /\ UNCHANGED <<wire, proxying>>
     \/ Throws(c) /\ UNCHANGED proxying
     \/ /\ proxy
        /\ Replace(c)
        /\ client' = [client EXCEPT ![c] = "made"]
        /\ order' = [order EXCEPT ![c] = Made + 1]
        /\ Goto(c, "dial") /\ UNCHANGED wire
  /\ UNCHANGED <<config, server, decoderUsed, startOf, ids, history>>

\* sClient.start reads the field again.  A client that was started before,
\* and a server that refuses, make it throw, past the catch clause.
Dial(c) ==
  /\ step[c] = "dial"
  /\ \/ /\ client[sClient] = "made" /\ (ownDecoder \/ ~decoderUsed)
        /\ client' = [client EXCEPT ![sClient] = "up"]
        /\ Goto(c, "idle") /\ UNCHANGED wire
     \/ /\ client' = [client EXCEPT ![sClient] = IF @ = "made" THEN "failed" ELSE @]
        /\ Throws(c)
  /\ UNCHANGED <<config, server, decoderUsed, startOf, ids, sClient, order, history>>

Receive(c) ==
  /\ wire[c] = "open" /\ step[c] = "idle"
  /\ Goto(c, "message")
  /\ UNCHANGED <<config, server, decoderUsed, wire, startOf, ids, proxying, history>>

\* getHeaderLine has no value for any header, also when a rule gives an id.
HeaderLine(i) == IF i \in Id \cup {NoId} THEN Empty ELSE i

HandleIDChange(c, i) ==
  IF id[c] = NoId
    THEN /\ id' = [id EXCEPT ![c] = HeaderLine(i)]
         /\ handlerMap' = [handlerMap EXCEPT ![HeaderLine(i)] = c]
    ELSE UNCHANGED ids

\* channelRead: a rule answers.
Answer(c) ==
  /\ step[c] = "message"
  /\ \E i \in Id \cup {NoId} : HandleIDChange(c, i)
  /\ Goto(c, "idle")
  /\ UNCHANGED <<config, server, decoderUsed, wire, startOf, proxying, history>>

HasChannel == sClient # NoConn /\ client[sClient] \in {"up", "ending", "ended"}

\* channelRead: no rule does, or its answer throws.  sendMsg of a client that
\* is not there or has no channel throws; what is written to a closed channel
\* is dropped.
NoAnswer(c) ==
  /\ step[c] = "message"
  /\ \/ ~proxy /\ Goto(c, "idle") /\ UNCHANGED <<wire, sentTo>>
     \/ proxy /\ HasChannel
          /\ sentTo' = [sentTo EXCEPT ![c] = @ \cup {sClient}]
          /\ Goto(c, "idle") /\ UNCHANGED wire
     \/ Throws(c) /\ UNCHANGED sentTo
  /\ UNCHANGED <<config, server, decoderUsed, startOf, ids, proxying, answered, threw>>

\* The peer closes the connection.
Leave(c) ==
  /\ wire[c] = "open"
  /\ wire' = [wire EXCEPT ![c] = "closed"]
  /\ UNCHANGED <<config, server, decoderUsed, startOf, step, ids, proxying, history>>

\* Mutant of Unregister: not in the finally clause.
UnregisterOnSuccess(c) ==
  handlerMap' = IF id[c] # NoId /\ c \notin threw'
                  THEN [handlerMap EXCEPT ![id[c]] = NoConn] ELSE handlerMap
Unregister(c) ==
  handlerMap' = IF id[c] # NoId THEN [handlerMap EXCEPT ![id[c]] = NoConn] ELSE handlerMap

\* channelInactive: a rule answers the CLOSE; or none does, or an IOException
\* comes of it, and the client is stopped; or a RuntimeException of a bean
\* passes the catch clause by, and with it the stop.
ChannelInactive(c) ==
  /\ wire[c] = "closed" /\ step[c] = "idle"
  /\ \/ answered' = answered \cup {c} /\ UNCHANGED <<threw, client>>
     \/ threw' = threw \cup {c} /\ UNCHANGED <<answered, client>>
     \/ /\ IF proxy THEN StopClient ELSE UNCHANGED client
        /\ UNCHANGED <<answered, threw>>
  /\ Unregister(c)
  /\ wire' = [wire EXCEPT ![c] = "gone"]
  /\ UNCHANGED <<config, server, decoderUsed, startOf, step, id, sClient, order, sentTo>>

\* The client's channel is closed, by stop or by its server, and with it the
\* connection that it was made for.
ClientInactive(c) ==
  /\ client[c] \in {"up", "ending"}
  /\ client' = [client EXCEPT ![c] = "ended"]
  /\ wire' = [wire EXCEPT ![c] = IF @ = "open" THEN "closed" ELSE @]
  /\ UNCHANGED <<config, server, decoderUsed, startOf, step, ids, sClient, order, history>>

-----------------------------------------------------------------------------

Handle(c) == ChannelActive(c) \/ Dial(c) \/ Answer(c) \/ NoAnswer(c) \/ ChannelInactive(c)
Loops == CloseServer \/ \E n \in binding : Bind(n)

Next ==
  \/ DoStart \/ DoStop \/ Loops
  \/ \E c \in Conn : \/ CloseChannel(c) \/ Connect(c) \/ Handle(c) \/ Receive(c)
                     \/ Leave(c) \/ ClientInactive(c)

Spec == Init /\ [][Next]_vars

\* The event loops do what they have been told; nobody has to connect, to
\* send, to leave, to start or to stop.
FairSpec ==
  /\ Spec
  /\ WF_vars(Loops)
  /\ \A c \in Conn : WF_vars(Handle(c)) /\ WF_vars(CloseChannel(c))

-----------------------------------------------------------------------------
(* Properties.                                                             *)

\* Another simulator that addresses an id never reaches a connection that
\* has left (channelInactive's finally clause, fillResponse).
NobodyGoneIsRegistered ==
  \A k \in Key : handlerMap[k] # NoConn =>
    wire[handlerMap[k]] \in {"open", "closed"} /\ id[handlerMap[k]] = k

\* While a connection has a client of its own, its messages never go to one
\* made before, however dials and messages of others interleave
\* (channelActive, channelRead).
NeverAnOlderServer ==
  \A c \in Conn : \A d \in sentTo[c] : order[d] >= order[c]

\* A server connection outlives its connection for one of three causes only: a
\* rule answered the CLOSE, the handling of the CLOSE threw what is no
\* IOException, or a connection opened later took the field over
\* (channelInactive).
LeftOpenHasCause ==
  \A c \in Conn : client[c] = "up" /\ wire[c] = "gone" =>
    c \in answered \/ c \in threw \/ \E d \in Conn : order[d] > order[c]

\* A stop disconnects everybody and frees the port, if nobody starts the
\* simulator meanwhile (doStop).
StopDisconnects ==
  life = "down" ~> (life = "up" \/ (bound = 0 /\ \A c \in Conn : wire[c] \in {"new", "gone"}))
================================================================================
