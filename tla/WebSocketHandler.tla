--------------------------- MODULE WebSocketHandler ---------------------------
(***************************************************************************)
(* One WebSocket of a WebbitSimulator (WebbitWSHandler, its                *)
(* ConnectionBundle, WebbitWSClient): the events of its connections, which *)
(* the one executor thread of the web server handles in turn; other        *)
(* simulators that send through it (WebbitSimulator.fillResponse); the     *)
(* clients of a proxied server, each with a thread of its own; and the     *)
(* management thread that stops it all.                                    *)
(*                                                                         *)
(* External: a client's start() ends, with an exception or without, as a   *)
(* connect has a timeout; whether the server then opens the WebSocket is   *)
(* up to the server; the stop of the web server may interrupt the          *)
(* executor; close and stop of a client that is connected do not throw.    *)
(*                                                                         *)
(* The lists of connectionMap are sets: a connection is in one at most     *)
(* once.  An empty list and a missing one differ only for UNKNOWN, where   *)
(* the map may have lost unknownConnectionList for ever: original.         *)
(***************************************************************************)
EXTENDS Naturals, FiniteSets

CONSTANTS
  Conn,     \* connections; each opens once
  NoConn,   \* the executor handles no event
  Id,       \* channel ids the script gives
  UNKNOWN,  \* the id of a connection without one
  NoId,     \* no id
  ALL,      \* addresses every connection
  Sender,   \* threads of other simulators
  Proxy     \* simulator.proxy of the WebSocket's script

ASSUME HandlerAssumption ==
  /\ NoConn \notin Conn
  /\ UNKNOWN \notin Id
  /\ NoId \notin Id \cup {UNKNOWN}
  /\ ALL \notin Id \cup {UNKNOWN, NoId}
  /\ Proxy \in BOOLEAN
ASSUME FiniteIds == IsFiniteSet(Id)

Key == Id \cup {UNKNOWN}
Event == {"OPEN", "MESSAGE", "CLOSE"}

VARIABLES
  wire,           \* "new", "open", "closed" by its client, "gone": CLOSE handled
  id,             \* ConnectionWithDelegator.id
  delegator,      \* its WebbitWSClient
  connectionMap,  \* ConnectionBundle: the lists
  original,       \* unknownConnectionList is the list under UNKNOWN
  step, event, conn, channelID, outcome,  \* the executor thread
  address, pending,                       \* each sender: key, copies to send
  closing,        \* WebbitSimulator.doStop and its ConnectionBundle.close
  late,           \* history: connections with a client registered after it
  interrupted     \* history: connections whose start() was interrupted

bundle == <<id, delegator, connectionMap, original>>
executor == <<step, event, conn, channelID, outcome>>
senders == <<address, pending>>
stopping == <<closing, late, interrupted>>
vars == <<wire, bundle, executor, senders, stopping>>

\* "dialing": the server did not answer yet; "refused": it never will, and
\* onOpen is never called; "stopped" after it was connected.
Client == {"none", "dialing", "refused", "connected", "stopped"}

TypeOK ==
  /\ wire \in [Conn -> {"new", "open", "closed", "gone"}]
  /\ id \in [Conn -> Key]
  /\ delegator \in [Conn -> Client]
  /\ connectionMap \in [Key -> SUBSET Conn]
  /\ original \in BOOLEAN
  /\ step \in {"idle", "generate", "handle", "dial", "add", "ids", "remove"}
  /\ event \in Event
  /\ conn \in Conn \cup {NoConn}
  /\ channelID \in Id \cup {NoId}
  /\ outcome \in {"sent", "caught", "uncaught"}
  /\ address \in [Sender -> Id \cup {ALL, NoId}]
  /\ pending \in [Sender -> [Conn -> Nat]]
  /\ closing \in {"no", "server", "closing", "done"}
  /\ late \subseteq Conn /\ interrupted \subseteq Conn

NoCopies == [c \in Conn |-> 0]

Init ==
  /\ wire = [c \in Conn |-> "new"]
  /\ id = [c \in Conn |-> UNKNOWN]
  /\ delegator = [c \in Conn |-> "none"]
  /\ connectionMap = [k \in Key |-> {}]
  /\ original = TRUE
  /\ step = "idle"
  /\ event = "OPEN"
  /\ conn = NoConn
  /\ channelID = NoId
  /\ outcome = "caught"
  /\ address = [s \in Sender |-> NoId]
  /\ pending = [s \in Sender |-> NoCopies]
  /\ closing = "no"
  /\ late = {} /\ interrupted = {}

----------------------------------------------------------------------------
(* ConnectionBundle; every operation takes the monitor of connectionMap.   *)

MonitorFree == closing # "closing"

\* findConnection # null
Found(c) == \E k \in Key : c \in connectionMap[k]

\* findConnections: how often each connection is in the list it returns.
Copies(key) ==
  [c \in Conn |-> IF key = ALL THEN Cardinality({k \in Key : c \in connectionMap[k]})
                  ELSE IF c \in connectionMap[key] THEN 1 ELSE 0]

\* Of a new ConnectionWithDelegator, whose id is UNKNOWN.
AddConnection(c) ==
  /\ connectionMap' = [connectionMap EXCEPT ![UNKNOWN] = @ \cup {c}]
  /\ UNCHANGED <<id, original>>

\* Mutant of SetId: a second id replaces the first.
SetIdAgain(c, i) ==
  /\ id' = [id EXCEPT ![c] = i]
  /\ connectionMap' = [k \in Key |-> IF k = i THEN connectionMap[k] \cup {c}
                                     ELSE connectionMap[k] \ {c}]
  /\ UNCHANGED <<delegator, original>>

\* unknownConnectionList.remove has an effect on the map only while the map
\* holds that list.
SetId(c, i) ==
  IF id[c] # UNKNOWN THEN UNCHANGED bundle
  ELSE /\ id' = [id EXCEPT ![c] = i]
       /\ connectionMap' = [k \in Key |-> IF k = i THEN connectionMap[k] \cup {c}
                                          ELSE IF k = UNKNOWN /\ original
                                               THEN connectionMap[k] \ {c}
                                          ELSE connectionMap[k]]
       /\ UNCHANGED <<delegator, original>>

\* Mutant of RemoveConnection: always from the list under UNKNOWN.
RemoveUnknown(c) ==
  /\ connectionMap' = [connectionMap EXCEPT ![UNKNOWN] = @ \ {c}]
  /\ UNCHANGED <<id, delegator, original>>

\* The list of the connection's id; when it is left empty the map drops it.
RemoveConnection(c) ==
  /\ connectionMap' = [connectionMap EXCEPT ![id[c]] = @ \ {c}]
  /\ original' = (original /\ (id[c] = UNKNOWN => connectionMap[UNKNOWN] # {c}))
  /\ UNCHANGED <<id, delegator>>

----------------------------------------------------------------------------
(* The executor thread: onOpen, onMessage, onClose.                        *)

Goto(s) ==
  /\ step' = s
  /\ UNCHANGED <<event, conn, channelID, outcome>>

Finish ==
  /\ step' = "idle"
  /\ channelID' = NoId
  /\ outcome' = "caught"
  /\ event' = "OPEN"
  /\ conn' = NoConn

Receive(c, e, before, after) ==
  /\ step = "idle"
  /\ wire[c] = before
  /\ wire' = [wire EXCEPT ![c] = after]
  /\ step' = "generate"
  /\ event' = e
  /\ conn' = c
  /\ UNCHANGED <<bundle, channelID, outcome, senders, stopping>>

OnOpen(c) == Receive(c, "OPEN", "new", "open")
OnMessage(c) == MonitorFree /\ Receive(c, "MESSAGE", "open", "open")
OnClose(c) == MonitorFree /\ Receive(c, "CLOSE", "open", "closed")

\* genResponse: all the responses of a rule are sent, over the connection
\* itself (NoId) or the channel the rule names, which must have connections; or
\* no rule matches or one fails, maybe after a response that set _Channel_ID,
\* with an exception the handler catches: onClose catches an IOException only.
GenResponse ==
  /\ step = "generate"
  /\ step' = "handle"
  /\ channelID' \in Id \cup {NoId}
  /\ \/ outcome' = "caught"
     \/ outcome' = "uncaught" /\ event = "CLOSE"
     \/ \E to \in Id \cup {ALL, NoId} :
          /\ to # NoId => MonitorFree
          /\ outcome' = IF to # NoId /\ Copies(to) = NoCopies THEN "caught" ELSE "sent"
  /\ UNCHANGED <<wire, bundle, event, conn, senders, stopping>>

Register ==
  /\ step = "handle"
  /\ event = "OPEN"
  /\ MonitorFree
  /\ outcome = "sent"
  /\ AddConnection(conn)
  /\ Goto("ids")
  /\ UNCHANGED <<wire, delegator, senders, stopping>>

\* A client for the proxied server: start() blocks until it is connected or not.
Dial ==
  /\ step = "handle"
  /\ event = "OPEN"
  /\ outcome # "sent" /\ Proxy
  /\ delegator' = [delegator EXCEPT ![conn] = "dialing"]
  /\ Goto("dial")
  /\ UNCHANGED <<wire, id, connectionMap, original, senders, stopping>>

StartReturns ==
  /\ step = "dial"
  /\ Goto("add")
  /\ UNCHANGED <<wire, bundle, senders, stopping>>

\* The connect fails: start() throws an IOException, which onOpen catches, or a
\* RuntimeException, which leaves it through the finally clause.
StartThrows ==
  /\ step = "dial"
  /\ delegator[conn] \in {"dialing", "refused"}
  /\ delegator' = [delegator EXCEPT ![conn] = "none"]
  /\ Goto("ids")
  /\ UNCHANGED <<wire, id, connectionMap, original, senders, stopping>>

\* The stop of the web server interrupts it: the client goes on to dial.
StartInterrupted ==
  /\ step = "dial"
  /\ closing # "no"
  /\ interrupted' = interrupted \cup {conn}
  /\ Goto("ids")
  /\ UNCHANGED <<wire, bundle, senders, closing, late>>

\* Mutant of RegisterClient: the connection is not registered.
RegisterNoClient ==
  /\ step = "add"
  /\ Goto("ids")
  /\ UNCHANGED <<wire, bundle, senders, stopping>>

\* The started client is registered with its connection; a stop that did not
\* find it there is over by then.
RegisterClient ==
  /\ step = "add"
  /\ MonitorFree
  /\ AddConnection(conn)
  /\ late' = IF closing = "done" THEN late \cup {conn} ELSE late
  /\ Goto("ids")
  /\ UNCHANGED <<wire, delegator, senders, closing, interrupted>>

\* No proxy, or no client can be made: the connection is not registered.
OpenFails ==
  /\ step = "handle"
  /\ event = "OPEN"
  /\ outcome # "sent"
  /\ Goto("ids")
  /\ UNCHANGED <<wire, bundle, senders, stopping>>

After(e) == IF e = "MESSAGE" THEN "ids" ELSE "remove"

\* Handlers of MESSAGE and CLOSE that turn to the client of the connection.
Forwards ==
  /\ step = "handle"
  /\ event # "OPEN"
  /\ outcome = "caught" /\ Proxy
  /\ Found(conn) /\ delegator[conn] # "none"

\* Also without delegator: the NullPointerException passes through finally.
Answered ==
  /\ step = "handle"
  /\ event # "OPEN"
  /\ ~Forwards
  /\ Goto(After(event))
  /\ UNCHANGED <<wire, bundle, senders, stopping>>

\* WebbitWSClient.getConnection returns: it waits for onOpen.
\* Mutant of GetConnection: a stopped client has none any more.
GetConnectionOnce(c) == delegator[c] = "connected"
GetConnection(c) == delegator[c] \in {"connected", "stopped"}

\* send or stop of the client.
Forward ==
  /\ Forwards
  /\ GetConnection(conn)
  /\ delegator' = [delegator EXCEPT ![conn] = IF event = "CLOSE" THEN "stopped" ELSE @]
  /\ Goto(After(event))
  /\ UNCHANGED <<wire, id, connectionMap, original, senders, stopping>>

\* handleIDChange; an unregistered connection ends it with an exception.
HandleIDChange ==
  /\ step = "ids"
  /\ channelID # NoId => MonitorFree
  /\ IF channelID # NoId /\ Found(conn) THEN SetId(conn, channelID) ELSE UNCHANGED bundle
  /\ Finish
  /\ UNCHANGED <<wire, senders, stopping>>

\* The finally of onClose, with an exception again for an unregistered one.
Remove ==
  /\ step = "remove"
  /\ MonitorFree
  /\ IF Found(conn) THEN RemoveConnection(conn) ELSE UNCHANGED bundle
  /\ wire' = [wire EXCEPT ![conn] = "gone"]
  /\ Finish
  /\ UNCHANGED <<senders, stopping>>

----------------------------------------------------------------------------
(* The other threads.                                                      *)

\* The server opens the WebSocket: WebbitWSClient.onOpen, on the client's thread.
Connected(c) ==
  /\ delegator[c] = "dialing"
  /\ delegator' = [delegator EXCEPT ![c] = "connected"]
  /\ UNCHANGED <<wire, id, connectionMap, original, executor, senders, stopping>>

\* It refuses the handshake, or hangs up before: nobody tells getConnection.
Refused(c) ==
  /\ delegator[c] = "dialing"
  /\ delegator' = [delegator EXCEPT ![c] = "refused"]
  /\ UNCHANGED <<wire, id, connectionMap, original, executor, senders, stopping>>

\* Mutant of SendResponse: that nobody is there is not noticed.
SendResponseToNobody(s, key) ==
  /\ address[s] = NoId
  /\ MonitorFree
  /\ address' = [address EXCEPT ![s] = key]
  /\ pending' = [pending EXCEPT ![s] = Copies(key)]
  /\ UNCHANGED <<wire, bundle, executor, stopping>>

\* sendResponse of another simulator: a copy of the list, then one send each.
SendResponse(s, key) ==
  /\ address[s] = NoId
  /\ MonitorFree
  /\ Copies(key) # NoCopies
  /\ address' = [address EXCEPT ![s] = key]
  /\ pending' = [pending EXCEPT ![s] = Copies(key)]
  /\ UNCHANGED <<wire, bundle, executor, stopping>>

FillRawResponse(s, c) ==
  /\ pending[s][c] > 0
  /\ pending' = [pending EXCEPT ![s][c] = @ - 1]
  /\ address' = [address EXCEPT ![s] = IF pending'[s] = NoCopies THEN NoId ELSE @]
  /\ UNCHANGED <<wire, bundle, executor, stopping>>

\* WebbitSimulator.doStop: webServer.stop, and nobody waits for it; then, once
\* per handler, bundle.close, which keeps the monitor while it waits for the
\* server of each listed delegator and stops it.
StopServer ==
  /\ closing = "no"
  /\ closing' = "server"
  /\ UNCHANGED <<wire, bundle, executor, senders, late, interrupted>>

CloseStarts ==
  /\ closing = "server"
  /\ closing' = "closing"
  /\ UNCHANGED <<wire, bundle, executor, senders, late, interrupted>>

Closes(c) == Found(c) /\ delegator[c] # "none"

CloseEnds ==
  /\ closing = "closing"
  /\ \A c \in Conn : Closes(c) => GetConnection(c)
  /\ delegator' = [c \in Conn |-> IF Closes(c) THEN "stopped" ELSE delegator[c]]
  /\ closing' = "done"
  /\ UNCHANGED <<wire, id, connectionMap, original, executor, senders, late, interrupted>>

----------------------------------------------------------------------------
Handle ==
  \/ GenResponse \/ Register \/ Dial \/ StartReturns \/ StartThrows \/ StartInterrupted
  \/ RegisterClient \/ OpenFails \/ Answered \/ Forward \/ HandleIDChange \/ Remove

Next ==
  \/ \E c \in Conn : OnOpen(c) \/ OnMessage(c) \/ OnClose(c) \/ Connected(c) \/ Refused(c)
  \/ Handle
  \/ \E s \in Sender : \/ \E key \in Id \cup {ALL} : SendResponse(s, key)
                       \/ \E c \in Conn : FillRawResponse(s, c)
  \/ StopServer \/ CloseStarts \/ CloseEnds

Spec == Init /\ [][Next]_vars

\* The executor and the stopping thread keep running.  No server has to answer.
FairSpec == Spec /\ WF_vars(Handle) /\ WF_vars(CloseEnds)

----------------------------------------------------------------------------
(* What the handler promises.                                              *)

\* The connections findConnections returns for an id are exactly those that
\* were given it and whose CLOSE was not handled yet: nobody with an id gets
\* lost, nobody who left is sent to.
IdListsAreExact ==
  \A i \in Id : connectionMap[i] = {c \in Conn : id[c] = i /\ wire[c] # "gone"}

HasClient(c) == delegator[c] \in {"dialing", "refused", "connected"}

Starting(c) == conn = c /\ step \in {"dial", "add"}
ListsReach ==
  \A c \in Conn : HasClient(c) /\ wire[c] # "gone" =>
    Found(c) \/ Starting(c) \/ c \in interrupted
StopReaches ==
  closing = "done" => \A c \in Conn : HasClient(c) /\ wire[c] # "gone" =>
    c \in late \cup interrupted \/ Starting(c)

\* A client of the proxied server is in a list, where bundle.close and the
\* events of its connection find it, for as long as that connection; but not
\* before start() has returned, nor if start() was interrupted (onOpen).  And
\* when a stop has returned, the clients left to connections that are still
\* there are those that bundle.close could not find: still being started,
\* registered after it, or interrupted.
DelegatorWithinReach == ListsReach /\ StopReaches

\* Whatever happens between the lookup and the send, what is sent to an id
\* reaches nobody with another id, and nobody twice.
SendStaysInChannel ==
  \A s \in Sender : address[s] \in Id =>
    \A c \in Conn : /\ pending[s][c] <= 1
                    /\ pending[s][c] = 1 => id[c] = address[s]

\* _ALL_ reaches each channel once, as long as there is the channel (README
\* 4.2.3: "_ALL_ means all channels").
AllMeansEachOnce ==
  \A c \in Conn : Copies(ALL)[c] <= IF wire[c] = "gone" THEN 0 ELSE 1

\* A thread waits in getConnection for the server of the connection's client.
Awaited(c) ==
  /\ ~GetConnection(c)
  /\ \/ conn = c /\ Forwards
     \/ closing = "closing" /\ Closes(c)

\* Every event is handled to its end, and so are those behind it in the queue
\* of the executor, and a stop returns from bundle.close; or one of them waits
\* for ever for one and the same server, which never opens the WebSocket.
EventsEndOrWait ==
  \/ (step # "idle" ~> step = "idle") /\ (closing = "closing" ~> closing = "done")
  \/ \E c \in Conn : <>[](Awaited(c) /\ delegator[c] \in {"dialing", "refused"})

\* Refinement: the lists seen as the directory of channel ids.  What is sent to
\* everybody is no business of the directory.
HeldId(c) ==
  IF \E i \in Id : c \in connectionMap[i]
  THEN CHOOSE i \in Id : c \in connectionMap[i]
  ELSE NoId
HeldIds == [c \in Conn |-> HeldId(c)]
Gone == {c \in Conn : wire[c] = "gone"}
SendsTo == [s \in Sender |-> IF address[s] = ALL THEN NoId ELSE address[s]]
ToSend == [s \in Sender |-> IF address[s] = ALL THEN {} ELSE {c \in Conn : pending[s][c] > 0}]

Directory ==
  INSTANCE ChannelDirectory WITH
    holds <- HeldIds, left <- Gone, address <- SendsTo, pending <- ToSend

\* The handler implements ChannelDirectory: ids are given once and for the life
\* of a connection, and a lookup finds exactly those who hold the id.
ImplementsDirectory == Directory!Spec
===============================================================================
