----------------------- MODULE WebSocketHandler_proofs -----------------------
(***************************************************************************)
(* Proofs about WebSocketHandler, for every set of connections and senders *)
(* and every finite set of ids: the lists of channel ids are exact, and    *)
(* the handler implements ChannelDirectory.                                *)
(***************************************************************************)
EXTENDS WebSocketHandler, FiniteSetTheorems, TLAPS

(* What the executor thread may rely on while it handles an event: the     *)
(* connection it handles has not gone, and CLOSE alone leads to Remove.    *)
Handling ==
  /\ step # "idle" => conn \in Conn /\ wire[conn] \in {"open", "closed"}
  /\ step = "remove" => event = "CLOSE"
  /\ step \in {"dial", "add", "ids"} => event # "CLOSE"

(* A sender that sends to nobody has nothing left to send.                 *)
FreeSenders == \A s \in Sender : address[s] = NoId => pending[s] = NoCopies

Inv ==
  /\ TypeOK
  /\ Handling
  /\ IdListsAreExact
  /\ SendStaysInChannel
  /\ FreeSenders

----------------------------------------------------------------------------
(* What findConnections returns is a count of copies, at most one for an id. *)
LEMMA CopiesType ==
  ASSUME TypeOK, NEW key \in Id \cup {ALL}
  PROVE  /\ Copies(key) \in [Conn -> Nat]
         /\ key \in Id => \A c \in Conn : Copies(key)[c] = IF c \in connectionMap[key] THEN 1 ELSE 0
<1>1. IsFiniteSet(Key)
  BY FiniteIds, FS_AddElement DEF Key
<1>2. ASSUME NEW c \in Conn PROVE Cardinality({k \in Key : c \in connectionMap[k]}) \in Nat
  <2>1. IsFiniteSet({k \in Key : c \in connectionMap[k]})
    BY <1>1, FS_Subset
  <2>2. QED
    BY <2>1, FS_CardinalityType
<1>3. key \in Id => key # ALL
  BY HandlerAssumption
<1>4. QED
  BY <1>2, <1>3 DEF Copies

(* The lists change under SetId and RemoveConnection only as said here.    *)
LEMMA SetIdEffect ==
  ASSUME TypeOK, NEW c \in Conn, NEW i \in Id, SetId(c, i)
  PROVE  /\ id' \in [Conn -> Key]
         /\ connectionMap' \in [Key -> SUBSET Conn]
         /\ \A d \in Conn : id'[d] = IF d = c /\ id[c] = UNKNOWN THEN i ELSE id[d]
         /\ \A k \in Id : connectionMap'[k] = IF k = i /\ id[c] = UNKNOWN
                                              THEN connectionMap[k] \cup {c}
                                              ELSE connectionMap[k]
         /\ UNCHANGED <<delegator, original>>
<1>1. CASE id[c] # UNKNOWN
  BY <1>1, HandlerAssumption DEF SetId, bundle, TypeOK, Key
<1>2. CASE id[c] = UNKNOWN
  <2>1. /\ id' = [id EXCEPT ![c] = i]
        /\ UNCHANGED <<delegator, original>>
        /\ DOMAIN connectionMap' = Key
        /\ connectionMap' = [k \in Key |-> connectionMap'[k]]
    BY <1>2 DEF SetId
  <2>2. /\ \A k \in Key : connectionMap'[k] \in SUBSET Conn
        /\ \A k \in Id : connectionMap'[k] = IF k = i THEN connectionMap[k] \cup {c}
                                             ELSE connectionMap[k]
    BY <1>2, HandlerAssumption DEF SetId, TypeOK, Key
  <2>3. id' \in [Conn -> Key]
    BY <2>1 DEF TypeOK, Key
  <2>4. QED
    BY <1>2, <2>1, <2>2, <2>3 DEF TypeOK
<1>3. QED
  BY <1>1, <1>2

(* The list of the id of the connection loses it and no other does.        *)
LEMMA RemoveEffect ==
  ASSUME TypeOK, NEW c \in Conn, RemoveConnection(c)
  PROVE  /\ connectionMap' \in [Key -> SUBSET Conn]
         /\ original' \in BOOLEAN
         /\ \A k \in Id : connectionMap'[k] = IF k = id[c] THEN connectionMap[k] \ {c}
                                              ELSE connectionMap[k]
         /\ UNCHANGED <<id, delegator>>
BY DEF RemoveConnection, TypeOK, Key

(* Registering touches the list without id only.                           *)
LEMMA AddEffect ==
  ASSUME TypeOK, NEW c \in Conn, AddConnection(c)
  PROVE  /\ connectionMap' \in [Key -> SUBSET Conn]
         /\ \A k \in Id : connectionMap'[k] = connectionMap[k]
         /\ UNCHANGED <<id, original>>
BY HandlerAssumption DEF AddConnection, TypeOK, Key

----------------------------------------------------------------------------
(* The initial states satisfy the invariant.                               *)
LEMMA InitInv == Init => Inv
<1> SUFFICES ASSUME Init PROVE Inv
  OBVIOUS
<1>1. TypeOK
  BY DEF Init, TypeOK, Key, Event, NoCopies, Client
<1>2. Handling /\ FreeSenders
  BY DEF Init, Handling, FreeSenders
<1>3. IdListsAreExact
  BY HandlerAssumption DEF Init, IdListsAreExact, Key
<1>4. SendStaysInChannel
  BY HandlerAssumption DEF Init, SendStaysInChannel
<1>5. QED
  BY <1>1, <1>2, <1>3, <1>4 DEF Inv

(* An event the executor takes up.                                         *)
LEMMA ReceiveStep ==
  ASSUME Inv, NEW c \in Conn, OnOpen(c) \/ OnMessage(c) \/ OnClose(c)
  PROVE  Inv'
<1> USE DEF Inv
<1>1. PICK e \in Event, before \in {"new", "open"}, after \in {"open", "closed"} :
        Receive(c, e, before, after)
  BY DEF OnOpen, OnMessage, OnClose, Event
<1>2. TypeOK'
  BY <1>1 DEF Receive, bundle, senders, stopping, TypeOK
<1>3. Handling'
  BY <1>1 DEF Receive, Handling, TypeOK
<1>4. IdListsAreExact'
  BY <1>1 DEF Receive, bundle, IdListsAreExact, TypeOK
<1>5. SendStaysInChannel' /\ FreeSenders'
  BY <1>1 DEF Receive, bundle, senders, SendStaysInChannel, FreeSenders, NoCopies
<1>6. QED
  BY <1>2, <1>3, <1>4, <1>5

(* A step that leaves the wires, the lists and the senders alone.          *)
LEMMA ExecutorStep ==
  ASSUME Inv,
         \/ GenResponse \/ Dial \/ StartReturns \/ StartThrows \/ StartInterrupted
         \/ OpenFails \/ Answered \/ Forward
  PROVE  Inv'
<1> USE DEF Inv
<1>1. UNCHANGED <<wire, id, connectionMap, original, senders, closing, late, event, conn>>
  BY DEF GenResponse, Dial, StartReturns, StartThrows, StartInterrupted, OpenFails, Answered,
     Forward, Goto, bundle, stopping
<1>2. Handling'
  <2>1. \/ step' = "handle"
        \/ step' \in {"dial", "add", "ids"} /\ event # "CLOSE"
        \/ step' = "remove" /\ event = "CLOSE"
    BY DEF GenResponse, Dial, StartReturns, StartThrows, StartInterrupted, OpenFails, Answered,
       Forward, Forwards, Goto, After, Handling, TypeOK, Event
  <2>2. step # "idle"
    BY DEF GenResponse, Dial, StartReturns, StartThrows, StartInterrupted, OpenFails, Answered,
       Forward, Forwards
  <2>3. QED
    BY <1>1, <2>1, <2>2 DEF Handling
<1>3. TypeOK'
  <2>1. /\ step' \in {"idle", "generate", "handle", "dial", "add", "ids", "remove"}
        /\ channelID' \in Id \cup {NoId}
        /\ outcome' \in {"sent", "caught", "uncaught"}
    BY DEF GenResponse, Dial, StartReturns, StartThrows, StartInterrupted, OpenFails, Answered,
       Forward, Goto, After, TypeOK
  <2>2. delegator' \in [Conn -> Client]
    BY DEF GenResponse, Dial, StartReturns, StartThrows, StartInterrupted, OpenFails, Answered,
       Forward, bundle, TypeOK, Client
  <2>3. conn \in Conn
    BY DEF GenResponse, Dial, StartReturns, StartThrows, StartInterrupted, OpenFails, Answered,
       Forward, Forwards, Handling
  <2>4. interrupted' \subseteq Conn
    BY <2>3 DEF GenResponse, Dial, StartReturns, StartThrows, StartInterrupted, OpenFails, Answered,
       Forward, stopping, TypeOK
  <2>5. QED
    BY <1>1, <2>1, <2>2, <2>4 DEF senders, TypeOK
<1>4. IdListsAreExact' /\ SendStaysInChannel' /\ FreeSenders'
  BY <1>1 DEF senders, IdListsAreExact, SendStaysInChannel, FreeSenders, NoCopies
<1>5. QED
  BY <1>2, <1>3, <1>4

(* A connection enters the list of those without id.                       *)
LEMMA RegisterStep ==
  ASSUME Inv, Register \/ RegisterClient
  PROVE  Inv'
<1> USE DEF Inv
<1>1. /\ step \in {"handle", "add"} /\ conn \in Conn
      /\ AddConnection(conn)
      /\ Goto("ids")
      /\ UNCHANGED <<wire, delegator, senders, closing, interrupted>>
      /\ late' \subseteq Conn
  BY DEF Register, RegisterClient, Handling, TypeOK, stopping
<1>e. event # "CLOSE"
  BY DEF Register, RegisterClient, Handling
<1>2. /\ connectionMap' \in [Key -> SUBSET Conn]
      /\ \A k \in Id : connectionMap'[k] = connectionMap[k]
      /\ UNCHANGED <<id, original>>
  BY <1>1, AddEffect
<1>3. TypeOK'
  BY <1>1, <1>2 DEF Goto, senders, TypeOK
<1>4. Handling'
  BY <1>1, <1>e DEF Goto, Handling
<1>5. IdListsAreExact'
  BY <1>1, <1>2 DEF IdListsAreExact
<1>6. SendStaysInChannel' /\ FreeSenders'
  BY <1>1, <1>2 DEF senders, SendStaysInChannel, FreeSenders, NoCopies
<1>7. QED
  BY <1>3, <1>4, <1>5, <1>6

(* A connection gets its id.                                               *)
LEMMA ChangeStep ==
  ASSUME Inv, HandleIDChange
  PROVE  Inv'
<1> USE DEF Inv
<1>1. CASE channelID # NoId /\ Found(conn)
  <2>1. conn \in Conn /\ wire[conn] # "gone" /\ channelID \in Id /\ channelID # UNKNOWN
    BY <1>1, HandlerAssumption DEF HandleIDChange, Handling, TypeOK
  <2>2. SetId(conn, channelID) /\ Finish /\ UNCHANGED <<wire, senders, stopping>>
    BY <1>1 DEF HandleIDChange
  <2>3. /\ id' \in [Conn -> Key]
        /\ connectionMap' \in [Key -> SUBSET Conn]
        /\ \A d \in Conn : id'[d] = IF d = conn /\ id[conn] = UNKNOWN THEN channelID ELSE id[d]
        /\ \A k \in Id : connectionMap'[k] = IF k = channelID /\ id[conn] = UNKNOWN
                                             THEN connectionMap[k] \cup {conn}
                                             ELSE connectionMap[k]
        /\ UNCHANGED <<delegator, original>>
    BY <2>1, <2>2, SetIdEffect
  <2>4. TypeOK'
    BY <2>2, <2>3 DEF Finish, senders, stopping, TypeOK, Event
  <2>5. Handling'
    BY <2>2 DEF Finish, Handling
  <2>6. ASSUME NEW k \in Id
        PROVE  connectionMap'[k] = {c \in Conn : id'[c] = k /\ wire'[c] # "gone"}
    <3>1. connectionMap[k] = {c \in Conn : id[c] = k /\ wire[c] # "gone"}
      BY DEF IdListsAreExact
    <3>2. CASE id[conn] = UNKNOWN
      BY <2>1, <2>2, <2>3, <3>1, <3>2, HandlerAssumption
    <3>3. CASE id[conn] # UNKNOWN
      BY <2>2, <2>3, <3>1, <3>3
    <3>4. QED
      BY <3>2, <3>3
  <2>7. SendStaysInChannel'
    BY <2>2, <2>3, HandlerAssumption DEF senders, SendStaysInChannel
  <2>8. FreeSenders'
    BY <2>2 DEF senders, FreeSenders, NoCopies
  <2>9. QED
    BY <2>4, <2>5, <2>6, <2>7, <2>8 DEF IdListsAreExact
<1>2. CASE ~(channelID # NoId /\ Found(conn))
  <2>1. Finish /\ UNCHANGED <<wire, bundle, senders, stopping>>
    BY <1>2 DEF HandleIDChange
  <2>2. TypeOK' /\ Handling'
    BY <2>1 DEF Finish, bundle, senders, stopping, TypeOK, Handling, Event
  <2>3. IdListsAreExact' /\ SendStaysInChannel' /\ FreeSenders'
    BY <2>1 DEF bundle, senders, IdListsAreExact, SendStaysInChannel, FreeSenders, NoCopies
  <2>4. QED
    BY <2>2, <2>3
<1>3. QED
  BY <1>1, <1>2

(* A connection leaves.                                                    *)
LEMMA RemoveStep ==
  ASSUME Inv, Remove
  PROVE  Inv'
<1> USE DEF Inv
<1>1. /\ conn \in Conn
      /\ wire' = [wire EXCEPT ![conn] = "gone"]
      /\ Finish
      /\ UNCHANGED <<senders, stopping>>
  BY DEF Remove, Handling
<1>2. /\ connectionMap' \in [Key -> SUBSET Conn]
      /\ original' \in BOOLEAN
      /\ \A k \in Id : connectionMap'[k] = IF k = id[conn] THEN connectionMap[k] \ {conn}
                                           ELSE connectionMap[k]
      /\ UNCHANGED <<id, delegator>>
  <2>1. CASE Found(conn)
    BY <1>1, <2>1, RemoveEffect DEF Remove
  <2>2. CASE ~Found(conn)
    BY <1>1, <2>2 DEF Remove, Found, bundle, TypeOK, Key
  <2>3. QED
    BY <2>1, <2>2
<1>3. TypeOK'
  BY <1>1, <1>2 DEF Finish, senders, stopping, TypeOK, Event
<1>4. Handling' /\ FreeSenders'
  BY <1>1 DEF Finish, Handling, senders, FreeSenders, NoCopies
<1>5. ASSUME NEW k \in Id
      PROVE  connectionMap'[k] = {c \in Conn : id'[c] = k /\ wire'[c] # "gone"}
  <2>1. connectionMap[k] = {c \in Conn : id[c] = k /\ wire[c] # "gone"}
    BY DEF IdListsAreExact
  <2>2. \A c \in Conn : wire'[c] # "gone" <=> c # conn /\ wire[c] # "gone"
    BY <1>1 DEF TypeOK
  <2>3. connectionMap'[k] = connectionMap[k] \ {conn}
    BY <1>2, <2>1
  <2>4. QED
    BY <1>2, <2>1, <2>2, <2>3
<1>6. SendStaysInChannel'
  BY <1>1, <1>2 DEF senders, SendStaysInChannel
<1>7. QED
  BY <1>3, <1>4, <1>5, <1>6 DEF IdListsAreExact

(* Another simulator looks up a key and sends its copies.                  *)
LEMMA SenderStep ==
  ASSUME Inv, NEW s \in Sender,
         \/ \E key \in Id \cup {ALL} : SendResponse(s, key)
         \/ \E c \in Conn : FillRawResponse(s, c)
  PROVE  Inv'
<1> USE DEF Inv
<1>1. UNCHANGED <<wire, bundle, executor, stopping>>
  BY DEF SendResponse, FillRawResponse
<1>2. Handling' /\ IdListsAreExact'
  BY <1>1 DEF bundle, executor, Handling, IdListsAreExact
<1>3. ASSUME NEW key \in Id \cup {ALL}, SendResponse(s, key)
      PROVE  TypeOK' /\ SendStaysInChannel' /\ FreeSenders'
  <2>1. /\ Copies(key) \in [Conn -> Nat]
        /\ key \in Id => \A c \in Conn : Copies(key)[c] = IF c \in connectionMap[key] THEN 1 ELSE 0
    BY CopiesType
  <2>2. TypeOK'
    BY <1>1, <1>3, <2>1 DEF SendResponse, bundle, executor, stopping, TypeOK
  <2>3. SendStaysInChannel'
    BY <1>1, <1>3, <2>1 DEF SendResponse, bundle, SendStaysInChannel, IdListsAreExact, TypeOK
  <2>4. FreeSenders'
    BY <1>3, HandlerAssumption DEF SendResponse, FreeSenders, NoCopies, TypeOK
  <2>5. QED
    BY <2>2, <2>3, <2>4
<1>4. ASSUME NEW c \in Conn, FillRawResponse(s, c)
      PROVE  TypeOK' /\ SendStaysInChannel' /\ FreeSenders'
  <2>1. /\ pending'[s] \in [Conn -> Nat]
        /\ \A d \in Conn : pending'[s][d] = IF d = c THEN pending[s][c] - 1 ELSE pending[s][d]
        /\ \A q \in Sender \ {s} : pending'[q] = pending[q] /\ address'[q] = address[q]
        /\ address'[s] = IF pending'[s] = NoCopies THEN NoId ELSE address[s]
    BY <1>4 DEF FillRawResponse, TypeOK
  <2>2. TypeOK'
    BY <1>1, <1>4, <2>1 DEF FillRawResponse, bundle, executor, stopping, TypeOK
  <2>3. SendStaysInChannel'
    BY <1>1, <1>4, <2>1, HandlerAssumption
       DEF FillRawResponse, bundle, SendStaysInChannel, TypeOK
  <2>4. FreeSenders'
    <3>1. address[s] # NoId
      BY <1>4 DEF FillRawResponse, FreeSenders, NoCopies, TypeOK
    <3>2. NoCopies' = NoCopies
      BY DEF NoCopies
    <3>3. QED
      BY <2>1, <3>1, <3>2 DEF FreeSenders
  <2>5. QED
    BY <2>2, <2>3, <2>4
<1>5. QED
  BY <1>2, <1>3, <1>4

(* The proxied servers and the stop leave ids, lists and senders alone.    *)
LEMMA OtherStep ==
  ASSUME Inv,
         \/ \E c \in Conn : Connected(c) \/ Refused(c)
         \/ StopServer \/ CloseStarts \/ CloseEnds \/ UNCHANGED vars
  PROVE  Inv'
<1> USE DEF Inv
<1>1. UNCHANGED <<wire, id, connectionMap, original, executor, senders, late, interrupted>>
  BY DEF Connected, Refused, StopServer, CloseStarts, CloseEnds, vars, bundle, stopping
<1>2. /\ delegator' \in [Conn -> Client]
      /\ closing' \in {"no", "server", "closing", "done"}
  BY DEF Connected, Refused, StopServer, CloseStarts, CloseEnds, vars, bundle, stopping, TypeOK, Client
<1>3. TypeOK' /\ Handling'
  BY <1>1, <1>2 DEF executor, senders, TypeOK, Handling
<1>4. IdListsAreExact' /\ SendStaysInChannel' /\ FreeSenders'
  BY <1>1 DEF senders, IdListsAreExact, SendStaysInChannel, FreeSenders, NoCopies
<1>5. QED
  BY <1>3, <1>4

(* Every step preserves the invariant.                                     *)
LEMMA NextInv == Inv /\ [Next]_vars => Inv'
<1> SUFFICES ASSUME Inv, [Next]_vars PROVE Inv'
  OBVIOUS
<1>1. CASE Handle
  BY <1>1, ExecutorStep, RegisterStep, ChangeStep, RemoveStep DEF Handle
<1>2. CASE ~Handle
  BY <1>2, ReceiveStep, SenderStep, OtherStep DEF Next
<1>3. QED
  BY <1>1, <1>2

(* The invariant holds in every state.                                     *)
LEMMA Invariance == Spec => []Inv
BY InitInv, NextInv, PTL DEF Spec

(* Type correctness of the handler (ConnectionBundle and its threads).     *)
THEOREM TypeCorrect == Spec => []TypeOK
BY Invariance, PTL DEF Inv

(* findConnections returns for an id exactly the connections that were     *)
(* given it and have not left (WebbitWSHandler.setId, removeConnection).   *)
THEOREM IdListsStayExact == Spec => []IdListsAreExact
BY Invariance, PTL DEF Inv

(* What another simulator sends to an id reaches nobody with another id,   *)
(* and nobody twice (WebbitWSHandler.sendResponse).                        *)
THEOREM SendsStayInChannel == Spec => []SendStaysInChannel
BY Invariance, PTL DEF Inv

(* Nobody falls out of all lists but the connection that is removed.       *)
LEMMA NobodyFallsOut ==
  ASSUME Inv, [Next]_vars, NEW c \in Conn, Found(c)
  PROVE  Found(c)' \/ (Remove /\ c = conn)
<1> USE DEF Inv
<1>1. PICK k \in Key : c \in connectionMap[k]
  BY DEF Found
<1>2. CASE connectionMap' = connectionMap
  BY <1>1, <1>2 DEF Found
<1>3. CASE Register \/ RegisterClient
  BY <1>1, <1>3 DEF Register, RegisterClient, AddConnection, Found, TypeOK
<1>4. CASE HandleIDChange /\ channelID # NoId /\ Found(conn)
  <2>1. conn \in Conn /\ channelID \in Key /\ SetId(conn, channelID)
    BY <1>4 DEF HandleIDChange, Handling, TypeOK, Key
  <2>2. CASE id[conn] = UNKNOWN
    <3>1. connectionMap' = [j \in Key |-> IF j = channelID THEN connectionMap[j] \cup {conn}
                                          ELSE IF j = UNKNOWN /\ original
                                               THEN connectionMap[j] \ {conn}
                                          ELSE connectionMap[j]]
      BY <2>1, <2>2 DEF SetId
    <3>2. c \in connectionMap'[IF c = conn THEN channelID ELSE k]
      BY <1>1, <2>1, <3>1
    <3>3. QED
      BY <1>1, <2>1, <3>2 DEF Found
  <2>3. CASE id[conn] # UNKNOWN
    BY <1>2, <2>1, <2>3 DEF SetId, bundle
  <2>4. QED
    BY <2>2, <2>3
<1>5. CASE Remove /\ Found(conn) /\ c # conn
  <2>1. connectionMap' = [connectionMap EXCEPT ![id[conn]] = @ \ {conn}]
    BY <1>5 DEF Remove, RemoveConnection
  <2>2. c \in connectionMap'[k]
    BY <1>1, <1>5, <2>1 DEF TypeOK
  <2>3. QED
    BY <2>2 DEF Found
<1>6. \/ connectionMap' = connectionMap
      \/ Register \/ RegisterClient
      \/ HandleIDChange /\ channelID # NoId /\ Found(conn)
      \/ Remove /\ Found(conn)
  BY DEF Next, Handle, OnOpen, OnMessage, OnClose, Receive, Connected, Refused, GenResponse, Dial,
     StartReturns, StartThrows, StartInterrupted, OpenFails, Answered, Forward, HandleIDChange,
     Remove, SendResponse, FillRawResponse, StopServer, CloseStarts, CloseEnds, bundle, vars
<1>7. QED
  BY <1>2, <1>3, <1>4, <1>5, <1>6

(* What a step does to the clients and to those who start one.             *)
LEMMA ClientStep ==
  ASSUME Inv, [Next]_vars, NEW c \in Conn, HasClient(c)', wire'[c] # "gone"
  PROVE  /\ wire[c] # "gone"
         /\ HasClient(c) \/ (Dial /\ c = conn)
         /\ Starting(c) =>
              \/ Starting(c)'
              \/ c \in interrupted'
              \/ RegisterClient /\ c = conn
         /\ interrupted \subseteq interrupted' /\ late \subseteq late'
<1> USE DEF Inv
<1>1. CASE Handle
  <2>1. conn \in Conn /\ wire[conn] # "gone"
    BY <1>1 DEF Handle, GenResponse, Register, Dial, StartReturns, StartThrows, StartInterrupted,
       RegisterClient, OpenFails, Answered, Forward, Forwards, HandleIDChange, Remove, Handling
  <2>2. wire[c] # "gone"
    BY <1>1, <2>1 DEF Handle, GenResponse, Register, Dial, StartReturns, StartThrows,
       StartInterrupted, RegisterClient, OpenFails, Answered, Forward, HandleIDChange, Remove, TypeOK
  <2>3. HasClient(c) \/ (Dial /\ c = conn)
    BY <1>1, <2>1 DEF Handle, GenResponse, Register, Dial, StartReturns, StartThrows,
       StartInterrupted, RegisterClient, OpenFails, Answered, Forward, HandleIDChange, SetId,
       Remove, RemoveConnection, HasClient, bundle, TypeOK
  <2>4. interrupted \subseteq interrupted' /\ late \subseteq late'
    BY <1>1 DEF Handle, GenResponse, Register, Dial, StartReturns, StartThrows, StartInterrupted,
       RegisterClient, OpenFails, Answered, Forward, HandleIDChange, Remove, stopping
  <2>5. Starting(c) => Starting(c)' \/ c \in interrupted' \/ (RegisterClient /\ c = conn)
    <3> SUFFICES ASSUME Starting(c)
                 PROVE  Starting(c)' \/ c \in interrupted' \/ (RegisterClient /\ c = conn)
      OBVIOUS
    <3>1. StartReturns \/ StartThrows \/ StartInterrupted \/ RegisterClient
      BY <1>1 DEF Starting, Handle, GenResponse, Register, Dial, OpenFails, Answered, Forward,
         Forwards, HandleIDChange, Remove
    <3>2. ~StartThrows
      BY DEF StartThrows, HasClient, Starting, TypeOK
    <3>3. QED
      BY <3>1, <3>2 DEF Starting, StartReturns, StartInterrupted, Goto
  <2>6. QED
    BY <2>2, <2>3, <2>4, <2>5
<1>2. CASE ~Handle
  <2>1. wire[c] # "gone" /\ UNCHANGED <<late, interrupted>>
    BY <1>2 DEF Next, OnOpen, OnMessage, OnClose, Receive, Connected, Refused, SendResponse,
       FillRawResponse, StopServer, CloseStarts, CloseEnds, vars, stopping, TypeOK
  <2>2. HasClient(c)
    BY <1>2 DEF Next, OnOpen, OnMessage, OnClose, Receive, Connected, Refused, SendResponse,
       FillRawResponse, StopServer, CloseStarts, CloseEnds, vars, bundle, HasClient, TypeOK
  <2>3. Starting(c) => Starting(c)'
    BY <1>2 DEF Next, OnOpen, OnMessage, OnClose, Receive, Connected, Refused, SendResponse,
       FillRawResponse, StopServer, CloseStarts, CloseEnds, vars, executor, Starting
  <2>4. QED
    BY <2>1, <2>2, <2>3
<1>3. QED
  BY <1>1, <1>2

(* A client whose start() has returned is registered, and stays so until   *)
(* its connection goes.                                                    *)
LEMMA ReachStep ==
  ASSUME Inv, ListsReach, [Next]_vars
  PROVE  ListsReach'
<1> USE DEF Inv
<1> SUFFICES ASSUME NEW c \in Conn, HasClient(c)', wire'[c] # "gone"
             PROVE  Found(c)' \/ Starting(c)' \/ c \in interrupted'
  BY DEF ListsReach, Starting
<1>1. /\ wire[c] # "gone"
      /\ HasClient(c) \/ (Dial /\ c = conn)
      /\ Starting(c) => Starting(c)' \/ c \in interrupted' \/ (RegisterClient /\ c = conn)
      /\ interrupted \subseteq interrupted'
  BY ClientStep
<1>2. CASE Dial /\ c = conn
  BY <1>2 DEF Dial, Goto, Starting
<1>3. CASE RegisterClient /\ c = conn
  <2>1. c \in connectionMap'[UNKNOWN]
    BY <1>3 DEF RegisterClient, AddConnection, TypeOK, Key
  <2>2. QED
    BY <2>1 DEF Found, Key
<1>4. CASE HasClient(c) /\ ~(RegisterClient /\ c = conn)
  <2>1. Found(c) \/ Starting(c) \/ c \in interrupted
    BY <1>1, <1>4 DEF ListsReach, Starting
  <2>2. ASSUME Found(c) PROVE Found(c)'
    <3>1. ~(Remove /\ c = conn)
      BY DEF Remove, TypeOK, Handling
    <3>2. QED
      BY <2>2, <3>1, NobodyFallsOut
  <2>3. QED
    BY <1>1, <1>4, <2>1, <2>2
<1>5. QED
  BY <1>1, <1>2, <1>3, <1>4

(* bundle.close ends with every client stopped that it could find, and a   *)
(* client found from then on was registered later.                         *)
LEMMA StopStep ==
  ASSUME Inv, ListsReach, StopReaches, [Next]_vars
  PROVE  StopReaches'
<1> USE DEF Inv
<1> SUFFICES ASSUME closing' = "done", NEW c \in Conn, HasClient(c)', wire'[c] # "gone"
             PROVE  c \in late' \cup interrupted' \/ Starting(c)'
  BY DEF StopReaches, Starting
<1>1. /\ wire[c] # "gone"
      /\ HasClient(c) \/ (Dial /\ c = conn)
      /\ Starting(c) => Starting(c)' \/ c \in interrupted' \/ (RegisterClient /\ c = conn)
      /\ interrupted \subseteq interrupted' /\ late \subseteq late'
  BY ClientStep
<1>2. CASE CloseEnds
  <2>1. HasClient(c) /\ ~Found(c)
    BY <1>2 DEF CloseEnds, Closes, HasClient
  <2>2. Starting(c) \/ c \in interrupted
    BY <1>1, <2>1 DEF ListsReach, Starting
  <2>3. UNCHANGED <<step, conn, interrupted>>
    BY <1>2 DEF CloseEnds, executor
  <2>4. QED
    BY <2>2, <2>3 DEF Starting
<1>3. CASE ~CloseEnds
  <2>1. closing = "done"
    BY <1>3 DEF Next, Handle, OnOpen, OnMessage, OnClose, Receive, Connected, Refused, GenResponse,
       Register, Dial, StartReturns, StartThrows, StartInterrupted, RegisterClient, OpenFails,
       Answered, Forward, HandleIDChange, Remove, SendResponse, FillRawResponse, StopServer,
       CloseStarts, vars, stopping
  <2>2. CASE Dial /\ c = conn
    BY <2>2 DEF Dial, Goto, Starting
  <2>3. CASE RegisterClient /\ c = conn
    BY <2>1, <2>3 DEF RegisterClient
  <2>4. CASE HasClient(c) /\ ~(RegisterClient /\ c = conn)
    <3>1. c \in late \cup interrupted \/ Starting(c)
      BY <1>1, <2>1, <2>4 DEF StopReaches, Starting
    <3>2. QED
      BY <1>1, <2>4, <3>1
  <2>5. QED
    BY <1>1, <2>2, <2>3, <2>4
<1>4. QED
  BY <1>2, <1>3

(* From the end of its start on, unless that was interrupted, the client   *)
(* of the proxied server can be reached for as long as its connection is   *)
(* there, and a stop that has returned passed by no other clients than     *)
(* those that were not registered when it began to close                   *)
(* (WebbitWSHandler.onOpen, setId, removeConnection, close).               *)
THEOREM DelegatorsStayInReach == Spec => []DelegatorWithinReach
<1>1. Init => DelegatorWithinReach
  BY DEF Init, DelegatorWithinReach, ListsReach, StopReaches, HasClient
<1>2. Inv /\ DelegatorWithinReach /\ [Next]_vars => DelegatorWithinReach'
  BY ReachStep, StopStep DEF DelegatorWithinReach
<1>3. QED
  BY Invariance, <1>1, <1>2, PTL DEF Spec

----------------------------------------------------------------------------
(* The refinement.  With exact lists the id a connection can be reached    *)
(* under is the one it was given, until it goes.                           *)
Held(c) == IF id[c] \in Id /\ wire[c] # "gone" THEN id[c] ELSE NoId

(* The only list of an id that holds a connection is the list of its id.   *)
LEMMA ListsGiveTheId ==
  ASSUME NEW m, NEW d, NEW w, NEW c \in Conn,
         \A i \in Id : m[i] = {x \in Conn : d[x] = i /\ w[x] # "gone"}
  PROVE  (IF \E i \in Id : c \in m[i] THEN CHOOSE i \in Id : c \in m[i] ELSE NoId)
           = IF d[c] \in Id /\ w[c] # "gone" THEN d[c] ELSE NoId
<1>1. \A i \in Id : c \in m[i] <=> d[c] = i /\ w[c] # "gone"
  OBVIOUS
<1>2. CASE d[c] \in Id /\ w[c] # "gone"
  <2>1. c \in m[d[c]] /\ \A i \in Id : c \in m[i] => i = d[c]
    BY <1>1, <1>2
  <2>2. (CHOOSE i \in Id : c \in m[i]) = d[c]
    BY <1>2, <2>1
  <2>3. QED
    BY <1>2, <2>1, <2>2
<1>3. CASE ~(d[c] \in Id /\ w[c] # "gone")
  BY <1>1, <1>3
<1>4. QED
  BY <1>2, <1>3

(* The same before and after a step.                                       *)
LEMMA HeldIdsAre ==
  ASSUME Inv, Inv'
  PROVE  /\ HeldIds = [c \in Conn |-> Held(c)]
         /\ HeldIds' = [c \in Conn |-> Held(c)']
<1>1. ASSUME NEW c \in Conn PROVE HeldId(c) = Held(c)
  BY ListsGiveTheId DEF Inv, IdListsAreExact, HeldId, Held
<1>2. ASSUME NEW c \in Conn PROVE HeldId(c)' = Held(c)'
  <2>1. \A i \in Id : connectionMap'[i] = {x \in Conn : id'[x] = i /\ wire'[x] # "gone"}
    BY DEF Inv, IdListsAreExact
  <2>2. QED
    BY <2>1, ListsGiveTheId DEF HeldId, Held
<1>3. QED
  BY <1>1, <1>2 DEF HeldIds

(* The initial states are initial states of the directory.                 *)
LEMMA InitDirectory == Init => Directory!Init
<1> SUFFICES ASSUME Init PROVE Directory!Init
  OBVIOUS
<1>1. HeldIds = [c \in Conn |-> NoId]
  BY DEF Init, HeldIds, HeldId, Key
<1>2. Gone = {}
  BY DEF Init, Gone
<1>3. SendsTo = [s \in Sender |-> NoId] /\ ToSend = [s \in Sender |-> {}]
  BY HandlerAssumption DEF Init, SendsTo, ToSend, NoCopies
<1>4. QED
  BY <1>1, <1>2, <1>3 DEF Directory!Init

(* A step that gives no id, removes nobody and sends nothing is a stutter. *)
LEMMA Stutter ==
  ASSUME Inv, Inv', UNCHANGED <<id, senders>>,
         \A c \in Conn : wire'[c] = "gone" <=> wire[c] = "gone"
  PROVE  UNCHANGED Directory!vars
<1>1. HeldIds' = HeldIds
  BY HeldIdsAre DEF Held
<1>2. Gone' = Gone
  BY DEF Gone
<1>3. SendsTo' = SendsTo /\ ToSend' = ToSend
  BY DEF senders, SendsTo, ToSend
<1>4. QED
  BY <1>1, <1>2, <1>3 DEF Directory!vars

(* An id given for the first time is an Assign.                            *)
LEMMA ChangeIsAssign ==
  ASSUME Inv, Inv', HandleIDChange
  PROVE  [Directory!Next]_(Directory!vars)
<1> USE DEF Inv
<1>1. CASE channelID # NoId /\ Found(conn) /\ id[conn] = UNKNOWN
  <2>1. conn \in Conn /\ channelID \in Id /\ wire[conn] # "gone"
    BY <1>1 DEF HandleIDChange, Handling, TypeOK
  <2>2. UNCHANGED <<wire, senders>> /\ id' = [id EXCEPT ![conn] = channelID]
    BY <1>1 DEF HandleIDChange, SetId
  <2>3. HeldIds[conn] = NoId /\ HeldIds' = [HeldIds EXCEPT ![conn] = channelID]
    BY <1>1, <2>1, <2>2, HeldIdsAre, HandlerAssumption DEF Held, TypeOK
  <2>4. conn \notin Gone /\ UNCHANGED <<Gone, SendsTo, ToSend>>
    BY <2>1, <2>2 DEF Gone, senders, SendsTo, ToSend
  <2>5. Directory!Assign(conn, channelID)
    BY <2>3, <2>4 DEF Directory!Assign
  <2>6. QED
    BY <2>1, <2>5 DEF Directory!Next
<1>2. CASE ~(channelID # NoId /\ Found(conn) /\ id[conn] = UNKNOWN)
  <2>1. UNCHANGED <<wire, id, senders>>
    BY <1>2 DEF HandleIDChange, SetId, bundle
  <2>2. QED
    BY <2>1, Stutter
<1>3. QED
  BY <1>1, <1>2

(* The end of a connection is its departure.                               *)
LEMMA RemoveIsDepart ==
  ASSUME Inv, Inv', Remove
  PROVE  Directory!Next
<1> USE DEF Inv
<1>1. conn \in Conn /\ wire[conn] # "gone"
  BY DEF Remove, Handling
<1>2. UNCHANGED <<id, senders>> /\ wire' = [wire EXCEPT ![conn] = "gone"]
  BY DEF Remove, RemoveConnection, bundle
<1>3. HeldIds' = [HeldIds EXCEPT ![conn] = NoId]
  BY <1>1, <1>2, HeldIdsAre DEF Held, TypeOK
<1>4. conn \notin Gone /\ Gone' = Gone \cup {conn}
  BY <1>1, <1>2 DEF Gone, TypeOK
<1>5. UNCHANGED <<SendsTo, ToSend>>
  BY <1>2 DEF senders, SendsTo, ToSend
<1>6. Directory!Depart(conn)
  BY <1>3, <1>4, <1>5 DEF Directory!Depart
<1>7. QED
  BY <1>1, <1>6 DEF Directory!Next

(* The holders of an id are those in its list.                             *)
LEMMA HoldersAreListed ==
  ASSUME Inv, Inv', NEW i \in Id
  PROVE  Directory!Holders(i) = connectionMap[i]
<1>1. connectionMap[i] = {c \in Conn : id[c] = i /\ wire[c] # "gone"}
  BY DEF Inv, IdListsAreExact
<1>2. \A c \in Conn : HeldIds[c] = Held(c)
  BY HeldIdsAre
<1>3. QED
  BY <1>1, <1>2, HandlerAssumption DEF Directory!Holders, Held

(* What the directory sees of the other senders does not change with one.  *)
LEMMA OneSender ==
  ASSUME NEW s \in Sender,
         \A t \in Sender \ {s} : pending'[t] = pending[t] /\ address'[t] = address[t]
  PROVE  /\ ToSend' = [ToSend EXCEPT ![s] = ToSend'[s]]
         /\ SendsTo' = [SendsTo EXCEPT ![s] = SendsTo'[s]]
<1>1. ASSUME NEW t \in Sender \ {s}
      PROVE  ToSend'[t] = ToSend[t] /\ SendsTo'[t] = SendsTo[t]
  BY <1>1 DEF ToSend, SendsTo
<1>2. /\ ToSend' = [t \in Sender |-> ToSend'[t]]
      /\ ToSend = [t \in Sender |-> ToSend[t]]
  BY DEF ToSend
<1>3. /\ SendsTo' = [t \in Sender |-> SendsTo'[t]]
      /\ SendsTo = [t \in Sender |-> SendsTo[t]]
  BY DEF SendsTo
<1>4. ToSend' = [ToSend EXCEPT ![s] = ToSend'[s]]
  BY <1>1, <1>2
<1>5. SendsTo' = [SendsTo EXCEPT ![s] = SendsTo'[s]]
  BY <1>1, <1>3
<1>6. QED
  BY <1>4, <1>5

(* A lookup of an id is a Send, one of everybody a stutter.                *)
LEMMA LookupIsSend ==
  ASSUME Inv, Inv', NEW s \in Sender, NEW key \in Id \cup {ALL}, SendResponse(s, key)
  PROVE  [Directory!Next]_(Directory!vars)
<1> USE DEF Inv
<1>1. /\ address[s] = NoId /\ pending[s] = NoCopies
      /\ Copies(key) # NoCopies
      /\ address' = [address EXCEPT ![s] = key]
      /\ pending' = [pending EXCEPT ![s] = Copies(key)]
      /\ UNCHANGED <<wire, id, connectionMap>>
  BY DEF SendResponse, FreeSenders, bundle
<1>2. UNCHANGED <<HeldIds, Gone>>
  BY <1>1 DEF HeldIds, HeldId, Gone
<1>a. \A t \in Sender \ {s} : pending'[t] = pending[t] /\ address'[t] = address[t]
  BY <1>1 DEF TypeOK
<1>b. /\ ToSend' = [ToSend EXCEPT ![s] = ToSend'[s]]
      /\ SendsTo' = [SendsTo EXCEPT ![s] = SendsTo'[s]]
  BY <1>a, OneSender
<1>3. CASE key = ALL
  <2>1. {c \in Conn : pending[s][c] > 0} = {}
    BY <1>1 DEF NoCopies
  <2>2. address'[s] = ALL
    BY <1>1, <1>3 DEF TypeOK
  <2>3. SendsTo'[s] = SendsTo[s]
    BY <1>1, <2>2, HandlerAssumption DEF SendsTo
  <2>4. ToSend'[s] = ToSend[s]
    BY <1>1, <2>1, <2>2, HandlerAssumption DEF ToSend
  <2>5. SendsTo' = SendsTo /\ ToSend' = ToSend
    BY <1>b, <2>3, <2>4 DEF SendsTo, ToSend
  <2>6. QED
    BY <1>2, <2>5 DEF Directory!vars
<1>4. CASE key \in Id
  <2>1. /\ Copies(key) \in [Conn -> Nat]
        /\ \A c \in Conn : Copies(key)[c] = IF c \in connectionMap[key] THEN 1 ELSE 0
    BY <1>4, CopiesType
  <2>2. connectionMap[key] \subseteq Conn
    BY <1>4 DEF TypeOK, Key
  <2>3. {c \in Conn : Copies(key)[c] > 0} = connectionMap[key]
    BY <2>1, <2>2
  <2>4. connectionMap[key] # {}
    BY <1>1, <2>1 DEF NoCopies
  <2>a. address'[s] = key /\ pending'[s] = Copies(key) /\ key # ALL
    BY <1>1, <1>4, HandlerAssumption DEF TypeOK
  <2>b. SendsTo[s] = NoId /\ SendsTo'[s] = key
    BY <1>1, <2>a, HandlerAssumption DEF SendsTo
  <2>c. ToSend'[s] = connectionMap[key]
    BY <2>a, <2>3 DEF ToSend
  <2>5. SendsTo[s] = NoId /\ SendsTo' = [SendsTo EXCEPT ![s] = key]
    BY <1>b, <2>b
  <2>6. ToSend' = [ToSend EXCEPT ![s] = connectionMap[key]]
    BY <1>b, <2>c
  <2>7. Directory!Send(s, key)
    BY <1>2, <1>4, <2>4, <2>5, <2>6, HoldersAreListed DEF Directory!Send
  <2>8. QED
    BY <1>4, <2>7 DEF Directory!Next
<1>5. QED
  BY <1>3, <1>4

(* One copy sent is a Deliver, or a stutter if everybody is addressed.     *)
LEMMA FillIsDeliver ==
  ASSUME Inv, Inv', NEW s \in Sender, NEW c \in Conn, FillRawResponse(s, c)
  PROVE  [Directory!Next]_(Directory!vars)
<1> USE DEF Inv
<1>1. UNCHANGED <<HeldIds, Gone>>
  BY DEF FillRawResponse, bundle, HeldIds, HeldId, Gone
<1>2. /\ pending[s][c] > 0
      /\ pending' = [pending EXCEPT ![s] = pending'[s]]
      /\ \A d \in Conn : pending'[s][d] = IF d = c THEN pending[s][c] - 1 ELSE pending[s][d]
      /\ pending'[s] \in [Conn -> Nat]
      /\ address' = [address EXCEPT ![s] = IF pending'[s] = NoCopies THEN NoId ELSE address[s]]
      /\ address[s] \in Id \cup {ALL}
  BY DEF FillRawResponse, FreeSenders, NoCopies, TypeOK
<1>a. \A t \in Sender \ {s} : pending'[t] = pending[t] /\ address'[t] = address[t]
  BY <1>2 DEF TypeOK
<1>b. /\ ToSend' = [ToSend EXCEPT ![s] = ToSend'[s]]
      /\ SendsTo' = [SendsTo EXCEPT ![s] = SendsTo'[s]]
  BY <1>a, OneSender
<1>c. address'[s] = IF pending'[s] = NoCopies THEN NoId ELSE address[s]
  BY <1>2 DEF TypeOK
<1>3. CASE address[s] = ALL
  <2>1. SendsTo'[s] = SendsTo[s]
    BY <1>c, <1>3, HandlerAssumption DEF SendsTo
  <2>2. pending'[s] = NoCopies => {d \in Conn : pending'[s][d] > 0} = {}
    BY DEF NoCopies
  <2>3. ToSend'[s] = ToSend[s]
    BY <1>c, <1>3, <2>2, HandlerAssumption DEF ToSend
  <2>4. SendsTo' = SendsTo /\ ToSend' = ToSend
    BY <1>b, <2>1, <2>3 DEF SendsTo, ToSend
  <2>5. QED
    BY <1>1, <2>4 DEF Directory!vars
<1>4. CASE address[s] \in Id
  <2>1. address[s] # ALL /\ NoId # ALL
    BY <1>4, HandlerAssumption
  <2>2. pending[s][c] = 1
    BY <1>2, <1>4 DEF SendStaysInChannel, TypeOK
  <2>3. ToSend[s] = {d \in Conn : pending[s][d] > 0}
    BY <2>1 DEF ToSend
  <2>4. {d \in Conn : pending'[s][d] > 0} = ToSend[s] \ {c}
    BY <1>2, <2>2, <2>3 DEF TypeOK
  <2>5. pending'[s] = NoCopies <=> ToSend[s] = {c}
    <3>1. c \in ToSend[s]
      BY <2>2, <2>3
    <3>2. pending'[s] = NoCopies <=> {d \in Conn : pending'[s][d] > 0} = {}
      BY <1>2 DEF NoCopies
    <3>3. QED
      BY <2>4, <3>1, <3>2
  <2>a. ToSend'[s] = ToSend[s] \ {c}
    BY <1>c, <2>1, <2>4, HandlerAssumption DEF ToSend
  <2>b. SendsTo[s] = address[s] /\ SendsTo'[s] = IF ToSend[s] = {c} THEN NoId ELSE SendsTo[s]
    BY <1>c, <2>1, <2>5, HandlerAssumption DEF SendsTo
  <2>6. ToSend' = [ToSend EXCEPT ![s] = @ \ {c}]
    BY <1>b, <2>a
  <2>7. SendsTo' = [SendsTo EXCEPT ![s] = IF ToSend[s] = {c} THEN NoId ELSE @]
    BY <1>b, <2>b
  <2>8. Directory!Deliver(s, c)
    BY <1>1, <2>2, <2>3, <2>6, <2>7 DEF Directory!Deliver
  <2>9. QED
    BY <2>8 DEF Directory!Next
<1>5. QED
  BY <1>2, <1>3, <1>4

(* Every step of the handler is a step of the directory or a stutter.      *)
LEMMA NextDirectory ==
  ASSUME Inv, Inv', [Next]_vars
  PROVE  [Directory!Next]_(Directory!vars)
<1>1. ASSUME NEW c \in Conn, OnOpen(c) \/ OnMessage(c) \/ OnClose(c)
      PROVE  UNCHANGED Directory!vars
  BY <1>1, Stutter DEF OnOpen, OnMessage, OnClose, Receive, bundle, Inv, TypeOK
<1>2. CASE \/ GenResponse \/ Register \/ Dial \/ StartReturns \/ StartThrows \/ StartInterrupted
           \/ RegisterClient \/ OpenFails \/ Answered \/ Forward \/ StopServer \/ CloseStarts
           \/ CloseEnds \/ UNCHANGED vars \/ \E c \in Conn : Connected(c) \/ Refused(c)
  <2>1. UNCHANGED <<wire, id, senders>>
    BY <1>2 DEF GenResponse, Register, Dial, StartReturns, StartThrows, StartInterrupted,
       RegisterClient, OpenFails, Answered, Forward, AddConnection, StopServer, CloseStarts,
       CloseEnds, Connected, Refused, vars, bundle
  <2>2. QED
    BY <2>1, Stutter
<1>3. QED
  BY <1>1, <1>2, ChangeIsAssign, RemoveIsDepart, LookupIsSend, FillIsDeliver DEF Next, Handle

(* The WebSocket handler implements the directory of channel ids           *)
(* (WebbitWSHandler and its ConnectionBundle): an id is given once, lasts  *)
(* as long as the connection, and a lookup finds exactly its holders.      *)
THEOREM HandlerImplementsDirectory == Spec => ImplementsDirectory
BY InitDirectory, NextDirectory, Invariance, PTL DEF Spec, ImplementsDirectory, Directory!Spec

=============================================================================
