------------------------ MODULE SocketSimulator_proofs ------------------------
(* The safety properties of SocketSimulator, for any finite set of          *)
(* connections, any ids and any number of starts.                           *)
EXTENDS SocketSimulator, FiniteSetTheorems, TLAPS

----------------------------------------------------------------------------
(* The inductive invariant.                                                *)

\* What a handler at work says of its connection.
Steps ==
  \A c \in Conn :
    /\ step[c] # "idle" => wire[c] \in {"open", "closed"}
    /\ step[c] = "open" \/ wire[c] = "new" => order[c] = 0 /\ sentTo[c] = {}
    /\ step[c] = "dial" => order[c] # 0

\* Who has a client, and who has still to start one.
Clients ==
  \A c \in Conn :
    /\ client[c] # "none" => order[c] # 0
    /\ order[c] # 0 => proxy
    /\ client[c] = "made" => step[c] = "dial" \/ sClient # c

\* The field holds the client made last.
Orders ==
  /\ sClient = NoConn => \A c \in Conn : order[c] = 0
  /\ sClient # NoConn => order[sClient] # 0 /\ order[sClient] <= Made
  /\ \A c \in Conn : c # sClient /\ sClient # NoConn => order[c] < order[sClient]

IInv ==
  /\ TypeOK /\ Steps /\ NobodyGoneIsRegistered /\ Clients /\ Orders
  /\ NeverAnOlderServer /\ LeftOpenHasCause

\* A client more is made by a connection that has none: its order is new.
LEMMA MadeGrows ==
  ASSUME TypeOK, NEW c \in Conn, order[c] = 0, order' = [order EXCEPT ![c] = Made + 1]
  PROVE  Made \in Nat /\ Made + 1 <= Cardinality(Conn) /\ Made' = Made + 1
<1> DEFINE Have == {d \in Conn : order[d] # 0}
<1>1. IsFiniteSet(Conn) /\ IsFiniteSet(Have) /\ c \notin Have
  BY FiniteConnections, FS_Subset
<1>2. Cardinality(Have) \in Nat /\ Made = Cardinality(Have)
  BY <1>1, FS_CardinalityType DEF Made
<1>3. {d \in Conn : order'[d] # 0} = Have \cup {c}
  <2>1. order \in [Conn -> 0 .. Cardinality(Conn)]
    BY DEF TypeOK
  <2>2. \A d \in Conn : order'[d] = IF d = c THEN Made + 1 ELSE order[d]
    BY <2>1
  <2>3. Made + 1 # 0
    BY <1>2
  <2>4. QED
    BY <2>2, <2>3
<1>4. Cardinality(Have \cup {c}) = Cardinality(Have) + 1
  BY <1>1, FS_AddElement
<1>5. Cardinality(Have \cup {c}) <= Cardinality(Conn)
  BY <1>1, FS_Subset, Have \cup {c} \subseteq Conn
<1>6. QED
  BY <1>2, <1>3, <1>4, <1>5 DEF Made

LEMMA MadeStays == ASSUME UNCHANGED order PROVE Made' = Made
BY DEF Made

----------------------------------------------------------------------------
(* One lemma per part: no step breaks it.                                  *)

\* Types.
LEMMA TypeStep == IInv /\ [Next]_vars => TypeOK'
<1> SUFFICES ASSUME IInv, [Next]_vars PROVE TypeOK'
  OBVIOUS
<1> USE SocketAssumption DEF IInv, TypeOK, Key, Client, Steps, Clients, Orders, config, server, channel, ids, proxying, history
<1>1. ASSUME NEW c \in Conn, CloseChannel(c) PROVE TypeOK'
  BY <1>1 DEF CloseChannel
<1>2. ASSUME NEW c \in Conn, Connect(c) PROVE TypeOK'
  BY <1>2 DEF Connect, Goto
<1>3. ASSUME NEW c \in Conn, ChannelActive(c) PROVE TypeOK'
  <2>1. CASE (Goto(c, "idle") /\ UNCHANGED <<wire, proxying>>) \/ (Throws(c) /\ UNCHANGED proxying)
    BY <1>3, <2>1 DEF ChannelActive, Throws, Goto
  <2>2. CASE /\ proxy /\ Replace(c)
             /\ client' = [client EXCEPT ![c] = "made"]
             /\ order' = [order EXCEPT ![c] = Made + 1]
             /\ Goto(c, "dial") /\ UNCHANGED wire
    <3>1. Made \in Nat /\ Made + 1 <= Cardinality(Conn) /\ Made' = Made + 1
      BY <1>3, <2>2, MadeGrows DEF ChannelActive
    <3>2. order' \in [Conn -> 0 .. Cardinality(Conn)] /\ order'[c] = Made + 1
          /\ \A d \in Conn : d # c => order'[d] = order[d]
      BY <1>3, <2>2, <3>1, FiniteConnections, FS_CardinalityType
    <3>3. sClient' = c /\ step' = [step EXCEPT ![c] = "dial"] /\ wire' = wire
      BY <2>2 DEF Replace, Goto
    <3>4. wire[c] \in {"open", "closed"} /\ sentTo' = sentTo /\ sentTo[c] = {} /\ order[c] = 0
      BY <1>3 DEF ChannelActive
    <3>5. client' \in [Conn -> Client] /\ step' \in [Conn -> {"idle", "open", "dial", "message"}]
      BY <2>2, <3>3
    <3>6. QED
      BY <1>3, <3>2, <3>3, <3>4, <3>5 DEF ChannelActive
  <2>3. QED
    BY <1>3, <2>1, <2>2 DEF ChannelActive
<1>4. ASSUME NEW c \in Conn, Dial(c) PROVE TypeOK'
  BY <1>4 DEF Dial, Throws, Goto
<1>5. ASSUME NEW c \in Conn, Answer(c) PROVE TypeOK'
  BY <1>5 DEF Answer, HandleIDChange, HeaderLine, Goto
<1>6. ASSUME NEW c \in Conn, NoAnswer(c) PROVE TypeOK'
  BY <1>6 DEF NoAnswer, Throws, Goto, HasChannel
<1>7. ASSUME NEW c \in Conn, ChannelInactive(c) PROVE TypeOK'
  BY <1>7 DEF ChannelInactive, StopClient, Unregister
<1>8. ASSUME NEW c \in Conn, Receive(c) PROVE TypeOK'
  BY <1>8 DEF Receive, Goto
<1>9. ASSUME NEW c \in Conn, Leave(c) PROVE TypeOK'
  BY <1>9 DEF Leave
<1>10. ASSUME NEW c \in Conn, ClientInactive(c) PROVE TypeOK'
  BY <1>10 DEF ClientInactive
<1>11. ASSUME NEW n \in binding, Bind(n) PROVE TypeOK'
  BY <1>11 DEF Bind
<1>12. CASE DoStart
  BY <1>12 DEF DoStart
<1>13. CASE DoStop
  BY <1>13 DEF DoStop, StopClient
<1>14. CASE CloseServer
  BY <1>14 DEF CloseServer
<1>15. CASE UNCHANGED vars
  BY <1>15 DEF vars
<1>16. QED
  BY <1>1, <1>2, <1>3, <1>4, <1>5, <1>6, <1>7, <1>8, <1>9, <1>10, <1>11, <1>12, <1>13, <1>14, <1>15 DEF Next, Loops, Handle

\* Handlers and their connections.
LEMMA StepsStep == IInv /\ [Next]_vars => Steps'
<1> SUFFICES ASSUME IInv, [Next]_vars PROVE Steps'
  OBVIOUS
<1> USE SocketAssumption DEF IInv, TypeOK, Key, Steps, config, server, channel, ids, proxying, history
<1>1. ASSUME NEW c \in Conn, CloseChannel(c) PROVE Steps'
  BY <1>1 DEF CloseChannel
<1>2. ASSUME NEW c \in Conn, Connect(c) PROVE Steps'
  BY <1>2 DEF Connect, Goto
<1>3. ASSUME NEW c \in Conn, ChannelActive(c) PROVE Steps'
  <2>1. CASE (Goto(c, "idle") /\ UNCHANGED <<wire, proxying>>) \/ (Throws(c) /\ UNCHANGED proxying)
    BY <1>3, <2>1 DEF ChannelActive, Throws, Goto
  <2>2. CASE /\ proxy /\ Replace(c)
             /\ client' = [client EXCEPT ![c] = "made"]
             /\ order' = [order EXCEPT ![c] = Made + 1]
             /\ Goto(c, "dial") /\ UNCHANGED wire
    <3>1. Made \in Nat /\ Made + 1 <= Cardinality(Conn) /\ Made' = Made + 1
      BY <1>3, <2>2, MadeGrows DEF ChannelActive
    <3>2. order' \in [Conn -> 0 .. Cardinality(Conn)] /\ order'[c] = Made + 1
          /\ \A d \in Conn : d # c => order'[d] = order[d]
      BY <1>3, <2>2, <3>1, FiniteConnections, FS_CardinalityType
    <3>3. sClient' = c /\ step' = [step EXCEPT ![c] = "dial"] /\ wire' = wire
      BY <2>2 DEF Replace, Goto
    <3>4. wire[c] \in {"open", "closed"} /\ sentTo' = sentTo /\ sentTo[c] = {} /\ order[c] = 0
      BY <1>3 DEF ChannelActive
    <3>5. QED
      BY <1>3, <2>2, <3>1, <3>2, <3>3, <3>4 DEF ChannelActive
  <2>3. QED
    BY <1>3, <2>1, <2>2 DEF ChannelActive
<1>4. ASSUME NEW c \in Conn, Dial(c) PROVE Steps'
  BY <1>4 DEF Dial, Throws, Goto
<1>5. ASSUME NEW c \in Conn, Answer(c) PROVE Steps'
  BY <1>5 DEF Answer, HandleIDChange, HeaderLine, Goto
<1>6. ASSUME NEW c \in Conn, NoAnswer(c) PROVE Steps'
  BY <1>6 DEF NoAnswer, Throws, Goto, HasChannel
<1>7. ASSUME NEW c \in Conn, ChannelInactive(c) PROVE Steps'
  BY <1>7 DEF ChannelInactive, StopClient, Unregister
<1>8. ASSUME NEW c \in Conn, Receive(c) PROVE Steps'
  BY <1>8 DEF Receive, Goto
<1>9. ASSUME NEW c \in Conn, Leave(c) PROVE Steps'
  BY <1>9 DEF Leave
<1>10. ASSUME NEW c \in Conn, ClientInactive(c) PROVE Steps'
  BY <1>10 DEF ClientInactive
<1>11. ASSUME NEW n \in binding, Bind(n) PROVE Steps'
  BY <1>11 DEF Bind
<1>12. CASE DoStart
  BY <1>12 DEF DoStart
<1>13. CASE DoStop
  BY <1>13 DEF DoStop, StopClient
<1>14. CASE CloseServer
  BY <1>14 DEF CloseServer
<1>15. CASE UNCHANGED vars
  BY <1>15 DEF vars
<1>16. QED
  BY <1>1, <1>2, <1>3, <1>4, <1>5, <1>6, <1>7, <1>8, <1>9, <1>10, <1>11, <1>12, <1>13, <1>14, <1>15 DEF Next, Loops, Handle

\* Ids.
LEMMA RegisteredStep == IInv /\ [Next]_vars => NobodyGoneIsRegistered'
<1> SUFFICES ASSUME IInv, [Next]_vars PROVE NobodyGoneIsRegistered'
  OBVIOUS
<1> USE SocketAssumption DEF IInv, TypeOK, Key, Steps, NobodyGoneIsRegistered, config, server, channel, ids, proxying, history
<1>1. ASSUME NEW c \in Conn, CloseChannel(c) PROVE NobodyGoneIsRegistered'
  BY <1>1 DEF CloseChannel
<1>2. ASSUME NEW c \in Conn, Connect(c) PROVE NobodyGoneIsRegistered'
  BY <1>2 DEF Connect, Goto
<1>3. ASSUME NEW c \in Conn, ChannelActive(c) PROVE NobodyGoneIsRegistered'
  BY <1>3 DEF ChannelActive, Throws, Goto, Replace
<1>4. ASSUME NEW c \in Conn, Dial(c) PROVE NobodyGoneIsRegistered'
  BY <1>4 DEF Dial, Throws, Goto
<1>5. ASSUME NEW c \in Conn, Answer(c) PROVE NobodyGoneIsRegistered'
  BY <1>5 DEF Answer, HandleIDChange, HeaderLine, Goto
<1>6. ASSUME NEW c \in Conn, NoAnswer(c) PROVE NobodyGoneIsRegistered'
  BY <1>6 DEF NoAnswer, Throws, Goto, HasChannel
<1>7. ASSUME NEW c \in Conn, ChannelInactive(c) PROVE NobodyGoneIsRegistered'
  BY <1>7 DEF ChannelInactive, StopClient, Unregister
<1>8. ASSUME NEW c \in Conn, Receive(c) PROVE NobodyGoneIsRegistered'
  BY <1>8 DEF Receive, Goto
<1>9. ASSUME NEW c \in Conn, Leave(c) PROVE NobodyGoneIsRegistered'
  BY <1>9 DEF Leave
<1>10. ASSUME NEW c \in Conn, ClientInactive(c) PROVE NobodyGoneIsRegistered'
  BY <1>10 DEF ClientInactive
<1>11. ASSUME NEW n \in binding, Bind(n) PROVE NobodyGoneIsRegistered'
  BY <1>11 DEF Bind
<1>12. CASE DoStart
  BY <1>12 DEF DoStart
<1>13. CASE DoStop
  BY <1>13 DEF DoStop, StopClient
<1>14. CASE CloseServer
  BY <1>14 DEF CloseServer
<1>15. CASE UNCHANGED vars
  BY <1>15 DEF vars
<1>16. QED
  BY <1>1, <1>2, <1>3, <1>4, <1>5, <1>6, <1>7, <1>8, <1>9, <1>10, <1>11, <1>12, <1>13, <1>14, <1>15 DEF Next, Loops, Handle

\* Clients.
LEMMA ClientsStep == IInv /\ [Next]_vars => Clients'
<1> SUFFICES ASSUME IInv, [Next]_vars PROVE Clients'
  OBVIOUS
<1> USE SocketAssumption DEF IInv, TypeOK, Client, Steps, Clients, Orders, config, server, channel, ids, proxying, history
<1>1. ASSUME NEW c \in Conn, CloseChannel(c) PROVE Clients'
  BY <1>1 DEF CloseChannel
<1>2. ASSUME NEW c \in Conn, Connect(c) PROVE Clients'
  BY <1>2 DEF Connect, Goto
<1>3. ASSUME NEW c \in Conn, ChannelActive(c) PROVE Clients'
  <2>1. CASE (Goto(c, "idle") /\ UNCHANGED <<wire, proxying>>) \/ (Throws(c) /\ UNCHANGED proxying)
    BY <1>3, <2>1 DEF ChannelActive, Throws, Goto
  <2>2. CASE /\ proxy /\ Replace(c)
             /\ client' = [client EXCEPT ![c] = "made"]
             /\ order' = [order EXCEPT ![c] = Made + 1]
             /\ Goto(c, "dial") /\ UNCHANGED wire
    <3>1. Made \in Nat /\ Made + 1 <= Cardinality(Conn) /\ Made' = Made + 1
      BY <1>3, <2>2, MadeGrows DEF ChannelActive
    <3>2. order' \in [Conn -> 0 .. Cardinality(Conn)] /\ order'[c] = Made + 1
          /\ \A d \in Conn : d # c => order'[d] = order[d]
      BY <1>3, <2>2, <3>1, FiniteConnections, FS_CardinalityType
    <3>3. sClient' = c /\ step' = [step EXCEPT ![c] = "dial"] /\ wire' = wire
      BY <2>2 DEF Replace, Goto
    <3>4. wire[c] \in {"open", "closed"} /\ sentTo' = sentTo /\ sentTo[c] = {} /\ order[c] = 0
      BY <1>3 DEF ChannelActive
    <3>5. QED
      BY <1>3, <2>2, <3>1, <3>2, <3>3, <3>4 DEF ChannelActive
  <2>3. QED
    BY <1>3, <2>1, <2>2 DEF ChannelActive
<1>4. ASSUME NEW c \in Conn, Dial(c) PROVE Clients'
  BY <1>4 DEF Dial, Throws, Goto
<1>5. ASSUME NEW c \in Conn, Answer(c) PROVE Clients'
  BY <1>5 DEF Answer, HandleIDChange, HeaderLine, Goto
<1>6. ASSUME NEW c \in Conn, NoAnswer(c) PROVE Clients'
  BY <1>6 DEF NoAnswer, Throws, Goto, HasChannel
<1>7. ASSUME NEW c \in Conn, ChannelInactive(c) PROVE Clients'
  BY <1>7 DEF ChannelInactive, StopClient, Unregister
<1>8. ASSUME NEW c \in Conn, Receive(c) PROVE Clients'
  BY <1>8 DEF Receive, Goto
<1>9. ASSUME NEW c \in Conn, Leave(c) PROVE Clients'
  BY <1>9 DEF Leave
<1>10. ASSUME NEW c \in Conn, ClientInactive(c) PROVE Clients'
  BY <1>10 DEF ClientInactive
<1>11. ASSUME NEW n \in binding, Bind(n) PROVE Clients'
  BY <1>11 DEF Bind
<1>12. CASE DoStart
  BY <1>12 DEF DoStart
<1>13. CASE DoStop
  BY <1>13 DEF DoStop, StopClient
<1>14. CASE CloseServer
  BY <1>14 DEF CloseServer
<1>15. CASE UNCHANGED vars
  BY <1>15 DEF vars
<1>16. QED
  BY <1>1, <1>2, <1>3, <1>4, <1>5, <1>6, <1>7, <1>8, <1>9, <1>10, <1>11, <1>12, <1>13, <1>14, <1>15 DEF Next, Loops, Handle

\* The field.
LEMMA OrdersStep == IInv /\ [Next]_vars => Orders'
<1> SUFFICES ASSUME IInv, [Next]_vars PROVE Orders'
  OBVIOUS
<1> USE SocketAssumption DEF IInv, TypeOK, Steps, Orders, config, server, channel, ids, proxying, history
<1>1. ASSUME NEW c \in Conn, CloseChannel(c) PROVE Orders'
  BY <1>1, MadeStays DEF CloseChannel
<1>2. ASSUME NEW c \in Conn, Connect(c) PROVE Orders'
  BY <1>2, MadeStays DEF Connect, Goto
<1>3. ASSUME NEW c \in Conn, ChannelActive(c) PROVE Orders'
  <2>1. CASE (Goto(c, "idle") /\ UNCHANGED <<wire, proxying>>) \/ (Throws(c) /\ UNCHANGED proxying)
    BY <1>3, <2>1, MadeStays DEF ChannelActive, Throws, Goto
  <2>2. CASE /\ proxy /\ Replace(c)
             /\ client' = [client EXCEPT ![c] = "made"]
             /\ order' = [order EXCEPT ![c] = Made + 1]
             /\ Goto(c, "dial") /\ UNCHANGED wire
    <3>1. Made \in Nat /\ Made + 1 <= Cardinality(Conn) /\ Made' = Made + 1
      BY <1>3, <2>2, MadeGrows DEF ChannelActive
    <3>2. order' \in [Conn -> 0 .. Cardinality(Conn)] /\ order'[c] = Made + 1
          /\ \A d \in Conn : d # c => order'[d] = order[d]
      BY <1>3, <2>2, <3>1, FiniteConnections, FS_CardinalityType
    <3>3. sClient' = c /\ step' = [step EXCEPT ![c] = "dial"] /\ wire' = wire
      BY <2>2 DEF Replace, Goto
    <3>4. wire[c] \in {"open", "closed"} /\ sentTo' = sentTo /\ sentTo[c] = {} /\ order[c] = 0
      BY <1>3 DEF ChannelActive
    <3>5. \A d \in Conn : d # c => order[d] < Made + 1
      BY <3>1
    <3>6. QED
      BY <3>1, <3>2, <3>3, <3>5
  <2>3. QED
    BY <1>3, <2>1, <2>2 DEF ChannelActive
<1>4. ASSUME NEW c \in Conn, Dial(c) PROVE Orders'
  BY <1>4, MadeStays DEF Dial, Throws, Goto
<1>5. ASSUME NEW c \in Conn, Answer(c) PROVE Orders'
  BY <1>5, MadeStays DEF Answer, HandleIDChange, HeaderLine, Goto
<1>6. ASSUME NEW c \in Conn, NoAnswer(c) PROVE Orders'
  BY <1>6, MadeStays DEF NoAnswer, Throws, Goto, HasChannel
<1>7. ASSUME NEW c \in Conn, ChannelInactive(c) PROVE Orders'
  BY <1>7, MadeStays DEF ChannelInactive, StopClient, Unregister
<1>8. ASSUME NEW c \in Conn, Receive(c) PROVE Orders'
  BY <1>8, MadeStays DEF Receive, Goto
<1>9. ASSUME NEW c \in Conn, Leave(c) PROVE Orders'
  BY <1>9, MadeStays DEF Leave
<1>10. ASSUME NEW c \in Conn, ClientInactive(c) PROVE Orders'
  BY <1>10, MadeStays DEF ClientInactive
<1>11. ASSUME NEW n \in binding, Bind(n) PROVE Orders'
  BY <1>11, MadeStays DEF Bind
<1>12. CASE DoStart
  BY <1>12, MadeStays DEF DoStart
<1>13. CASE DoStop
  BY <1>13, MadeStays DEF DoStop, StopClient
<1>14. CASE CloseServer
  BY <1>14, MadeStays DEF CloseServer
<1>15. CASE UNCHANGED vars
  BY <1>15, MadeStays DEF vars
<1>16. QED
  BY <1>1, <1>2, <1>3, <1>4, <1>5, <1>6, <1>7, <1>8, <1>9, <1>10, <1>11, <1>12, <1>13, <1>14, <1>15 DEF Next, Loops, Handle

\* Messages go to no older client.
LEMMA OlderStep == IInv /\ [Next]_vars => NeverAnOlderServer'
<1> SUFFICES ASSUME IInv, [Next]_vars PROVE NeverAnOlderServer'
  OBVIOUS
<1> USE SocketAssumption DEF IInv, TypeOK, Steps, Orders, NeverAnOlderServer, config, server, channel, ids, proxying, history
<1>1. ASSUME NEW c \in Conn, CloseChannel(c) PROVE NeverAnOlderServer'
  BY <1>1 DEF CloseChannel
<1>2. ASSUME NEW c \in Conn, Connect(c) PROVE NeverAnOlderServer'
  BY <1>2 DEF Connect, Goto
<1>3. ASSUME NEW c \in Conn, ChannelActive(c) PROVE NeverAnOlderServer'
  <2>1. CASE (Goto(c, "idle") /\ UNCHANGED <<wire, proxying>>) \/ (Throws(c) /\ UNCHANGED proxying)
    BY <1>3, <2>1 DEF ChannelActive, Throws, Goto
  <2>2. CASE /\ proxy /\ Replace(c)
             /\ client' = [client EXCEPT ![c] = "made"]
             /\ order' = [order EXCEPT ![c] = Made + 1]
             /\ Goto(c, "dial") /\ UNCHANGED wire
    <3>1. Made \in Nat /\ Made + 1 <= Cardinality(Conn) /\ Made' = Made + 1
      BY <1>3, <2>2, MadeGrows DEF ChannelActive
    <3>2. order' \in [Conn -> 0 .. Cardinality(Conn)] /\ order'[c] = Made + 1
          /\ \A d \in Conn : d # c => order'[d] = order[d]
      BY <1>3, <2>2, <3>1, FiniteConnections, FS_CardinalityType
    <3>3. sClient' = c /\ step' = [step EXCEPT ![c] = "dial"] /\ wire' = wire
      BY <2>2 DEF Replace, Goto
    <3>4. wire[c] \in {"open", "closed"} /\ sentTo' = sentTo /\ sentTo[c] = {} /\ order[c] = 0
      BY <1>3 DEF ChannelActive
    <3>5. SUFFICES ASSUME NEW e \in Conn, NEW d \in sentTo[e] PROVE order'[d] >= order'[e]
      BY <3>4
    <3>6. d \in Conn /\ e # c /\ order'[e] = order[e] /\ order[d] >= order[e]
      BY <3>2, <3>4
    <3>7. CASE d = c
      BY <3>2, <3>4, <3>6, <3>7, <3>1
    <3>8. CASE d # c
      BY <3>2, <3>6, <3>8
    <3>9. QED
      BY <3>7, <3>8
  <2>3. QED
    BY <1>3, <2>1, <2>2 DEF ChannelActive
<1>4. ASSUME NEW c \in Conn, Dial(c) PROVE NeverAnOlderServer'
  BY <1>4 DEF Dial, Throws, Goto
<1>5. ASSUME NEW c \in Conn, Answer(c) PROVE NeverAnOlderServer'
  BY <1>5 DEF Answer, HandleIDChange, HeaderLine, Goto
<1>6. ASSUME NEW c \in Conn, NoAnswer(c) PROVE NeverAnOlderServer'
  BY <1>6 DEF NoAnswer, Throws, Goto, HasChannel
<1>7. ASSUME NEW c \in Conn, ChannelInactive(c) PROVE NeverAnOlderServer'
  BY <1>7 DEF ChannelInactive, StopClient, Unregister
<1>8. ASSUME NEW c \in Conn, Receive(c) PROVE NeverAnOlderServer'
  BY <1>8 DEF Receive, Goto
<1>9. ASSUME NEW c \in Conn, Leave(c) PROVE NeverAnOlderServer'
  BY <1>9 DEF Leave
<1>10. ASSUME NEW c \in Conn, ClientInactive(c) PROVE NeverAnOlderServer'
  BY <1>10 DEF ClientInactive
<1>11. ASSUME NEW n \in binding, Bind(n) PROVE NeverAnOlderServer'
  BY <1>11 DEF Bind
<1>12. CASE DoStart
  BY <1>12 DEF DoStart
<1>13. CASE DoStop
  BY <1>13 DEF DoStop, StopClient
<1>14. CASE CloseServer
  BY <1>14 DEF CloseServer
<1>15. CASE UNCHANGED vars
  BY <1>15 DEF vars
<1>16. QED
  BY <1>1, <1>2, <1>3, <1>4, <1>5, <1>6, <1>7, <1>8, <1>9, <1>10, <1>11, <1>12, <1>13, <1>14, <1>15 DEF Next, Loops, Handle

\* What outlives its connection.
LEMMA LeftStep == IInv /\ [Next]_vars => LeftOpenHasCause'
<1> SUFFICES ASSUME IInv, [Next]_vars PROVE LeftOpenHasCause'
  OBVIOUS
<1> USE SocketAssumption DEF IInv, TypeOK, Client, Steps, Clients, Orders, LeftOpenHasCause, config, server, channel, ids, proxying, history
<1>1. ASSUME NEW c \in Conn, CloseChannel(c) PROVE LeftOpenHasCause'
  BY <1>1 DEF CloseChannel
<1>2. ASSUME NEW c \in Conn, Connect(c) PROVE LeftOpenHasCause'
  BY <1>2 DEF Connect, Goto
<1>3. ASSUME NEW c \in Conn, ChannelActive(c) PROVE LeftOpenHasCause'
  BY <1>3 DEF ChannelActive, Throws, Goto, Replace
<1>4. ASSUME NEW c \in Conn, Dial(c) PROVE LeftOpenHasCause'
  BY <1>4 DEF Dial, Throws, Goto
<1>5. ASSUME NEW c \in Conn, Answer(c) PROVE LeftOpenHasCause'
  BY <1>5 DEF Answer, HandleIDChange, HeaderLine, Goto
<1>6. ASSUME NEW c \in Conn, NoAnswer(c) PROVE LeftOpenHasCause'
  BY <1>6 DEF NoAnswer, Throws, Goto, HasChannel
<1>7. ASSUME NEW c \in Conn, ChannelInactive(c) PROVE LeftOpenHasCause'
  BY <1>7 DEF ChannelInactive, StopClient, Unregister
<1>8. ASSUME NEW c \in Conn, Receive(c) PROVE LeftOpenHasCause'
  BY <1>8 DEF Receive, Goto
<1>9. ASSUME NEW c \in Conn, Leave(c) PROVE LeftOpenHasCause'
  BY <1>9 DEF Leave
<1>10. ASSUME NEW c \in Conn, ClientInactive(c) PROVE LeftOpenHasCause'
  BY <1>10 DEF ClientInactive
<1>11. ASSUME NEW n \in binding, Bind(n) PROVE LeftOpenHasCause'
  BY <1>11 DEF Bind
<1>12. CASE DoStart
  BY <1>12 DEF DoStart
<1>13. CASE DoStop
  BY <1>13 DEF DoStop, StopClient
<1>14. CASE CloseServer
  BY <1>14 DEF CloseServer
<1>15. CASE UNCHANGED vars
  BY <1>15 DEF vars
<1>16. QED
  BY <1>1, <1>2, <1>3, <1>4, <1>5, <1>6, <1>7, <1>8, <1>9, <1>10, <1>11, <1>12, <1>13, <1>14, <1>15 DEF Next, Loops, Handle

----------------------------------------------------------------------------
(* The theorems.                                                           *)

LEMMA Initially == Init => IInv
<1> SUFFICES ASSUME Init PROVE IInv
  OBVIOUS
<1> USE SocketAssumption DEF Init
<1>1. Cardinality(Conn) \in Nat
  BY FiniteConnections, FS_CardinalityType
<1>2. TypeOK
  <2>1. /\ wire \in [Conn -> {"new", "open", "closed", "gone"}]
        /\ startOf \in [Conn -> 0 .. starts]
        /\ step \in [Conn -> {"idle", "open", "dial", "message"}]
        /\ id \in [Conn -> Key \cup {NoId}]
        /\ handlerMap \in [Key -> Conn \cup {NoConn}]
    BY SMT
  <2>2. /\ client \in [Conn -> Client]
        /\ order \in [Conn -> 0 .. Cardinality(Conn)]
        /\ sentTo \in [Conn -> SUBSET Conn]
    BY <1>1, SMT DEF Client
  <2>3. proxy \in BOOLEAN /\ ownDecoder \in BOOLEAN /\ decoderUsed \in BOOLEAN
    BY Zenon
  <2>4. /\ life \in {"up", "down"} /\ starts \in 0 .. MaxStart
        /\ binding \subseteq 1 .. starts /\ bound \in 0 .. starts
        /\ sClient \in Conn \cup {NoConn} /\ answered \subseteq Conn /\ threw \subseteq Conn
    BY SMT
  <2>5. QED
    BY <2>1, <2>2, <2>3, <2>4 DEF TypeOK
<1>3. Steps /\ Clients /\ Orders
  BY DEF Steps, Clients, Orders
<1>4. NobodyGoneIsRegistered /\ NeverAnOlderServer /\ LeftOpenHasCause
  BY DEF NobodyGoneIsRegistered, NeverAnOlderServer, LeftOpenHasCause
<1>5. QED
  BY <1>2, <1>3, <1>4 DEF IInv

LEMMA Invariance == Spec => []IInv
<1>1. IInv /\ [Next]_vars => IInv'
  BY TypeStep, StepsStep, RegisteredStep, ClientsStep, OrdersStep, OlderStep, LeftStep
     DEF IInv
<1>2. QED
  BY Initially, <1>1, PTL DEF Spec

\* Nothing is sent to a client that is not there, and the port belongs to a
\* start there has been (channelRead, doStart).
THEOREM TypeCorrect == Spec => []TypeOK
BY Invariance, PTL DEF IInv

\* A connection that has left cannot be addressed any more (channelInactive).
THEOREM NobodyGoneIsAddressed == Spec => []NobodyGoneIsRegistered
BY Invariance, PTL DEF IInv

\* However events of connections interleave, a message is not forwarded to a
\* server connection made before that of its own connection (channelActive,
\* channelRead).
THEOREM MessagesGoToNoOlderServer == Spec => []NeverAnOlderServer
BY Invariance, PTL DEF IInv

\* A server connection is left open only behind a CLOSE that a rule answered or
\* whose handling threw, or when a later connection has taken the field over
\* (channelInactive).
THEOREM LeftOpenForACause == Spec => []LeftOpenHasCause
BY Invariance, PTL DEF IInv
=============================================================================
