--------------------------- MODULE ChannelDirectory ---------------------------
(***************************************************************************)
(* What a WebSocket handler promises of _Channel_ID (README 4.2.3): a      *)
(* connection gets at most one id, keeps it until it leaves, never comes   *)
(* back, and a message sent to an id goes to exactly the connections that  *)
(* hold the id when it is sent.  WebSocketHandler implements it.           *)
(***************************************************************************)
CONSTANTS
  Conn,    \* connections
  Id,      \* channel ids
  NoId,    \* not one of them
  Sender   \* threads that send

VARIABLES
  holds,    \* the id a connection can be reached under
  left,     \* connections that are gone
  address,  \* the id each sender sends to
  pending   \* connections it has still to send to

vars == <<holds, left, address, pending>>

Holders(i) == {c \in Conn : holds[c] = i}

Init ==
  /\ holds = [c \in Conn |-> NoId]
  /\ left = {}
  /\ address = [s \in Sender |-> NoId]
  /\ pending = [s \in Sender |-> {}]

Assign(c, i) ==
  /\ holds[c] = NoId
  /\ c \notin left
  /\ holds' = [holds EXCEPT ![c] = i]
  /\ UNCHANGED <<left, address, pending>>

Depart(c) ==
  /\ c \notin left
  /\ left' = left \cup {c}
  /\ holds' = [holds EXCEPT ![c] = NoId]
  /\ UNCHANGED <<address, pending>>

Send(s, i) ==
  /\ address[s] = NoId
  /\ Holders(i) # {}
  /\ address' = [address EXCEPT ![s] = i]
  /\ pending' = [pending EXCEPT ![s] = Holders(i)]
  /\ UNCHANGED <<holds, left>>

\* One more copy is out; after the last the sender is free again.
Deliver(s, c) ==
  /\ c \in pending[s]
  /\ pending' = [pending EXCEPT ![s] = @ \ {c}]
  /\ address' = [address EXCEPT ![s] = IF pending[s] = {c} THEN NoId ELSE @]
  /\ UNCHANGED <<holds, left>>

Next ==
  \/ \E c \in Conn : Depart(c) \/ \E i \in Id : Assign(c, i)
  \/ \E s \in Sender : (\E i \in Id : Send(s, i)) \/ (\E c \in Conn : Deliver(s, c))

Spec == Init /\ [][Next]_vars
===============================================================================
