-------------------------- MODULE MCWebSocketHandler --------------------------
(* Instances of WebSocketHandler for TLC.                                  *)
EXTENDS WebSocketHandler

CONSTANTS c1, c2, a, b, s1

TwoConns == {c1, c2}
Ids == {a, b}
Senders == {s1}
===============================================================================
