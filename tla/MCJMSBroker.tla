------------------------------ MODULE MCJMSBroker ------------------------------
(* Two listeners share a proxy channel, one of them from the other kind of *)
(* connection; a client may want its reply at that channel, too.           *)
EXTENDS JMSBroker

CONSTANTS in, evt, out, own, b1, m1, m2

MCBroker == {b1}
MCMessage == {m1, m2}
MCName == {in, evt, out, own}
At(n) == <<n, b1>>
MCDest == {At(in), At(evt), At(out)}
MCKindOf == [d \in MCDest |-> IF d = At(evt) THEN "Topic" ELSE "Queue"]
MCPub == {At(out)}
MCSub == {At(in), At(evt)}
MCChannel == [d \in MCDest |-> IF d \in MCSub THEN At(out) ELSE None]
MCReplyTo == {out, own}
===============================================================================
