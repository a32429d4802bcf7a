---------------------------- MODULE MCMessageFlow ----------------------------
(* Instances of MessageFlow for TLC: s1 drains and may throw, s2 does      *)
(* neither.                                                                *)
EXTENDS MessageFlow

CONSTANTS s1, s2, h1, h2, m1, c1, c2

Sims == {s1, s2}
Handlers == {h1, h2}
Managers == {m1}
Draining == {s1}
Classes == {c1, c2}
OneEach == [s \in Sims |-> {c1}]
TwoAndOne == [s \in Sims |-> IF s = s1 THEN {c1, c2} ELSE {c1}]
AllTargets == {NoSim, s2}
=============================================================================
