---------------------------- MODULE MCKafkaBroker ----------------------------
(* The instance of KafkaBroker for TLC.                                     *)
EXTENDS KafkaBroker, TLC

CONSTANTS s1, s2
MCSub == {s1, s2}
MCProxied == {s1}
=============================================================================
