-------------------------- MODULE MCSocketSimulator --------------------------
(* The instance of SocketSimulator for TLC.                                 *)
EXTENDS SocketSimulator, TLC

CONSTANTS c1, c2, i1
MCConn == {c1, c2}
MCId == {i1}
=============================================================================
