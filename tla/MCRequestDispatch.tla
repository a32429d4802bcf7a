-------------------------- MODULE MCRequestDispatch --------------------------
(* The instance of RequestDispatch for TLC.                                *)
EXTENDS RequestDispatch
=============================================================================
