----------------------- MODULE MCSimulatorRepository -----------------------
(* Instances of SimulatorRepository for TLC.                               *)
EXTENDS SimulatorRepository, TLC

CONSTANTS n1, n2, t1, t2, nobody, root

Names == {n1, n2}
OneName == {n1}
Threads == {t1, t2}
FirstName == {n1}
NoName == {}
ThreadSymmetry == Permutations(Threads)
=============================================================================
