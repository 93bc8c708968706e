--------------------------- MODULE MCSyspckgGoal ---------------------------
(* Two commands, which are interchangeable.                               *)
EXTENDS SyspckgGoal, TLC

CONSTANTS p1, p2

MCProcs == {p1, p2}

ProcSymmetry == Permutations(Procs)
=============================================================================
