------------------------------ MODULE MCCpuIdle -----------------------------
(* Two commands at a time and two entries, one that the policy enables     *)
(* (POLL or C1) and one that it disables.                                  *)
EXTENDS CpuIdle, TLC

CONSTANTS p1, p2, o1, r1, r2

MCProcs == {p1, p2}

MCOneOp == {o1}

MCOneRequest == {r1}

MCTwoRequests == {r1, r2}

MCDesired == <<0, 1>>

MCOneEntry == <<1>>

Symmetry == Permutations(MCProcs) \cup Permutations(MCTwoRequests)
=============================================================================
