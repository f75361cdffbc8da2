------------------------ MODULE MC_QuoterV2Lifecycle ------------------------
(* Small instances of QuoterV2Lifecycle for TLC. *)
EXTENDS QuoterV2Lifecycle, TLC

CONSTANTS q1, q2, q3, r1, r2

First == {q1}
Three == {q1, q2, q3}
Pair == {r1, r2}

LifeSymmetry == Permutations({q2, q3}) \cup Permutations(Pair)
=============================================================================
