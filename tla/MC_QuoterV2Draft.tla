-------------------------- MODULE MC_QuoterV2Draft --------------------------
(* Small instances of QuoterV2Draft for TLC. *)
EXTENDS QuoterV2Draft, TLC

CONSTANTS q1, q2, l1, l2, cup, turning, decoration, own, hired, x1

OneQuotation == {q1}
TwoQuotations == {q1, q2}
OneLine == {l1}
TwoLines == {l1, l2}
Cup == {cup}
Turning == {turning}
Decoration == {decoration}
Both == {turning, decoration}
People == {own, hired}
OneTask == {x1}

(* The worker of the house knows everything, the hired one turns. *)
Skills == [w \in People |-> IF w = own THEN Both ELSE Turning]
Defaults == [k \in {"UNIT", "WHOLESALE"} |-> IF k = "UNIT" THEN own ELSE hired]
(* A smaller workshop: one person, one technique. *)
Nothing == {}
OnlyOwn == {own}
Turner == [w \in OnlyOwn |-> Turning]
Himself == [k \in {"UNIT", "WHOLESALE"} |-> own]

WorkSymmetry == Permutations(TwoQuotations) \cup Permutations(TwoLines)
=============================================================================
