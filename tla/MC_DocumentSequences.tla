------------------------ MODULE MC_DocumentSequences ------------------------
(* A small instance of DocumentSequences for TLC. *)
EXTENDS DocumentSequences

CONSTANTS r1, r2, r3, a1, i1, i2

Three == {r1, r2, r3}
OneAdmin == {a1}
TwoImports == {i1, i2}
OneOrThree == {1, 3}
YearlyNever == {"YEARLY", "NEVER"}

(* Requests with a change of format or an import, and one with both. *)
MCCasts == {Three \cup OneAdmin, Three \cup {i1}, {r1, a1} \cup TwoImports}
=============================================================================
