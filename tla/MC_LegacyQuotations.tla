------------------------- MODULE MC_LegacyQuotations -------------------------
(* Small instances of LegacyQuotations for TLC: one quotation of the        *)
(* builder and two classic ones.                                            *)
EXTENDS LegacyQuotations, TLC

CONSTANTS b1, c1, c2, a1, a2

Three == {b1, c1, c2}
OfBuilder == {b1}
Pair == {a1, a2}

Form(item, detail) == [item |-> item, detail |-> detail]
BuilderForms == {Form(0, 0), Form(1, 0), Form(1, 1)}
ClassicForms == {Form(1, 0), Form(1, 1), Form(2, 0)}
MCContents == (b1 :> BuilderForms) @@ (c1 :> ClassicForms) @@ (c2 :> ClassicForms)

(* A draft of the builder, or two classic ones. *)
MCOpenings == {(b1 :> Form(1, 0)) @@ (c1 :> None) @@ (c2 :> None),
               (b1 :> None) @@ (c1 :> Form(1, 0)) @@ (c2 :> Form(1, 0))}

MCChoices == [pricing |-> {0, 1}, wording |-> {0, 1, 2}]

(* The settings alone; quotations while the settings change, and alone. *)
Budget(s, u) == [settings |-> s, uses |-> u]
MCBudgets == {Budget(5, 0), Budget(2, 3), Budget(0, 5)}
MCSaves == {Budget(5, 0)}

OfferSymmetry == Permutations(Pair) \cup Permutations({c1, c2})
=============================================================================
