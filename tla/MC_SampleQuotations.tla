------------------------ MODULE MC_SampleQuotations ------------------------
(* Small instances of SampleQuotations for TLC. *)
EXTENDS SampleQuotations, TLC

CONSTANTS r1, r2, p1, b1, b2, cup, nothing

Two == {r1, r2}
OneQuote == {p1}
TwoBulk == {b1, b2}
CupOrNothing == {cup, nothing}
OnlyCup == {cup}
TwoRates == {1, 2}

(* The offer and its edits; its payment and the samples that follow; the    *)
(* final quotation of a sample; the order of a product quotation and its    *)
(* samples; and a sample that was paid for and serves such an order too.    *)
OfferOrGate ==
  {{"OFFER", "EDIT", "PAY"}, {"OFFER", "PAY", "NEXT"},
   {"CREATE", "NEXT", "QUOTE"}, {"CREATE", "NEXT", "MOVE", "START"},
   {"OFFER", "PAY", "MOVE", "START"}}

(* Requests, and product quotations, differ in their names only. *)
Interchangeable == Permutations(Two) \cup Permutations(TwoBulk)
=============================================================================
