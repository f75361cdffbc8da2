------------------------------ MODULE OfferBook ------------------------------
(***************************************************************************)
(* What the workshop promises of its offers, without requests, locks,      *)
(* fingerprints or a clock: an offer is made once, on terms that stay; it  *)
(* is taken or withdrawn, never both; and an offer that was replaced by a  *)
(* new draft is not taken any more.                                        *)
(***************************************************************************)
CONSTANTS
  Offers,
  Documents,  \* what an offer may say
  NoDocument

VARIABLES
  stage,      \* of every offer
  terms,      \* what was offered
  replaced    \* the offers a new draft was made from

offers == <<stage, terms, replaced>>

Init ==
  /\ stage = [o \in Offers |-> "none"]
  /\ terms = [o \in Offers |-> NoDocument]
  /\ replaced = {}

Move(o, from, to) ==
  /\ stage[o] \in from
  /\ stage' = [stage EXCEPT ![o] = to]

Draft(o) ==
  /\ Move(o, {"none"}, "draft")
  /\ UNCHANGED <<terms, replaced>>

Make(o, d) ==
  /\ Move(o, {"draft"}, "offered")
  /\ terms' = [terms EXCEPT ![o] = d]
  /\ UNCHANGED replaced

Withdraw(o) ==
  /\ Move(o, {"draft", "offered"}, "withdrawn")
  /\ UNCHANGED <<terms, replaced>>

Take(o) ==
  /\ o \notin replaced
  /\ Move(o, {"offered"}, "taken")
  /\ UNCHANGED <<terms, replaced>>

Replace(o, d) ==
  /\ stage[o] \in {"offered", "withdrawn"}
  /\ Move(d, {"none"}, "draft")
  /\ replaced' = replaced \cup {o}
  /\ UNCHANGED terms

Next ==
  \/ \E o \in Offers : Draft(o) \/ Withdraw(o) \/ Take(o)
  \/ \E o \in Offers, d \in Documents : Make(o, d)
  \/ \E o, d \in Offers : Replace(o, d)

Spec == Init /\ [][Next]_offers
=============================================================================
