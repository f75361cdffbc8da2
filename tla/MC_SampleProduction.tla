------------------------ MODULE MC_SampleProduction ------------------------
(* Small instances of SampleProduction for TLC. *)
EXTENDS SampleProduction, TLC

CONSTANTS r1, r2, r3, r4

Three == {r1, r2, r3}
Four == {r1, r2, r3, r4}
AllBirths == BirthKinds
OfOwnQuotation == {"CPR"}

(* Three clients who may ask for any of some operations. *)
All(ops) == [r \in Requests |-> IF r \in Three THEN ops ELSE {}]

(* A sample is made through its order or without one; or both ways at once. *)
OneWay == {All(OrderOps \cup {"CREATE_ORDER", "DECIDE"}), All(DirectOps)}
BothWays == {All(OrderOps \cup DirectOps \cup {"CREATE_ORDER"})}

(* Two make it either way, and two decide on it meanwhile. *)
Deciding(start, complete) ==
  (r1 :> {start}) @@ (r2 :> {complete}) @@ (r3 :> {"DECIDE"}) @@ (r4 :> {"DECIDE"})

AnyWay ==
  OneWay \cup BothWays \cup
  {Deciding("START_ORDER", "COMPLETE_ORDER"), Deciding("START", "COMPLETE")}
=============================================================================
