--------------------------- MODULE ProductionRules ---------------------------
(***************************************************************************)
(* The rows of a production order and the rules its handlers consult:      *)
(* which state accepts what, which material an order still owes, when the  *)
(* results account for every piece.  They read rows and write none, so the *)
(* transactions of ProductionOrders and the promise of OrderBook share     *)
(* them.                                                                   *)
(*                                                                         *)
(* An order is named by the request that created it; the orders that exist *)
(* at the start have names of their own.                                   *)
(***************************************************************************)
EXTENDS Integers, FiniteSets

CONSTANTS
  Requests,  \* HTTP requests, one transaction each
  Quotes,    \* quotations an order can be born of
  V2,        \* those of the V2 quoter: sent to production through a handoff
  Lines,     \* lines of quotations
  Pieces,    \* how many pieces each line of each quotation starts
  Reports,   \* what a completion may report: an outcome for some lines
  Required,  \* the material classes each V2 quotation planned
  Keys,      \* idempotency keys
  Opening,   \* the orders that exist at the start
  None       \* no key, no holder, no order

(* Consumptions, workshop notes and notices to the customer keep their      *)
(* idempotency keys in a table each, under one namespace of advisory locks. *)
Classes == {"BODY", "GLAZE", "OTHER"}
Notes == {"NOTE", "FIRING_NOTE"}
EntryKinds == Classes \cup Notes \cup {"NOTICE"}

TableOf(kind) ==
  IF kind \in Classes THEN "production_consumptions"
  ELSE IF kind \in Notes THEN "production_order_notes"
  ELSE "production_order_communications"

Status == {"CREATED", "STARTED", "COMPLETED", "CANCELLED"}

OrderRow == [quote : Quotes, key : Keys \cup {None}, status : Status]
OrderIds == Requests \cup DOMAIN Opening

(* A consumption, a note or a notice; `by' tells two of them apart.         *)
Entry == [order : OrderIds, kind : EntryKinds, key : Keys, by : Requests]

(* A movement that takes material out for an order: the whole recipe when a *)
(* legacy order starts (key None), or one recorded consumption.             *)
Exit == [order : OrderIds, key : Keys \cup {None}, by : Requests]

(* What became of the pieces of a line, as a completion reports it.         *)
Outcome == [good : Nat, scrap : Nat]
Result == [order : OrderIds, line : Lines, outcome : Outcome, by : Requests]

ASSUME RulesAssumption ==
  /\ V2 \subseteq Quotes
  /\ \A q \in Quotes : DOMAIN Pieces[q] \subseteq Lines /\ \A l \in DOMAIN Pieces[q] : Pieces[q][l] \in Nat
  /\ \A p \in Reports : DOMAIN p \subseteq Lines /\ p \in [DOMAIN p -> Outcome]
  /\ Required \in [Quotes -> SUBSET Classes]
  /\ \A o \in DOMAIN Opening : Opening[o] \in OrderRow /\ Opening[o].status = "CREATED"
  /\ None \notin Requests \cup Keys \cup DOMAIN Opening
  /\ None \notin OrderRow
  /\ Requests \cap DOMAIN Opening = {}
  /\ \A o, p \in DOMAIN Opening : Opening[o].quote = Opening[p].quote => o = p
  /\ \A o, p \in DOMAIN Opening : Opening[o].key = Opening[p].key /\ Opening[o].key # None => o = p

-----------------------------------------------------------------------------
(* Operators named X_Slip are X with a plausible coding slip; no action     *)
(* uses one.  Each shows that some property would notice the slip.          *)

Existing(orders) == {o \in OrderIds : orders[o] # None}

OfQuote(orders, q) == {o \in Existing(orders) : orders[o].quote = q}
WithKey(orders, k) == {o \in Existing(orders) : k # None /\ orders[o].key = k}

(* Slip: the key is UNIQUE for each kind, not for the whole table. *)
Keyed_Slip(entries, kind, k) == {e \in entries : e.kind = kind /\ e.key = k}

(* The rows of one table that carry a key. *)
Keyed(entries, kind, k) == {e \in entries : TableOf(e.kind) = TableOf(kind) /\ e.key = k}

(* Which states of a V2 order admit each entry: material while it is open,  *)
(* a note in any state but CANCELLED, a firing once it started, a notice    *)
(* always.                                                                  *)
Accepts(kind, status) ==
  CASE kind \in Classes       -> status \in {"CREATED", "STARTED"}
    [] kind = "NOTE"          -> status # "CANCELLED"
    [] kind = "FIRING_NOTE"   -> status \in {"STARTED", "COMPLETED"}
    [] OTHER                  -> TRUE

Consumed(entries, o) == {e \in entries : e.order = o /\ e.kind \in Classes}

(* The planned classes that still lack a consumption. *)
PendingKinds(entries, o, q) ==
  IF q \in V2 THEN Required[q] \ {e.kind : e \in Consumed(entries, o)} ELSE {}

(* Slip: the lines that are missing are not noticed. *)
Accounts_Slip(q, report) ==
  \A l \in DOMAIN report :
    l \in DOMAIN Pieces[q] /\ report[l].good + report[l].scrap = Pieces[q][l]

(* The results name every line once and account for every piece. *)
Accounts(q, report) ==
  /\ DOMAIN report = DOMAIN Pieces[q]
  /\ \A l \in DOMAIN report : report[l].good + report[l].scrap = Pieces[q][l]

ResultsOf(o, report, r) ==
  {[order |-> o, line |-> l, outcome |-> report[l], by |-> r] : l \in DOMAIN report}
=============================================================================
