------------------------------ MODULE OrderBook ------------------------------
(***************************************************************************)
(* What the production orders promise, without requests, keys in flight or *)
(* locks: the book of orders changes one indivisible step at a time, each  *)
(* from the state of the book it is written in.                            *)
(***************************************************************************)
EXTENDS ProductionRules

VARIABLES
  orders,    \* the row of every order, None while it does not exist
  entries,   \* consumptions, notes and notices
  exits,     \* movements that took material out for an order
  results,   \* what became of the pieces of completed orders
  confirmed, \* legacy quotations that are CONFIRMED
  paid       \* legacy quotations that are PAID

book == <<orders, entries, exits, results, confirmed, paid>>

Init ==
  /\ orders = [o \in OrderIds |-> IF o \in DOMAIN Opening THEN Opening[o] ELSE None]
  /\ entries = {}
  /\ exits = {}
  /\ results = {}
  /\ confirmed \in SUBSET (Quotes \ V2)
  /\ paid = {}

(* Ready to be produced: confirmed, or confirmed and sent. *)
Producible(q) == q \in V2 \cup confirmed

Create(r, q, k) ==
  /\ orders[r] = None
  /\ Producible(q)
  /\ OfQuote(orders, q) = {} /\ WithKey(orders, k) = {}
  /\ orders' = [orders EXCEPT ![r] = [quote |-> q, key |-> k, status |-> "CREATED"]]
  /\ UNCHANGED <<entries, exits, results, confirmed, paid>>

Move(o, from, to) ==
  /\ orders[o] # None
  /\ orders[o].status = from
  /\ orders' = [orders EXCEPT ![o] = [@ EXCEPT !.status = to]]

(* A V2 order starts without touching the stock, a legacy order takes its   *)
(* whole recipe and must be paid.                                           *)
Start(r, o) ==
  /\ Move(o, "CREATED", "STARTED")
  /\ \/ /\ orders[o].quote \in V2
        /\ UNCHANGED exits
     \/ /\ orders[o].quote \in paid
        /\ exits' = exits \cup {[order |-> o, key |-> None, by |-> r]}
  /\ UNCHANGED <<entries, results, confirmed, paid>>

(* One key records once, and only what the state of the order admits. *)
Record(r, o, kind, k) ==
  /\ orders[o] # None
  /\ orders[o].quote \in V2
  /\ Accepts(kind, orders[o].status)
  /\ Keyed(entries, kind, k) = {}
  /\ entries' = entries \cup {[order |-> o, kind |-> kind, key |-> k, by |-> r]}
  /\ exits' = IF kind \in Classes
              THEN exits \cup {[order |-> o, key |-> k, by |-> r]} ELSE exits
  /\ UNCHANGED <<orders, results, confirmed, paid>>

Complete(r, o) ==
  /\ Move(o, "STARTED", "COMPLETED")
  /\ PendingKinds(entries, o, orders[o].quote) = {}
  /\ \E report \in Reports :
       /\ Accounts(orders[o].quote, report)
       /\ results' = results \cup ResultsOf(o, report, r)
  /\ UNCHANGED <<entries, exits, confirmed, paid>>

(* Only what spent nothing can be cancelled. *)
Cancel(o) ==
  /\ Move(o, "CREATED", "CANCELLED")
  /\ Consumed(entries, o) = {}
  /\ UNCHANGED <<entries, exits, results, confirmed, paid>>

(* mark_paid and cancel of a legacy quotation. *)
Pay(q) ==
  /\ q \in confirmed
  /\ paid' = paid \cup {q}
  /\ UNCHANGED <<orders, entries, exits, results, confirmed>>

Withdraw(q) ==
  /\ q \in confirmed
  /\ confirmed' = confirmed \ {q}
  /\ UNCHANGED <<orders, entries, exits, results, paid>>

Next ==
  \/ \E r \in Requests, q \in Quotes, k \in Keys \cup {None} : Create(r, q, k)
  \/ \E r \in Requests, o \in OrderIds : Start(r, o) \/ Complete(r, o)
  \/ \E r \in Requests, o \in OrderIds, kind \in EntryKinds, k \in Keys : Record(r, o, kind, k)
  \/ \E o \in OrderIds : Cancel(o)
  \/ \E q \in Quotes : Pay(q) \/ Withdraw(q)

Spec == Init /\ [][Next]_book
=============================================================================
