------------------------ MODULE MC_ProductionOrders ------------------------
(* A small instance of ProductionOrders for TLC: q1 and q3 are V2           *)
(* quotations, q2 a legacy one; q3 has an open order.                       *)
EXTENDS ProductionOrders, TLC

CONSTANTS r1, r2, r3, r4, q1, q2, q3, l1, l2, k1, o1

MCRequests == {r1, r2, r3, r4}
MCQuotes == {q1, q2, q3}
MCV2 == {q1, q3}
MCLines == {l1, l2}
MCPieces == (q1 :> (l1 :> 1)) @@ (q2 :> (l1 :> 1)) @@ (q3 :> (l1 :> 2 @@ l2 :> 1))
MCRequired == (q1 :> {}) @@ (q2 :> {}) @@ (q3 :> {"BODY"})
MCKeys == {k1}

O(good, scrap) == [good |-> good, scrap |-> scrap]
WholeReport == (l1 :> O(1, 1)) @@ (l2 :> O(0, 1))
HalfReport == (l1 :> O(2, 0))
PieceReport == (l1 :> O(1, 0))
MCReports == {WholeReport, HalfReport, PieceReport}

Asking(op, q) == [op |-> op, quote |-> q]
Creation(q, k) == [op |-> "CREATE", quote |-> q, key |-> k]
Recorded(q, kind, k) == [op |-> "RECORD", quote |-> q, kind |-> kind, key |-> k]
Completion(q, report) == [op |-> "COMPLETE", quote |-> q, report |-> report]

MCOpening == (o1 :> [quote |-> q3, key |-> None, status |-> "CREATED"])

(* Creations that share keys and quotations, and the life of the orders     *)
(* they create.                                                             *)
FirstCalls == {Creation(q1, k1), Creation(q2, k1), Creation(q2, None), Asking("START", q2),
               Completion(q2, PieceReport), Recorded(q2, "NOTE", k1), Asking("CANCEL", q1),
               Recorded(q1, "BODY", k1)}
Office == [r \in MCRequests |-> IF r = r4 THEN {} ELSE FirstCalls]

(* The life of the open V2 order. *)
Workshop ==
  (r1 :> {Recorded(q3, "BODY", k1), Asking("CANCEL", q3)}) @@
  (r2 :> {Recorded(q3, "GLAZE", k1), Recorded(q3, "FIRING_NOTE", k1), Asking("START", q3)}) @@
  (r3 :> {Asking("START", q3), Completion(q3, WholeReport)}) @@
  (r4 :> {Recorded(q3, "BODY", k1), Completion(q3, HalfReport)})

MCUsages == {Office, Workshop}
MCCalls == UNION {u[r] : u \in MCUsages, r \in MCRequests}
=============================================================================
