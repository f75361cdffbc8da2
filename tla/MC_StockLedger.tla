--------------------------- MODULE MC_StockLedger ---------------------------
(* Small instances of StockLedger for TLC.  Slots: 1 a prepared glaze, 2 a  *)
(* raw material, 3 a second prepared glaze, 4 and 5 finished products.      *)
EXTENDS StockLedger, TLC

CONSTANTS t1, t2, t3, t4, la, lb, lc

MCSlots == 1..5
MCPrepared == {1, 3}
MCLots == {la, lb, lc}
MCSlotOf == (la :> 1) @@ (lb :> 1) @@ (lc :> 3)
FourTxns == {t1, t2, t3, t4}

N(s, q, l) == [slot |-> s, qty |-> q, lot |-> l]
J(kind, needs, yield) == [kind |-> kind, needs |-> needs, yield |-> yield]
NoYield == N(4, 1, None)

MCOpening == (1 :> 3) @@ (2 :> 4) @@ (3 :> 0) @@ (4 :> 1) @@ (5 :> 0)
MCOpeningLots == (la :> 3) @@ (lb :> 0) @@ (lc :> 0)

(* A start and a preparation that list the same two materials in opposite   *)
(* orders, an import that crosses them and names no lot of the glaze, and a *)
(* recorded consumption of the raw one, which is short for all three.       *)
MixJobs ==
  (t1 :> J("START", <<N(2, 2, None), N(1, 2, la)>>, NoYield)) @@
  (t2 :> J("PREPARE", <<N(1, 1, la), N(2, 2, None)>>, N(3, 1, lc))) @@
  (t3 :> J("IMPORT", <<N(2, 1, None), N(1, 1, None)>>, NoYield)) @@
  (t4 :> J("CONSUME", <<N(2, 2, None)>>, NoYield))
=============================================================================
