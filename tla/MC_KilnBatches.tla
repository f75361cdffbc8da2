--------------------------- MODULE MC_KilnBatches ---------------------------
(***************************************************************************)
(* An order of two cups, which need both fires, an order of a vase that    *)
(* pays for a kiln of its own, and a load of two tiles; three batches with *)
(* room for two pieces.                                                    *)
(***************************************************************************)
EXTENDS KilnBatches

Owners == [l \in Lines |-> CASE l = "cup" -> 1 [] l = "vase" -> 2 [] l = "tile" -> 9]
HowMany == [l \in Lines |-> IF l = "vase" THEN 1 ELSE 2]
Volumes == [l \in Lines |-> 1]
Fires == [s \in Sources |-> IF s = 1 THEN Cycles ELSE {"LOW"}]
Room == [b \in Batches |-> 2]

Some(l, n) == [k \in Lines |-> IF k = l THEN n ELSE 0]
Nothing == [k \in Lines |-> 0]
Made(c, stage, items) ==
  [cycle |-> c, status |-> stage, filled |-> VolumeOf(items), exclusive |-> items["vase"] > 0, version |-> 1]
Opened(cycles, stages, items) ==
  [batch |-> [b \in Batches |-> IF cycles[b] = "" THEN Nil ELSE Made(cycles[b], stages[b], items[b])],
   plan |-> items]

(* The cups wait in the second of two low batches; or the first cup is       *)
(* bisqued already and each cup has a batch for the high fire; or it is     *)
(* still in the fire, beside a batch kept for the vase.                     *)
Starts == {
  Opened(<<"LOW", "LOW", "">>, <<"PLANNED", "PLANNED", "">>, <<Nothing, Some("cup", 2), Nothing>>),
  Opened(<<"LOW", "HIGH", "HIGH">>, <<"COMPLETED", "PLANNED", "PLANNED">>,
         <<Some("cup", 1), Some("cup", 1), Some("cup", 1)>>),
  Opened(<<"LOW", "HIGH", "LOW">>, <<"STARTED", "PLANNED", "PLANNED">>,
         <<Some("cup", 1), Some("cup", 1), Some("vase", 1)>>)}

Asks(op, s, from, to, items, key) ==
  [op |-> op, source |-> s, from |-> from, to |-> to, items |-> items, key |-> key, cycle |-> Nil]

Asked1 == {
  Asks("ASSIGN", 1, Nil, 1, Some("cup", 1), "a"),
  Asks("ASSIGN", 2, Nil, 1, Some("vase", 1), "b"),
  Asks("ASSIGN", 9, Nil, 1, Some("tile", 1), "t"),
  Asks("MOVE", 1, 2, 1, Some("cup", 1), "c"),
  Asks("RELEASE", 1, Nil, 2, Some("cup", 1), Nil),
  Asks("RELEASE", 2, Nil, 3, Some("vase", 1), Nil),
  Asks("LAYOUT", Nil, Nil, 2, Some("cup", 1), "m"),
  Asks("UPDATE", Nil, Nil, 1, Nothing, Nil),
  [Asks("CREATE", Nil, Nil, Nil, Nothing, "e") EXCEPT !.cycle = "HIGH"]}
Asked2 == {Asks(op, Nil, Nil, b, Nothing, Nil) : op \in {"START", "CANCEL"}, b \in {2, 3}}
            \cup {Asks("COMPLETE", Nil, Nil, 1, Nothing, Nil)}
Wishes == Asked1 \cup Asked2
=============================================================================
