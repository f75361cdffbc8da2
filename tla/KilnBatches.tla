----------------------------- MODULE KilnBatches -----------------------------
(***************************************************************************)
(* Kiln batches: pieces of several orders planned into firings, and the    *)
(* firings lit, finished or called off.                                    *)
(*                                                                         *)
(* A request that plans pieces locks its key, then the order the pieces    *)
(* belong to, then the batches in order of id.  One that lights or calls   *)
(* off a batch locks the batch and then the orders in it.  What a request  *)
(* reads between its locks and its commit is read in a step of its own,    *)
(* so that the locks, and nothing else, keep it true.                      *)
(***************************************************************************)
EXTENDS Integers, FiniteSets, FiniteSetsExt

CONSTANTS
  Sources,    \* production orders, and internal loads after them; naturals
  Loads,      \* the internal loads among them
  Lines,
  Owner,      \* [Lines -> Sources]
  Pieces,     \* [Lines -> Nat], how many pieces a line has
  Volume,     \* [Lines -> Nat], of one piece; 0 when it has no measures
  Needs,      \* [Sources -> SUBSET Cycles]
  Alone,      \* the sources that share a kiln with nobody
  Batches,    \* ids of batches; naturals
  Capacity,   \* [Batches -> Nat], of the kiln, frozen in the batch
  Openings,   \* what is planned when a behaviour begins
  Calls,      \* what the clients may ask for
  Requests,
  Nil

Cycles == {"LOW", "HIGH"}
Stages == {"PLANNED", "STARTED", "COMPLETED", "CANCELLED"}
Planning == {"ASSIGN", "RELEASE", "MOVE"}
Keyed == Planning \cup {"CREATE", "LAYOUT"}  \* what may come with a key
Names == ({"key", "map"} \X {c.key : c \in Calls}) \cup ({"source"} \X Sources) \cup ({"batch"} \X Batches)

ASSUME KilnAssumption ==
  /\ Sources \subseteq Nat /\ Loads \subseteq Sources /\ Alone \subseteq Sources \ Loads
  /\ \A s \in Loads, o \in Sources \ Loads : o < s
  /\ IsFiniteSet(Lines) /\ Owner \in [Lines -> Sources]
  /\ Pieces \in [Lines -> Nat] /\ Volume \in [Lines -> Nat]
  /\ Needs \in [Sources -> SUBSET Cycles]
  /\ Batches \subseteq Nat /\ IsFiniteSet(Batches) /\ Capacity \in [Batches -> Nat]
  /\ Nil \notin Requests \cup Sources \cup Batches \cup Nat

Asked(items) == {l \in Lines : items[l] > 0}

(* Pieces are asked for by the one or more, and moved to another batch. *)
ASSUME CallAssumption == \A c \in Calls :
  /\ c.op \in Keyed \cup {"UPDATE", "START", "COMPLETE", "CANCEL"}
  /\ c.op \notin Keyed => c.key = Nil
  /\ c.items \in [Lines -> Nat]
  /\ IF c.op = "CREATE" THEN c.cycle \in Cycles ELSE c.to \in Batches
  /\ c.op \in Planning => c.source \in Sources /\ Asked(c.items) # {}
  /\ c.op = "MOVE" => c.from \in Batches \ {c.to}

(* What the register of operations says of one. *)
Noted == [call : Calls, seen : Nat \cup {Nil}]

-----------------------------------------------------------------------------
(* What is right of any rows B of batches with any pieces P in them. *)
BatchRow == [cycle : Cycles, status : Stages, filled : Nat, exclusive : BOOLEAN, version : Nat \ {0}]
RowsOK(B, P) == B \in [Batches -> {Nil} \cup BatchRow] /\ P \in [Batches -> [Lines -> Nat]]

(* The pieces of a line in some batches, and the volume of some pieces. *)
InBatches(P, l, bs) == SumFunction([b \in bs |-> P[b][l]])
VolumeOf(items) == SumFunction([l \in Lines |-> items[l] * Volume[l]])

OfCycle(B, c) == {b \in Batches : B[b] # Nil /\ B[b].cycle = c}
InState(B, c, stages) == {b \in OfCycle(B, c) : B[b].status \in stages}
LitHigh(B) == InState(B, "HIGH", {"STARTED", "COMPLETED"})
FiredLow(B) == InState(B, "LOW", {"COMPLETED"})

InKiln(P, b) == {l \in Lines : P[b][l] > 0}
Others(P, b, s) == {l \in InKiln(P, b) : Owner[l] # s}

(* The counter a batch is refused by, which only ever moves by what a       *)
(* change of pieces moves, is the volume of the pieces planned in it, and   *)
(* no batch is fuller than its kiln.                                        *)
CounterIsVolume(B, P) ==
  \A b \in Batches :
    B[b] # Nil => B[b].filled = VolumeOf(P[b]) /\ B[b].filled <= Capacity[b]

(* No piece of a line has two places in one cycle, whoever plans it. *)
PiecesOnce(B, P) ==
  \A l \in Lines, c \in Cycles : InBatches(P, l, OfCycle(B, c)) <= Pieces[l]

(* As many pieces of a line were lit in the high fire as came out of the    *)
(* low one, though batches of one line are lit by different people.         *)
NoRawHigh(B, P) ==
  \A l \in Lines :
    Needs[Owner[l]] = Cycles =>
      InBatches(P, l, LitHigh(B)) <= InBatches(P, l, FiredLow(B))

(* An order that pays for a kiln of its own shares it with nobody, and a    *)
(* batch is kept for an order exactly while it holds its pieces.            *)
ExclusiveAlone(B, P) ==
  \A b \in Batches :
    B[b] # Nil =>
      /\ \A s \in Alone : (\E l \in InKiln(P, b) : Owner[l] = s) => Others(P, b, s) = {}
      /\ B[b].exclusive <=> \E l \in InKiln(P, b) : Owner[l] \in Alone

(* Only pieces with measures are planned, and in batches there are. *)
Planned(B, P) ==
  \A b \in Batches : \A l \in InKiln(P, b) : B[b] # Nil /\ Volume[l] > 0

Sound(B, P) ==
  /\ RowsOK(B, P) /\ Planned(B, P)
  /\ CounterIsVolume(B, P) /\ PiecesOnce(B, P)
  /\ NoRawHigh(B, P) /\ ExclusiveAlone(B, P)

(* A behaviour begins with a plan the code could have come to. *)
ASSUME OpeningAssumption ==
  /\ Nil \notin BatchRow
  /\ \A o \in Openings : Sound(o.batch, o.plan)

VARIABLES
  open,     \* orders and loads that can be planned
  batch,    \* Nil, or the row of each batch
  plan,     \* active pieces of each line in each batch
  layout,   \* version of the map of each batch, 0 without one, and its pieces
  ops,      \* register of the operations that came with a key: what was
            \* asked, and for a map from which version of it
  held,     \* Nil, or the request that has each lock
  req

kilnRows == <<open, batch, plan, layout, ops>>
kilnVars == <<kilnRows, held, req>>

Waiting == {"call", "key", "parent", "second", "parents", "write"}
Over == {"done", "found", "refused", "clash", "lost"}

KilnTypeOK ==
  /\ open \in [Sources -> BOOLEAN]
  /\ RowsOK(batch, plan)
  /\ layout \in [Batches -> [version : Nat, placed : [Lines -> Nat]]]
  /\ ops \subseteq Noted
  /\ held \in [Names -> Requests \cup {Nil}]
  /\ req \in [Requests -> [pc : {"idle"} \cup Waiting \cup Over,
                           call : Calls \cup {Nil}, seen : Nat \cup {Nil}]]

KilnInit ==
  /\ open = [s \in Sources |-> TRUE]
  /\ \E o \in Openings : batch = o.batch /\ plan = o.plan
  /\ layout = [b \in Batches |-> [version |-> 0, placed |-> [l \in Lines |-> 0]]]
  /\ ops = {}
  /\ held = [x \in Names |-> Nil]
  /\ req = [r \in Requests |-> [pc |-> "idle", call |-> Nil, seen |-> Nil]]

-----------------------------------------------------------------------------
(* Operators named X_Slip are X with a plausible coding slip; no action     *)
(* uses one.  Each shows that some property would notice the slip.          *)

ReqAt(r, pc) == req[r].pc = pc
Call(r) == req[r].call
Is(r, op) == Call(r).op = op
Unheld(x) == held[x] = Nil
Goto(r, pc) == req' = [req EXCEPT ![r].pc = pc]
Batch(b) == batch[b] # Nil

LetGo(r) == [x \in Names |-> IF held[x] = r THEN Nil ELSE held[x]]

End(r, pc) == Goto(r, pc) /\ held' = LetGo(r)
Refuse(r) == End(r, "refused") /\ UNCHANGED kilnRows

Take(r, xs, pc) ==
  /\ \A x \in xs : Unheld(x)
  /\ held' = [x \in Names |-> IF x \in xs THEN r ELSE held[x]]
  /\ Goto(r, pc)
  /\ UNCHANGED kilnRows

(* Slip: nobody takes the advisory lock. *)
KeyOf_Slip(r) == {}

(* The advisory lock of a key; the maps have a namespace of their own. *)
KeyOf(r) ==
  {<<space, Call(r).key>> : space \in {s \in {"key", "map"} :
     Call(r).key # Nil /\ (s = "map" <=> Is(r, "LAYOUT"))}}
SourceOf(r) == {<<"source", Call(r).source>>}
Row(b) == <<"batch", b>>

(* Slip: what is left is what is left in this batch. *)
Remaining_Slip(l, b, P) == Pieces[l] - P[b][l]

(* Pieces of a line that no live batch of the cycle has yet. *)
Remaining(l, b, P) == Pieces[l] - InBatches(P, l, OfCycle(batch, batch[b].cycle))

(* A batch kept for an order takes no other, and an order that is alone     *)
(* goes only where no other is.                                             *)
Exclusivity(b, s, P) ==
  batch[b].exclusive \/ s \in Alone => Others(P, b, s) = {}

(* What _place asks for, before it writes. *)
CanPlace(b, s, items, P) ==
  /\ batch[b].status = "PLANNED"
  /\ open[s]
  /\ batch[b].cycle \in Needs[s]
  /\ Exclusivity(b, s, P)
  /\ \A l \in Asked(items) :
       Owner[l] = s /\ Volume[l] > 0 /\ items[l] <= Remaining(l, b, P)
  /\ batch[b].filled + VolumeOf(items) <= Capacity[b]

(* Slip: pieces can be taken out of any batch. *)
CanTake_Slip(b, s, items) ==
  \A l \in Asked(items) : Owner[l] = s /\ items[l] <= plan[b][l]

CanTake(b, s, items) ==
  /\ batch[b].status = "PLANNED"
  /\ \A l \in Asked(items) : Owner[l] = s /\ items[l] <= plan[b][l]

TakenOut(P, b, items) == [P EXCEPT ![b] = [l \in Lines |-> @[l] - items[l]]]
PutIn(P, b, items) == [P EXCEPT ![b] = [l \in Lines |-> @[l] + items[l]]]

(* The trigger on the assignments moves the counter of the batch, and a     *)
(* batch that is left empty is kept for nobody.                             *)
Emptier(row, items) ==
  [row EXCEPT !.filled = @ - VolumeOf(items),
              !.exclusive = @ /\ row.filled > VolumeOf(items),
              !.version = @ + 1]

Fuller(row, s, items) ==
  [row EXCEPT !.filled = @ + VolumeOf(items),
              !.exclusive = @ \/ s \in Alone,
              !.version = @ + 1]

-----------------------------------------------------------------------------
(* The client may say which version of the batch, or of its map, it saw. *)
Arrive(r, c) ==
  /\ ReqAt(r, "idle")
  /\ c.op # "CREATE" => Batch(c.to)
  /\ c.op = "MOVE" => Batch(c.from)
  /\ \E v \in CASE c.op = "LAYOUT" -> {layout[c.to].version}
              [] c.op = "UPDATE" -> {batch[c.to].version}
              [] c.op \in {"ASSIGN", "RELEASE"} -> {Nil, batch[c.to].version}
              [] OTHER -> {Nil} :
       req' = [req EXCEPT ![r] = [pc |-> "call", call |-> c, seen |-> v]]
  /\ UNCHANGED <<kilnRows, held>>

Recorded(r) == {o \in ops : o.call.key = Call(r).key /\ o.call.key # Nil}

(* payload_fingerprint and _layout_fingerprint: only a map is recorded with *)
(* the version it replaces.                                                 *)
Fingerprint(r) == [call |-> Call(r), seen |-> IF Is(r, "LAYOUT") THEN req[r].seen ELSE Nil]

KeyFree(r) == \A x \in KeyOf(r) : Unheld(x)

(* A key that is known is a retry of the same request, or an error. *)
Recall(r) ==
  /\ ReqAt(r, "call") /\ KeyFree(r)
  /\ Recorded(r) # {}
  /\ IF Fingerprint(r) \in ops THEN End(r, "found") /\ UNCHANGED kilnRows ELSE Refuse(r)

(* The key is taken, and nothing is found under it. *)
LockKey(r) ==
  /\ ReqAt(r, "call") /\ Call(r).op \in Keyed
  /\ Recorded(r) = {}
  /\ Take(r, KeyOf(r), "key")

Record(r) == ops' = IF Call(r).key = Nil THEN ops ELSE ops \cup {Fingerprint(r)}

(* UNIQUE on the key refuses a second row of it, and the transaction with   *)
(* it.                                                                      *)
Clash(r) == Recorded(r) # {} /\ End(r, "clash") /\ UNCHANGED kilnRows

(* A batch of the first id that is free, empty. When the ids of the         *)
(* instance are used up, the request is lost.                               *)
Create(r) ==
  /\ ReqAt(r, "key") /\ Is(r, "CREATE")
  /\ LET unused == {b \in Batches : ~Batch(b)}
     IN  IF unused = {} THEN End(r, "lost") /\ UNCHANGED kilnRows
         ELSE \/ Clash(r)
              \/ /\ Recorded(r) = {}
                 /\ batch' = [batch EXCEPT ![Min(unused)] =
                      [cycle |-> Call(r).cycle, status |-> "PLANNED",
                       filled |-> 0, exclusive |-> FALSE, version |-> 1]]
                 /\ Record(r)
                 /\ End(r, "done")
                 /\ UNCHANGED <<open, plan, layout>>

AsSeen(r, b) == req[r].seen \in {Nil, batch[b].version}

(* Another date, or other notes. *)
Update(r) ==
  /\ ReqAt(r, "call") /\ Is(r, "UPDATE")
  /\ Unheld(Row(Call(r).to))
  /\ LET b == Call(r).to
     IN  IF AsSeen(r, b) /\ batch[b].status = "PLANNED"
         THEN /\ batch' = [batch EXCEPT ![b].version = @ + 1]
              /\ End(r, "done")
              /\ UNCHANGED <<open, plan, layout, ops>>
         ELSE Refuse(r)

(* save_layout: the batch is locked, and the map must fit it and the        *)
(* version of the map that the client saw.                                  *)
LockMap(r) ==
  /\ ReqAt(r, "key") /\ Is(r, "LAYOUT")
  /\ Unheld(Row(Call(r).to))
  /\ LET b == Call(r).to
     IN  IF /\ batch[b].status = "PLANNED"
            /\ req[r].seen = layout[b].version
            /\ \A l \in Lines : Call(r).items[l] <= plan[b][l]
         THEN Take(r, {Row(b)}, "write")
         ELSE Refuse(r)

(* The map is replaced as a whole. *)
SaveLayout(r) ==
  /\ ReqAt(r, "write") /\ Is(r, "LAYOUT")
  /\ \/ Clash(r)
     \/ /\ Recorded(r) = {}
        /\ layout' = [layout EXCEPT ![Call(r).to] =
                        [version |-> @.version + 1, placed |-> Call(r).items]]
        /\ Record(r)
        /\ End(r, "done")
        /\ UNCHANGED <<open, batch, plan>>

-----------------------------------------------------------------------------
(* assign, release and move: after the key, the order or load. *)
Resolve(r) == ReqAt(r, "key") /\ Call(r).op \in Planning /\ Take(r, SourceOf(r), "parent")

FirstBatch(r) == IF Is(r, "MOVE") /\ Call(r).from < Call(r).to THEN Call(r).from ELSE Call(r).to
SecondBatch(r) == IF FirstBatch(r) = Call(r).from THEN Call(r).to ELSE Call(r).from

(* What _take_out and _place let through, in one or two batches. *)
Possible(r) ==
  LET c == Call(r)
  IN  CASE c.op = "ASSIGN"  -> AsSeen(r, c.to) /\ CanPlace(c.to, c.source, c.items, plan)
        [] c.op = "RELEASE" -> AsSeen(r, c.to) /\ CanTake(c.to, c.source, c.items)
        [] c.op = "MOVE"    -> /\ batch[c.from].cycle = batch[c.to].cycle
                               /\ CanTake(c.from, c.source, c.items)
                               /\ CanPlace(c.to, c.source, c.items, TakenOut(plan, c.from, c.items))

LockBatch(r) ==
  /\ ReqAt(r, "parent") /\ Unheld(Row(FirstBatch(r)))
  /\ IF ~Is(r, "MOVE") /\ ~Possible(r) THEN Refuse(r)
     ELSE Take(r, {Row(FirstBatch(r))}, IF Is(r, "MOVE") THEN "second" ELSE "write")

LockSecond(r) ==
  /\ ReqAt(r, "second") /\ Unheld(Row(SecondBatch(r)))
  /\ IF ~Possible(r) THEN Refuse(r) ELSE Take(r, {Row(SecondBatch(r))}, "write")

Write(r) ==
  /\ ReqAt(r, "write") /\ Call(r).op \in Planning
  /\ \/ Clash(r)
     \/ LET c == Call(r)
            out == IF c.op = "RELEASE" THEN c.to ELSE c.from
            less == IF c.op = "ASSIGN" THEN batch ELSE [batch EXCEPT ![out] = Emptier(@, c.items)]
            left == IF c.op = "ASSIGN" THEN plan ELSE TakenOut(plan, out, c.items)
        IN  /\ Recorded(r) = {}
            /\ batch' = IF c.op = "RELEASE" THEN less
                        ELSE [less EXCEPT ![c.to] = Fuller(@, c.source, c.items)]
            /\ plan' = IF c.op = "RELEASE" THEN left ELSE PutIn(left, c.to, c.items)
            /\ Record(r)
            /\ End(r, "done")
            /\ UNCHANGED <<open, layout>>

-----------------------------------------------------------------------------
Target(op) == CASE op = "START" -> "STARTED" [] op = "COMPLETE" -> "COMPLETED"
                [] op = "CANCEL" -> "CANCELLED"

(* start and cancel: the batch, which answers a repetition.  *)
LockForEnd(r) ==
  /\ ReqAt(r, "call") /\ (Is(r, "START") \/ Is(r, "CANCEL"))
  /\ Unheld(Row(Call(r).to))
  /\ LET status == batch[Call(r).to].status
     IN  IF status = Target(Call(r).op) THEN End(r, "found") /\ UNCHANGED kilnRows
         ELSE IF status # "PLANNED" THEN Refuse(r)
         ELSE Take(r, {Row(Call(r).to)}, "parents")

(* Slip: the orders in the batch are not locked. *)
Parents_Slip(r) == {}

(* _lock_parents_of: the orders in the batch, and then the loads. *)
Parents(r) == {Owner[l] : l \in InKiln(plan, Call(r).to)}

Unlocked(r) == {s \in Parents(r) : held[<<"source", s>>] # r}

LockParent(r) ==
  /\ ReqAt(r, "parents") /\ Unlocked(r) # {}
  /\ Take(r, {<<"source", Min(Unlocked(r))>>}, "parents")

(* _check_low_before_high: no piece that needs the low fire goes raw into   *)
(* the high one, counting those of its line already there.                  *)
LowDone(b) ==
  batch[b].cycle = "HIGH" =>
    \A l \in InKiln(plan, b) :
      Needs[Owner[l]] = Cycles =>
        InBatches(plan, l, {b} \cup LitHigh(batch)) <= InBatches(plan, l, FiredLow(batch))

CheckLow(r) ==
  /\ ReqAt(r, "parents") /\ Unlocked(r) = {}
  /\ IF Is(r, "START") /\ (InKiln(plan, Call(r).to) = {} \/ ~LowDone(Call(r).to)) THEN Refuse(r)
     ELSE Goto(r, "write") /\ UNCHANGED <<kilnRows, held>>

Start(r) ==
  /\ ReqAt(r, "write") /\ Is(r, "START")
  /\ batch' = [batch EXCEPT ![Call(r).to].status = "STARTED", ![Call(r).to].version = @ + 1]
  /\ End(r, "done")
  /\ UNCHANGED <<open, plan, layout, ops>>

(* What is called off gives back all its pieces. *)
Cancel(r) ==
  /\ ReqAt(r, "write") /\ Is(r, "CANCEL")
  /\ LET b == Call(r).to
     IN  /\ plan' = TakenOut(plan, b, plan[b])
         /\ batch' = [batch EXCEPT ![b] = [Emptier(@, plan[b]) EXCEPT !.status = "CANCELLED"]]
  /\ End(r, "done")
  /\ UNCHANGED <<open, layout, ops>>

Complete(r) ==
  /\ ReqAt(r, "call") /\ Is(r, "COMPLETE")
  /\ Unheld(Row(Call(r).to))
  /\ LET b == Call(r).to
     IN  IF batch[b].status = "COMPLETED" THEN End(r, "found") /\ UNCHANGED kilnRows
         ELSE IF batch[b].status # "STARTED" THEN Refuse(r)
         ELSE /\ batch' = [batch EXCEPT ![b].status = "COMPLETED", ![b].version = @ + 1]
              /\ End(r, "done")
              /\ UNCHANGED <<open, plan, layout, ops>>

-----------------------------------------------------------------------------
(* An order is completed or cancelled; the batches it is in do not notice. *)
CloseOrder(s) ==
  /\ s \notin Loads /\ open[s] /\ Unheld(<<"source", s>>)
  /\ open' = [open EXCEPT ![s] = FALSE]
  /\ UNCHANGED <<batch, plan, layout, ops, held, req>>

(* Another statement fails, the client goes away or the process dies.  *)
Forsake(r) ==
  /\ req[r].pc \in Waiting
  /\ End(r, "lost") /\ UNCHANGED kilnRows

(* The locks the next statement of r needs and does not have yet. *)
Wants(r) ==
  CASE ReqAt(r, "call") -> IF Call(r).op \in Keyed THEN KeyOf(r) ELSE {Row(Call(r).to)}
    [] ReqAt(r, "key") /\ Call(r).op \in Planning -> SourceOf(r)
    [] ReqAt(r, "key") /\ Is(r, "LAYOUT") -> {Row(Call(r).to)}
    [] ReqAt(r, "parent") -> {Row(FirstBatch(r))}
    [] ReqAt(r, "second") -> {Row(SecondBatch(r))}
    [] ReqAt(r, "parents") /\ Unlocked(r) # {} -> {<<"source", Min(Unlocked(r))>>}
    [] OTHER -> {}

Blockers(r) == {held[x] : x \in Wants(r)} \ {Nil}

Circle(S) == S # {} /\ \A r \in S : Blockers(r) \cap S # {}

(* PostgreSQL's deadlock detector cancels one transaction of a circle in    *)
(* which each waits for another.                                            *)
BreakCircle(r) ==
  /\ \E S \in SUBSET Requests : r \in S /\ Circle(S)
  /\ End(r, "lost") /\ UNCHANGED kilnRows

Plan(r) ==
  \/ Recall(r) \/ LockKey(r) \/ Create(r) \/ Update(r) \/ LockMap(r) \/ SaveLayout(r)
  \/ Resolve(r) \/ LockBatch(r) \/ LockSecond(r) \/ Write(r)
Fire(r) == LockForEnd(r) \/ LockParent(r) \/ CheckLow(r) \/ Start(r) \/ Cancel(r) \/ Complete(r)
Step(r) == Plan(r) \/ Fire(r)

KilnNext ==
  \/ \E r \in Requests, c \in Calls : Arrive(r, c)
  \/ \E r \in Requests : Step(r) \/ Forsake(r) \/ BreakCircle(r)
  \/ \E s \in Sources : CloseOrder(s)

KilnSpec == KilnInit /\ [][KilnNext]_kilnVars

(* A request that arrived keeps running while nothing blocks it, and a      *)
(* circle of requests that wait does not outlast the deadlock detector.     *)
KilnFairness == \A r \in Requests : WF_kilnVars(Step(r) \/ BreakCircle(r))

KilnLiveSpec == KilnSpec /\ KilnFairness

-----------------------------------------------------------------------------
(* Whatever is planned, moved or called off meanwhile, the counter of a     *)
(* batch is the volume of its pieces and fits its kiln, and no piece is     *)
(* planned twice in one cycle.                                              *)
PlanAddsUp == KilnTypeOK /\ CounterIsVolume(batch, plan) /\ PiecesOnce(batch, plan)

(* Whoever plans, moves or lights meanwhile, what is in a kiln may be there *)
(* together and in that fire.                                               *)
LoadedRight == NoRawHigh(batch, plan) /\ ExclusiveAlone(batch, plan)

(* What is in a kiln that was lit stays in it, where the map places it, and *)
(* a batch that ended does not come back.                                   *)
FiredStays ==
  [][\A b \in Batches :
       Batch(b) /\ batch[b].status # "PLANNED" =>
         /\ plan'[b] = plan[b] /\ layout'[b] = layout[b]
         /\ batch'[b].status # batch[b].status =>
              batch[b].status = "STARTED" /\ batch'[b].status = "COMPLETED"]_kilnVars

(* Every request that arrived ends, and a repetition waits for the first of *)
(* its kind and finds it: none dies of the register of keys.                *)
EveryRequestEnds ==
  \A r \in Requests : req[r].pc \in Waiting ~> req[r].pc \in Over \ {"clash"}
=============================================================================
