---------------------------- MODULE QuoterV2Draft ----------------------------
(***************************************************************************)
(* The content of Quoter V2 quotations while they are drafts: pieces       *)
(* (lines), the processes each piece asks for, the tasks that put a person *)
(* on them, and the price written for all of it.                           *)
(*                                                                         *)
(* Every handler opens with SELECT ... FOR UPDATE on the header of the     *)
(* quotation, before it reads anything else, and refuses what is no draft: *)
(* requests on one quotation run one after another, so a handler is one    *)
(* step here.  Requests on two quotations do interleave, and what joins    *)
(* them is what the foreign keys join.                                     *)
(***************************************************************************)
EXTENDS Integers, FiniteSets

CONSTANTS
  Quotations,
  Lines,        \* ids of pieces; the id of a deleted piece is not used again
  Products,     \* pieces of the catalogue
  Techniques,
  Manual,       \* techniques whose hours a person decides
  Workers,
  Knows,        \* [Workers -> SUBSET Techniques]
  Default,      \* [{"UNIT", "WHOLESALE"} -> Workers \cup {None}]
  Loose,        \* ids of tasks that were not born of a process
  MaxPieces,    \* bound of the pieces of a line
  MaxRate,      \* bound of the pay of a worker
  MaxEdits,     \* bound of the requests of a behaviour
  ForeignLines, \* a task may name a piece of another quotation
  None, Gone     \* no row; the row of a deleted piece

Pairs == Lines \X Techniques
TaskIds == Pairs \cup Loose
Pieces == 1..MaxPieces
Terms == {"planning", "illustration", "extras"}

ASSUME DraftAssumption ==
  /\ Manual \subseteq Techniques
  /\ Knows \in [Workers -> SUBSET Techniques]
  /\ Default \in [{"UNIT", "WHOLESALE"} -> Workers \cup {None}]
  /\ MaxPieces \in Nat \ {0} /\ MaxRate \in Nat \ {0} /\ MaxEdits \in Nat
  /\ ForeignLines \in BOOLEAN
  /\ Loose \cap Pairs = {}

VARIABLES
  status,   \* DRAFT, or CONFIRMED: issued
  kind,     \* type of order, which decides the worker by default
  terms,    \* decisions that are priced: which of them are on
  line,     \* None, a row, or Gone
  process,  \* row of each pair of piece and technique (UNIQUE), or None
  task,     \* a task born of a process has its pair for an id
  frozen,   \* the pay of each worker in each quotation, 0 if he never entered
  rate,     \* the pay of each worker in the master
  asks,     \* the techniques each product of the catalogue asks for
  priced,   \* what the totals of a quotation were last computed from
  edits

content == <<terms, kind, line, process, task, frozen>>
masters == <<rate, asks>>
vars == <<status, content, masters, priced, edits>>

LineRow == [quote : Quotations, product : Products \cup {None}, qty : Pieces]
ProcessRow == [origin : {"PRODUCT", "MANUAL"}, live : BOOLEAN,
               qty : 0..MaxPieces, typed : BOOLEAN]
TaskRow == [quote : Quotations, line : Lines \cup {None}, technique : Techniques,
            worker : Workers, qty : 0..MaxPieces, agreed : BOOLEAN,
            by : {"DEFAULT", "MANUAL"}]

(* What stands for no row, or for a deleted one, is no row and no id. *)
ASSUME RowAssumption ==
  /\ None # Gone
  /\ None \notin LineRow \cup ProcessRow \cup TaskRow \cup Lines
  /\ Gone \notin LineRow

TypeOK ==
  /\ status \in [Quotations -> {"DRAFT", "CONFIRMED"}]
  /\ kind \in [Quotations -> {"UNIT", "WHOLESALE"}]
  /\ terms \in [Quotations -> SUBSET Terms]
  /\ line \in [Lines -> LineRow \cup {None, Gone}]
  /\ process \in [Pairs -> ProcessRow \cup {None}]
  /\ task \in [TaskIds -> TaskRow \cup {None}]
  /\ frozen \in [Quotations -> [Workers -> 0..MaxRate]]
  /\ rate \in [Workers -> 1..MaxRate]
  /\ asks \in [Products -> SUBSET Techniques]
  /\ DOMAIN priced = Quotations
  /\ edits \in 0..MaxEdits

-----------------------------------------------------------------------------
(* Operators named X_Slip are X with a plausible coding slip; no action     *)
(* uses one.  Each shows that some property would notice the slip.          *)

Row(l) == line[l] \notin {None, Gone}
LinesOf(L, q) == {l \in Lines : L[l] \notin {None, Gone} /\ L[l].quote = q}
TasksOf(T, q) == {k \in TaskIds : T[k] # None /\ T[k].quote = q}
Lives(P, k) == P[k] # None /\ P[k].live

(* What refresh_pricing reads: the pieces, the decisions, and each person   *)
(* with a task once, at the pay frozen for this quotation.                  *)
Basis(q, L, T, F, D) ==
  [pieces |-> [l \in LinesOf(L, q) |-> L[l]],
   people |-> [w \in {T[k].worker : k \in TasksOf(T, q)} |-> F[q][w]],
   terms  |-> D[q]]

Init ==
  /\ status = [q \in Quotations |-> "DRAFT"]
  /\ kind = [q \in Quotations |-> "UNIT"]
  /\ terms = [q \in Quotations |-> {}]
  /\ line = [l \in Lines |-> None]
  /\ process = [k \in Pairs |-> None]
  /\ task = [k \in TaskIds |-> None]
  /\ frozen = [q \in Quotations |-> [w \in Workers |-> 0]]
  /\ rate = [w \in Workers |-> 1]
  /\ asks \in [Products -> SUBSET Techniques]
  /\ priced = [q \in Quotations |-> Basis(q, line, task, frozen, terms)]
  /\ edits = 0

(* Slip: the status is read and not looked at. *)
Draft_Slip(q) == edits < MaxEdits /\ edits' = edits + 1

(* The header, locked: only a draft can be edited. *)
Draft(q) ==
  /\ status[q] = "DRAFT"
  /\ edits < MaxEdits
  /\ edits' = edits + 1

(* Slip: the totals wait for somebody to open the price tab. *)
Refreshed_Slip(q) == UNCHANGED priced

(* refresh_pricing, the end of every handler. *)
Refreshed(q) == priced' = [priced EXCEPT ![q] = Basis(q, line', task', frozen', terms')]

(* INSERT ... ON CONFLICT DO NOTHING: the first pay of a person stays. *)
Freeze(q, who) ==
  frozen' = [frozen EXCEPT ![q] =
    [w \in Workers |-> IF w \in who /\ @[w] = 0 THEN rate[w] ELSE @[w]]]

NewTask(q, l, t, w, n, by) ==
  [quote |-> q, line |-> l, technique |-> t, worker |-> w, qty |-> n, agreed |-> FALSE, by |-> by]

(* assign_default_worker: processes with nobody on them go to the worker by *)
(* default, if he knows the technique.                                      *)
DefaultTakes(q, keys, T) ==
  {k \in keys : T[k] = None /\ Default[kind[q]] # None /\ k[2] \in Knows[Default[kind[q]]]}

WithDefault(q, keys, P, T) ==
  [k \in TaskIds |-> IF k \in DefaultTakes(q, keys, T)
                     THEN NewTask(q, k[1], k[2], Default[kind[q]], P[k].qty, "DEFAULT")
                     ELSE T[k]]

FreezeDefault(q, keys, T) ==
  Freeze(q, IF DefaultTakes(q, keys, T) = {} THEN {} ELSE {Default[kind[q]]})

(* generate_for_line: the processes the product asks for, but for the pairs *)
(* that already have a row, a removed one included.                         *)
Missing(l, p, P) ==
  {k \in {l} \X (IF p = None THEN {} ELSE asks[p]) : P[k] = None}

Generated(l, p, n, P) ==
  [k \in Pairs |-> IF k \in Missing(l, p, P)
                   THEN [origin |-> "PRODUCT", live |-> TRUE, qty |-> n, typed |-> FALSE]
                   ELSE P[k]]

-----------------------------------------------------------------------------
AddLine(q, l, p, n) ==
  /\ Draft(q)
  /\ line[l] = None
  /\ line' = [line EXCEPT ![l] = [quote |-> q, product |-> p, qty |-> n]]
  /\ process' = Generated(l, p, n, process)
  /\ LET born == Missing(l, p, process)
     IN  /\ task' = WithDefault(q, born, process', task)
         /\ FreezeDefault(q, born, task)
  /\ UNCHANGED <<status, kind, terms, masters>>
  /\ Refreshed(q)

(* reset_product_processes: what the old product brought leaves with its    *)
(* tasks, removed processes included; what was added by hand stays.         *)
OfOldProduct(l) ==
  {k \in {l} \X Techniques : process[k] # None /\ process[k].origin = "PRODUCT"}

(* Slip: only the processes with somebody on them follow. *)
Follows_Slip(l, P) ==
  {k \in {l} \X Techniques : task[k] # None /\ Lives(P, k) /\ ~P[k].typed /\ k[2] \notin Manual}

(* sync_quantity: the processes that follow the pieces of their line, and   *)
(* their tasks unless their hours were agreed.                              *)
Follows(l, P) ==
  {k \in {l} \X Techniques : Lives(P, k) /\ ~P[k].typed /\ k[2] \notin Manual}

Synced(keys, T, n) ==
  [k \in TaskIds |-> IF k \in keys /\ T[k] # None /\ ~T[k].agreed
                     THEN [T[k] EXCEPT !.qty = n] ELSE T[k]]

UpdateLine(q, l, p, n) ==
  /\ Draft(q)
  /\ Row(l) /\ line[l].quote = q
  /\ <<p, n>> # <<line[l].product, line[l].qty>>
  /\ line' = [line EXCEPT ![l] = [@ EXCEPT !.product = p, !.qty = n]]
  /\ LET old == IF p # line[l].product THEN OfOldProduct(l) ELSE {}
         kept == [k \in Pairs |-> IF k \in old THEN None ELSE process[k]]
         now == IF p # line[l].product THEN Generated(l, p, n, kept) ELSE kept
         work == [k \in TaskIds |-> IF k \in old THEN None ELSE task[k]]
         moved == IF n # line[l].qty THEN Follows(l, now) ELSE {}
     IN  /\ process' = [k \in Pairs |-> IF k \in moved THEN [now[k] EXCEPT !.qty = n] ELSE now[k]]
         /\ task' = Synced(moved, work, n)
  /\ UNCHANGED <<status, kind, terms, frozen, masters>>
  /\ Refreshed(q)

(* The foreign keys to the piece cascade, in every quotation. *)
DeleteLine(q, l) ==
  /\ Draft(q)
  /\ Row(l) /\ line[l].quote = q
  /\ line' = [line EXCEPT ![l] = Gone]
  /\ process' = [k \in Pairs |-> IF k[1] = l THEN None ELSE process[k]]
  /\ task' = [k \in TaskIds |-> IF task[k] # None /\ task[k].line = l THEN None ELSE task[k]]
  /\ UNCHANGED <<status, kind, terms, frozen, masters>>
  /\ Refreshed(q)

-----------------------------------------------------------------------------
(* A process of this quotation that is not removed (_proceso). *)
Process(q, k) == Lives(process, k) /\ Row(k[1]) /\ line[k[1]].quote = q

(* A removed process comes back in its own row, with the origin it had;     *)
(* n = None leaves the pieces to the line.                                  *)
AddProcess(q, k, n) ==
  /\ Draft(q)
  /\ Row(k[1]) /\ line[k[1]].quote = q
  /\ ~Lives(process, k)
  /\ LET qty == IF n # None THEN n ELSE IF k[2] \in Manual THEN 0 ELSE line[k[1]].qty
         origin == IF process[k] = None THEN "MANUAL" ELSE process[k].origin
     IN  process' = [process EXCEPT ![k] =
           [origin |-> origin, live |-> TRUE, qty |-> qty, typed |-> n # None]]
  /\ task' = WithDefault(q, {k}, process', task)
  /\ FreezeDefault(q, {k}, task)
  /\ UNCHANGED <<status, kind, terms, line, masters>>
  /\ IF DefaultTakes(q, {k}, task) = {} THEN UNCHANGED priced ELSE Refreshed(q)

SetQuantity(q, k, n) ==
  /\ Draft(q)
  /\ Process(q, k)
  /\ process' = [process EXCEPT ![k].qty = n, ![k].typed = TRUE]
  /\ task' = Synced({k}, task, n)
  /\ UNCHANGED <<status, kind, terms, line, frozen, masters>>
  /\ Refreshed(q)

RemoveProcess(q, k) ==
  /\ Draft(q)
  /\ Process(q, k)
  /\ process' = [process EXCEPT ![k].live = FALSE]
  /\ task' = [task EXCEPT ![k] = None]
  /\ UNCHANGED <<status, kind, terms, line, frozen, masters>>
  /\ Refreshed(q)

(* A person who is chosen now must know the technique; choosing the person  *)
(* who has the task already is no choice.                                   *)
Chosen(row, w) ==
  IF w = row.worker THEN row ELSE [row EXCEPT !.worker = w, !.by = "MANUAL"]

AssignWorker(q, k, w) ==
  /\ Draft(q)
  /\ Process(q, k)
  /\ LET has == task[k] # None
         row == IF has THEN Chosen(task[k], w)
                ELSE NewTask(q, k[1], k[2], w, process[k].qty, "MANUAL")
     IN  /\ (has /\ w = task[k].worker) \/ row.technique \in Knows[w]
         /\ task' = [task EXCEPT ![k] = row]
  /\ Freeze(q, {w})
  /\ UNCHANGED <<status, kind, terms, line, process, masters>>
  /\ Refreshed(q)

UnassignWorker(q, k) ==
  /\ Draft(q)
  /\ Process(q, k) /\ task[k] # None
  /\ task' = [task EXCEPT ![k] = None]
  /\ UNCHANGED <<status, kind, terms, line, process, frozen, masters>>
  /\ Refreshed(q)

-----------------------------------------------------------------------------
(* The piece a task names is not looked up in the quotation. *)
Named(q) == {None} \cup (IF ForeignLines THEN {l \in Lines : Row(l)} ELSE LinesOf(line, q))

(* A task of its own may not repeat a live process of its piece; extra      *)
(* personnel may.                                                           *)
AddLabor(q, i, l, t, w, n, extra) ==
  /\ Draft(q)
  /\ i \in Loose /\ task[i] = None
  /\ l \in Named(q) /\ t \in Knows[w]
  /\ ~extra /\ l # None => ~Lives(process, <<l, t>>)
  /\ task' = [task EXCEPT ![i] = NewTask(q, l, t, w, n, "MANUAL")]
  /\ Freeze(q, {w})
  /\ UNCHANGED <<status, kind, terms, line, process, masters>>
  /\ Refreshed(q)

(* load_worker_techniques: one task per technique that is not loaded yet    *)
(* and is no live process of the piece.  Here the piece is looked up.       *)
LoadWorker(q, w, l, ts) ==
  /\ Draft(q)
  /\ l \in {None} \cup LinesOf(line, q)
  /\ ts \subseteq Knows[w] /\ ts # {}
  /\ LET loaded == {task[k].technique : k \in {i \in TasksOf(task, q) :
                                                 task[i].worker = w /\ task[i].line = l}}
         inWork == IF l = None THEN {} ELSE {t \in Techniques : Lives(process, <<l, t>>)}
         fresh == ts \ (loaded \cup inWork)
     IN  /\ fresh # {}
         /\ \E id \in [fresh -> {i \in Loose : task[i] = None}] :
              /\ \A s, t \in fresh : id[s] = id[t] => s = t
              /\ task' = [k \in TaskIds |->
                   IF \E t \in fresh : id[t] = k
                   THEN LET t == CHOOSE u \in fresh : id[u] = k
                        IN  NewTask(q, l, t, w,
                              IF t \in Manual \/ l = None THEN 0 ELSE line[l].qty, "MANUAL")
                   ELSE task[k]]
  /\ Freeze(q, {w})
  /\ UNCHANGED <<status, kind, terms, line, process, masters>>
  /\ Refreshed(q)

(* PUT of a task: the fields that come.  Changing the pair of person and    *)
(* technique asks for one that is enabled.                                  *)
Rewrites(row, q) ==
  {Chosen(row, w) : w \in {v \in Workers : row.technique \in Knows[v]}}
    \cup {[row EXCEPT !.technique = t] : t \in Knows[row.worker]}
    \cup {[row EXCEPT !.line = l] : l \in Named(q)}
    \cup {[row EXCEPT !.qty = n] : n \in Pieces}
    \cup {[row EXCEPT !.agreed = a] : a \in BOOLEAN}

UpdateLabor(q, k) ==
  /\ Draft(q)
  /\ task[k] # None /\ task[k].quote = q
  /\ \E row \in Rewrites(task[k], q) :
       /\ row # task[k]
       /\ task' = [task EXCEPT ![k] = row]
       /\ Freeze(q, {row.worker})
  /\ UNCHANGED <<status, kind, terms, line, process, masters>>
  /\ Refreshed(q)

DeleteLabor(q, k) ==
  /\ Draft(q)
  /\ task[k] # None /\ task[k].quote = q
  /\ task' = [task EXCEPT ![k] = None]
  /\ UNCHANGED <<status, kind, terms, line, process, frozen, masters>>
  /\ Refreshed(q)

-----------------------------------------------------------------------------
(* plan_wholesale_labor: what a person chose stays; the rest goes to the    *)
(* external worker if he knows the technique of the process.                *)
(* Slip: everything goes to him. *)
Reassigned_Slip(q, ext) ==
  {k \in Pairs : /\ Process(q, k) /\ k[2] \in Knows[ext]
                 /\ task[k] = None \/ task[k].worker # ext}

Reassigned(q, ext) ==
  {k \in Pairs : /\ Process(q, k) /\ k[2] \in Knows[ext]
                 /\ task[k] = None \/ (task[k].by = "DEFAULT" /\ task[k].worker # ext)}

ApplyDefaults(q) ==
  /\ Draft(q)
  /\ kind' = [kind EXCEPT ![q] = "WHOLESALE"]
  /\ LET ext == Default["WHOLESALE"]
         keys == IF ext = None THEN {} ELSE Reassigned(q, ext)
     IN  /\ \A k \in keys : task[k] # None => task[k].technique \in Knows[ext]
         /\ task' = [k \in TaskIds |->
              IF k \notin keys THEN task[k]
              ELSE IF task[k] # None THEN [task[k] EXCEPT !.worker = ext]
              ELSE NewTask(q, k[1], k[2], ext, process[k].qty, "DEFAULT")]
         /\ Freeze(q, IF keys = {} THEN {} ELSE {ext})
  /\ UNCHANGED <<status, terms, line, process, masters>>
  /\ Refreshed(q)

WriteTerm(q, d) ==
  /\ Draft(q)
  /\ terms' = [terms EXCEPT ![q] = IF d \in @ THEN @ \ {d} ELSE @ \cup {d}]
  /\ UNCHANGED <<status, kind, line, process, task, frozen, masters>>
  /\ Refreshed(q)

SetPlanning(q) == WriteTerm(q, "planning")
SetIllustration(q) == WriteTerm(q, "illustration")
EditExtras(q) == WriteTerm(q, "extras")

(* What blocks the issue here: a technique the product asks for that the    *)
(* piece lacks, a process with nobody on it, a piece without any task; the  *)
(* tasks are looked up by piece, whatever their quotation.                  *)
Staffed(q) ==
  /\ \A k \in LinesOf(line, q) \X Techniques : Lives(process, k) => task[k] # None
  /\ \A l \in LinesOf(line, q) : \E k \in TaskIds : task[k] # None /\ task[k].line = l

Equipped(q) ==
  \A l \in LinesOf(line, q) :
    line[l].product # None => \A t \in asks[line[l].product] : Lives(process, <<l, t>>)

(* The issue of the quotation; QuoterV2Lifecycle has the rest of it. *)
Confirm(q) ==
  /\ Draft(q)
  /\ LinesOf(line, q) # {} /\ Equipped(q) /\ Staffed(q)
  /\ status' = [status EXCEPT ![q] = "CONFIRMED"]
  /\ UNCHANGED <<content, masters>>
  /\ Refreshed(q)

-----------------------------------------------------------------------------
(* The masters, which lock no quotation. *)
UpdateWorker(w) ==
  /\ edits < MaxEdits /\ edits' = edits + 1
  /\ rate[w] < MaxRate
  /\ rate' = [rate EXCEPT ![w] = @ + 1]
  /\ UNCHANGED <<status, content, asks, priced>>

SetProductTechniques(p, ts) ==
  /\ edits < MaxEdits /\ edits' = edits + 1
  /\ asks[p] # ts
  /\ asks' = [asks EXCEPT ![p] = ts]
  /\ UNCHANGED <<status, content, rate, priced>>

EditPieces ==
  \/ \E q \in Quotations, l \in Lines, p \in Products \cup {None}, n \in Pieces :
       AddLine(q, l, p, n) \/ UpdateLine(q, l, p, n)
  \/ \E q \in Quotations, l \in Lines : DeleteLine(q, l)

EditProcesses ==
  \/ \E q \in Quotations, k \in Pairs, n \in Pieces \cup {None} : AddProcess(q, k, n)
  \/ \E q \in Quotations, k \in Pairs, n \in Pieces : SetQuantity(q, k, n)
  \/ \E q \in Quotations, k \in Pairs : RemoveProcess(q, k) \/ UnassignWorker(q, k)
  \/ \E q \in Quotations, k \in Pairs, w \in Workers : AssignWorker(q, k, w)

EditLabor ==
  \/ \E q \in Quotations, i \in Loose, l \in Lines \cup {None}, t \in Techniques,
        w \in Workers, n \in Pieces, extra \in BOOLEAN : AddLabor(q, i, l, t, w, n, extra)
  \/ \E q \in Quotations, w \in Workers, l \in Lines \cup {None}, ts \in SUBSET Techniques :
       LoadWorker(q, w, l, ts)
  \/ \E q \in Quotations, k \in TaskIds : UpdateLabor(q, k) \/ DeleteLabor(q, k)

Decide ==
  \E q \in Quotations :
    ApplyDefaults(q) \/ SetPlanning(q) \/ SetIllustration(q) \/ EditExtras(q) \/ Confirm(q)

EditMasters ==
  \/ \E w \in Workers : UpdateWorker(w)
  \/ \E p \in Products, ts \in SUBSET Techniques : SetProductTechniques(p, ts)

Next == EditPieces \/ EditProcesses \/ EditLabor \/ Decide \/ EditMasters

Spec == Init /\ [][Next]_vars

-----------------------------------------------------------------------------
(* The totals a quotation shows are those of what it holds: every piece,    *)
(* every decision and every person with work in it, after any request,      *)
(* also one that changed another quotation.                                 *)
PriceIsOfContent ==
  \A q \in Quotations : priced[q] = Basis(q, line, task, frozen, terms)

(* A process whose pieces nobody typed and whose hours the standard gives   *)
(* is for the pieces its line has now, whatever was changed, removed,       *)
(* brought back or generated on the way.                                    *)
ProcessFollowsLine ==
  \A k \in Pairs :
    Lives(process, k) /\ ~process[k].typed /\ k[2] \notin Manual =>
      Row(k[1]) /\ process[k].qty = line[k[1]].qty

(* Nobody works on a process that was taken off its piece. *)
NoWorkForRemoved ==
  \A k \in Pairs : process[k] # None /\ ~process[k].live => task[k] = None

(* What is to be made, by which process and by whom agree, however the      *)
(* pieces, their processes and their tasks were changed.                    *)
WorkFollowsPieces == TypeOK /\ ProcessFollowsLine /\ NoWorkForRemoved

Holds(q) == [basis |-> Basis(q, line, task, frozen, terms),
             tasks |-> {<<k, task[k]>> : k \in TasksOf(task, q)},
             processes |-> {<<k, process[k]>> : k \in LinesOf(line, q) \X Techniques}]

(* An issued quotation keeps its pieces, processes, tasks and people,       *)
(* whatever happens to drafts and to the masters.                           *)
IssuedStands ==
  [][\A q \in Quotations : status[q] = "CONFIRMED" => Holds(q)' = Holds(q)]_vars

(* No piece was ever issued without work of its own quotation on it, nor a  *)
(* process with nobody to do it.                                            *)
IssuedIsStaffed ==
  \A q \in Quotations :
    status[q] = "CONFIRMED" =>
      \A l \in LinesOf(line, q) :
        /\ \E k \in TasksOf(task, q) : task[k].line = l
        /\ \A t \in Techniques : Lives(process, <<l, t>>) => <<l, t>> \in TasksOf(task, q)

(* Raising the pay of a person does not change what he costs in a quotation *)
(* he has entered, even if he left it and comes back.                       *)
PayRemembered ==
  [][\A q \in Quotations, w \in Workers :
       w \in DOMAIN priced[q].people /\ w \in DOMAIN priced'[q].people =>
         priced'[q].people[w] = priced[q].people[w]]_vars

(* A person whom somebody chose keeps the task until somebody chooses       *)
(* another: neither the defaults of the type of order nor a change of       *)
(* pieces gives it to someone else.                                         *)
ChoiceStands ==
  [][\A k \in TaskIds :
       task[k] # None /\ task'[k] # None /\ task[k].by = "MANUAL" =>
         \/ task'[k].worker = task[k].worker
         \/ \E q \in Quotations :
              UpdateLabor(q, k) \/ (k \in Pairs /\ AssignWorker(q, k, task'[k].worker))]_vars

(* A process somebody took off a piece comes back only by adding it again,  *)
(* or with another product that brings processes of its own.                *)
RemovedStaysRemoved ==
  [][\A k \in Pairs :
       /\ process[k] # None /\ ~process[k].live
       /\ Lives(process', k)
       => \/ \E q \in Quotations, n \in Pieces \cup {None} : AddProcess(q, k, n)
          \/ (process[k].origin = "PRODUCT" /\ line'[k[1]].product # line[k[1]].product)]_vars

(* More pieces are more work: a change of the pieces of a line reaches the  *)
(* tasks of all its processes in the same request, but for hours that were  *)
(* agreed and pieces that were typed.                                       *)
PiecesReachTheWork ==
  [][\A l \in Lines :
       /\ Row(l) /\ line'[l] \notin {None, Gone}
       /\ line'[l].qty # line[l].qty
       => \A k \in Follows(l, process') :
            task'[k] = None \/ task'[k].agreed \/ task'[k].qty = line'[l].qty]_vars

(* What somebody decided about a quotation stays as it was decided: the pay *)
(* of a person, who does a task, that a process is left out, how many       *)
(* pieces there are.                                                        *)
DecisionsStand == PayRemembered /\ ChoiceStands /\ RemovedStaysRemoved /\ PiecesReachTheWork
=============================================================================
