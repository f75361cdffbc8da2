------------------------ MODULE QuoterV2Draft_proofs ------------------------
(***************************************************************************)
(* Proofs about QuoterV2Draft, for any number of quotations, pieces,       *)
(* techniques, people and tasks, any catalogue and any defaults.           *)
(*                                                                         *)
(* A request on a quotation locks that quotation only, so the argument is  *)
(* about what it may reach: its own pieces and their processes, ids nobody *)
(* uses, and tasks of its own (Edited).  That every task is of the         *)
(* quotation its process or its piece is of is what makes the reach end    *)
(* there.  The second half holds only while screens send pieces of the     *)
(* quotation they edit (~ForeignLines): nothing in the code checks it, and *)
(* the theorems that need it say so.                                       *)
(***************************************************************************)
EXTENDS QuoterV2Draft, TLAPS

-----------------------------------------------------------------------------
(* A task born of a process is of the quotation its piece is of.            *)
PairsOfTheirQuotation ==
  \A k \in Pairs :
    task[k] # None =>
      /\ line[k[1]] # None
      /\ Row(k[1]) => line[k[1]].quote = task[k].quote

(* Whoever has a task entered the quotation, and his pay was frozen; the    *)
(* totals show that pay.                                                    *)
Paid ==
  \A k \in TaskIds : task[k] # None => frozen[task[k].quote][task[k].worker] # 0
PaidAsShown ==
  \A q \in Quotations : \A w \in DOMAIN priced[q].people :
    w \in Workers /\ frozen[q][w] # 0 /\ priced[q].people[w] = frozen[q][w]

(* Where screens send pieces of the quotation they edit, a task names a     *)
(* piece of its own quotation.                                              *)
OwnPieces ==
  \A k \in TaskIds :
    task[k] # None /\ task[k].line # None => task[k].line \in LinesOf(line, task[k].quote)

IInv ==
  /\ TypeOK
  /\ ProcessFollowsLine
  /\ NoWorkForRemoved
  /\ PairsOfTheirQuotation
  /\ Paid
  /\ PaidAsShown
  /\ ~ForeignLines => OwnPieces /\ PriceIsOfContent /\ IssuedIsStaffed

-----------------------------------------------------------------------------
(* The operators of the model.                                             *)

LEMMA RowType ==
  ASSUME TypeOK, NEW l \in Lines, Row(l)
  PROVE  line[l] \in LineRow
BY DEF TypeOK, Row

LEMMA TaskType ==
  ASSUME TypeOK, NEW k \in TaskIds, task[k] # None
  PROVE  task[k] \in TaskRow
BY DEF TypeOK

LEMMA ProcessType ==
  ASSUME TypeOK, NEW k \in Pairs, process[k] # None
  PROVE  process[k] \in ProcessRow
BY DEF TypeOK

LEMMA PairParts ==
  ASSUME NEW k \in Pairs
  PROVE  k[1] \in Lines /\ k[2] \in Techniques /\ k = <<k[1], k[2]>> /\ k \in TaskIds
BY DEF Pairs, TaskIds

LEMMA NewTaskType ==
  ASSUME NEW q \in Quotations, NEW l \in Lines \cup {None}, NEW t \in Techniques,
         NEW w \in Workers, NEW n \in 0..MaxPieces, NEW by \in {"DEFAULT", "MANUAL"}
  PROVE  /\ NewTask(q, l, t, w, n, by) \in TaskRow
         /\ NewTask(q, l, t, w, n, by) # None
         /\ NewTask(q, l, t, w, n, by).quote = q
         /\ NewTask(q, l, t, w, n, by).line = l
         /\ NewTask(q, l, t, w, n, by).worker = w
<1>1. NewTask(q, l, t, w, n, by) \in TaskRow
  BY DEF NewTask, TaskRow
<1> QED BY <1>1, RowAssumption DEF NewTask

(* Freezing pays touches one quotation, sets a pay for each person that     *)
(* enters it, and changes none that was set.                                *)
KeepsPay(q) ==
  /\ frozen' \in [Quotations -> [Workers -> 0..MaxRate]]
  /\ \A p \in Quotations \ {q} : frozen'[p] = frozen[p]
  /\ \A w \in Workers : frozen[q][w] # 0 => frozen'[q][w] = frozen[q][w]

LEMMA FreezeKeeps ==
  ASSUME TypeOK, NEW q \in Quotations, NEW who \in SUBSET Workers, Freeze(q, who)
  PROVE  KeepsPay(q) /\ \A w \in who : frozen'[q][w] # 0
<1>1. /\ frozen \in [Quotations -> [Workers -> 0..MaxRate]]
      /\ rate \in [Workers -> 1..MaxRate] /\ MaxRate \in Nat \ {0}
  BY DraftAssumption DEF TypeOK
<1>2. PICK f : f = [w \in Workers |-> IF w \in who /\ frozen[q][w] = 0 THEN rate[w] ELSE frozen[q][w]]
  OBVIOUS
<1>3. f \in [Workers -> 0..MaxRate]
  BY <1>1, <1>2
<1>4. frozen' = [frozen EXCEPT ![q] = f]
  BY <1>2 DEF Freeze
<1>5. \A w \in Workers : frozen[q][w] # 0 => f[w] = frozen[q][w]
  BY <1>2
<1>6. \A w \in who : f[w] # 0
  BY <1>1, <1>2
<1> QED BY <1>1, <1>3, <1>4, <1>5, <1>6 DEF KeepsPay

LEMMA SameKeeps ==
  ASSUME TypeOK, NEW q \in Quotations, frozen' = frozen
  PROVE  KeepsPay(q)
BY DEF TypeOK, KeepsPay

LEMMA DefaultType ==
  ASSUME TypeOK, NEW q \in Quotations, Default[kind[q]] # None
  PROVE  Default[kind[q]] \in Workers
BY DraftAssumption DEF TypeOK

LEMMA GeneratedType ==
  ASSUME TypeOK, NEW l \in Lines, NEW p \in Products \cup {None}, NEW n \in Pieces,
         NEW P \in [Pairs -> ProcessRow \cup {None}]
  PROVE  /\ Generated(l, p, n, P) \in [Pairs -> ProcessRow \cup {None}]
         /\ Missing(l, p, P) \subseteq Pairs
         /\ \A k \in Missing(l, p, P) :
              k[1] = l /\ P[k] = None
              /\ Generated(l, p, n, P)[k] =
                   [origin |-> "PRODUCT", live |-> TRUE, qty |-> n, typed |-> FALSE]
         /\ \A k \in Pairs \ Missing(l, p, P) : Generated(l, p, n, P)[k] = P[k]
<1>1. PICK r : r = [origin |-> "PRODUCT", live |-> TRUE, qty |-> n, typed |-> FALSE]
  OBVIOUS
<1>2. r \in ProcessRow
  BY <1>1, DraftAssumption DEF ProcessRow, Pieces
<1>3. Missing(l, p, P) \subseteq Pairs
  BY DEF TypeOK, Missing, Pairs
<1>4. \A k \in Missing(l, p, P) : k[1] = l /\ P[k] = None
  BY DEF Missing
<1>5. Generated(l, p, n, P) = [k \in Pairs |-> IF k \in Missing(l, p, P) THEN r ELSE P[k]]
  BY <1>1 DEF Generated
<1>6. Generated(l, p, n, P) \in [Pairs -> ProcessRow \cup {None}]
  BY <1>2, <1>5
<1> QED BY <1>1, <1>3, <1>4, <1>5, <1>6

LEMMA DefaultTasks ==
  ASSUME TypeOK, NEW q \in Quotations, NEW keys \in SUBSET Pairs,
         NEW P, \A k \in keys : P[k].qty \in 0..MaxPieces,
         task' = WithDefault(q, keys, P, task), FreezeDefault(q, keys, task)
  PROVE  /\ KeepsPay(q)
         /\ task' \in [TaskIds -> TaskRow \cup {None}]
         /\ \A k \in TaskIds : task'[k] # task[k] =>
              /\ k \in keys /\ task[k] = None
              /\ task'[k] # None /\ task'[k].quote = q /\ task'[k].line = k[1]
              /\ frozen'[q][task'[k].worker] # 0
         /\ DefaultTakes(q, keys, task) = {} => task' = task /\ frozen' = frozen
<1> DEFINE takes == DefaultTakes(q, keys, task)
           w == Default[kind[q]]
           new(k) == NewTask(q, k[1], k[2], w, P[k].qty, "DEFAULT")
<1>1. takes \subseteq keys /\ \A k \in takes : task[k] = None /\ w # None
  BY DEF DefaultTakes
<1>2. takes # {} => w \in Workers
  BY <1>1, DefaultType
<1>3. \A k \in takes : k \in Pairs /\ k[1] \in Lines /\ k[2] \in Techniques
  BY <1>1, PairParts
<1>4. \A k \in takes : /\ new(k) \in TaskRow /\ new(k) # None
                       /\ new(k).quote = q /\ new(k).line = k[1] /\ new(k).worker = w
  <2> TAKE k \in takes
  <2>1. P[k].qty \in 0..MaxPieces /\ k[1] \in Lines \cup {None} /\ k[2] \in Techniques /\ w \in Workers
    BY <1>1, <1>2, <1>3
  <2> HIDE DEF takes, w
  <2> QED BY <2>1, NewTaskType
<1>5. /\ DOMAIN task' = TaskIds
      /\ task' = [k \in TaskIds |-> IF k \in takes THEN new(k) ELSE task[k]]
  BY DEF WithDefault
<1>6. PICK who : who = IF takes = {} THEN {} ELSE {w}
  OBVIOUS
<1>7. who \in SUBSET Workers /\ Freeze(q, who)
  BY <1>2, <1>6 DEF FreezeDefault
<1>8. KeepsPay(q) /\ \A v \in who : frozen'[q][v] # 0
  BY <1>7, FreezeKeeps
<1>9. task' \in [TaskIds -> TaskRow \cup {None}]
  <2>1. task \in [TaskIds -> TaskRow \cup {None}]
    BY DEF TypeOK
  <2> HIDE DEF takes, new
  <2> QED BY <1>4, <1>5, <2>1
<1>10. ASSUME NEW k \in TaskIds, task'[k] # task[k]
       PROVE  /\ k \in keys /\ task[k] = None
              /\ task'[k] # None /\ task'[k].quote = q /\ task'[k].line = k[1]
              /\ frozen'[q][task'[k].worker] # 0
  <2> HIDE DEF takes, new, w
  <2>1. k \in takes /\ task'[k] = new(k)
    BY <1>5, <1>10
  <2> QED BY <1>1, <1>4, <1>6, <1>8, <2>1
<1>11. takes = {} => task' = task /\ frozen' = frozen
  <2> SUFFICES ASSUME takes = {} PROVE task' = task /\ frozen' = frozen
    OBVIOUS
  <2>1. task' = task
    <3> HIDE DEF takes, new
    <3> QED BY <1>5 DEF TypeOK
  <2>2. Freeze(q, {})
    BY <1>6, <1>7
  <2>3. frozen \in [Quotations -> [Workers -> 0..MaxRate]]
    BY DEF TypeOK
  <2>4. frozen' = [frozen EXCEPT ![q] = [w_1 \in Workers |-> frozen[q][w_1]]]
    BY <2>2 DEF Freeze
  <2>5. [w_1 \in Workers |-> frozen[q][w_1]] = frozen[q]
    BY <2>3
  <2> QED BY <2>1, <2>3, <2>4, <2>5
<1> QED BY <1>8, <1>9, <1>10, <1>11

(* Moving pieces into tasks changes nothing else of them.                   *)
LEMMA SyncedTasks ==
  ASSUME NEW T \in [TaskIds -> TaskRow \cup {None}], NEW keys, NEW n \in Pieces
  PROVE  /\ Synced(keys, T, n) \in [TaskIds -> TaskRow \cup {None}]
         /\ \A k \in TaskIds :
              /\ T[k] = None <=> Synced(keys, T, n)[k] = None
              /\ k \notin keys => Synced(keys, T, n)[k] = T[k]
              /\ T[k] # None =>
                   /\ Synced(keys, T, n)[k].quote = T[k].quote
                   /\ Synced(keys, T, n)[k].line = T[k].line
                   /\ Synced(keys, T, n)[k].worker = T[k].worker
                   /\ k \in keys => \/ Synced(keys, T, n)[k].agreed
                                    \/ Synced(keys, T, n)[k].qty = n
<1> DEFINE new(k) == [T[k] EXCEPT !.qty = n]
<1>1. \A k \in TaskIds : T[k] # None =>
        /\ new(k) \in TaskRow /\ new(k).quote = T[k].quote /\ new(k).line = T[k].line
        /\ new(k).worker = T[k].worker /\ new(k).qty = n
  <2> TAKE k \in TaskIds
  <2> HAVE T[k] # None
  <2>1. T[k] \in TaskRow /\ n \in 0..MaxPieces
    BY DraftAssumption DEF Pieces
  <2> QED BY <2>1 DEF TaskRow
<1>2. None \notin TaskRow
  BY RowAssumption
<1>3. Synced(keys, T, n) =
        [k \in TaskIds |-> IF k \in keys /\ T[k] # None /\ ~T[k].agreed THEN new(k) ELSE T[k]]
  BY DEF Synced
<1> HIDE DEF new
<1>4. Synced(keys, T, n) \in [TaskIds -> TaskRow \cup {None}]
  BY <1>1, <1>3
<1> QED BY <1>1, <1>2, <1>3, <1>4

-----------------------------------------------------------------------------
(* What a request on quotation q may touch: its own pieces, or ids nobody   *)
(* uses; the processes of those; and tasks of its own.  A piece that leaves *)
(* takes the tasks that name it with it, which is where a task of another   *)
(* quotation would be reached.                                              *)
Touches(q, l) == line[l] = None \/ l \in LinesOf(line, q)

EditedPieces(q) ==
  \A l \in Lines : line'[l] # line[l] =>
    /\ Touches(q, l)
    /\ line'[l] # None
    /\ line'[l] # Gone => l \in LinesOf(line', q)
    /\ line'[l] = Gone => \A k \in TaskIds : task'[k] # None => task'[k].line # l

EditedProcesses(q) ==
  \A k \in Pairs : process'[k] # process[k] => Touches(q, k[1])

EditedTasks(q) ==
  \A k \in TaskIds : task'[k] # task[k] =>
    /\ task'[k] # None \/ ~ForeignLines => task[k] = None \/ task[k].quote = q
    /\ task'[k] # None =>
         /\ task'[k].quote = q
         /\ frozen'[q][task'[k].worker] # 0
         /\ ~ForeignLines /\ task'[k].line # None => task'[k].line \in LinesOf(line', q)
         /\ k \in Pairs /\ task[k] = None => k[1] \in LinesOf(line', q)

Edited(q) ==
  /\ EditedPieces(q) /\ EditedProcesses(q) /\ EditedTasks(q)
  /\ KeepsPay(q)
  /\ \A p \in Quotations \ {q} : terms'[p] = terms[p]
  /\ Refreshed(q) \/ UNCHANGED <<line, task, frozen, terms, priced>>

LEMMA InLines ==
  ASSUME NEW L, NEW l \in Lines, NEW q
  PROVE  l \in LinesOf(L, q) <=> L[l] # None /\ L[l] # Gone /\ L[l].quote = q
BY DEF LinesOf

LEMMA PairsStand ==
  ASSUME PairsOfTheirQuotation, NEW q \in Quotations, Edited(q)
  PROVE  PairsOfTheirQuotation'
<1> SUFFICES ASSUME NEW k \in Pairs, task'[k] # None
             PROVE  /\ line'[k[1]] # None
                    /\ line'[k[1]] \notin {None, Gone} => line'[k[1]].quote = task'[k].quote
  BY DEF PairsOfTheirQuotation, Row
<1>1. k[1] \in Lines /\ k \in TaskIds
  BY PairParts
<1>2. CASE task[k] = None
  <2>1. task'[k].quote = q /\ k[1] \in LinesOf(line', q)
    BY <1>1, <1>2 DEF Edited, EditedTasks
  <2> QED BY <1>1, <2>1 DEF LinesOf
<1>3. CASE task[k] # None
  <2>1. line[k[1]] # None /\ (line[k[1]] # Gone => line[k[1]].quote = task[k].quote)
    BY <1>3 DEF PairsOfTheirQuotation, Row
  <2>2. task'[k].quote = task[k].quote
    BY <1>1, <1>3 DEF Edited, EditedTasks
  <2>3. CASE line'[k[1]] = line[k[1]]
    BY <2>1, <2>2, <2>3
  <2>4. CASE line'[k[1]] # line[k[1]]
    <3>1. /\ k[1] \in LinesOf(line, q) /\ line'[k[1]] # None
          /\ line'[k[1]] # Gone => k[1] \in LinesOf(line', q)
      BY <1>1, <2>1, <2>4 DEF Edited, EditedPieces, Touches
    <3> QED BY <1>1, <2>1, <2>2, <3>1 DEF LinesOf
  <2> QED BY <2>3, <2>4
<1> QED BY <1>2, <1>3

LEMMA PaidStands ==
  ASSUME TypeOK, Paid, NEW q \in Quotations, Edited(q)
  PROVE  Paid'
<1> SUFFICES ASSUME NEW k \in TaskIds, task'[k] # None
             PROVE  frozen'[task'[k].quote][task'[k].worker] # 0
  BY DEF Paid
<1>1. CASE task'[k] = task[k]
  <2>1. task[k].quote \in Quotations /\ task[k].worker \in Workers
    BY <1>1, TaskType DEF TaskRow
  <2>2. frozen[task[k].quote][task[k].worker] # 0
    BY <1>1 DEF Paid
  <2> QED BY <1>1, <2>1, <2>2 DEF Edited, KeepsPay
<1>2. CASE task'[k] # task[k]
  BY <1>2 DEF Edited, EditedTasks
<1> QED BY <1>1, <1>2

LEMMA ShownStands ==
  ASSUME TypeOK, TypeOK', Paid', PaidAsShown, NEW q \in Quotations, Edited(q)
  PROVE  PaidAsShown'
<1> SUFFICES ASSUME NEW p \in Quotations, NEW w \in DOMAIN priced'[p].people
             PROVE  w \in Workers /\ frozen'[p][w] # 0 /\ priced'[p].people[w] = frozen'[p][w]
  BY DEF PaidAsShown
<1>1. CASE priced'[p] = priced[p]
  <2>1. w \in Workers /\ frozen[p][w] # 0 /\ priced[p].people[w] = frozen[p][w]
    BY <1>1 DEF PaidAsShown
  <2> QED BY <1>1, <2>1 DEF Edited, KeepsPay
<1>2. CASE p = q /\ Refreshed(q)
  <2>1. priced'[q] = Basis(q, line', task', frozen', terms')
    BY <1>2 DEF Refreshed, TypeOK
  <2>2. priced'[q].people = [v \in {task'[k].worker : k \in TasksOf(task', q)} |-> frozen'[q][v]]
    BY <2>1 DEF Basis
  <2>3. PICK k \in TasksOf(task', q) : w = task'[k].worker
    BY <1>2, <2>2
  <2>4. k \in TaskIds /\ task'[k] # None /\ task'[k].quote = q
    BY <2>3 DEF TasksOf
  <2>5. w \in Workers
    BY <2>3, <2>4 DEF TypeOK, TaskRow
  <2>6. frozen'[q][w] # 0
    BY <2>3, <2>4 DEF Paid
  <2> QED BY <1>2, <2>2, <2>3, <2>5, <2>6
<1>3. priced'[p] = priced[p] \/ (p = q /\ Refreshed(q))
  BY DEF Edited, Refreshed, TypeOK
<1> QED BY <1>1, <1>2, <1>3

LEMMA PiecesStand ==
  ASSUME TypeOK, OwnPieces, ~ForeignLines, NEW q \in Quotations, Edited(q)
  PROVE  OwnPieces'
<1> SUFFICES ASSUME NEW k \in TaskIds, task'[k] # None, task'[k].line # None
             PROVE  task'[k].line \in LinesOf(line', task'[k].quote)
  BY DEF OwnPieces
<1>1. CASE task'[k] # task[k]
  BY <1>1 DEF Edited, EditedTasks
<1>2. CASE task'[k] = task[k]
  <2> DEFINE l == task[k].line  p == task[k].quote
  <2>1. l \in LinesOf(line, p)
    BY <1>2 DEF OwnPieces
  <2>2. l \in Lines /\ line[l] # None /\ line[l] # Gone /\ line[l].quote = p
    BY <2>1 DEF LinesOf
  <2>3. CASE line'[l] = line[l]
    BY <1>2, <2>2, <2>3 DEF LinesOf
  <2>4. CASE line'[l] # line[l]
    <3>1. l \in LinesOf(line, q) /\ (line'[l] # Gone => l \in LinesOf(line', q)) /\ line'[l] # Gone
      BY <1>2, <2>2, <2>4 DEF Edited, EditedPieces, Touches
    <3>2. p = q
      BY <2>2, <3>1 DEF LinesOf
    <3> QED BY <1>2, <3>1, <3>2
  <2> QED BY <2>3, <2>4
<1> QED BY <1>1, <1>2

(* A request on one quotation leaves what another holds as it was.          *)
LEMMA OthersStand ==
  ASSUME ~ForeignLines, NEW q \in Quotations, Edited(q), NEW p \in Quotations \ {q}
  PROVE  /\ Holds(p)' = Holds(p)
         /\ LinesOf(line', p) = LinesOf(line, p)
         /\ TasksOf(task', p) = TasksOf(task, p)
         /\ \A k \in TasksOf(task, p) : task'[k] = task[k]
         /\ \A k \in LinesOf(line, p) \X Techniques : process'[k] = process[k]
         /\ Basis(p, line', task', frozen', terms') = Basis(p, line, task, frozen, terms)
<1>1. \A l \in LinesOf(line, p) \cup LinesOf(line', p) : line'[l] = line[l]
  BY DEF Edited, EditedPieces, Touches, LinesOf
<1>2. LinesOf(line', p) = LinesOf(line, p)
  BY <1>1 DEF LinesOf
<1>3. \A k \in TasksOf(task, p) \cup TasksOf(task', p) : task'[k] = task[k]
  BY DEF Edited, EditedTasks, TasksOf
<1>4. TasksOf(task', p) = TasksOf(task, p)
  BY <1>3 DEF TasksOf
<1>5. \A k \in LinesOf(line, p) \X Techniques : process'[k] = process[k]
  <2> TAKE k \in LinesOf(line, p) \X Techniques
  <2>1. k \in Pairs /\ k[1] \in LinesOf(line, p)
    BY DEF Pairs, LinesOf
  <2>2. ~Touches(q, k[1])
    BY <2>1 DEF Touches, LinesOf
  <2> QED BY <2>1, <2>2 DEF Edited, EditedProcesses
<1>6. frozen'[p] = frozen[p] /\ terms'[p] = terms[p]
  BY DEF Edited, KeepsPay
<1>7. Basis(p, line', task', frozen', terms') = Basis(p, line, task, frozen, terms)
  <2>1. [l \in LinesOf(line', p) |-> line'[l]] = [l \in LinesOf(line, p) |-> line[l]]
    BY <1>1, <1>2
  <2>2. {task'[k].worker : k \in TasksOf(task', p)} = {task[k].worker : k \in TasksOf(task, p)}
    BY <1>3, <1>4
  <2>3. [w \in {task'[k].worker : k \in TasksOf(task', p)} |-> frozen'[p][w]]
          = [w \in {task[k].worker : k \in TasksOf(task, p)} |-> frozen[p][w]]
    BY <1>6, <2>2
  <2> QED BY <1>6, <2>1, <2>3 DEF Basis
<1>8. {<<k, task'[k]>> : k \in TasksOf(task', p)} = {<<k, task[k]>> : k \in TasksOf(task, p)}
  BY <1>3, <1>4
<1>9. {<<k, process'[k]>> : k \in LinesOf(line', p) \X Techniques}
        = {<<k, process[k]>> : k \in LinesOf(line, p) \X Techniques}
  BY <1>2, <1>5
<1>10. Holds(p)' = Holds(p)
  BY <1>7, <1>8, <1>9 DEF Holds
<1> QED BY <1>2, <1>3, <1>4, <1>5, <1>7, <1>10

LEMMA PriceStands ==
  ASSUME TypeOK, PriceIsOfContent, ~ForeignLines, NEW q \in Quotations, Edited(q)
  PROVE  PriceIsOfContent'
<1> SUFFICES ASSUME NEW p \in Quotations
             PROVE  priced'[p] = Basis(p, line', task', frozen', terms')
  BY DEF PriceIsOfContent
<1>1. priced[p] = Basis(p, line, task, frozen, terms)
  BY DEF PriceIsOfContent
<1>2. CASE p = q /\ Refreshed(q)
  BY <1>2 DEF Refreshed, TypeOK
<1>3. CASE p # q
  <2>1. priced'[p] = priced[p]
    BY <1>3 DEF Edited, Refreshed, TypeOK
  <2> QED BY <1>1, <1>3, <2>1, OthersStand
<1>4. CASE UNCHANGED <<line, task, frozen, terms, priced>>
  BY <1>1, <1>4
<1> QED BY <1>2, <1>3, <1>4 DEF Edited

-----------------------------------------------------------------------------
(* The requests on people and tasks.                                       *)

LEMMA DraftFacts ==
  ASSUME TypeOK, NEW q \in Quotations, Draft(q), Refreshed(q) \/ UNCHANGED priced
  PROVE  /\ status[q] = "DRAFT"
         /\ edits' \in 0..MaxEdits
         /\ DOMAIN priced' = Quotations
<1>1. edits' \in 0..MaxEdits
  BY DraftAssumption DEF Draft, TypeOK
<1>2. DOMAIN priced' = Quotations
  BY DEF Refreshed, TypeOK
<1> QED BY <1>1, <1>2 DEF Draft

Sound(q) ==
  /\ TypeOK' /\ ProcessFollowsLine' /\ NoWorkForRemoved'
  /\ Edited(q)
  /\ status[q] = "DRAFT"

(* Tasks move, and pieces and processes do not.                             *)
LaborMoves(q) ==
  /\ task' \in [TaskIds -> TaskRow \cup {None}]
  /\ \A k \in TaskIds : task'[k] # task[k] =>
       /\ task[k] = None \/ task[k].quote = q
       /\ task'[k] # None =>
            /\ task'[k].quote = q
            /\ frozen'[q][task'[k].worker] # 0
            /\ ~ForeignLines /\ task'[k].line # None => task'[k].line \in LinesOf(line, q)
            /\ k \in Pairs /\ task[k] = None => Process(q, k)

LEMMA LaborIsSound ==
  ASSUME IInv, NEW q \in Quotations, Draft(q), LaborMoves(q), KeepsPay(q),
         UNCHANGED <<line, process, masters>>,
         terms' \in [Quotations -> SUBSET Terms], \A p \in Quotations \ {q} : terms'[p] = terms[p],
         status' \in [Quotations -> {"DRAFT", "CONFIRMED"}],
         kind' \in [Quotations -> {"UNIT", "WHOLESALE"}], Refreshed(q)
  PROVE  Sound(q)
<1>1. TypeOK /\ status[q] = "DRAFT" /\ edits' \in 0..MaxEdits /\ DOMAIN priced' = Quotations
  BY DraftFacts DEF IInv
<1>2. TypeOK'
  BY <1>1 DEF TypeOK, LaborMoves, KeepsPay, masters
<1>3. ProcessFollowsLine'
  BY DEF IInv, ProcessFollowsLine, Lives, Row
<1>4. NoWorkForRemoved'
  <2> SUFFICES ASSUME NEW k \in Pairs, process[k] # None, ~process[k].live, task'[k] # None
               PROVE  FALSE
    BY DEF NoWorkForRemoved
  <2>1. task[k] = None /\ k \in TaskIds
    BY PairParts DEF IInv, NoWorkForRemoved
  <2>2. Process(q, k)
    BY <2>1 DEF LaborMoves
  <2> QED BY <2>2 DEF Process, Lives
<1>5. EditedPieces(q) /\ EditedProcesses(q)
  BY DEF EditedPieces, EditedProcesses
<1>6. EditedTasks(q)
  <2>1. LinesOf(line', q) = LinesOf(line, q)
    BY DEF LinesOf
  <2>2. \A k \in Pairs : Process(q, k) => k[1] \in LinesOf(line, q)
    BY PairParts DEF Process, LinesOf, Row
  <2> QED BY <2>1, <2>2 DEF EditedTasks, LaborMoves
<1> QED BY <1>1, <1>2, <1>3, <1>4, <1>5, <1>6 DEF Sound, Edited

LEMMA ChosenType ==
  ASSUME NEW row \in TaskRow, NEW w \in Workers
  PROVE  /\ Chosen(row, w) \in TaskRow
         /\ Chosen(row, w) # None
         /\ Chosen(row, w).quote = row.quote
         /\ Chosen(row, w).line = row.line
         /\ Chosen(row, w).worker = w
<1>1. [row EXCEPT !.worker = w, !.by = "MANUAL"] \in TaskRow
  BY DEF TaskRow
<1>2. Chosen(row, w) \in TaskRow
  BY <1>1 DEF Chosen
<1> QED BY <1>2, RowAssumption DEF Chosen, TaskRow

(* The piece a task of the quotation names is one of its own.               *)
LEMMA OwnLine ==
  ASSUME IInv, ~ForeignLines, NEW k \in TaskIds, task[k] # None, task[k].line # None
  PROVE  task[k].line \in LinesOf(line, task[k].quote)
BY DEF IInv, OwnPieces

LEMMA ProcessTask ==
  ASSUME IInv, NEW q \in Quotations, NEW k \in Pairs, Process(q, k)
  PROVE  /\ k[1] \in LinesOf(line, q)
         /\ process[k] \in ProcessRow
         /\ task[k] # None => task[k].quote = q /\ task[k] \in TaskRow
<1>1. k[1] \in Lines /\ k \in TaskIds /\ TypeOK
  BY PairParts DEF IInv
<1>2. Row(k[1]) /\ line[k[1]].quote = q /\ process[k] # None
  BY DEF Process, Lives
<1>3. task[k] # None => task[k].quote = q
  BY <1>2 DEF IInv, PairsOfTheirQuotation
<1> QED BY <1>1, <1>2, <1>3, TaskType, ProcessType DEF LinesOf, Row

LEMMA AssignWorkerSound ==
  ASSUME IInv, NEW q \in Quotations, NEW k \in Pairs, NEW w \in Workers, AssignWorker(q, k, w)
  PROVE  Sound(q) /\ task' = [task EXCEPT ![k] = task'[k]] /\ task'[k].worker = w
<1>1. /\ TypeOK /\ k \in TaskIds /\ k[1] \in Lines /\ k[2] \in Techniques
      /\ Draft(q) /\ Process(q, k) /\ Refreshed(q)
      /\ UNCHANGED <<status, kind, terms, line, process, masters>>
  BY PairParts DEF IInv, AssignWorker
<1>2. PICK row : /\ task' = [task EXCEPT ![k] = row]
                 /\ row = IF task[k] # None THEN Chosen(task[k], w)
                          ELSE NewTask(q, k[1], k[2], w, process[k].qty, "MANUAL")
  BY DEF AssignWorker
<1>3. KeepsPay(q) /\ frozen'[q][w] # 0
  BY <1>1, FreezeKeeps DEF AssignWorker
<1>4. /\ k[1] \in LinesOf(line, q) /\ process[k].qty \in 0..MaxPieces
      /\ task[k] # None => task[k].quote = q /\ task[k] \in TaskRow
  BY <1>1, ProcessTask DEF ProcessRow
<1>5. /\ row \in TaskRow /\ row # None /\ row.quote = q /\ row.worker = w
      /\ row.line = IF task[k] # None THEN task[k].line ELSE k[1]
  <2>1. CASE task[k] # None
    BY <1>2, <1>4, <2>1, ChosenType
  <2>2. CASE task[k] = None
    BY <1>1, <1>2, <1>4, <2>2, NewTaskType
  <2> QED BY <2>1, <2>2
<1>6. ~ForeignLines /\ row.line # None => row.line \in LinesOf(line, q)
  BY <1>1, <1>4, <1>5, OwnLine
<1>7. task' \in [TaskIds -> TaskRow \cup {None}] /\ task'[k] = row
      /\ \A i \in TaskIds \ {k} : task'[i] = task[i]
  BY <1>1, <1>2, <1>5 DEF TypeOK
<1>8. LaborMoves(q)
  BY <1>1, <1>3, <1>4, <1>5, <1>6, <1>7 DEF LaborMoves
<1> QED BY <1>1, <1>2, <1>3, <1>5, <1>7, <1>8, LaborIsSound DEF TypeOK

LEMMA LeavesSound ==
  ASSUME IInv, NEW q \in Quotations, NEW k \in TaskIds, Draft(q),
         task[k] = None \/ task[k].quote = q, task' = [task EXCEPT ![k] = None],
         UNCHANGED <<status, kind, terms, line, process, frozen, masters>>, Refreshed(q)
  PROVE  Sound(q)
<1>1. TypeOK /\ KeepsPay(q)
  BY SameKeeps DEF IInv
<1>2. LaborMoves(q)
  BY <1>1 DEF LaborMoves, TypeOK
<1> QED BY <1>1, <1>2, LaborIsSound DEF TypeOK

LEMMA UnassignWorkerSound ==
  ASSUME IInv, NEW q \in Quotations, NEW k \in Pairs, UnassignWorker(q, k)
  PROVE  Sound(q) /\ task' = [task EXCEPT ![k] = None]
<1>1. k \in TaskIds /\ task[k].quote = q
  BY PairParts, ProcessTask DEF UnassignWorker
<1> QED BY <1>1, LeavesSound DEF UnassignWorker

LEMMA DeleteLaborSound ==
  ASSUME IInv, NEW q \in Quotations, NEW k \in TaskIds, DeleteLabor(q, k)
  PROVE  Sound(q) /\ task' = [task EXCEPT ![k] = None]
BY LeavesSound DEF DeleteLabor

LEMMA NamedPiece ==
  ASSUME IInv, NEW q, NEW l \in Named(q)
  PROVE  l \in Lines \cup {None} /\ (~ForeignLines /\ l # None => l \in LinesOf(line, q))
BY DEF Named, LinesOf

LEMMA AddLaborSound ==
  ASSUME IInv, NEW q \in Quotations, NEW i \in Loose, NEW l \in Lines \cup {None},
         NEW t \in Techniques, NEW w \in Workers, NEW n \in Pieces, NEW extra \in BOOLEAN,
         AddLabor(q, i, l, t, w, n, extra)
  PROVE  Sound(q) /\ \A k \in TaskIds : task'[k] = task[k] \/ task[k] = None
<1>1. /\ TypeOK /\ i \in TaskIds /\ i \notin Pairs /\ n \in 0..MaxPieces
      /\ Draft(q) /\ task[i] = None /\ l \in Named(q) /\ Refreshed(q)
      /\ UNCHANGED <<status, kind, terms, line, process, masters>>
  BY DraftAssumption DEF IInv, AddLabor, TaskIds, Pieces
<1>2. PICK row : task' = [task EXCEPT ![i] = row] /\ row = NewTask(q, l, t, w, n, "MANUAL")
  BY DEF AddLabor
<1>3. KeepsPay(q) /\ frozen'[q][w] # 0
  BY <1>1, FreezeKeeps DEF AddLabor
<1>4. row \in TaskRow /\ row # None /\ row.quote = q /\ row.worker = w /\ row.line = l
  BY <1>1, <1>2, NewTaskType
<1>5. task' \in [TaskIds -> TaskRow \cup {None}] /\ task'[i] = row
      /\ \A j \in TaskIds \ {i} : task'[j] = task[j]
  BY <1>1, <1>2, <1>4 DEF TypeOK
<1>6. LaborMoves(q)
  BY <1>1, <1>3, <1>4, <1>5, NamedPiece DEF LaborMoves
<1> QED BY <1>1, <1>3, <1>5, <1>6, LaborIsSound DEF TypeOK

LEMMA RewriteType ==
  ASSUME IInv, NEW q \in Quotations, NEW old \in TaskRow, NEW row \in Rewrites(old, q)
  PROVE  /\ row \in TaskRow /\ row # None /\ row.quote = old.quote
         /\ row.line = old.line \/ row.line \in Named(q)
<1>1. CASE row \in {Chosen(old, w) : w \in {v \in Workers : old.technique \in Knows[v]}}
  BY <1>1, ChosenType
<1>2. CASE row \in {[old EXCEPT !.technique = t] : t \in Knows[old.worker]}
  <2>1. Knows[old.worker] \subseteq Techniques
    BY DraftAssumption DEF TaskRow
  <2>2. row \in TaskRow /\ row.quote = old.quote /\ row.line = old.line
    BY <1>2, <2>1 DEF TaskRow
  <2> QED BY <2>2, RowAssumption
<1>3. CASE row \in {[old EXCEPT !.line = l] : l \in Named(q)}
  <2>1. \A l \in Named(q) : l \in Lines \cup {None}
    BY NamedPiece
  <2>2. row \in TaskRow /\ row.quote = old.quote /\ row.line \in Named(q)
    BY <1>3, <2>1 DEF TaskRow
  <2> QED BY <2>2, RowAssumption
<1>4. CASE row \in {[old EXCEPT !.qty = n] : n \in Pieces}
  <2>1. Pieces \subseteq 0..MaxPieces
    BY DraftAssumption DEF Pieces
  <2>2. row \in TaskRow /\ row.quote = old.quote /\ row.line = old.line
    BY <1>4, <2>1 DEF TaskRow
  <2> QED BY <2>2, RowAssumption
<1>5. CASE row \in {[old EXCEPT !.agreed = a] : a \in BOOLEAN}
  <2>1. row \in TaskRow /\ row.quote = old.quote /\ row.line = old.line
    BY <1>5 DEF TaskRow
  <2> QED BY <2>1, RowAssumption
<1> QED BY <1>1, <1>2, <1>3, <1>4, <1>5 DEF Rewrites

LEMMA UpdateLaborSound ==
  ASSUME IInv, NEW q \in Quotations, NEW k \in TaskIds, UpdateLabor(q, k)
  PROVE  Sound(q) /\ \A i \in TaskIds \ {k} : task'[i] = task[i]
<1>1. /\ TypeOK /\ Draft(q) /\ task[k] # None /\ task[k].quote = q /\ Refreshed(q)
      /\ task[k] \in TaskRow
      /\ UNCHANGED <<status, kind, terms, line, process, masters>>
  BY TaskType DEF IInv, UpdateLabor
<1>2. PICK row \in Rewrites(task[k], q) :
        task' = [task EXCEPT ![k] = row] /\ Freeze(q, {row.worker})
  BY DEF UpdateLabor
<1>3. /\ row \in TaskRow /\ row # None /\ row.quote = q
      /\ row.line = task[k].line \/ row.line \in Named(q)
  BY <1>1, <1>2, RewriteType
<1>4. KeepsPay(q) /\ frozen'[q][row.worker] # 0
  <2>1. {row.worker} \in SUBSET Workers
    BY <1>3 DEF TaskRow
  <2> QED BY <1>1, <1>2, <2>1, FreezeKeeps
<1>5. ~ForeignLines /\ row.line # None => row.line \in LinesOf(line, q)
  BY <1>1, <1>3, OwnLine, NamedPiece
<1>6. task' \in [TaskIds -> TaskRow \cup {None}] /\ task'[k] = row
      /\ \A i \in TaskIds \ {k} : task'[i] = task[i]
  BY <1>1, <1>2, <1>3 DEF TypeOK
<1>7. LaborMoves(q)
  BY <1>1, <1>3, <1>4, <1>5, <1>6 DEF LaborMoves
<1> QED BY <1>1, <1>4, <1>6, <1>7, LaborIsSound DEF TypeOK

LEMMA LoadWorkerSound ==
  ASSUME IInv, NEW q \in Quotations, NEW w \in Workers, NEW l \in Lines \cup {None},
         NEW ts \in SUBSET Techniques, LoadWorker(q, w, l, ts)
  PROVE  Sound(q) /\ \A k \in TaskIds : task'[k] = task[k] \/ task[k] = None
<1>1. /\ TypeOK /\ Draft(q) /\ l \in {None} \cup LinesOf(line, q) /\ Refreshed(q)
      /\ UNCHANGED <<status, kind, terms, line, process, masters>>
  BY DEF IInv, LoadWorker
<1>2. KeepsPay(q) /\ frozen'[q][w] # 0
  BY <1>1, FreezeKeeps DEF LoadWorker
<1> DEFINE qty(t) == IF t \in Manual \/ l = None THEN 0 ELSE line[l].qty
           new(t) == NewTask(q, l, t, w, qty(t), "MANUAL")
<1>3. \A t \in Techniques : /\ new(t) \in TaskRow /\ new(t) # None
                            /\ new(t).quote = q /\ new(t).worker = w /\ new(t).line = l
  <2> TAKE t \in Techniques
  <2>1. qty(t) \in 0..MaxPieces
    <3>1. CASE l = None
      BY <3>1, DraftAssumption
    <3>2. CASE l # None
      <4>1. l \in Lines /\ line[l] \in LineRow
        BY <1>1, <3>2 DEF LinesOf, TypeOK
      <4> QED BY <4>1, DraftAssumption DEF LineRow, Pieces
    <3> QED BY <3>1, <3>2
  <2> HIDE DEF qty
  <2> QED BY <2>1, NewTaskType
<1> DEFINE loaded == {task[k].technique : k \in {i \in TasksOf(task, q) :
                                                   task[i].worker = w /\ task[i].line = l}}
           inWork == IF l = None THEN {} ELSE {t \in Techniques : Lives(process, <<l, t>>)}
           fresh == ts \ (loaded \cup inWork)
<1>4. fresh \in SUBSET Techniques
  OBVIOUS
<1>5. PICK id \in [fresh -> {i \in Loose : task[i] = None}] :
        task' = [k \in TaskIds |-> IF \E t \in fresh : id[t] = k
                                   THEN LET t == CHOOSE u \in fresh : id[u] = k IN new(t)
                                   ELSE task[k]]
  BY Zenon DEF LoadWorker
<1> HIDE DEF fresh
<1> HIDE DEF new
<1>6. ASSUME NEW k \in TaskIds, \E t \in fresh : id[t] = k
      PROVE  task[k] = None /\ k \notin Pairs /\ \E t \in Techniques : task'[k] = new(t)
  <2>1. PICK t \in fresh : t = CHOOSE u \in fresh : id[u] = k
    BY <1>6
  <2>2. task'[k] = new(t) /\ t \in Techniques
    BY <1>4, <1>5, <1>6, <2>1
  <2>3. k \in Loose /\ task[k] = None
    BY <1>5, <1>6
  <2> QED BY <2>2, <2>3, DraftAssumption
<1>7. \A k \in TaskIds : ~(\E t \in fresh : id[t] = k) => task'[k] = task[k]
  BY <1>5
<1>8. task' \in [TaskIds -> TaskRow \cup {None}]
  <2>1. DOMAIN task' = TaskIds /\ task' = [k \in TaskIds |-> task'[k]]
    BY <1>5
  <2>2. \A k \in TaskIds : task'[k] \in TaskRow \cup {None}
    BY <1>1, <1>3, <1>6, <1>7 DEF TypeOK
  <2> QED BY <2>1, <2>2
<1>9. LaborMoves(q)
  BY <1>1, <1>2, <1>3, <1>6, <1>7, <1>8 DEF LaborMoves
<1>10. \A k \in TaskIds : task'[k] = task[k] \/ task[k] = None
  BY <1>6, <1>7
<1> QED BY <1>1, <1>2, <1>9, <1>10, LaborIsSound DEF TypeOK

LEMMA ApplyDefaultsSound ==
  ASSUME IInv, NEW q \in Quotations, ApplyDefaults(q)
  PROVE  /\ Sound(q)
         /\ \A k \in TaskIds : task'[k] = task[k] \/ task[k] = None \/ task[k].by = "DEFAULT"
<1> DEFINE ext == Default["WHOLESALE"]
<1>1. /\ TypeOK /\ Draft(q) /\ Refreshed(q)
      /\ UNCHANGED <<status, terms, line, process, masters>>
      /\ kind' = [kind EXCEPT ![q] = "WHOLESALE"]
  BY DEF IInv, ApplyDefaults
<1>2. PICK keys : /\ keys = IF ext = None THEN {} ELSE Reassigned(q, ext)
                  /\ task' = [k \in TaskIds |->
                       IF k \notin keys THEN task[k]
                       ELSE IF task[k] # None THEN [task[k] EXCEPT !.worker = ext]
                       ELSE NewTask(q, k[1], k[2], ext, process[k].qty, "DEFAULT")]
                  /\ Freeze(q, IF keys = {} THEN {} ELSE {ext})
  BY DEF ApplyDefaults
<1>3. keys # {} => ext \in Workers
  BY <1>2, DraftAssumption
<1>4. \A k \in keys : k \in Pairs /\ Process(q, k) /\ (task[k] # None => task[k].by = "DEFAULT")
  BY <1>2 DEF Reassigned
<1> HIDE DEF ext
<1>5. KeepsPay(q) /\ (keys # {} => frozen'[q][ext] # 0)
  <2>1. PICK who : who = IF keys = {} THEN {} ELSE {ext}
    OBVIOUS
  <2>2. who \in SUBSET Workers /\ Freeze(q, who)
    BY <1>2, <1>3, <2>1
  <2> QED BY <1>1, <2>1, <2>2, FreezeKeeps
<1>6. ASSUME NEW k \in keys, k \in TaskIds
      PROVE  /\ task'[k] \in TaskRow /\ task'[k] # None /\ task'[k].quote = q
             /\ task'[k].worker = ext
             /\ ~ForeignLines /\ task'[k].line # None => task'[k].line \in LinesOf(line, q)
             /\ task[k] = None \/ task[k].quote = q
  <2>1. /\ k[1] \in LinesOf(line, q) /\ process[k].qty \in 0..MaxPieces
        /\ task[k] # None => task[k].quote = q /\ task[k] \in TaskRow
    BY <1>4, ProcessTask DEF ProcessRow
  <2>2. CASE task[k] # None
    <3>1. task'[k] = [task[k] EXCEPT !.worker = ext]
      BY <1>2, <1>6, <2>2
    <3>2. PICK row \in TaskRow : row = task[k]
      BY <2>1, <2>2
    <3>3. PICK new : new = [row EXCEPT !.worker = ext]
      OBVIOUS
    <3>4. new \in TaskRow /\ new.quote = row.quote /\ new.line = row.line /\ new.worker = ext
      BY <1>3, <3>3 DEF TaskRow
    <3>5. task'[k] = new
      BY <3>1, <3>2, <3>3
    <3> QED BY <1>6, <2>1, <2>2, <3>2, <3>4, <3>5, OwnLine, RowAssumption
  <2>3. CASE task[k] = None
    <3>1. task'[k] = NewTask(q, k[1], k[2], ext, process[k].qty, "DEFAULT")
      BY <1>2, <1>6, <2>3
    <3>2. k[1] \in Lines \cup {None} /\ k[2] \in Techniques /\ ext \in Workers
      BY <1>3, <1>4, PairParts
    <3> QED BY <2>1, <2>3, <3>1, <3>2, NewTaskType
  <2> QED BY <2>2, <2>3
<1>7. \A k \in TaskIds \ keys : task'[k] = task[k]
  BY <1>2
<1>8. task' \in [TaskIds -> TaskRow \cup {None}]
  <2>1. DOMAIN task' = TaskIds /\ task' = [k \in TaskIds |-> task'[k]]
    BY <1>2
  <2>2. \A k \in TaskIds : task'[k] \in TaskRow \cup {None}
    BY <1>1, <1>6, <1>7 DEF TypeOK
  <2> QED BY <2>1, <2>2
<1>9. LaborMoves(q)
  BY <1>4, <1>5, <1>6, <1>7, <1>8 DEF LaborMoves
<1>10. kind' \in [Quotations -> {"UNIT", "WHOLESALE"}]
  BY <1>1 DEF TypeOK
<1>11. \A k \in TaskIds : task'[k] = task[k] \/ task[k] = None \/ task[k].by = "DEFAULT"
  BY <1>4, <1>7
<1> QED BY <1>1, <1>5, <1>9, <1>10, <1>11, LaborIsSound DEF TypeOK

-----------------------------------------------------------------------------
(* The requests on pieces and processes.                                   *)

(* The row of a piece that is written.                                      *)
LEMMA WrittenLine ==
  ASSUME TypeOK, NEW q \in Quotations, NEW l \in Lines, NEW row \in LineRow, row.quote = q,
         line' = [line EXCEPT ![l] = row]
  PROVE  /\ line' \in [Lines -> LineRow \cup {None, Gone}]
         /\ line'[l] = row /\ row \notin {None, Gone} /\ l \in LinesOf(line', q)
         /\ \A m \in Lines \ {l} : line'[m] = line[m]
BY RowAssumption DEF TypeOK, LinesOf

LEMMA AddLineSound ==
  ASSUME IInv, NEW q \in Quotations, NEW l \in Lines, NEW p \in Products \cup {None},
         NEW n \in Pieces, AddLine(q, l, p, n)
  PROVE  /\ Sound(q)
         /\ line[l] = None /\ \A m \in Lines \ {l} : line'[m] = line[m]
         /\ \A k \in TaskIds : task'[k] = task[k] \/ task[k] = None
         /\ \A k \in Pairs : process'[k] = process[k] \/ process[k] = None
<1>1. /\ TypeOK /\ Draft(q) /\ line[l] = None /\ Refreshed(q)
      /\ UNCHANGED <<status, kind, terms, masters>>
  BY DEF IInv, AddLine
<1>2. PICK row : row = [quote |-> q, product |-> p, qty |-> n]
  OBVIOUS
<1>3. row \in LineRow /\ row.quote = q /\ row.qty = n /\ line' = [line EXCEPT ![l] = row]
  BY <1>2 DEF LineRow, AddLine
<1>4. /\ line' \in [Lines -> LineRow \cup {None, Gone}]
      /\ line'[l] = row /\ row \notin {None, Gone} /\ l \in LinesOf(line', q)
      /\ \A m \in Lines \ {l} : line'[m] = line[m]
  BY <1>1, <1>3, WrittenLine
<1> DEFINE born == Missing(l, p, process)
<1>5. process \in [Pairs -> ProcessRow \cup {None}] /\ process' = Generated(l, p, n, process)
  BY <1>1 DEF TypeOK, AddLine
<1>6. /\ process' \in [Pairs -> ProcessRow \cup {None}] /\ born \subseteq Pairs
      /\ \A k \in born :
           /\ k[1] = l /\ process[k] = None
           /\ process'[k] = [origin |-> "PRODUCT", live |-> TRUE, qty |-> n, typed |-> FALSE]
      /\ \A k \in Pairs \ born : process'[k] = process[k]
  BY <1>1, <1>5, GeneratedType
<1>7. task' = WithDefault(q, born, process', task) /\ FreezeDefault(q, born, task)
  BY DEF AddLine
<1> HIDE DEF born
<1>8. \A k \in born : process'[k].qty \in 0..MaxPieces
  BY <1>6, DraftAssumption DEF Pieces
<1>9. /\ KeepsPay(q) /\ task' \in [TaskIds -> TaskRow \cup {None}]
      /\ \A k \in TaskIds : task'[k] # task[k] =>
           /\ k \in born /\ task[k] = None
           /\ task'[k] # None /\ task'[k].quote = q /\ task'[k].line = k[1]
           /\ frozen'[q][task'[k].worker] # 0
  BY <1>1, <1>6, <1>7, <1>8, DefaultTasks
<1>10. TypeOK'
  BY <1>1, <1>4, <1>6, <1>9, DraftFacts DEF TypeOK, KeepsPay, masters
<1>11. ProcessFollowsLine'
  <2> SUFFICES ASSUME NEW k \in Pairs, Lives(process', k), ~process'[k].typed, k[2] \notin Manual
               PROVE  line'[k[1]] \notin {None, Gone} /\ process'[k].qty = line'[k[1]].qty
    BY DEF ProcessFollowsLine, Row
  <2>1. CASE k \in born
    BY <1>3, <1>4, <1>6, <2>1
  <2>2. CASE k \notin born
    <3>1. Row(k[1]) /\ process[k].qty = line[k[1]].qty
      BY <1>6, <2>2 DEF IInv, ProcessFollowsLine, Lives
    <3> QED BY <1>1, <1>4, <1>6, <2>2, <3>1, PairParts DEF Row
  <2> QED BY <2>1, <2>2
<1>12. NoWorkForRemoved'
  <2> SUFFICES ASSUME NEW k \in Pairs, process'[k] # None, ~process'[k].live
               PROVE  task'[k] = None
    BY DEF NoWorkForRemoved
  <2>1. k \notin born
    BY <1>6
  <2>2. task[k] = None
    BY <1>6, <2>1 DEF IInv, NoWorkForRemoved
  <2> QED BY <1>9, <2>1, <2>2, PairParts
<1>13. EditedPieces(q) /\ EditedProcesses(q)
  BY <1>1, <1>4, <1>6, PairParts DEF EditedPieces, EditedProcesses, Touches
<1>14. EditedTasks(q)
  <2>1. \A k \in born : k[1] = l
    BY <1>6
  <2> QED BY <1>4, <1>9, <2>1 DEF EditedTasks
<1>15. Edited(q)
  BY <1>1, <1>9, <1>13, <1>14 DEF Edited
<1>16. status[q] = "DRAFT"
  BY <1>1 DEF Draft
<1>17. \A k \in TaskIds : task'[k] = task[k] \/ task[k] = None
  BY <1>9
<1> QED BY <1>1, <1>4, <1>6, <1>10, <1>11, <1>12, <1>15, <1>16, <1>17 DEF Sound

LEMMA DeleteLineSound ==
  ASSUME IInv, NEW q \in Quotations, NEW l \in Lines, DeleteLine(q, l)
  PROVE  /\ Sound(q)
         /\ line' = [line EXCEPT ![l] = Gone]
         /\ \A k \in TaskIds : task'[k] = task[k] \/ task'[k] = None
         /\ \A k \in Pairs : process'[k] = process[k] \/ process'[k] = None
<1>1. /\ TypeOK /\ Draft(q) /\ Row(l) /\ line[l].quote = q /\ Refreshed(q)
      /\ UNCHANGED <<status, kind, terms, frozen, masters>>
      /\ line' = [line EXCEPT ![l] = Gone]
      /\ process' = [k \in Pairs |-> IF k[1] = l THEN None ELSE process[k]]
      /\ task' = [k \in TaskIds |-> IF task[k] # None /\ task[k].line = l THEN None ELSE task[k]]
  BY DEF IInv, DeleteLine
<1>2. line' \in [Lines -> LineRow \cup {None, Gone}] /\ line'[l] = Gone
      /\ \A m \in Lines \ {l} : line'[m] = line[m]
  BY <1>1 DEF TypeOK
<1>3. /\ process' \in [Pairs -> ProcessRow \cup {None}]
      /\ \A k \in Pairs : process'[k] = IF k[1] = l THEN None ELSE process[k]
  BY <1>1 DEF TypeOK
<1>4. /\ task' \in [TaskIds -> TaskRow \cup {None}]
      /\ \A k \in TaskIds : task'[k] # None => task'[k] = task[k] /\ task[k].line # l
      /\ \A k \in TaskIds : task'[k] # task[k] => task'[k] = None /\ task[k] # None /\ task[k].line = l
  BY <1>1 DEF TypeOK
<1>5. KeepsPay(q)
  BY <1>1, SameKeeps
<1>6. TypeOK'
  BY <1>1, <1>2, <1>3, <1>4, <1>5, DraftFacts DEF TypeOK, KeepsPay, masters
<1>7. ProcessFollowsLine'
  <2> SUFFICES ASSUME NEW k \in Pairs, Lives(process', k), ~process'[k].typed, k[2] \notin Manual
               PROVE  line'[k[1]] \notin {None, Gone} /\ process'[k].qty = line'[k[1]].qty
    BY DEF ProcessFollowsLine, Row
  <2>1. k[1] # l /\ process'[k] = process[k]
    BY <1>3 DEF Lives
  <2>2. Row(k[1]) /\ process[k].qty = line[k[1]].qty
    BY <2>1 DEF IInv, ProcessFollowsLine, Lives
  <2> QED BY <1>2, <2>1, <2>2, PairParts DEF Row
<1>8. NoWorkForRemoved'
  BY <1>3, <1>4, PairParts DEF IInv, NoWorkForRemoved
<1>9. l \in LinesOf(line, q) /\ l # None
  BY <1>1, RowAssumption DEF LinesOf, Row
<1>10. EditedPieces(q)
  BY <1>2, <1>4, <1>9, RowAssumption DEF EditedPieces, Touches
<1>11. EditedProcesses(q)
  BY <1>3, <1>9 DEF EditedProcesses, Touches
<1>12. EditedTasks(q)
  <2> SUFFICES ASSUME NEW k \in TaskIds, task'[k] # task[k]
               PROVE  /\ task'[k] = None
                      /\ ~ForeignLines => task[k].quote = q
    BY DEF EditedTasks
  <2>1. task'[k] = None /\ task[k] # None /\ task[k].line = l
    BY <1>4
  <2>2. ~ForeignLines => l \in LinesOf(line, task[k].quote)
    BY <1>9, <2>1, OwnLine
  <2> QED BY <1>1, <2>1, <2>2 DEF LinesOf
<1>13. Edited(q)
  BY <1>1, <1>5, <1>10, <1>11, <1>12 DEF Edited
<1>14. status[q] = "DRAFT"
  BY <1>1 DEF Draft
<1>15. \A k \in TaskIds : task'[k] = task[k] \/ task'[k] = None
  BY <1>4
<1>16. \A k \in Pairs : process'[k] = process[k] \/ process'[k] = None
  BY <1>3
<1> QED BY <1>1, <1>6, <1>7, <1>8, <1>13, <1>14, <1>15, <1>16 DEF Sound

(* Pieces stay where they are.                                              *)
LEMMA PiecesStay ==
  ASSUME NEW q, line' = line
  PROVE  EditedPieces(q) /\ LinesOf(line', q) = LinesOf(line, q)
BY DEF EditedPieces, LinesOf

LEMMA AddProcessSound ==
  ASSUME IInv, NEW q \in Quotations, NEW k \in Pairs, NEW n \in Pieces \cup {None},
         AddProcess(q, k, n)
  PROVE  /\ Sound(q) /\ line' = line
         /\ \A i \in TaskIds : task'[i] = task[i] \/ task[i] = None
         /\ \A i \in Pairs \ {k} : process'[i] = process[i]
<1>1. /\ TypeOK /\ Draft(q) /\ Row(k[1]) /\ line[k[1]].quote = q
      /\ UNCHANGED <<status, kind, terms, line, masters>>
      /\ k[1] \in Lines /\ k \in TaskIds
  BY PairParts DEF IInv, AddProcess
<1>2. PICK row : /\ process' = [process EXCEPT ![k] = row]
                 /\ row = [origin |-> IF process[k] = None THEN "MANUAL" ELSE process[k].origin,
                           live |-> TRUE,
                           qty |-> IF n # None THEN n ELSE IF k[2] \in Manual THEN 0 ELSE line[k[1]].qty,
                           typed |-> n # None]
  BY DEF AddProcess
<1>3. line[k[1]] \in LineRow /\ k[1] \in LinesOf(line, q)
  BY <1>1, RowType DEF LinesOf, Row
<1>4. row \in ProcessRow
  <2>1. row.origin \in {"PRODUCT", "MANUAL"}
    BY <1>1, <1>2, ProcessType DEF ProcessRow
  <2>2. row.qty \in 0..MaxPieces
    BY <1>2, <1>3, DraftAssumption DEF LineRow, Pieces
  <2>3. row.live \in BOOLEAN /\ row.typed \in BOOLEAN
    BY <1>2
  <2>4. row = [origin |-> row.origin, live |-> row.live, qty |-> row.qty, typed |-> row.typed]
    BY <1>2
  <2> QED BY <2>1, <2>2, <2>3, <2>4 DEF ProcessRow
<1>5. /\ process' \in [Pairs -> ProcessRow \cup {None}] /\ process'[k] = row
      /\ \A i \in Pairs \ {k} : process'[i] = process[i]
  BY <1>1, <1>2, <1>4 DEF TypeOK
<1>6. /\ KeepsPay(q) /\ task' \in [TaskIds -> TaskRow \cup {None}]
      /\ \A i \in TaskIds : task'[i] # task[i] =>
           /\ i \in {k} /\ task[i] = None
           /\ task'[i] # None /\ task'[i].quote = q /\ task'[i].line = i[1]
           /\ frozen'[q][task'[i].worker] # 0
      /\ DefaultTakes(q, {k}, task) = {} => task' = task /\ frozen' = frozen
  <2>1. PICK keys \in SUBSET Pairs : keys = {k}
    OBVIOUS
  <2>2. task' = WithDefault(q, keys, process', task) /\ FreezeDefault(q, keys, task)
    BY <2>1 DEF AddProcess
  <2>3. \A i \in keys : process'[i].qty \in 0..MaxPieces
    BY <1>4, <1>5, <2>1 DEF ProcessRow
  <2>4. /\ KeepsPay(q) /\ task' \in [TaskIds -> TaskRow \cup {None}]
        /\ \A i \in TaskIds : task'[i] # task[i] =>
             /\ i \in keys /\ task[i] = None
             /\ task'[i] # None /\ task'[i].quote = q /\ task'[i].line = i[1]
             /\ frozen'[q][task'[i].worker] # 0
        /\ DefaultTakes(q, keys, task) = {} => task' = task /\ frozen' = frozen
    BY <1>1, <2>2, <2>3, DefaultTasks
  <2> QED BY <2>1, <2>4
<1>7. Refreshed(q) \/ UNCHANGED <<line, task, frozen, terms, priced>>
  BY <1>1, <1>6 DEF AddProcess
<1>8. TypeOK'
  <2>1. Refreshed(q) \/ UNCHANGED priced
    BY <1>7
  <2> QED BY <1>1, <1>5, <1>6, <2>1, DraftFacts DEF TypeOK, KeepsPay, masters
<1>9. ProcessFollowsLine'
  <2> SUFFICES ASSUME NEW i \in Pairs, Lives(process', i), ~process'[i].typed, i[2] \notin Manual
               PROVE  Row(i[1]) /\ process'[i].qty = line[i[1]].qty
    BY <1>1 DEF ProcessFollowsLine, Row
  <2>1. CASE i = k
    BY <1>1, <1>2, <1>5, <2>1
  <2>2. CASE i # k
    BY <1>5, <2>2 DEF IInv, ProcessFollowsLine, Lives
  <2> QED BY <2>1, <2>2
<1>10. NoWorkForRemoved'
  <2> SUFFICES ASSUME NEW i \in Pairs, process'[i] # None, ~process'[i].live
               PROVE  task'[i] = None
    BY DEF NoWorkForRemoved
  <2>1. i # k
    BY <1>2, <1>5
  <2>2. task[i] = None
    BY <1>5, <2>1 DEF IInv, NoWorkForRemoved
  <2> QED BY <1>6, <2>1, <2>2, PairParts
<1>11. EditedPieces(q) /\ LinesOf(line', q) = LinesOf(line, q)
  BY <1>1, PiecesStay
<1>12. EditedProcesses(q)
  BY <1>3, <1>5 DEF EditedProcesses, Touches
<1>13. EditedTasks(q)
  BY <1>3, <1>6, <1>11 DEF EditedTasks
<1>14. Edited(q)
  BY <1>1, <1>6, <1>7, <1>11, <1>12, <1>13 DEF Edited
<1>15. status[q] = "DRAFT"
  BY <1>1 DEF Draft
<1>16. \A i \in TaskIds : task'[i] = task[i] \/ task[i] = None
  BY <1>6
<1> QED BY <1>1, <1>5, <1>8, <1>9, <1>10, <1>14, <1>15, <1>16 DEF Sound

(* A process of the quotation gets another row, and its task one that says  *)
(* the same of quotation, piece and person, or leaves.                      *)
LEMMA ProcessWritten ==
  ASSUME IInv, NEW q \in Quotations, NEW k \in Pairs, NEW row \in ProcessRow,
         Draft(q), Process(q, k), Refreshed(q),
         UNCHANGED <<status, kind, terms, line, frozen, masters>>,
         process' = [process EXCEPT ![k] = row],
         task' \in [TaskIds -> TaskRow \cup {None}],
         \A i \in TaskIds \ {k} : task'[i] = task[i],
         task'[k] # None => /\ task[k] # None /\ task'[k].quote = task[k].quote
                            /\ task'[k].line = task[k].line /\ task'[k].worker = task[k].worker,
         row.live /\ ~row.typed => row.qty = process[k].qty /\ ~process[k].typed,
         ~row.live => task'[k] = None
  PROVE  Sound(q)
<1>1. TypeOK /\ k \in TaskIds /\ k[1] \in Lines /\ KeepsPay(q)
  BY PairParts, SameKeeps DEF IInv
<1>2. /\ process' \in [Pairs -> ProcessRow \cup {None}] /\ process'[k] = row
      /\ \A i \in Pairs \ {k} : process'[i] = process[i]
  BY <1>1 DEF TypeOK
<1>3. TypeOK'
  BY <1>1, <1>2, DraftFacts DEF TypeOK, KeepsPay, masters
<1>4. ProcessFollowsLine'
  <2> SUFFICES ASSUME NEW i \in Pairs, Lives(process', i), ~process'[i].typed, i[2] \notin Manual
               PROVE  Row(i[1]) /\ process'[i].qty = line[i[1]].qty
    BY DEF ProcessFollowsLine, Row
  <2>1. CASE i = k
    BY <1>2, <2>1 DEF IInv, ProcessFollowsLine, Process, Lives
  <2>2. CASE i # k
    BY <1>2, <2>2 DEF IInv, ProcessFollowsLine, Lives
  <2> QED BY <2>1, <2>2
<1>5. NoWorkForRemoved'
  <2> SUFFICES ASSUME NEW i \in Pairs, process'[i] # None, ~process'[i].live
               PROVE  task'[i] = None
    BY DEF NoWorkForRemoved
  <2>1. CASE i = k
    BY <1>2, <2>1
  <2>2. CASE i # k
    BY <1>2, <2>2, PairParts DEF IInv, NoWorkForRemoved
  <2> QED BY <2>1, <2>2
<1>6. /\ k[1] \in LinesOf(line, q)
      /\ task[k] # None => task[k].quote = q
  BY ProcessTask
<1>7. EditedPieces(q) /\ LinesOf(line', q) = LinesOf(line, q)
  BY PiecesStay
<1>8. EditedProcesses(q)
  BY <1>2, <1>6 DEF EditedProcesses, Touches
<1>9. EditedTasks(q)
  <2> SUFFICES ASSUME NEW i \in TaskIds, task'[i] # task[i]
               PROVE  /\ task[i] = None \/ task[i].quote = q
                      /\ task'[i] # None =>
                           /\ task[i] # None /\ task'[i].quote = q
                           /\ frozen'[q][task'[i].worker] # 0
                           /\ ~ForeignLines /\ task'[i].line # None => task'[i].line \in LinesOf(line', q)
    BY DEF EditedTasks
  <2>1. i = k
    OBVIOUS
  <2>2. task[k] # None => frozen[q][task[k].worker] # 0
    BY <1>1, <1>6 DEF IInv, Paid
  <2> QED BY <1>1, <1>6, <1>7, <2>1, <2>2, OwnLine
<1>10. Edited(q)
  BY <1>1, <1>7, <1>8, <1>9 DEF Edited
<1> QED BY <1>3, <1>4, <1>5, <1>10 DEF Sound, Draft

LEMMA SetQuantitySound ==
  ASSUME IInv, NEW q \in Quotations, NEW k \in Pairs, NEW n \in Pieces, SetQuantity(q, k, n)
  PROVE  /\ Sound(q) /\ Process(q, k)
         /\ \A i \in TaskIds : task[i] = None <=> task'[i] = None
         /\ \A i \in TaskIds : task[i] # None => task'[i].worker = task[i].worker
         /\ \A i \in Pairs \ {k} : process'[i] = process[i]
<1>1. /\ TypeOK /\ Draft(q) /\ Process(q, k) /\ Refreshed(q)
      /\ UNCHANGED <<status, kind, terms, line, frozen, masters>>
      /\ task' = Synced({k}, task, n) /\ task \in [TaskIds -> TaskRow \cup {None}]
      /\ process[k] \in ProcessRow /\ process[k].live
  BY ProcessTask DEF IInv, SetQuantity, TypeOK, Process, Lives
<1>2. PICK row : row = [process[k] EXCEPT !.qty = n, !.typed = TRUE]
  OBVIOUS
<1>3. row \in ProcessRow /\ row.typed /\ row.live
  <2>1. n \in 0..MaxPieces
    BY DraftAssumption DEF Pieces
  <2>2. PICK old \in ProcessRow : old = process[k]
    BY <1>1
  <2>3. row = [origin |-> old.origin, live |-> old.live, qty |-> n, typed |-> TRUE]
    BY <1>2, <2>2 DEF ProcessRow
  <2>4. old.live
    BY <1>1, <2>2
  <2> QED BY <2>1, <2>2, <2>3, <2>4 DEF ProcessRow
<1>4. process' = [process EXCEPT ![k] = row]
  BY <1>1, <1>2 DEF SetQuantity, TypeOK, ProcessRow
<1>5. /\ task' \in [TaskIds -> TaskRow \cup {None}]
      /\ \A i \in TaskIds :
           /\ task[i] = None <=> task'[i] = None
           /\ i \notin {k} => task'[i] = task[i]
           /\ task[i] # None => /\ task'[i].quote = task[i].quote
                                /\ task'[i].line = task[i].line
                                /\ task'[i].worker = task[i].worker
  BY <1>1, SyncedTasks
<1>6. k \in TaskIds
  BY PairParts
<1>7. Sound(q)
  BY <1>1, <1>3, <1>4, <1>5, <1>6, ProcessWritten
<1>8. \A i \in Pairs \ {k} : process'[i] = process[i]
  BY <1>1, <1>4 DEF TypeOK
<1> QED BY <1>1, <1>5, <1>7, <1>8

LEMMA RemoveProcessSound ==
  ASSUME IInv, NEW q \in Quotations, NEW k \in Pairs, RemoveProcess(q, k)
  PROVE  /\ Sound(q)
         /\ \A i \in TaskIds : task'[i] = task[i] \/ task'[i] = None
         /\ \A i \in Pairs : process'[i] = process[i] \/ ~process'[i].live
<1>1. /\ TypeOK /\ Draft(q) /\ Process(q, k) /\ Refreshed(q)
      /\ UNCHANGED <<status, kind, terms, line, frozen, masters>>
      /\ task' = [task EXCEPT ![k] = None] /\ process[k] \in ProcessRow
  BY ProcessTask DEF IInv, RemoveProcess
<1>2. PICK row : row = [process[k] EXCEPT !.live = FALSE]
  OBVIOUS
<1>3. row \in ProcessRow /\ ~row.live
  BY <1>1, <1>2 DEF ProcessRow
<1>4. process' = [process EXCEPT ![k] = row]
  BY <1>2 DEF RemoveProcess
<1>5. /\ k \in TaskIds /\ task' \in [TaskIds -> TaskRow \cup {None}] /\ task'[k] = None
      /\ \A i \in TaskIds \ {k} : task'[i] = task[i]
  BY <1>1, PairParts DEF TypeOK
<1>6. Sound(q)
  BY <1>1, <1>3, <1>4, <1>5, ProcessWritten
<1>7. \A i \in Pairs : process'[i] = process[i] \/ ~process'[i].live
  BY <1>1, <1>3, <1>4 DEF TypeOK
<1> QED BY <1>5, <1>6, <1>7

LEMMA UpdateLineSound ==
  ASSUME IInv, NEW q \in Quotations, NEW l \in Lines, NEW p \in Products \cup {None},
         NEW n \in Pieces, UpdateLine(q, l, p, n)
  PROVE  /\ Sound(q)
         /\ \A m \in Lines \ {l} : line'[m] = line[m]
         /\ \A k \in TaskIds : task'[k] # None => task[k] # None /\ task'[k].worker = task[k].worker
         /\ \A k \in Pairs :
              process[k] # None /\ ~process[k].live /\ Lives(process', k) =>
                process[k].origin = "PRODUCT" /\ line'[k[1]].product # line[k[1]].product
         /\ line'[l].qty # line[l].qty =>
              \A k \in Follows(l, process') :
                task'[k] = None \/ task'[k].agreed \/ task'[k].qty = line'[l].qty
<1>1. /\ TypeOK /\ Draft(q) /\ Row(l) /\ line[l].quote = q /\ line[l] \in LineRow /\ Refreshed(q)
      /\ UNCHANGED <<status, kind, terms, frozen, masters>>
      /\ process \in [Pairs -> ProcessRow \cup {None}]
      /\ task \in [TaskIds -> TaskRow \cup {None}]
  BY RowType DEF IInv, UpdateLine, TypeOK
<1>2. PICK row : row = [line[l] EXCEPT !.product = p, !.qty = n]
  OBVIOUS
<1>3. /\ row \in LineRow /\ row.quote = q /\ row.product = p /\ row.qty = n
      /\ line' = [line EXCEPT ![l] = row]
  BY <1>1, <1>2 DEF UpdateLine, LineRow
<1>4. /\ line' \in [Lines -> LineRow \cup {None, Gone}]
      /\ line'[l] = row /\ row \notin {None, Gone} /\ l \in LinesOf(line', q)
      /\ \A m \in Lines \ {l} : line'[m] = line[m]
  BY <1>1, <1>3, WrittenLine
<1>5. PICK old : old = IF p # line[l].product THEN OfOldProduct(l) ELSE {}
  OBVIOUS
<1>6. PICK kept : kept = [k \in Pairs |-> IF k \in old THEN None ELSE process[k]]
  OBVIOUS
<1>7. PICK now : now = IF p # line[l].product THEN Generated(l, p, n, kept) ELSE kept
  OBVIOUS
<1>8. PICK work : work = [k \in TaskIds |-> IF k \in old THEN None ELSE task[k]]
  OBVIOUS
<1>9. PICK moved : moved = IF n # line[l].qty THEN Follows(l, now) ELSE {}
  OBVIOUS
<1>10. /\ process' = [k \in Pairs |-> IF k \in moved THEN [now[k] EXCEPT !.qty = n] ELSE now[k]]
       /\ task' = Synced(moved, work, n)
  BY <1>5, <1>6, <1>7, <1>8, <1>9 DEF UpdateLine
<1>11. \A k \in old : /\ k \in Pairs /\ k[1] = l /\ p # line[l].product
                      /\ process[k] # None /\ process[k].origin = "PRODUCT"
  BY <1>5 DEF OfOldProduct, Pairs
<1>12. kept \in [Pairs -> ProcessRow \cup {None}]
  BY <1>1, <1>6
<1>13. /\ now \in [Pairs -> ProcessRow \cup {None}]
       /\ \A k \in Pairs :
            \/ now[k] = kept[k]
            \/ /\ kept[k] = None /\ k[1] = l /\ p # line[l].product
               /\ now[k] = [origin |-> "PRODUCT", live |-> TRUE, qty |-> n, typed |-> FALSE]
  BY <1>1, <1>7, <1>12, GeneratedType
<1>14. \A k \in moved : k \in Pairs /\ k[1] = l /\ now[k] \in ProcessRow /\ now[k] # None
  BY <1>9, <1>13 DEF Follows, Lives, Pairs
<1>15. /\ process' \in [Pairs -> ProcessRow \cup {None}]
       /\ \A k \in Pairs :
            /\ process'[k] = None <=> now[k] = None
            /\ now[k] # None => /\ process'[k].live = now[k].live
                                /\ process'[k].typed = now[k].typed
            /\ k \in moved => process'[k].qty = n
            /\ k \notin moved => process'[k] = now[k]
  <2>1. \A k \in moved : /\ [now[k] EXCEPT !.qty = n] \in ProcessRow
                         /\ [now[k] EXCEPT !.qty = n].live = now[k].live
                         /\ [now[k] EXCEPT !.qty = n].typed = now[k].typed
                         /\ [now[k] EXCEPT !.qty = n].qty = n
    <3> TAKE k \in moved
    <3>1. PICK r \in ProcessRow : r = now[k]
      BY <1>14
    <3>2. n \in 0..MaxPieces
      BY DraftAssumption DEF Pieces
    <3>3. /\ [r EXCEPT !.qty = n] \in ProcessRow /\ [r EXCEPT !.qty = n].live = r.live
          /\ [r EXCEPT !.qty = n].typed = r.typed /\ [r EXCEPT !.qty = n].qty = n
      BY <3>2 DEF ProcessRow
    <3> QED BY <3>1, <3>3
  <2>2. \A k \in Pairs : process'[k] = IF k \in moved THEN [now[k] EXCEPT !.qty = n] ELSE now[k]
    BY <1>10
  <2>3. process' \in [Pairs -> ProcessRow \cup {None}]
    BY <1>10, <1>13, <2>1
  <2> QED BY <1>14, <2>1, <2>2, <2>3, RowAssumption
<1>16. work \in [TaskIds -> TaskRow \cup {None}]
  BY <1>1, <1>8
<1>17. /\ task' \in [TaskIds -> TaskRow \cup {None}]
       /\ \A k \in TaskIds :
            /\ work[k] = None <=> task'[k] = None
            /\ k \notin moved => task'[k] = work[k]
            /\ work[k] # None =>
                 /\ task'[k].quote = work[k].quote
                 /\ task'[k].line = work[k].line
                 /\ task'[k].worker = work[k].worker
                 /\ k \in moved => task'[k].agreed \/ task'[k].qty = n
  BY <1>10, <1>16, SyncedTasks
<1>18. KeepsPay(q)
  BY <1>1, SameKeeps
<1>19. TypeOK'
  BY <1>1, <1>4, <1>15, <1>17, <1>18, DraftFacts DEF TypeOK, KeepsPay, masters
<1>20. \A k \in Pairs : k[1] # l => process'[k] = process[k]
  BY <1>6, <1>11, <1>13, <1>14, <1>15
<1>21. ProcessFollowsLine'
  <2> SUFFICES ASSUME NEW k \in Pairs, Lives(process', k), ~process'[k].typed, k[2] \notin Manual
               PROVE  line'[k[1]] \notin {None, Gone} /\ process'[k].qty = line'[k[1]].qty
    BY DEF ProcessFollowsLine, Row
  <2>1. CASE k[1] # l
    <3>1. process'[k] = process[k]
      BY <1>20, <2>1
    <3>2. Row(k[1]) /\ process[k].qty = line[k[1]].qty
      BY <3>1 DEF IInv, ProcessFollowsLine, Lives
    <3> QED BY <1>4, <2>1, <3>1, <3>2, PairParts DEF Row
  <2>2. CASE k[1] = l
    <3>1. Lives(now, k) /\ ~now[k].typed
      BY <1>15 DEF Lives
    <3>2. CASE n # line[l].qty
      <4>1. k \in moved
        BY <1>9, <2>2, <3>1, <3>2, PairParts DEF Follows
      <4> QED BY <1>3, <1>4, <1>15, <2>2, <4>1
    <3>3. CASE n = line[l].qty
      <4>1. process'[k] = now[k]
        BY <1>9, <1>15, <3>3
      <4>2. now[k] # kept[k] => now[k].qty = n
        BY <1>13
      <4>3. now[k] = kept[k] => now[k].qty = n
        <5> SUFFICES ASSUME now[k] = kept[k] PROVE now[k].qty = n
          OBVIOUS
        <5>1. now[k] = process[k]
          BY <1>6, <3>1 DEF Lives
        <5> QED BY <2>2, <3>1, <3>3, <5>1 DEF IInv, ProcessFollowsLine, Lives
      <4> QED BY <1>3, <1>4, <2>2, <4>1, <4>2, <4>3
    <3> QED BY <3>2, <3>3
  <2> QED BY <2>1, <2>2
<1>22. \A k \in Pairs : process'[k] # None /\ ~process'[k].live =>
                          k \notin old /\ process[k] # None /\ ~process[k].live
  <2> SUFFICES ASSUME NEW k \in Pairs, process'[k] # None, ~process'[k].live
               PROVE  k \notin old /\ process[k] # None /\ ~process[k].live
    OBVIOUS
  <2>1. now[k] # None /\ ~now[k].live
    BY <1>15
  <2>2. now[k] = kept[k]
    BY <1>13, <2>1
  <2> QED BY <1>6, <2>1, <2>2
<1>23. NoWorkForRemoved'
  BY <1>8, <1>17, <1>22, PairParts DEF IInv, NoWorkForRemoved
<1>24. EditedPieces(q)
  BY <1>1, <1>4 DEF EditedPieces, Touches, LinesOf, Row
<1>25. EditedProcesses(q)
  BY <1>1, <1>20 DEF EditedProcesses, Touches, LinesOf, Row
<1>26. EditedTasks(q)
  <2> SUFFICES ASSUME NEW k \in TaskIds, task'[k] # task[k]
               PROVE  /\ task[k] = None \/ task[k].quote = q
                      /\ task'[k] # None =>
                           /\ task[k] # None /\ task'[k].quote = q
                           /\ frozen'[q][task'[k].worker] # 0
                           /\ ~ForeignLines /\ task'[k].line # None => task'[k].line \in LinesOf(line', q)
    BY DEF EditedTasks
  <2>1. k \in Pairs /\ k[1] = l
    BY <1>8, <1>11, <1>14, <1>17
  <2>2. task[k] # None => task[k].quote = q
    BY <1>1, <2>1 DEF IInv, PairsOfTheirQuotation
  <2> SUFFICES ASSUME task'[k] # None
               PROVE  /\ task[k] # None /\ task'[k].quote = q
                      /\ frozen'[q][task'[k].worker] # 0
                      /\ ~ForeignLines /\ task'[k].line # None => task'[k].line \in LinesOf(line', q)
    BY <2>2
  <2>3. /\ task[k] # None /\ task'[k].quote = task[k].quote
        /\ task'[k].line = task[k].line /\ task'[k].worker = task[k].worker
    BY <1>8, <1>17
  <2>4. frozen[q][task[k].worker] # 0
    BY <2>2, <2>3 DEF IInv, Paid
  <2>5. LinesOf(line, q) \subseteq LinesOf(line', q)
    BY <1>4 DEF LinesOf
  <2>6. ~ForeignLines /\ task[k].line # None => task[k].line \in LinesOf(line, q)
    BY <2>2, <2>3, OwnLine
  <2> QED BY <1>1, <2>2, <2>3, <2>4, <2>5, <2>6
<1>27. Edited(q)
  BY <1>1, <1>18, <1>24, <1>25, <1>26 DEF Edited
<1>28. Sound(q)
  BY <1>1, <1>19, <1>21, <1>23, <1>27 DEF Sound, Draft
<1>29. \A k \in TaskIds : task'[k] # None => task[k] # None /\ task'[k].worker = task[k].worker
  BY <1>8, <1>17
<1>30. ASSUME NEW k \in Pairs, process[k] # None, ~process[k].live, Lives(process', k)
       PROVE  process[k].origin = "PRODUCT" /\ line'[k[1]].product # line[k[1]].product
  <2>1. now[k] # None /\ now[k].live
    BY <1>15, <1>30 DEF Lives
  <2>2. k \in old
    BY <1>6, <1>13, <1>30, <2>1
  <2> QED BY <1>3, <1>4, <1>11, <2>2
<1>31. ASSUME line'[l].qty # line[l].qty, NEW k \in Follows(l, process')
       PROVE  task'[k] = None \/ task'[k].agreed \/ task'[k].qty = line'[l].qty
  <2>1. n # line[l].qty /\ line'[l].qty = n
    BY <1>3, <1>4, <1>31
  <2>2. k \in Pairs /\ k \in {l} \X Techniques /\ Lives(process', k) /\ ~process'[k].typed /\ k[2] \notin Manual
    BY <1>31 DEF Follows, Pairs
  <2>3. k \in moved
    BY <1>9, <1>15, <2>1, <2>2 DEF Follows, Lives
  <2> QED BY <1>17, <2>1, <2>2, <2>3, PairParts
<1> QED BY <1>4, <1>28, <1>29, <1>30, <1>31

-----------------------------------------------------------------------------
(* The other requests, and the masters.                                    *)

LEMMA WriteTermSound ==
  ASSUME IInv, NEW q \in Quotations, NEW d \in Terms, WriteTerm(q, d)
  PROVE  Sound(q)
<1>1. /\ TypeOK /\ Draft(q) /\ Refreshed(q)
      /\ UNCHANGED <<status, kind, line, process, task, frozen, masters>>
      /\ terms' = [terms EXCEPT ![q] = IF d \in terms[q] THEN terms[q] \ {d} ELSE terms[q] \cup {d}]
  BY DEF IInv, WriteTerm
<1>2. /\ terms' \in [Quotations -> SUBSET Terms]
      /\ \A p \in Quotations \ {q} : terms'[p] = terms[p]
  BY <1>1 DEF TypeOK
<1>3. LaborMoves(q)
  BY <1>1 DEF LaborMoves, TypeOK
<1> QED BY <1>1, <1>2, <1>3, SameKeeps, LaborIsSound DEF TypeOK

LEMMA ConfirmSound ==
  ASSUME IInv, NEW q \in Quotations, Confirm(q)
  PROVE  Sound(q)
<1>1. /\ TypeOK /\ Draft(q) /\ Refreshed(q)
      /\ UNCHANGED <<terms, kind, line, process, task, frozen, masters>>
      /\ status' = [status EXCEPT ![q] = "CONFIRMED"]
  BY DEF IInv, Confirm, content
<1>2. LaborMoves(q)
  BY <1>1 DEF LaborMoves, TypeOK
<1>3. status' \in [Quotations -> {"DRAFT", "CONFIRMED"}]
  BY <1>1 DEF TypeOK
<1> QED BY <1>1, <1>2, <1>3, SameKeeps, LaborIsSound DEF TypeOK

LEMMA MastersTypes ==
  ASSUME TypeOK, EditMasters
  PROVE  TypeOK' /\ UNCHANGED <<status, content, priced>>
<1>1. ASSUME NEW w \in Workers, UpdateWorker(w)
      PROVE  TypeOK' /\ UNCHANGED <<status, content, priced>>
  <2>1. edits' \in 0..MaxEdits /\ rate' \in [Workers -> 1..MaxRate]
    BY <1>1, DraftAssumption DEF TypeOK, UpdateWorker
  <2> QED BY <1>1, <2>1 DEF TypeOK, UpdateWorker, content
<1>2. ASSUME NEW p \in Products, NEW ts \in SUBSET Techniques, SetProductTechniques(p, ts)
      PROVE  TypeOK' /\ UNCHANGED <<status, content, priced>>
  <2>1. edits' \in 0..MaxEdits /\ asks' \in [Products -> SUBSET Techniques]
    BY <1>2, DraftAssumption DEF TypeOK, SetProductTechniques
  <2> QED BY <1>2, <2>1 DEF TypeOK, SetProductTechniques, content
<1> QED BY <1>1, <1>2 DEF EditMasters

(* Nothing that the invariant speaks of was touched.                        *)
LEMMA NothingTouched ==
  ASSUME IInv, TypeOK', UNCHANGED <<status, content, priced>>
  PROVE  IInv' /\ (\A q \in Quotations : Holds(q)' = Holds(q))
<1>1. UNCHANGED <<status, terms, line, process, task, frozen, priced>>
  BY DEF content
<1>2. ProcessFollowsLine' /\ NoWorkForRemoved' /\ PairsOfTheirQuotation'
  BY <1>1 DEF IInv, ProcessFollowsLine, NoWorkForRemoved, PairsOfTheirQuotation, Lives, Row
<1>3. Paid' /\ PaidAsShown'
  BY <1>1 DEF IInv, Paid, PaidAsShown
<1>4. ~ForeignLines => OwnPieces' /\ PriceIsOfContent' /\ IssuedIsStaffed'
  BY <1>1 DEF IInv, OwnPieces, PriceIsOfContent, IssuedIsStaffed, Lives
<1>5. \A q \in Quotations : Holds(q)' = Holds(q)
  BY <1>1 DEF Holds
<1> QED BY <1>2, <1>3, <1>4, <1>5 DEF IInv

(* A quotation that is issued has somebody for each process and a task of   *)
(* its own on each piece: an issue looks the tasks up by piece, and those   *)
(* that name a piece of a quotation are of that quotation.                  *)
Manned(q) ==
  \A l \in LinesOf(line, q) :
    /\ \E k \in TasksOf(task, q) : task[k].line = l
    /\ \A t \in Techniques : Lives(process, <<l, t>>) => <<l, t>> \in TasksOf(task, q)

LEMMA ConfirmedIsManned ==
  ASSUME IInv, ~ForeignLines, NEW q \in Quotations, Confirm(q)
  PROVE  Manned(q)
<1> SUFFICES ASSUME NEW l \in LinesOf(line, q)
             PROVE  /\ \E k \in TasksOf(task, q) : task[k].line = l
                    /\ \A t \in Techniques : Lives(process, <<l, t>>) => <<l, t>> \in TasksOf(task, q)
  BY DEF Manned
<1>1. Staffed(q)
  BY DEF Confirm
<1>2. l \in Lines /\ l # None /\ Row(l) /\ line[l].quote = q
  BY RowAssumption DEF LinesOf, Row
<1>3. \E k \in TasksOf(task, q) : task[k].line = l
  <2>1. PICK k \in TaskIds : task[k] # None /\ task[k].line = l
    BY <1>1 DEF Staffed
  <2>2. l \in LinesOf(line, task[k].quote)
    BY <1>2, <2>1, OwnLine
  <2>3. task[k].quote = q
    BY <1>2, <2>2 DEF LinesOf
  <2> QED BY <2>1, <2>3 DEF TasksOf
<1>4. ASSUME NEW t \in Techniques, Lives(process, <<l, t>>)
      PROVE  <<l, t>> \in TasksOf(task, q)
  <2>1. PICK k : k = <<l, t>>
    OBVIOUS
  <2>2. k \in Pairs /\ k \in TaskIds /\ k \in LinesOf(line, q) \X Techniques /\ k[1] = l
    BY <1>2, <2>1 DEF Pairs, TaskIds
  <2>3. task[k] # None
    BY <1>1, <1>4, <2>1, <2>2 DEF Staffed
  <2>4. task[k].quote = q
    BY <1>2, <2>2, <2>3 DEF IInv, PairsOfTheirQuotation
  <2> QED BY <2>1, <2>2, <2>3, <2>4 DEF TasksOf
<1> QED BY <1>3, <1>4

LEMMA StaffedStands ==
  ASSUME IInv, ~ForeignLines, NEW q \in Quotations, Sound(q),
         UNCHANGED status \/ Confirm(q)
  PROVE  IssuedIsStaffed'
<1> SUFFICES ASSUME NEW p \in Quotations, status'[p] = "CONFIRMED"
             PROVE  Manned(p)'
  BY DEF IssuedIsStaffed, Manned
<1>1. CASE p # q
  <2>1. status[p] = "CONFIRMED"
    BY <1>1 DEF IInv, TypeOK, Confirm
  <2>2. Manned(p)
    BY <2>1 DEF IInv, IssuedIsStaffed, Manned
  <2>3. /\ LinesOf(line', p) = LinesOf(line, p)
        /\ TasksOf(task', p) = TasksOf(task, p)
        /\ \A k \in TasksOf(task, p) : task'[k] = task[k]
        /\ \A k \in LinesOf(line, p) \X Techniques : process'[k] = process[k]
    BY <1>1, OthersStand DEF Sound
  <2>4. \A l \in LinesOf(line, p), t \in Techniques :
          Lives(process', <<l, t>>) = Lives(process, <<l, t>>)
    BY <2>3 DEF Lives
  <2> QED BY <2>2, <2>3, <2>4 DEF Manned
<1>2. CASE p = q
  <2>1. status[q] = "DRAFT"
    BY DEF Sound
  <2>2. Confirm(q)
    BY <1>2, <2>1
  <2>3. UNCHANGED <<line, process, task>>
    BY <2>2 DEF Confirm, content
  <2>4. Manned(q)
    BY <2>2, ConfirmedIsManned
  <2> QED BY <1>2, <2>3, <2>4 DEF Manned, LinesOf, TasksOf, Lives
<1> QED BY <1>1, <1>2

LEMMA SoundKeeps ==
  ASSUME IInv, NEW q \in Quotations, Sound(q), UNCHANGED status \/ Confirm(q)
  PROVE  /\ IInv'
         /\ ~ForeignLines => \A p \in Quotations : status[p] = "CONFIRMED" => Holds(p)' = Holds(p)
<1>1. TypeOK /\ TypeOK' /\ Edited(q) /\ status[q] = "DRAFT"
  BY DEF IInv, Sound
<1>2. PairsOfTheirQuotation'
  BY <1>1, PairsStand DEF IInv
<1>3. Paid'
  BY <1>1, PaidStands DEF IInv
<1>4. PaidAsShown'
  BY <1>1, <1>3, ShownStands DEF IInv
<1>5. ~ForeignLines => OwnPieces' /\ PriceIsOfContent' /\ IssuedIsStaffed'
  BY <1>1, PiecesStand, PriceStands, StaffedStands DEF IInv
<1>6. ASSUME ~ForeignLines, NEW p \in Quotations, status[p] = "CONFIRMED"
      PROVE  Holds(p)' = Holds(p)
  <2>1. p \in Quotations \ {q}
    BY <1>1, <1>6
  <2> QED BY <1>1, <1>6, <2>1, OthersStand
<1> QED BY <1>1, <1>2, <1>3, <1>4, <1>5, <1>6 DEF IInv, Sound

-----------------------------------------------------------------------------
(* Every step: a request on one draft, or the masters.                      *)

(* The bodies of DecisionsStand.                                            *)
PayStep ==
  \A q \in Quotations, w \in Workers :
    w \in DOMAIN priced[q].people /\ w \in DOMAIN priced'[q].people =>
      priced'[q].people[w] = priced[q].people[w]
ChoiceStep ==
  \A k \in TaskIds :
    task[k] # None /\ task'[k] # None /\ task[k].by = "MANUAL" =>
      \/ task'[k].worker = task[k].worker
      \/ \E q \in Quotations :
           UpdateLabor(q, k) \/ (k \in Pairs /\ AssignWorker(q, k, task'[k].worker))
RemovedStep ==
  \A k \in Pairs :
    /\ process[k] # None /\ ~process[k].live
    /\ Lives(process', k)
    => \/ \E q \in Quotations, n \in Pieces \cup {None} : AddProcess(q, k, n)
       \/ (process[k].origin = "PRODUCT" /\ line'[k[1]].product # line[k[1]].product)
PiecesStep ==
  \A l \in Lines :
    /\ Row(l) /\ line'[l] \notin {None, Gone}
    /\ line'[l].qty # line[l].qty
    => \A k \in Follows(l, process') :
         task'[k] = None \/ task'[k].agreed \/ task'[k].qty = line'[l].qty

Kept(q) == Sound(q) /\ (UNCHANGED status \/ Confirm(q)) /\ ChoiceStep /\ RemovedStep /\ PiecesStep

LEMMA Unmoved ==
  /\ (\A k \in TaskIds : task'[k] = task[k] \/ task[k] = None \/ task'[k] = None) => ChoiceStep
  /\ (\A k \in Pairs : \/ process'[k] = process[k] \/ process[k] = None
                       \/ ~Lives(process', k)) => RemovedStep
  /\ (\A l \in Lines : line'[l] = line[l] \/ line[l] = None \/ line'[l] = Gone) => PiecesStep
BY DEF ChoiceStep, RemovedStep, PiecesStep, Lives, Row

LEMMA EditPiecesStep ==
  ASSUME IInv, EditPieces
  PROVE  \E q \in Quotations : Kept(q)
<1>1. ASSUME NEW q \in Quotations, NEW l \in Lines, NEW p \in Products \cup {None},
             NEW n \in Pieces, AddLine(q, l, p, n)
      PROVE  Kept(q)
  <2>1. /\ Sound(q)
        /\ line[l] = None /\ \A m \in Lines \ {l} : line'[m] = line[m]
        /\ \A k \in TaskIds : task'[k] = task[k] \/ task[k] = None
        /\ \A k \in Pairs : process'[k] = process[k] \/ process[k] = None
    BY <1>1, AddLineSound
  <2>2. ChoiceStep /\ RemovedStep /\ PiecesStep
    BY <2>1, Unmoved
  <2> QED BY <1>1, <2>1, <2>2 DEF Kept, AddLine
<1>2. ASSUME NEW q \in Quotations, NEW l \in Lines, NEW p \in Products \cup {None},
             NEW n \in Pieces, UpdateLine(q, l, p, n)
      PROVE  Kept(q)
  <2>1. /\ Sound(q)
        /\ \A m \in Lines \ {l} : line'[m] = line[m]
        /\ \A k \in TaskIds : task'[k] # None => task[k] # None /\ task'[k].worker = task[k].worker
        /\ \A k \in Pairs :
             process[k] # None /\ ~process[k].live /\ Lives(process', k) =>
               process[k].origin = "PRODUCT" /\ line'[k[1]].product # line[k[1]].product
        /\ line'[l].qty # line[l].qty =>
             \A k \in Follows(l, process') :
               task'[k] = None \/ task'[k].agreed \/ task'[k].qty = line'[l].qty
    BY <1>2, UpdateLineSound
  <2>2. ChoiceStep
    BY <2>1 DEF ChoiceStep
  <2>3. RemovedStep
    BY <2>1 DEF RemovedStep
  <2>4. PiecesStep
    BY <2>1 DEF PiecesStep
  <2> QED BY <1>2, <2>1, <2>2, <2>3, <2>4 DEF Kept, UpdateLine
<1>3. ASSUME NEW q \in Quotations, NEW l \in Lines, DeleteLine(q, l)
      PROVE  Kept(q)
  <2>1. /\ Sound(q)
        /\ line' = [line EXCEPT ![l] = Gone]
        /\ \A k \in TaskIds : task'[k] = task[k] \/ task'[k] = None
        /\ \A k \in Pairs : process'[k] = process[k] \/ process'[k] = None
    BY <1>3, DeleteLineSound
  <2>2. \A m \in Lines : line'[m] = line[m] \/ line'[m] = Gone
    BY <2>1 DEF IInv, TypeOK
  <2>3. ChoiceStep /\ RemovedStep /\ PiecesStep
    BY <2>1, <2>2, Unmoved DEF Lives
  <2> QED BY <1>3, <2>1, <2>3 DEF Kept, DeleteLine
<1> QED BY <1>1, <1>2, <1>3 DEF EditPieces

(* Pieces and processes as they were. *)
LEMMA StillPieces ==
  ASSUME UNCHANGED <<line, process>>
  PROVE  RemovedStep /\ PiecesStep
BY Unmoved

LEMMA EditProcessesStep ==
  ASSUME IInv, EditProcesses
  PROVE  \E q \in Quotations : Kept(q)
<1>1. ASSUME NEW q \in Quotations, NEW k \in Pairs, NEW n \in Pieces \cup {None},
             AddProcess(q, k, n)
      PROVE  Kept(q)
  <2>1. /\ Sound(q) /\ line' = line
        /\ \A i \in TaskIds : task'[i] = task[i] \/ task[i] = None
        /\ \A i \in Pairs \ {k} : process'[i] = process[i]
    BY <1>1, AddProcessSound
  <2>2. ChoiceStep /\ PiecesStep
    BY <2>1, Unmoved
  <2>3. RemovedStep
    BY <1>1, <2>1 DEF RemovedStep, Lives
  <2> QED BY <1>1, <2>1, <2>2, <2>3 DEF Kept, AddProcess
<1>2. ASSUME NEW q \in Quotations, NEW k \in Pairs, NEW n \in Pieces, SetQuantity(q, k, n)
      PROVE  Kept(q)
  <2>1. /\ Sound(q) /\ Process(q, k)
        /\ \A i \in TaskIds : task[i] = None <=> task'[i] = None
        /\ \A i \in TaskIds : task[i] # None => task'[i].worker = task[i].worker
        /\ \A i \in Pairs \ {k} : process'[i] = process[i]
    BY <1>2, SetQuantitySound
  <2>2. line' = line
    BY <1>2 DEF SetQuantity
  <2>3. ChoiceStep
    BY <2>1 DEF ChoiceStep
  <2>4. RemovedStep
    BY <2>1 DEF RemovedStep, Process, Lives
  <2>5. PiecesStep
    BY <2>2, Unmoved
  <2> QED BY <1>2, <2>1, <2>3, <2>4, <2>5 DEF Kept, SetQuantity
<1>3. ASSUME NEW q \in Quotations, NEW k \in Pairs, RemoveProcess(q, k)
      PROVE  Kept(q)
  <2>1. /\ Sound(q)
        /\ \A i \in TaskIds : task'[i] = task[i] \/ task'[i] = None
        /\ \A i \in Pairs : process'[i] = process[i] \/ ~process'[i].live
    BY <1>3, RemoveProcessSound
  <2>2. line' = line
    BY <1>3 DEF RemoveProcess
  <2>3. ChoiceStep /\ RemovedStep /\ PiecesStep
    BY <2>1, <2>2, Unmoved DEF Lives
  <2> QED BY <1>3, <2>1, <2>3 DEF Kept, RemoveProcess
<1>4. ASSUME NEW q \in Quotations, NEW k \in Pairs, UnassignWorker(q, k)
      PROVE  Kept(q)
  <2>1. Sound(q) /\ task' = [task EXCEPT ![k] = None]
    BY <1>4, UnassignWorkerSound
  <2>2. \A i \in TaskIds : task'[i] = task[i] \/ task'[i] = None
    BY <2>1 DEF IInv, TypeOK
  <2>3. ChoiceStep /\ RemovedStep /\ PiecesStep
    BY <1>4, <2>2, StillPieces, Unmoved DEF UnassignWorker
  <2> QED BY <1>4, <2>1, <2>3 DEF Kept, UnassignWorker
<1>5. ASSUME NEW q \in Quotations, NEW k \in Pairs, NEW w \in Workers, AssignWorker(q, k, w)
      PROVE  Kept(q)
  <2>1. Sound(q) /\ task' = [task EXCEPT ![k] = task'[k]] /\ task'[k].worker = w
    BY <1>5, AssignWorkerSound
  <2>2. \A i \in TaskIds \ {k} : task'[i] = task[i]
    BY <2>1 DEF IInv, TypeOK
  <2>3. ChoiceStep
    BY <1>5, <2>1, <2>2 DEF ChoiceStep
  <2>4. RemovedStep /\ PiecesStep
    BY <1>5, StillPieces DEF AssignWorker
  <2> QED BY <1>5, <2>1, <2>3, <2>4 DEF Kept, AssignWorker
<1> QED BY <1>1, <1>2, <1>3, <1>4, <1>5 DEF EditProcesses

LEMMA EditLaborStep ==
  ASSUME IInv, EditLabor
  PROVE  \E q \in Quotations : Kept(q)
<1>1. ASSUME NEW q \in Quotations, NEW i \in Loose, NEW l \in Lines \cup {None},
             NEW t \in Techniques, NEW w \in Workers, NEW n \in Pieces, NEW extra \in BOOLEAN,
             AddLabor(q, i, l, t, w, n, extra)
      PROVE  Kept(q)
  <2>1. Sound(q) /\ \A k \in TaskIds : task'[k] = task[k] \/ task[k] = None
    BY <1>1, AddLaborSound
  <2>2. ChoiceStep
    BY <2>1, Unmoved
  <2>3. RemovedStep /\ PiecesStep
    BY <1>1, StillPieces DEF AddLabor
  <2> QED BY <1>1, <2>1, <2>2, <2>3 DEF Kept, AddLabor
<1>2. ASSUME NEW q \in Quotations, NEW w \in Workers, NEW l \in Lines \cup {None},
             NEW ts \in SUBSET Techniques, LoadWorker(q, w, l, ts)
      PROVE  Kept(q)
  <2>1. Sound(q) /\ \A k \in TaskIds : task'[k] = task[k] \/ task[k] = None
    BY <1>2, LoadWorkerSound
  <2>2. UNCHANGED <<status, line, process>>
    BY <1>2 DEF LoadWorker
  <2>3. ChoiceStep
    BY <2>1, Unmoved
  <2>4. RemovedStep /\ PiecesStep
    BY <2>2, StillPieces
  <2> QED BY <2>1, <2>2, <2>3, <2>4 DEF Kept
<1>3. ASSUME NEW q \in Quotations, NEW k \in TaskIds, UpdateLabor(q, k)
      PROVE  Kept(q)
  <2>1. Sound(q) /\ \A i \in TaskIds \ {k} : task'[i] = task[i]
    BY <1>3, UpdateLaborSound
  <2>2. ChoiceStep
    BY <1>3, <2>1 DEF ChoiceStep
  <2>3. UNCHANGED <<status, line, process>>
    BY <1>3 DEF UpdateLabor
  <2>4. RemovedStep /\ PiecesStep
    BY <2>3, StillPieces
  <2> QED BY <2>1, <2>2, <2>3, <2>4 DEF Kept
<1>4. ASSUME NEW q \in Quotations, NEW k \in TaskIds, DeleteLabor(q, k)
      PROVE  Kept(q)
  <2>1. Sound(q) /\ task' = [task EXCEPT ![k] = None]
    BY <1>4, DeleteLaborSound
  <2>2. \A i \in TaskIds : task'[i] = task[i] \/ task'[i] = None
    BY <2>1 DEF IInv, TypeOK
  <2>3. ChoiceStep /\ RemovedStep /\ PiecesStep
    BY <1>4, <2>2, StillPieces, Unmoved DEF DeleteLabor
  <2> QED BY <1>4, <2>1, <2>3 DEF Kept, DeleteLabor
<1>5. CASE \E q \in Quotations, i \in Loose, l \in Lines \cup {None}, t \in Techniques,
            w \in Workers, n \in Pieces, extra \in BOOLEAN : AddLabor(q, i, l, t, w, n, extra)
  <2>1. PICK q \in Quotations, i \in Loose, l \in Lines \cup {None}, t \in Techniques,
             w \in Workers, n \in Pieces, extra \in BOOLEAN : AddLabor(q, i, l, t, w, n, extra)
    BY <1>5
  <2>2. Kept(q)
    BY <1>1, <2>1
  <2> QED BY <2>2
<1>6. CASE \E q \in Quotations, w \in Workers, l \in Lines \cup {None}, ts \in SUBSET Techniques :
             LoadWorker(q, w, l, ts)
  BY <1>2, <1>6
<1>7. CASE \E q \in Quotations, k \in TaskIds : UpdateLabor(q, k) \/ DeleteLabor(q, k)
  BY <1>3, <1>4, <1>7
<1> QED BY <1>5, <1>6, <1>7 DEF EditLabor

LEMMA DecideStep ==
  ASSUME IInv, Decide
  PROVE  \E q \in Quotations : Kept(q)
<1>1. ASSUME NEW q \in Quotations, ApplyDefaults(q)
      PROVE  Kept(q)
  <2>1. /\ Sound(q)
        /\ \A k \in TaskIds : task'[k] = task[k] \/ task[k] = None \/ task[k].by = "DEFAULT"
    BY <1>1, ApplyDefaultsSound
  <2>2. UNCHANGED <<status, line, process>>
    BY <1>1 DEF ApplyDefaults
  <2>3. ChoiceStep
    BY <2>1 DEF ChoiceStep
  <2>4. RemovedStep /\ PiecesStep
    BY <2>2, StillPieces
  <2> QED BY <2>1, <2>2, <2>3, <2>4 DEF Kept
<1>2. ASSUME NEW q \in Quotations, NEW d \in Terms, WriteTerm(q, d)
      PROVE  Kept(q)
  <2>1. UNCHANGED <<status, line, process, task>>
    BY <1>2 DEF WriteTerm
  <2>2. ChoiceStep /\ RemovedStep /\ PiecesStep
    BY <2>1, StillPieces, Unmoved
  <2> QED BY <1>2, <2>1, <2>2, WriteTermSound DEF Kept
<1>3. ASSUME NEW q \in Quotations, Confirm(q)
      PROVE  Kept(q)
  <2>1. UNCHANGED <<line, process, task>>
    BY <1>3 DEF Confirm, content
  <2>2. ChoiceStep /\ RemovedStep /\ PiecesStep
    BY <2>1, StillPieces, Unmoved
  <2> QED BY <1>3, <2>2, ConfirmSound DEF Kept
<1> QED BY <1>1, <1>2, <1>3 DEF Decide, SetPlanning, SetIllustration, EditExtras, Terms

LEMMA Steps ==
  ASSUME IInv, [Next]_vars
  PROVE  \/ \E q \in Quotations : Kept(q)
         \/ TypeOK' /\ UNCHANGED <<status, content, priced>>
<1>1. CASE UNCHANGED vars
  <2>1. UNCHANGED <<status, kind, terms, line, process, task, frozen, rate, asks, priced, edits>>
    BY <1>1 DEF vars, content, masters
  <2>2. TypeOK'
    BY <2>1 DEF IInv, TypeOK
  <2> QED BY <2>1, <2>2 DEF content
<1>2. CASE EditMasters
  BY <1>2, MastersTypes DEF IInv
<1> QED BY <1>1, <1>2, EditPiecesStep, EditProcessesStep, EditLaborStep, DecideStep DEF Next

(* A pay that is shown before and after is the pay that was frozen.         *)
LEMMA PayIsFrozen ==
  ASSUME IInv, IInv', NEW q \in Quotations, Sound(q)
  PROVE  PayStep
<1> SUFFICES ASSUME NEW p \in Quotations, NEW w \in Workers,
                    w \in DOMAIN priced[p].people, w \in DOMAIN priced'[p].people
             PROVE  priced'[p].people[w] = priced[p].people[w]
  BY DEF PayStep
<1>1. frozen[p][w] # 0 /\ priced[p].people[w] = frozen[p][w]
  BY DEF IInv, PaidAsShown
<1>2. priced'[p].people[w] = frozen'[p][w]
  BY DEF IInv, PaidAsShown
<1>3. frozen'[p][w] = frozen[p][w]
  BY <1>1 DEF Sound, Edited, KeepsPay
<1> QED BY <1>1, <1>2, <1>3

LEMMA Inductive ==
  ASSUME IInv, [Next]_vars
  PROVE  /\ IInv'
         /\ PayStep /\ ChoiceStep /\ RemovedStep /\ PiecesStep
         /\ ~ForeignLines =>
              \A q \in Quotations : status[q] = "CONFIRMED" => Holds(q)' = Holds(q)
<1>1. ASSUME NEW q \in Quotations, Kept(q)
      PROVE  /\ IInv'
             /\ PayStep /\ ChoiceStep /\ RemovedStep /\ PiecesStep
             /\ ~ForeignLines =>
                  \A p \in Quotations : status[p] = "CONFIRMED" => Holds(p)' = Holds(p)
  <2>1. /\ IInv'
        /\ ~ForeignLines =>
             \A p \in Quotations : status[p] = "CONFIRMED" => Holds(p)' = Holds(p)
    BY <1>1, SoundKeeps DEF Kept
  <2> QED BY <1>1, <2>1, PayIsFrozen DEF Kept
<1>2. CASE TypeOK' /\ UNCHANGED <<status, content, priced>>
  <2>1. IInv' /\ \A q \in Quotations : Holds(q)' = Holds(q)
    BY <1>2, NothingTouched
  <2>2. UNCHANGED <<line, process, task, priced>>
    BY <1>2 DEF content
  <2>3. ChoiceStep /\ RemovedStep /\ PiecesStep
    BY <2>2, StillPieces, Unmoved
  <2>4. PayStep
    BY <2>2 DEF PayStep
  <2> QED BY <2>1, <2>3, <2>4
<1> QED BY <1>1, <1>2, Steps

LEMMA InitInv == Init => IInv
<1> SUFFICES ASSUME Init PROVE IInv
  OBVIOUS
<1>1. TypeOK
  BY DraftAssumption DEF Init, TypeOK
<1>2. /\ \A k \in TaskIds : task[k] = None
      /\ \A k \in Pairs : process[k] = None
      /\ \A l \in Lines : line[l] = None
  BY DEF Init
<1>3. ProcessFollowsLine /\ NoWorkForRemoved
  BY <1>2 DEF ProcessFollowsLine, NoWorkForRemoved, Lives
<1>4. PairsOfTheirQuotation
  BY <1>2, PairParts DEF PairsOfTheirQuotation
<1>5. Paid /\ OwnPieces
  BY <1>2 DEF Paid, OwnPieces
<1>6. \A q \in Quotations : priced[q] = Basis(q, line, task, frozen, terms)
  BY DEF Init
<1>7. PaidAsShown
  <2> SUFFICES ASSUME NEW q \in Quotations PROVE DOMAIN priced[q].people = {}
    BY DEF PaidAsShown
  <2>1. TasksOf(task, q) = {}
    BY <1>2 DEF TasksOf
  <2>2. PICK basis : basis = Basis(q, line, task, frozen, terms)
    OBVIOUS
  <2>3. basis.people = [w \in {task[k].worker : k \in TasksOf(task, q)} |-> frozen[q][w]]
    BY <2>2 DEF Basis
  <2>4. priced[q] = basis
    BY <1>6, <2>2
  <2> QED BY <2>1, <2>3, <2>4
<1>8. PriceIsOfContent
  BY <1>6 DEF PriceIsOfContent
<1>9. IssuedIsStaffed
  BY DEF Init, IssuedIsStaffed
<1> QED BY <1>1, <1>3, <1>4, <1>5, <1>7, <1>8, <1>9 DEF IInv

(* IInv holds in every reachable state. *)
THEOREM Consistent == Spec => []IInv
<1>1. IInv /\ [Next]_vars => IInv'
  BY Inductive
<1> QED BY <1>1, InitInv, PTL DEF Spec

-----------------------------------------------------------------------------
(* What is to be made, by which process and by whom agree after any         *)
(* sequence of requests on any quotations, also where screens send pieces   *)
(* of other quotations.                                                     *)
THEOREM WorkIsOfPieces == Spec => []WorkFollowsPieces
<1>1. IInv => WorkFollowsPieces
  BY DEF IInv, WorkFollowsPieces
<1> QED BY <1>1, Consistent, PTL

(* What somebody decided about a quotation stays as it was decided, also    *)
(* where screens send pieces of other quotations.                           *)
THEOREM DecisionsAreKept == Spec => DecisionsStand
<1>1. IInv /\ [Next]_vars => [PayStep]_vars /\ [ChoiceStep]_vars /\ [RemovedStep]_vars /\ [PiecesStep]_vars
  BY Inductive
<1>2. Spec => [][PayStep]_vars /\ [][ChoiceStep]_vars /\ [][RemovedStep]_vars /\ [][PiecesStep]_vars
  BY <1>1, Consistent, PTL DEF Spec
<1> QED BY <1>2 DEF DecisionsStand, PayRemembered, ChoiceStands, RemovedStaysRemoved,
                    PiecesReachTheWork, PayStep, ChoiceStep, RemovedStep, PiecesStep

(* While screens send pieces of the quotation they edit, the totals of a    *)
(* quotation are those of what it holds, whatever happens to the others.    *)
THEOREM TotalsAreOfContent ==
  ASSUME ~ForeignLines
  PROVE  Spec => []PriceIsOfContent
<1>1. IInv => PriceIsOfContent
  BY DEF IInv
<1> QED BY <1>1, Consistent, PTL

(* While screens send pieces of the quotation they edit, nothing is issued  *)
(* with a piece nobody works on or a process nobody does, and nothing that  *)
(* is issued loses them.                                                    *)
THEOREM IssuedKeepsWork ==
  ASSUME ~ForeignLines
  PROVE  Spec => []IssuedIsStaffed
<1>1. IInv => IssuedIsStaffed
  BY DEF IInv
<1> QED BY <1>1, Consistent, PTL

(* While screens send pieces of the quotation they edit, what an issued     *)
(* quotation holds is never changed.                                        *)
THEOREM IssuedIsKept ==
  ASSUME ~ForeignLines
  PROVE  Spec => IssuedStands
<1>1. IInv /\ [Next]_vars =>
        [\A q \in Quotations : status[q] = "CONFIRMED" => Holds(q)' = Holds(q)]_vars
  BY Inductive
<1> QED BY <1>1, Consistent, PTL DEF Spec, IssuedStands
=============================================================================
