----------------------------- MODULE StockLedger -----------------------------
(***************************************************************************)
(* The stock of the workshop: the current balance of every product in      *)
(* every location (stock_balances), the balance of every prepared lot      *)
(* (stock_lot_balances) and the immutable register of movements            *)
(* (stock_movements).  InventoryService.apply_movement is the only writer. *)
(*                                                                         *)
(* A slot is a product in a location; the order of slots is the order of   *)
(* product ids the callers sort by.  A transaction runs the statements of  *)
(* its caller one by one: SELECT ... FOR UPDATE of a balance, then the     *)
(* movements, each of which locks the balance, checks and flushes.  Row    *)
(* locks last until the transaction commits or rolls back, and what it     *)
(* wrote is visible to others only from the commit on.  A lot row is only  *)
(* ever locked under the balance row of its slot, so it needs no lock of   *)
(* its own here.                                                           *)
(***************************************************************************)
EXTENDS Integers, Sequences, FiniteSets, Functions

CONSTANTS
  Slots,       \* (product, location) pairs, as positive numbers
  Prepared,    \* the slots of prepared materials: their stock is kept by lot
  Lots,        \* preparation lots
  SlotOf,      \* the product and location each lot was prepared for
  Txns,        \* transactions
  JobOf,       \* what each transaction is asked to do
  Opening,     \* balances before the first transaction
  OpeningLots, \* lot balances before the first transaction
  None         \* nobody holds the lock

NumberRow == 0   \* the row of document_sequences that numbers preparations

(* A need is one product of a job, in the order the caller lists them.     *)
Need == [slot : Slots, qty : Int, lot : Lots \cup {None}]

(* The callers of apply_movement.  START stands for the start of a         *)
(* production order or of a prototype; COMPLETE, CONSUME, DELIVER, ADJUST  *)
(* and IMPORT for the ones that take the balances in the order given.      *)
Kinds == {"PREPARE", "START", "COMPLETE", "CONSUME", "DELIVER", "ADJUST", "IMPORT"}
Job == [kind : Kinds, needs : Seq(Need), yield : Need]

LotsOf(s) == {l \in Lots : SlotOf[l] = s}

ASSUME LedgerAssumption ==
  /\ Slots \subseteq Nat \ {NumberRow} /\ IsFiniteSet(Slots)
  /\ Prepared \subseteq Slots
  /\ SlotOf \in [Lots -> Prepared] /\ IsFiniteSet(Lots)
  /\ \A t \in Txns :
       JobOf[t] \in Job /\ (JobOf[t].kind = "PREPARE" => JobOf[t].yield.lot \in Lots)
  /\ Opening \in [Slots -> Nat]
  /\ OpeningLots \in [Lots -> Nat]
  /\ \A s \in Prepared : Opening[s] = SumFunctionOnSet(OpeningLots, LotsOf(s))
  /\ None \notin Txns \cup Lots

VARIABLES
  balance,  \* committed quantity of each slot
  rows,     \* slots that have a committed stock_balances row
  lotQty,   \* committed quantity of each lot
  born,     \* lots whose preparation is committed (status COMPLETED)
  ledger,   \* committed movements
  lock,     \* who holds the row lock of each slot, and of NumberRow
  nextId,   \* the id sequence of stock_movements; a rollback does not rewind it
  now,      \* transactions begun so far: the order of their now()
  txn       \* the local state of each transaction

vars == <<balance, rows, lotQty, born, ledger, lock, nextId, now, txn>>

-----------------------------------------------------------------------------
(* Operators named X_Slip are X with a plausible coding slip; no action     *)
(* uses one.  Each shows that some property would notice the slip.          *)

(* The statements of a transaction. *)
Check(need) == [op |-> "check", slot |-> need.slot, qty |-> need.qty, lot |-> need.lot]
TakeNumber == [op |-> "number", slot |-> NumberRow, qty |-> 0, lot |-> None]
Out(need) == [op |-> "move", slot |-> need.slot, qty |-> -need.qty, lot |-> need.lot]
In(need) == [op |-> "move", slot |-> need.slot, qty |-> need.qty, lot |-> need.lot]

Each(needs, Op(_)) == [i \in DOMAIN needs |-> Op(needs[i])]

(* Slip: the balances are taken in the order of the lines. *)
InProductOrder_Slip(needs) == needs

(* The place of a line among all, by product; those of one product keep     *)
(* their order.                                                             *)
UpTo(needs, i) ==
  {j \in DOMAIN needs : needs[j].slot < needs[i].slot \/ (needs[j].slot = needs[i].slot /\ j <= i)}
Place(needs, i) == Cardinality(UpTo(needs, i))

(* sorted(..., key=product_id): the common locking order. *)
InProductOrder(needs) ==
  [k \in DOMAIN needs |-> needs[CHOOSE i \in DOMAIN needs : Place(needs, i) = k]]

(* PreparationService.prepare: every component is locked and checked in     *)
(* product order, the document number is issued, the components leave in    *)
(* the same order and the prepared material comes in last.                  *)
PrepareScript(job) ==
  LET needs == InProductOrder(job.needs) IN
  Each(needs, Check) \o <<TakeNumber>>
    \o Each(needs, Out) \o <<In(job.yield)>>

(* ProductionService.start and PrototypeService.start: check all, then      *)
(* consume all, both in product order.                                      *)
StartScript(job) ==
  LET needs == InProductOrder(job.needs) IN
  Each(needs, Check) \o Each(needs, Out)

(* The callers that only move: completion (one entry per result line),      *)
(* recorded consumption, delivery, adjustment and the stock importer.       *)
MoveScript(job) ==
  IF job.kind \in {"CONSUME", "DELIVER"} THEN Each(job.needs, Out) ELSE Each(job.needs, In)

Script ==
  [t \in Txns |-> CASE JobOf[t].kind = "PREPARE" -> PrepareScript(JobOf[t])
                    [] JobOf[t].kind = "START"   -> StartScript(JobOf[t])
                    [] OTHER                     -> MoveScript(JobOf[t])]

Movement == [id : Nat \ {0}, at : Nat, txn : Txns, slot : Slots, qty : Int,
             after : Nat, lot : Lots \cup {None}]

Ended == {"committed", "refused", "diverged", "lost"}
TxnState == [pc : {"idle", "running"} \cup Ended, at : Nat, step : Nat \ {0},
             short : BOOLEAN, pending : SUBSET Movement]

TypeOK ==
  /\ balance \in [Slots -> Nat]
  /\ rows \subseteq Slots
  /\ lotQty \in [Lots -> Nat]
  /\ born \subseteq Lots
  /\ ledger \in SUBSET Movement
  /\ lock \in [Slots \cup {NumberRow} -> Txns \cup {None}]
  /\ nextId \in Nat \ {0}
  /\ now \in Nat
  /\ txn \in [Txns -> TxnState]

Init ==
  /\ balance = Opening
  /\ rows = {s \in Slots : Opening[s] > 0}
  /\ lotQty = OpeningLots
  /\ born = {l \in Lots : OpeningLots[l] > 0}
  /\ ledger = {}
  /\ lock = [s \in Slots \cup {NumberRow} |-> None]
  /\ nextId = 1
  /\ now = 0
  /\ txn = [t \in Txns |-> [pc |-> "idle", at |-> 0, step |-> 1,
                            short |-> FALSE, pending |-> {}]]

-----------------------------------------------------------------------------
(* What a running transaction sees: the committed rows and its own writes.  *)
Own(t, s) == {m \in txn[t].pending : m.slot = s}
View(t, s) == IF Own(t, s) = {} THEN balance[s]
              ELSE (CHOOSE m \in Own(t, s) : \A o \in Own(t, s) : o.id <= m.id).after

Delta(ms) == SumFunction([m \in ms |-> m.qty])

(* _apply_prepared_lot_delta writes the lots of prepared materials only. *)
OfLot(t, l) == {m \in txn[t].pending : m.slot \in Prepared /\ m.lot = l}
LotView(t, l) == lotQty[l] + Delta(OfLot(t, l))
LotTotal(t, s) == SumFunctionOnSet([l \in Lots |-> LotView(t, l)], LotsOf(s))
HasRow(t, s) == s \in rows \/ lock[s] = t

Running(t) == txn[t].pc = "running"
AtEnd(t) == txn[t].step > Len(Script[t])
Current(t) == Script[t][txn[t].step]
At(t, op) == Running(t) /\ ~AtEnd(t) /\ Current(t).op = op

Free(r, t) == lock[r] \in {None, t}

(* Slip: the rows stay locked when the transaction ends. *)
Released_Slip(t) == lock

(* The locks once the transaction of t is over. *)
Released(t) == [r \in DOMAIN lock |-> IF lock[r] = t THEN None ELSE lock[r]]

(* Slip: the caller commits what was done before the error. *)
Abort_Slip(t, outcome) ==
  /\ ledger' = ledger \cup txn[t].pending
  /\ txn' = [txn EXCEPT ![t].pc = outcome, ![t].pending = {}]
  /\ lock' = Released(t)
  /\ UNCHANGED <<balance, rows, lotQty, born, nextId, now>>

(* Any error undoes the whole transaction. *)
Abort(t, outcome) ==
  /\ txn' = [txn EXCEPT ![t].pc = outcome, ![t].pending = {}]
  /\ lock' = Released(t)
  /\ UNCHANGED <<balance, rows, lotQty, born, ledger, nextId, now>>

(* The first statement of the request fixes now() for its transaction. *)
Begin(t) ==
  /\ txn[t].pc = "idle"
  /\ now' = now + 1
  /\ txn' = [txn EXCEPT ![t].pc = "running", ![t].at = now + 1]
  /\ UNCHANGED <<balance, rows, lotQty, born, ledger, lock, nextId>>

(* SELECT ... FOR UPDATE of one balance: it waits for the lock of an        *)
(* existing row; an absent row locks nothing and counts as zero.  A         *)
(* shortage is only remembered: the remaining balances are still locked.    *)
CheckBalance(t) ==
  LET s == Current(t).slot
      available == IF HasRow(t, s) THEN View(t, s) ELSE 0
  IN
  /\ At(t, "check")
  /\ HasRow(t, s) => Free(s, t)
  /\ lock' = IF HasRow(t, s) THEN [lock EXCEPT ![s] = t] ELSE lock
  /\ txn' = [txn EXCEPT ![t].step = @ + 1,
                        ![t].short = @ \/ available < Current(t).qty]
  /\ UNCHANGED <<balance, rows, lotQty, born, ledger, nextId, now>>

(* The checks are over and something is missing: nothing was taken yet. *)
RefuseShort(t) ==
  /\ Running(t) /\ ~AtEnd(t) /\ Current(t).op # "check"
  /\ txn[t].short
  /\ Abort(t, "refused")

(* SequenceService.issue inside prepare: the row of the sequence is locked  *)
(* until the end of the transaction.                                        *)
IssueNumber(t) ==
  /\ At(t, "number") /\ ~txn[t].short
  /\ Free(NumberRow, t)
  /\ lock' = [lock EXCEPT ![NumberRow] = t]
  /\ txn' = [txn EXCEPT ![t].step = @ + 1]
  /\ UNCHANGED <<balance, rows, lotQty, born, ledger, nextId, now>>

(* The lot named by a movement is a completed preparation, possibly the one *)
(* of this very transaction, of that product in that location.              *)
ValidLot(t, l, s) ==
  /\ l # None
  /\ SlotOf[l] = s
  /\ l \in born \/ (JobOf[t].kind = "PREPARE" /\ l = JobOf[t].yield.lot)

(* NegativeStockError, PreparationLotRequiredError, InvalidPreparationLot-  *)
(* Error and LotInsufficientStockError.                                     *)
Allowed(t, m) ==
  /\ View(t, m.slot) + m.qty >= 0
  /\ m.slot \in Prepared => ValidLot(t, m.lot, m.slot) /\ LotView(t, m.lot) + m.qty >= 0

(* The sum of the lots after this movement is not the new aggregate.        *)
Diverges(t, m) ==
  m.slot \in Prepared /\ LotTotal(t, m.slot) + m.qty # View(t, m.slot) + m.qty

Entry(t, m) ==
  [id |-> nextId, at |-> txn[t].at, txn |-> t, slot |-> m.slot, qty |-> m.qty,
   after |-> View(t, m.slot) + m.qty, lot |-> m.lot]

(* Slip: the upsert's row is read without FOR UPDATE. *)
Locked_Slip(t, s) == lock

Locked(t, s) == [lock EXCEPT ![s] = t]

(* apply_movement: upsert the zero balance, lock the row, check, move the   *)
(* lot, write the balance and flush the movement that proves it.            *)
ApplyMovement(t) ==
  LET m == Current(t) IN
  /\ At(t, "move") /\ ~txn[t].short
  /\ Free(m.slot, t)
  /\ IF ~Allowed(t, m) THEN Abort(t, "refused")
     ELSE IF Diverges(t, m) THEN Abort(t, "diverged")
     ELSE /\ lock' = Locked(t, m.slot)
          /\ nextId' = nextId + 1
          /\ txn' = [txn EXCEPT ![t].step = @ + 1,
                                ![t].pending = @ \cup {Entry(t, m)}]
          /\ UNCHANGED <<balance, rows, lotQty, born, ledger, now>>

Commit(t) ==
  /\ Running(t) /\ AtEnd(t)
  /\ balance' = [s \in Slots |-> View(t, s)]
  /\ rows' = rows \cup {m.slot : m \in txn[t].pending}
  /\ lotQty' = [l \in Lots |-> LotView(t, l)]
  /\ born' = IF JobOf[t].kind = "PREPARE" THEN born \cup {JobOf[t].yield.lot} ELSE born
  /\ ledger' = ledger \cup txn[t].pending
  /\ lock' = Released(t)
  /\ txn' = [txn EXCEPT ![t].pc = "committed", ![t].pending = {}]
  /\ UNCHANGED <<nextId, now>>

(* A later statement of the request fails, the client goes away or the      *)
(* process dies.                                                            *)
RollBack(t) == Running(t) /\ Abort(t, "lost")

(* The transaction t waits for: at most one, the holder of the next row.    *)
WaitsFor(t) ==
  IF ~Running(t) \/ AtEnd(t) THEN None
  ELSE IF Current(t).op = "check" /\ ~HasRow(t, Current(t).slot) THEN None
  ELSE IF txn[t].short /\ Current(t).op # "check" THEN None
  ELSE IF Free(Current(t).slot, t) THEN None
  ELSE lock[Current(t).slot]

(* The circles in which transactions wait for each other. *)
Blocked == {t \in Txns : WaitsFor(t) # None}
LockCycles == {S \in SUBSET Blocked : S # {} /\ \A t \in S : WaitsFor(t) \in S}

(* PostgreSQL's deadlock detector cancels one transaction of a cycle.       *)
CancelVictim(t) ==
  /\ \E S \in LockCycles : t \in S
  /\ Abort(t, "lost")

Run(t) ==
  \/ CheckBalance(t) \/ RefuseShort(t) \/ IssueNumber(t) \/ ApplyMovement(t) \/ Commit(t)

Next == \E t \in Txns : Begin(t) \/ Run(t) \/ RollBack(t) \/ CancelVictim(t)

Spec == Init /\ [][Next]_vars

(* A transaction that began keeps running while nothing blocks it, and the  *)
(* database looks for deadlocks (deadlock_timeout).                         *)
Fairness == \A t \in Txns : WF_vars(Run(t)) /\ WF_vars(CancelVictim(t))

LiveSpec == Spec /\ Fairness

-----------------------------------------------------------------------------
(* Every balance is the opening balance plus all its movements: no write    *)
(* was lost and none lacks its evidence.                                    *)
Conservation ==
  \A s \in Slots : balance[s] = Opening[s] + Delta({m \in ledger : m.slot = s})

(* The lots of a prepared material add up to its balance                    *)
(* (lot_reconciliation_discrepancies of the post-0045 invariants).          *)
LotsMatchAggregate ==
  \A s \in Prepared :
    balance[s] = SumFunctionOnSet(lotQty, LotsOf(s))

(* The RuntimeError of _apply_prepared_lot_delta is never raised.           *)
NeverDiverges == \A t \in Txns : txn[t].pc # "diverged"

(* balance_after is right along the register: read by id, every movement    *)
(* leaves what the movements before it and itself add up to.                *)
ChainById ==
  \A m \in ledger :
    m.after = Opening[m.slot] + Delta({o \in ledger : o.slot = m.slot /\ o.id <= m.id})

(* No movement is lost and no balance is counted twice, whatever waits,     *)
(* fails and rolls back: aggregates, lots and register say the same, at the *)
(* end of the register and at any place in it.                              *)
LedgerAddsUp ==
  TypeOK /\ Conservation /\ LotsMatchAggregate /\ NeverDiverges /\ ChainById

(* A job leaves all its movements or none, whatever failed in between.      *)
WholeJob ==
  \A t \in Txns :
    Cardinality({m \in ledger : m.txn = t}) =
      IF txn[t].pc = "committed"
      THEN Cardinality({i \in DOMAIN Script[t] : Script[t][i].op = "move"}) ELSE 0

(* The checks that take every balance before any is moved, of starts and    *)
(* preparations, take them in one order (prototypes.py:623-624): a circle   *)
(* needs a transaction that waits for a balance it moves without that.      *)
ChecksNeverCircle ==
  \A S \in LockCycles : \E t \in S : Current(t).op = "move"

(* Every transaction that began ends and frees its rows.                    *)
EveryTxnEnds == \A t \in Txns : Running(t) ~> txn[t].pc \in Ended
=============================================================================
