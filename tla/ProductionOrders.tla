-------------------------- MODULE ProductionOrders --------------------------
(***************************************************************************)
(* The production orders of quotations as the requests really run:         *)
(* ProductionService.create, create_for_v2_quotation, start,               *)
(* record_consumption, add_note, record_communication, complete and        *)
(* cancel, each in one READ COMMITTED transaction that takes its locks one *)
(* by one, reads, and publishes what it wrote when it commits.             *)
(*                                                                         *)
(* `lock' holds the advisory locks of the idempotency keys and the row     *)
(* locks of quotations (or of the handoff of a V2 quotation) and orders;   *)
(* they last until the transaction ends.  A retry is another request with  *)
(* the same call.  A refusal that depends on data this module leaves out   *)
(* (an archived material, an inactive location, too little stock) is one   *)
(* of the reasons of RollBack.                                             *)
(***************************************************************************)
EXTENDS ProductionRules

CONSTANTS
  Calls,   \* what clients may ask for
  Usages   \* how they may be divided among the requests; a behaviour has one of
           \* these divisions

VARIABLES
  orders, entries, exits, results, confirmed, paid,  \* the committed rows
  lock,  \* who holds each lock
  req    \* what each request may ask for, and its local state

book == <<orders, entries, exits, results, confirmed, paid>>
vars == <<book, lock, req>>

(* A call names the order it is about, when it is about one, only by its    *)
(* quotation: the client looks the order up before it asks.                 *)
CreateCall == [op : {"CREATE"}, quote : Quotes, key : Keys \cup {None}]
RecordCall == [op : {"RECORD"}, quote : Quotes, key : Keys, kind : EntryKinds]
CompleteCall == [op : {"COMPLETE"}, quote : Quotes, report : Reports]
PlainCall == [op : {"START", "CANCEL"}, quote : Quotes]

ASSUME CallsAssumption ==
  /\ Calls \subseteq CreateCall \cup RecordCall \cup CompleteCall \cup PlainCall
  /\ None \notin Calls
  /\ Usages \subseteq [Requests -> SUBSET Calls]
  /\ Keys \cap Quotes = {}
  /\ (Keys \cup Quotes) \cap OrderIds = {}

Locks == Keys \cup Quotes \cup OrderIds

(* "saved" and "found": the answer is the row that `reply' names, written   *)
(* by this very request or by an earlier one.                               *)
Ended == {"saved", "found", "refused", "clash", "lost"}
Waiting == {"key", "keyed", "quote", "quoted", "insert", "order", "ordered", "paying", "close"}

ReqState == [may : SUBSET Calls, pc : {"idle"} \cup Waiting \cup Ended, call : Calls \cup {None},
             order : OrderIds \cup {None}, reply : OrderIds \cup {None}]

TypeOK ==
  /\ orders \in [OrderIds -> OrderRow \cup {None}]
  /\ entries \in SUBSET Entry
  /\ exits \in SUBSET Exit
  /\ results \in SUBSET Result
  /\ confirmed \in SUBSET (Quotes \ V2)
  /\ paid \in SUBSET (Quotes \ V2)
  /\ lock \in [Locks -> Requests \cup {None}]
  /\ req \in [Requests -> ReqState]

Init ==
  /\ orders = [o \in OrderIds |-> IF o \in DOMAIN Opening THEN Opening[o] ELSE None]
  /\ entries = {}
  /\ exits = {}
  /\ results = {}
  /\ confirmed \in SUBSET (Quotes \ V2)
  /\ paid = {}
  /\ lock = [x \in Locks |-> None]
  /\ \E u \in Usages : req = [r \in Requests |->
       [may |-> u[r], pc |-> "idle", call |-> None, order |-> None, reply |-> None]]

-----------------------------------------------------------------------------
Call(r) == req[r].call
Key(r) == Call(r).key
Quote(r) == Call(r).quote
Order(r) == req[r].order
Row(r) == orders[Order(r)]
At(r, pc) == req[r].pc = pc
Asks(r, op) == Call(r).op = op

Free(x) == lock[x] = None

(* Slip: the locks survive the transaction. *)
Released_Slip(r) == lock

(* The locks once the transaction of r is over. *)
Released(r) == [x \in Locks |-> IF lock[x] = r THEN None ELSE lock[x]]

Goto(r, pc) == req' = [req EXCEPT ![r].pc = pc]

(* The answer goes out and the transaction is over; what it wrote is given  *)
(* by the caller of this operator.                                          *)
End(r, pc, reply) ==
  /\ req' = [req EXCEPT ![r].pc = pc, ![r].reply = reply]
  /\ lock' = Released(r)

Refuse(r) == End(r, "refused", None) /\ UNCHANGED book
Answer(r, reply) == End(r, "found", reply) /\ UNCHANGED book

(* One statement that waits for a lock and takes it. *)
Take(r, x, pc) ==
  /\ Free(x)
  /\ lock' = [lock EXCEPT ![x] = r]
  /\ Goto(r, pc)
  /\ UNCHANGED book

-----------------------------------------------------------------------------
(* A request arrives; a call about an order comes from a client that saw    *)
(* the order.                                                               *)
Arrive(r, c) ==
  /\ At(r, "idle") /\ c \in req[r].may
  /\ \E o \in IF c.op = "CREATE" THEN {None} ELSE OfQuote(orders, c.quote) :
       req' = [req EXCEPT ![r] =
         [may |-> @.may,
          pc |-> IF c.op = "CREATE" THEN IF c.key = None THEN "quote" ELSE "key"
                 ELSE IF c.op = "RECORD" THEN "key" ELSE "order",
          call |-> c, order |-> o, reply |-> None]]
  /\ UNCHANGED <<book, lock>>

(* _lock_idempotency: pg_advisory_xact_lock on the key. *)
LockKey(r) == At(r, "key") /\ Take(r, Key(r), "keyed")

(* Slip: the order found by its key is answered to whoever asks. *)
AnswersForeign_Slip(q) == TRUE

(* create does not compare the origin of the order its key finds;           *)
(* create_for_v2_quotation does (_is_order_of_v2_quotation).                *)
AnswersForeign(q) == q \notin V2

LookUpOrderKey(r) ==
  LET known == WithKey(orders, Key(r)) IN
  /\ At(r, "keyed") /\ Asks(r, "CREATE")
  /\ \/ /\ known = {}
        /\ Goto(r, "quote") /\ UNCHANGED <<book, lock>>
     \/ \E o \in known :
          IF orders[o].quote = Quote(r) \/ AnswersForeign(Quote(r)) THEN Answer(r, o) ELSE Refuse(r)

(* Slip: the quotation is read without FOR UPDATE. *)
LockQuote_Slip(r) == At(r, "quote") /\ Goto(r, "quoted") /\ UNCHANGED <<book, lock>>

(* SELECT ... FOR UPDATE of the quotation, or of the handoff of a V2 one.   *)
LockQuote(r) == At(r, "quote") /\ Take(r, Quote(r), "quoted")

(* The quotation must be confirmed; then an order it already has is the     *)
(* answer, whatever key came.                                               *)
LookUpOrder(r) ==
  /\ At(r, "quoted")
  /\ IF Quote(r) \notin V2 \cup confirmed THEN Refuse(r)
     ELSE \/ /\ OfQuote(orders, Quote(r)) = {}
             /\ Goto(r, "insert") /\ UNCHANGED <<book, lock>>
          \/ \E o \in OfQuote(orders, Quote(r)) : Answer(r, o)

NewOrder(q, k) == [quote |-> q, key |-> k, status |-> "CREATED"]

(* INSERT and COMMIT.  The UNIQUE constraints of production_orders are the  *)
(* last word: create dies of one with an integrity error, the V2 path       *)
(* answers the order that won.                                              *)
InsertOrder(r) ==
  LET same == OfQuote(orders, Quote(r)) IN
  /\ At(r, "insert")
  /\ IF same \cup WithKey(orders, Key(r)) # {}
     THEN IF Quote(r) \in V2 /\ same # {} THEN \E o \in same : Answer(r, o)
          ELSE End(r, "clash", None) /\ UNCHANGED book
     ELSE /\ orders' = [orders EXCEPT ![r] = NewOrder(Quote(r), Key(r))]
          /\ End(r, "saved", r)
          /\ UNCHANGED <<entries, exits, results, confirmed, paid>>

-----------------------------------------------------------------------------
(* Slip: what records reads the order without FOR UPDATE. *)
LockOrder_Slip(r) ==
  /\ At(r, "order")
  /\ IF Asks(r, "RECORD") THEN Goto(r, "ordered") /\ UNCHANGED <<book, lock>>
     ELSE Take(r, Order(r), "ordered")

(* get(order_id, for_update=True): the first statement of start, complete   *)
(* and cancel, the third of the three that record.                          *)
LockOrder(r) == At(r, "order") /\ Take(r, Order(r), "ordered")

Target(op) == CASE op = "START" -> "STARTED" [] op = "COMPLETE" -> "COMPLETED"
                [] op = "CANCEL" -> "CANCELLED"

(* Slip: a started order may still be started, or cancelled. *)
Source_Slip(op) == IF op = "COMPLETE" THEN {"STARTED"} ELSE {"CREATED", "STARTED"}

(* The states each transition leaves. *)
Source(op) == IF op = "COMPLETE" THEN {"STARTED"} ELSE {"CREATED"}

Moves(r) == Call(r).op \in {"START", "COMPLETE", "CANCEL"}

(* Asked again: nothing to do, the answer is the order as it is. *)
AlreadyDone(r) ==
  /\ At(r, "ordered") /\ Moves(r)
  /\ Row(r).status = Target(Call(r).op)
  /\ Answer(r, Order(r))

WrongState(r) ==
  /\ At(r, "ordered") /\ Moves(r)
  /\ Row(r).status \notin {Target(Call(r).op)} \cup Source(Call(r).op)
  /\ Refuse(r)

Proceeds(r, op) == Asks(r, op) /\ Row(r).status \in Source(op)

(* The order with its new status, committed. *)
Become(r, status) ==
  /\ orders' = [orders EXCEPT ![Order(r)] = [@ EXCEPT !.status = status]]
  /\ End(r, "saved", Order(r))

(* _start_v2: no guard of the legacy branch, and the stock is not touched.  *)
StartV2(r) ==
  /\ At(r, "ordered") /\ Proceeds(r, "START") /\ Row(r).quote \in V2
  /\ Become(r, "STARTED")
  /\ UNCHANGED <<entries, exits, results, confirmed, paid>>

(* _require_paid_quotation locks the quotation before it looks at it. *)
LockPayment(r) ==
  /\ At(r, "ordered") /\ Proceeds(r, "START") /\ Row(r).quote \notin V2
  /\ Take(r, Row(r).quote, "paying")

(* The legacy start: refused while unpaid, otherwise the whole recipe goes  *)
(* out of the stock with the change of status.                              *)
StartLegacy(r) ==
  /\ At(r, "paying")
  /\ IF Row(r).quote \notin paid THEN Refuse(r)
     ELSE /\ exits' = exits \cup {[order |-> Order(r), key |-> None, by |-> r]}
          /\ Become(r, "STARTED")
          /\ UNCHANGED <<entries, results, confirmed, paid>>

(* Slip: the lookup is left to the UNIQUE constraint. *)
SameKey_Slip(r) == {}

SameKey(r) == Keyed(entries, Call(r).kind, Key(r))

(* _same_consumption, _same_note, _same_communication: the same entry is    *)
(* answered again, a key that now asks for something else is refused.       *)
AnswerEntry(r, e) ==
  IF e.order = Order(r) /\ e.kind = Call(r).kind THEN Answer(r, e.by) ELSE Refuse(r)

(* The key is looked up before the order is locked. *)
LookUpEntryKey(r) ==
  /\ At(r, "keyed") /\ Asks(r, "RECORD")
  /\ \/ SameKey(r) = {} /\ Goto(r, "order") /\ UNCHANGED <<book, lock>>
     \/ \E e \in SameKey(r) : AnswerEntry(r, e)

(* The entry, with the movement of a consumption in the same savepoint: an  *)
(* integrity error undoes both and the entry that won is the answer.        *)
RecordEntry(r) ==
  LET kind == Call(r).kind
      winners == Keyed(entries, kind, Key(r))
  IN
  /\ At(r, "ordered") /\ Asks(r, "RECORD")
  /\ IF Row(r).quote \notin V2 \/ ~Accepts(kind, Row(r).status) THEN Refuse(r)
     ELSE IF winners # {} THEN \E e \in winners : AnswerEntry(r, e)
     ELSE /\ entries' = entries \cup {[order |-> Order(r), kind |-> kind, key |-> Key(r), by |-> r]}
          /\ exits' = IF kind \in Classes
                      THEN exits \cup {[order |-> Order(r), key |-> Key(r), by |-> r]} ELSE exits
          /\ End(r, "saved", r)
          /\ UNCHANGED <<orders, results, confirmed, paid>>

(* What the order consumed is read before it closes. *)
CheckClose(r) ==
  /\ At(r, "ordered")
  /\ \/ /\ Proceeds(r, "COMPLETE")
        /\ IF PendingKinds(entries, Order(r), Row(r).quote) # {} THEN Refuse(r)
           ELSE Goto(r, "close") /\ UNCHANGED <<book, lock>>
     \/ /\ Proceeds(r, "CANCEL")
        /\ IF Consumed(entries, Order(r)) # {} THEN Refuse(r)
           ELSE Goto(r, "close") /\ UNCHANGED <<book, lock>>

(* complete: one result for each line, all of them with the new status. *)
CommitComplete(r) ==
  /\ At(r, "close") /\ Asks(r, "COMPLETE")
  /\ IF ~Accounts(Row(r).quote, Call(r).report) THEN Refuse(r)
     ELSE /\ results' = results \cup ResultsOf(Order(r), Call(r).report, r)
          /\ Become(r, "COMPLETED")
          /\ UNCHANGED <<entries, exits, confirmed, paid>>

CommitCancel(r) ==
  /\ At(r, "close") /\ Asks(r, "CANCEL")
  /\ Become(r, "CANCELLED")
  /\ UNCHANGED <<entries, exits, results, confirmed, paid>>

(* Another statement fails, the client goes away or the process dies.  *)
RollBack(r) ==
  /\ req[r].pc \in Waiting
  /\ End(r, "lost", None)
  /\ UNCHANGED book

-----------------------------------------------------------------------------
(* QuotationBuilderService.mark_paid and cancel, each under the row lock of *)
(* the quotation from its first statement to its commit.                    *)
Pay(q) ==
  /\ Free(q) /\ q \in confirmed
  /\ paid' = paid \cup {q}
  /\ UNCHANGED <<orders, entries, exits, results, confirmed, lock, req>>

Withdraw(q) ==
  /\ Free(q) /\ q \in confirmed
  /\ confirmed' = confirmed \ {q}
  /\ UNCHANGED <<orders, entries, exits, results, paid, lock, req>>

Creating(r) == LookUpOrderKey(r) \/ LockQuote(r) \/ LookUpOrder(r) \/ InsertOrder(r)
Recording(r) == LookUpEntryKey(r) \/ RecordEntry(r)
Starting(r) == StartV2(r) \/ LockPayment(r) \/ StartLegacy(r)
Closing(r) == CheckClose(r) \/ CommitComplete(r) \/ CommitCancel(r)

Step(r) ==
  \/ LockKey(r) \/ LockOrder(r) \/ AlreadyDone(r) \/ WrongState(r)
  \/ Creating(r) \/ Recording(r) \/ Starting(r) \/ Closing(r)

Next ==
  \/ \E r \in Requests, c \in Calls : Arrive(r, c)
  \/ \E r \in Requests : Step(r) \/ RollBack(r)
  \/ \E q \in Quotes : Pay(q) \/ Withdraw(q)

Spec == Init /\ [][Next]_vars

(* A request that arrived keeps running: the event loop schedules every     *)
(* coroutine, and PostgreSQL wakes whoever waits for a lock that is freed.  *)
(* Every request takes a lock once and there are finitely many requests, so *)
(* weak fairness is enough for the waiters.                                 *)
Fairness == \A r \in Requests : WF_vars(Step(r))

LiveSpec == Spec /\ Fairness

-----------------------------------------------------------------------------
Answered(r) == req[r].pc \in {"saved", "found"}
HasStatus(o, status) == orders[o] # None /\ orders[o].status = status
ExitsOf(o) == {x \in exits : x.order = o}

(* "una forma fea de decir ya existe" (production.py:632-635): the lock on  *)
(* the quotation and the lookups under it keep every creation from dying of *)
(* a UNIQUE constraint.                                                     *)
NeverClashes == \A r \in Requests : req[r].pc # "clash"

(* A cancelled order never spent anything, not even while it was being      *)
(* cancelled (production.py:2832-2838).                                     *)
CancelledSpentNothing ==
  \A o \in OrderIds : HasStatus(o, "CANCELLED") => Consumed(entries, o) = {} /\ ExitsOf(o) = {}

(* Material leaves once: with the start of a legacy order, however often it *)
(* is asked for, and with each consumption of a V2 order.                   *)
SpentOnce ==
  \A o \in Existing(orders) :
    Cardinality(ExitsOf(o)) =
      IF orders[o].quote \in V2 THEN Cardinality(Consumed(entries, o))
      ELSE IF orders[o].status \in {"STARTED", "COMPLETED"} THEN 1 ELSE 0

(* An idempotency key names one row of its table, whatever the orders and   *)
(* the kinds it came with.                                                  *)
KeyRecordsOnce ==
  \A e, f \in entries : TableOf(e.kind) = TableOf(f.kind) /\ e.key = f.key => e = f

ResultsFor(o) == {x \in results : x.order = o}
Accounted(o) ==
  LET q == orders[o].quote IN
  /\ q \in V2 => Required[q] \subseteq {e.kind : e \in Consumed(entries, o)}
  /\ \A l \in DOMAIN Pieces[q] :
       \E x \in ResultsFor(o) : /\ {y \in ResultsFor(o) : y.line = l} = {x}
                                /\ x.outcome.good + x.outcome.scrap = Pieces[q][l]

(* A completed order consumed every class it planned and accounts for every *)
(* piece of every line exactly once; no other order has results.            *)
ClosedIsAccounted ==
  \A o \in Existing(orders) :
    IF orders[o].status = "COMPLETED" THEN Accounted(o) ELSE ResultsFor(o) = {}

(* "devolverla seria entregar una orden ajena como si fuera la pedida"      *)
(* (production.py:749-751): a creation answers an order of the quotation it *)
(* was asked for.                                                           *)
OwnOrder(r) == orders[req[r].reply].quote = Quote(r)
RepliesOwnOrder ==
  \A r \in Requests : Answered(r) /\ Asks(r, "CREATE") /\ Quote(r) \in V2 => OwnOrder(r)

Recognised(r) ==
  req'[r].pc = "refused" /\ req[r].pc # "refused" =>
    /\ Asks(r, "RECORD") =>
         \A e \in entries : e.key = Key(r) => e.kind # Call(r).kind \/ e.order # Order(r)
    /\ Asks(r, "CREATE") =>
         \A o \in WithKey(orders, Key(r)) : orders[o].quote # Quote(r)

(* Who retries, with its key, what was already written is never refused:    *)
(* not even when the order has closed or the quotation was withdrawn since. *)
RetryIsRecognised == [][\A r \in Requests : Recognised(r)]_vars

(* The requests, with their locks and their reads in between, keep the      *)
(* promise of the book: each of their commits is one step of it.            *)
Book == INSTANCE OrderBook
RefinesBook == Book!Spec

(* Every request that arrived ends: no circle of key, order and quotation   *)
(* locks, no lock left behind.                                              *)
EveryRequestEnds ==
  \A r \in Requests : req[r].pc \in Waiting ~> req[r].pc \in Ended

-----------------------------------------------------------------------------
(* Why the properties hold: what a request knows where it is, because it    *)
(* read it under a lock that it still has.                                  *)

(* The place a request is at fits what it asked for. *)
Fits(r) ==
  /\ ~At(r, "idle") => Call(r) \in Calls
  /\ At(r, "key") \/ At(r, "keyed") => (Asks(r, "CREATE") \/ Asks(r, "RECORD")) /\ Key(r) # None
  /\ At(r, "quote") \/ At(r, "quoted") \/ At(r, "insert") => Asks(r, "CREATE")
  /\ At(r, "order") \/ At(r, "ordered") => ~Asks(r, "CREATE")
  /\ At(r, "paying") => Asks(r, "START")
  /\ At(r, "close") => Asks(r, "COMPLETE") \/ Asks(r, "CANCEL")
  /\ ~At(r, "idle") /\ ~Asks(r, "CREATE") => Order(r) # None
  /\ Order(r) # None => orders[Order(r)] # None
  /\ r \in Existing(orders) => req[r].pc \in Ended

(* The locks it has there. *)
Holds(r) ==
  /\ At(r, "keyed") => lock[Key(r)] = r
  /\ (At(r, "quote") \/ At(r, "quoted") \/ At(r, "insert")) /\ Key(r) # None => lock[Key(r)] = r
  /\ (At(r, "order") \/ At(r, "ordered")) /\ Asks(r, "RECORD") => lock[Key(r)] = r
  /\ At(r, "quoted") \/ At(r, "insert") => lock[Quote(r)] = r
  /\ At(r, "ordered") \/ At(r, "paying") \/ At(r, "close") => lock[Order(r)] = r

(* What it read under them, and is still so. *)
Knows(r) ==
  /\ At(r, "quote") \/ At(r, "quoted") \/ At(r, "insert") => WithKey(orders, Key(r)) = {}
  /\ At(r, "insert") => OfQuote(orders, Quote(r)) = {} /\ Quote(r) \in V2 \cup confirmed
  /\ (At(r, "order") \/ At(r, "ordered")) /\ Asks(r, "RECORD") => SameKey(r) = {}
  /\ At(r, "paying") => Row(r).status = "CREATED"
  /\ At(r, "close") /\ Asks(r, "COMPLETE") =>
       Row(r).status = "STARTED" /\ PendingKinds(entries, Order(r), Row(r).quote) = {}
  /\ At(r, "close") /\ Asks(r, "CANCEL") =>
       Row(r).status = "CREATED" /\ Consumed(entries, Order(r)) = {}

(* A quotation and a key have one order at most, and what belongs to an     *)
(* order belongs to one that exists.                                        *)
OneOrder ==
  \A o, p \in Existing(orders) :
    /\ orders[o].quote = orders[p].quote => o = p
    /\ orders[o].key = orders[p].key /\ orders[o].key # None => o = p

NoOrphans == \A x \in entries \cup exits \cup results : orders[x.order] # None

(* What left the stock left with the start or with a consumption. *)
ExitsExplained ==
  \A x \in exits :
    orders[x.order].status \in {"STARTED", "COMPLETED"} \/ Consumed(entries, x.order) # {}

RepliesExist ==
  \A r \in Requests : Answered(r) /\ Asks(r, "CREATE") => req[r].reply \in Existing(orders)

(* The inductive invariant: the requests and the rows fit together. *)
IInv ==
  /\ TypeOK
  /\ \A r \in Requests : Fits(r) /\ Holds(r) /\ Knows(r)
  /\ OneOrder /\ NoOrphans /\ ExitsExplained /\ RepliesExist
  /\ NeverClashes /\ RepliesOwnOrder
  /\ CancelledSpentNothing /\ KeyRecordsOnce /\ ClosedIsAccounted
=============================================================================
