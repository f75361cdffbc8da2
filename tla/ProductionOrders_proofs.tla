----------------------- MODULE ProductionOrders_proofs -----------------------
(***************************************************************************)
(* Proofs about ProductionOrders, for any requests, quotations, keys,      *)
(* calls and opening orders that satisfy RulesAssumption and               *)
(* CallsAssumption.                                                        *)
(*                                                                         *)
(* The argument: IInv (ProductionOrders) says of every request what it     *)
(* knows at its place and which lock protects that knowledge.  A step of a *)
(* request leaves the others' state and locks alone (Bystanders), what it  *)
(* writes is under its own locks (RowsKeep, EntriesKeep), so the others    *)
(* keep what they know (OthersStay) and it gains what its next place asks  *)
(* for (MoverFits).  The rows follow from what the writer knows when it    *)
(* commits, and so does the refinement of OrderBook.                       *)
(***************************************************************************)
EXTENDS ProductionOrders, FiniteSetTheorems, TLAPS

(* What a call is made of. *)
LEMMA CallShape ==
  ASSUME NEW c \in Calls
  PROVE  /\ c.op \in {"CREATE", "RECORD", "START", "COMPLETE", "CANCEL"}
         /\ c.quote \in Quotes
         /\ c.op = "CREATE" => c.key \in Keys \cup {None}
         /\ c.op = "RECORD" => c.key \in Keys /\ c.kind \in EntryKinds
         /\ c.op = "COMPLETE" => c.report \in Reports
BY CallsAssumption DEF CreateCall, RecordCall, CompleteCall, PlainCall

(* What the local state of a request names. *)
LEMMA Types ==
  ASSUME TypeOK, NEW r \in Requests
  PROVE  /\ req[r] \in ReqState
         /\ Order(r) \in OrderIds \cup {None}
         /\ Order(r) # None => Row(r) \in OrderRow \cup {None}
         /\ r \in OrderIds /\ r # None
BY RulesAssumption DEF TypeOK, ReqState, Order, Row, OrderIds

(* The end of a transaction and the taking of a lock are well typed. *)
LEMMA EndTypes ==
  ASSUME TypeOK, NEW r \in Requests, NEW pc \in Ended, NEW reply \in OrderIds \cup {None},
         End(r, pc, reply)
  PROVE  lock' \in [Locks -> Requests \cup {None}] /\ req' \in [Requests -> ReqState]
BY DEF TypeOK, End, Released, ReqState

(* Going on to the next statement keeps the request well typed. *)
LEMMA GotoTypes ==
  ASSUME TypeOK, NEW r \in Requests, NEW pc \in Waiting, Goto(r, pc)
  PROVE  req' \in [Requests -> ReqState]
BY DEF TypeOK, Goto, ReqState

(* Taking a lock keeps everything well typed. *)
LEMMA TakeTypes ==
  ASSUME TypeOK, NEW r \in Requests, NEW x \in Locks, NEW pc \in Waiting, Take(r, x, pc)
  PROVE  TypeOK'
BY GotoTypes DEF TypeOK, Take, book

(* What a step does to the request itself and to its locks. *)
Ends(r) == \E pc \in Ended, reply \in OrderIds \cup {None} : End(r, pc, reply)
Takes(r) == \E x \in Locks, pc \in Waiting : Take(r, x, pc)
Goes(r) == (\E pc \in Waiting : Goto(r, pc)) /\ UNCHANGED lock

(* These actions always end the transaction of the request. *)
LEMMA EndsOnly ==
  ASSUME IInv, NEW r \in Requests,
         \/ AlreadyDone(r) \/ WrongState(r) \/ InsertOrder(r) \/ RecordEntry(r) \/ StartV2(r)
         \/ StartLegacy(r) \/ CommitComplete(r) \/ CommitCancel(r) \/ RollBack(r)
  PROVE  Ends(r)
<1> USE DEF Ended
<1>0. r \in OrderIds
  BY DEF OrderIds
<1>1. CASE AlreadyDone(r) \/ WrongState(r)
  BY <1>1, Types DEF AlreadyDone, WrongState, Answer, Refuse, Ends, IInv
<1>2. CASE InsertOrder(r)
  BY <1>2, <1>0 DEF InsertOrder, OfQuote, Existing, Answer, Refuse, Ends
<1>3. CASE RecordEntry(r)
  BY <1>3, <1>0 DEF RecordEntry, Keyed, AnswerEntry, Answer, Refuse, Ends, IInv, TypeOK, Entry, OrderIds
<1>4. CASE StartV2(r) \/ StartLegacy(r)
  BY <1>4, Types DEF StartV2, StartLegacy, Become, Refuse, Ends, IInv
<1>5. CASE CommitComplete(r) \/ CommitCancel(r)
  BY <1>5, Types DEF CommitComplete, CommitCancel, Refuse, Become, Ends, IInv
<1>6. CASE RollBack(r)
  BY <1>6 DEF RollBack, Ends
<1> QED
  BY <1>1, <1>2, <1>3, <1>4, <1>5, <1>6

(* Every step of a request that arrived ends it, takes one lock or reads.   *)
LEMMA OneMove ==
  ASSUME IInv, NEW r \in Requests, Step(r) \/ RollBack(r)
  PROVE  Ends(r) \/ Takes(r) \/ Goes(r)
<1> USE DEF Ended, Waiting
<1>0. r \in OrderIds
  BY DEF OrderIds
<1>1. CASE LockKey(r)
  <2>1. Key(r) \in Locks
    BY <1>1, CallShape DEF LockKey, IInv, Fits, At, Asks, Key, Call, Locks
  <2> QED  BY <1>1, <2>1 DEF LockKey, Takes
<1>2. CASE LockOrder(r)
  <2>1. Order(r) \in Locks
    BY <1>2, Types DEF LockOrder, IInv, Fits, At, Asks, Locks
  <2> QED  BY <1>2, <2>1 DEF LockOrder, Takes
<1>3. CASE LockQuote(r)
  <2>1. Quote(r) \in Locks
    BY <1>3, CallShape DEF LockQuote, IInv, Fits, At, Quote, Call, Locks
  <2> QED  BY <1>3, <2>1 DEF LockQuote, Takes
<1>4. CASE LockPayment(r)
  <2>1. Row(r).quote \in Locks
    BY <1>4, Types DEF LockPayment, IInv, Fits, At, Asks, Proceeds, Locks, Row, OrderRow
  <2> QED  BY <1>4, <2>1 DEF LockPayment, Takes
<1>5. CASE LookUpOrderKey(r) \/ LookUpOrder(r)
  BY <1>5 DEF LookUpOrderKey, LookUpOrder, WithKey, OfQuote, Existing, Answer, Refuse, Ends, Goes
<1>6. CASE LookUpEntryKey(r)
  BY <1>6, <1>0 DEF LookUpEntryKey, SameKey, Keyed, AnswerEntry, Answer, Refuse, Ends, Goes, IInv, TypeOK, Entry, OrderIds
<1>7. CASE CheckClose(r)
  BY <1>7 DEF CheckClose, Refuse, Ends, Goes
<1> QED
  BY <1>1, <1>2, <1>3, <1>4, <1>5, <1>6, <1>7, EndsOnly DEF Step, Creating, Recording, Starting, Closing

(* A request moves nobody else: the others keep their state and their locks. *)
LEMMA Bystanders ==
  ASSUME IInv, NEW r \in Requests, NEW s \in Requests, s # r,
         (\E c \in Calls : Arrive(r, c)) \/ Step(r) \/ RollBack(r)
  PROVE  req'[s] = req[s] /\ \A x \in Locks : lock[x] = s => lock'[x] = s
<1> USE DEF IInv
<1>1. CASE Ends(r)
  BY <1>1, RulesAssumption DEF TypeOK, Ends, End, Released
<1>2. CASE Takes(r)
  BY <1>2, RulesAssumption DEF TypeOK, Takes, Take, Goto, Free
<1>3. CASE Goes(r)
  BY <1>3 DEF TypeOK, Goes, Goto
<1>4. CASE \E c \in Calls : Arrive(r, c)
  BY <1>4 DEF TypeOK, Arrive
<1> QED
  BY <1>1, <1>2, <1>3, <1>4, OneMove

(* The requests and the locks stay well typed. *)
LEMMA RequestTypes ==
  ASSUME IInv, NEW r \in Requests, (\E c \in Calls : Arrive(r, c)) \/ Step(r) \/ RollBack(r)
  PROVE  lock' \in [Locks -> Requests \cup {None}] /\ req' \in [Requests -> ReqState]
<1> USE DEF IInv
<1>1. CASE Ends(r)
  BY <1>1, EndTypes DEF Ends
<1>2. CASE Takes(r)
  BY <1>2, TakeTypes DEF Takes, TypeOK
<1>3. CASE Goes(r)
  BY <1>3, GotoTypes DEF Goes, TypeOK
<1>4. CASE \E c \in Calls : Arrive(r, c)
  <2>1. PICK c \in Calls : Arrive(r, c)
    BY <1>4
  <2>2. PICK o \in OrderIds \cup {None}, pc \in Waiting :
          req' = [req EXCEPT ![r] = [may |-> @.may, pc |-> pc, call |-> c, order |-> o, reply |-> None]]
    BY <2>1 DEF Arrive, OfQuote, Existing, Waiting
  <2> QED  BY <2>1, <2>2 DEF TypeOK, Arrive, ReqState
<1> QED
  BY <1>1, <1>2, <1>3, <1>4, OneMove

(* What the step of a request does to the book. *)
Creates(r) ==
  /\ At(r, "insert")
  /\ OfQuote(orders, Quote(r)) = {} /\ WithKey(orders, Key(r)) = {}
  /\ orders' = [orders EXCEPT ![r] = NewOrder(Quote(r), Key(r))]
  /\ End(r, "saved", r)
  /\ UNCHANGED <<entries, exits, results, confirmed, paid>>

(* A step leaves the book alone or is one of six commits, each with what    *)
(* its guards saw.                                                          *)
LEMMA BookSteps ==
  ASSUME IInv, NEW r \in Requests, (\E c \in Calls : Arrive(r, c)) \/ Step(r) \/ RollBack(r)
  PROVE  \/ UNCHANGED book
         \/ Creates(r)
         \/ StartV2(r)
         \/ StartLegacy(r) /\ Row(r).quote \in paid
         \/ /\ RecordEntry(r)
            /\ Row(r).quote \in V2 /\ Accepts(Call(r).kind, Row(r).status) /\ SameKey(r) = {}
         \/ CommitComplete(r) /\ Accounts(Row(r).quote, Call(r).report)
         \/ CommitCancel(r)
<1>1. CASE InsertOrder(r)
  BY <1>1 DEF InsertOrder, Creates, Answer
<1>2. CASE RecordEntry(r)
  BY <1>2 DEF RecordEntry, SameKey, Answer, AnswerEntry, Refuse
<1>3. CASE StartV2(r) \/ StartLegacy(r) \/ CommitComplete(r) \/ CommitCancel(r)
  BY <1>3 DEF StartLegacy, CommitComplete, Refuse
<1>4. CASE RollBack(r) \/ \E c \in Calls : Arrive(r, c)
  BY <1>4 DEF RollBack, Arrive
<1>5. CASE LockKey(r) \/ LockOrder(r) \/ LockQuote(r) \/ LockPayment(r)
  BY <1>5 DEF LockKey, LockOrder, LockQuote, LockPayment, Take
<1>6. CASE AlreadyDone(r) \/ WrongState(r) \/ LookUpOrderKey(r) \/ LookUpOrder(r)
           \/ LookUpEntryKey(r) \/ CheckClose(r)
  BY <1>6 DEF AlreadyDone, WrongState, LookUpOrderKey, LookUpOrder, LookUpEntryKey, CheckClose,
              Answer, AnswerEntry, Refuse
<1> QED
  BY <1>1, <1>2, <1>3, <1>4, <1>5, <1>6 DEF Step, Creating, Recording, Starting, Closing

(* Every step keeps every variable well typed. *)
LEMMA TypeStep ==
  ASSUME IInv, [Next]_vars
  PROVE  TypeOK'
<1> USE DEF IInv
<1>1. ASSUME NEW r \in Requests, (\E c \in Calls : Arrive(r, c)) \/ Step(r) \/ RollBack(r)
      PROVE  TypeOK'
  <2> USE <1>1
  <2>1. lock' \in [Locks -> Requests \cup {None}] /\ req' \in [Requests -> ReqState]
    BY RequestTypes
  <2>2. CASE UNCHANGED book
    BY <2>1, <2>2 DEF TypeOK, book
  <2>3. CASE Creates(r)
    <3>1. NewOrder(Quote(r), Key(r)) \in OrderRow
      BY <2>3, CallShape DEF Creates, NewOrder, OrderRow, Fits, At, Asks, Quote, Key, Call, Status
    <3> QED  BY <3>1, <2>1, <2>3 DEF Creates, TypeOK
  <2>4. ASSUME NEW status \in Status, Become(r, status), ~At(r, "idle"), ~Asks(r, "CREATE")
        PROVE  orders' \in [OrderIds -> OrderRow \cup {None}]
    <3>1. Order(r) \in OrderIds /\ Row(r) \in OrderRow
      BY <2>4, Types DEF Fits, TypeOK, Row
    <3>2. [Row(r) EXCEPT !.status = status] \in OrderRow
      BY <3>1, <2>4 DEF OrderRow
    <3> QED  BY <3>1, <3>2, <2>4 DEF Become, TypeOK, Row
  <2>5. CASE StartV2(r)
    BY <2>1, <2>4, <2>5 DEF StartV2, TypeOK, Proceeds, At, Asks, Status
  <2>6. CASE StartLegacy(r) /\ Row(r).quote \in paid
    <3>1. Order(r) \in OrderIds
      BY <2>6, Types DEF StartLegacy, Fits, At, Asks
    <3>2. [order |-> Order(r), key |-> None, by |-> r] \in Exit
      BY <3>1 DEF Exit
    <3> QED
      BY <3>2, <2>1, <2>4, <2>6 DEF StartLegacy, TypeOK, At, Asks, Fits, Status
  <2>7. CASE RecordEntry(r) /\ Row(r).quote \in V2 /\ Accepts(Call(r).kind, Row(r).status)
             /\ SameKey(r) = {}
    <3>1. Order(r) \in OrderIds /\ Call(r).kind \in EntryKinds /\ Key(r) \in Keys
      BY <2>7, Types, CallShape DEF RecordEntry, Fits, At, Asks, Key, Call
    <3>2. /\ [order |-> Order(r), kind |-> Call(r).kind, key |-> Key(r), by |-> r] \in Entry
          /\ [order |-> Order(r), key |-> Key(r), by |-> r] \in Exit
      BY <3>1 DEF Entry, Exit
    <3> QED
      BY <3>2, <2>1, <2>7 DEF RecordEntry, SameKey, TypeOK
  <2>8. CASE CommitComplete(r) /\ Accounts(Row(r).quote, Call(r).report)
    <3>1. Order(r) \in OrderIds /\ Call(r).report \in Reports
      BY <2>8, Types, CallShape DEF CommitComplete, Fits, At, Asks, Call
    <3>2. ResultsOf(Order(r), Call(r).report, r) \in SUBSET Result
      BY <3>1, RulesAssumption DEF ResultsOf, Result
    <3> QED
      BY <3>2, <2>1, <2>4, <2>8 DEF CommitComplete, TypeOK, At, Asks, Status
  <2>9. CASE CommitCancel(r)
    BY <2>1, <2>4, <2>9 DEF CommitCancel, TypeOK, At, Asks, Status
  <2> QED
    BY <2>2, <2>3, <2>5, <2>6, <2>7, <2>8, <2>9, BookSteps
<1>2. ASSUME NEW q \in Quotes, Pay(q) \/ Withdraw(q)
      PROVE  TypeOK'
  BY <1>2 DEF Pay, Withdraw, TypeOK
<1>3. CASE UNCHANGED vars
  BY <1>3 DEF vars, book, TypeOK
<1> QED
  BY <1>1, <1>2, <1>3 DEF Next

(* An order never disappears nor changes its quotation or its key; its      *)
(* status changes under its lock only.  An order that appears is named by   *)
(* the request that creates it.                                             *)
Kept(r, o) ==
  /\ orders[o] # None => /\ orders'[o] # None
                         /\ orders'[o].quote = orders[o].quote
                         /\ orders'[o].key = orders[o].key
                         /\ lock[o] # r => orders'[o] = orders[o]
  /\ orders[o] = None /\ orders'[o] # None => o = r /\ Creates(r)

(* Kept holds of every order under every step of a request. *)
LEMMA RowsKeep ==
  ASSUME IInv, NEW r \in Requests, (\E c \in Calls : Arrive(r, c)) \/ Step(r) \/ RollBack(r),
         NEW o \in OrderIds
  PROVE  Kept(r, o)
<1> USE DEF IInv
<1>2. CASE UNCHANGED book
  BY <1>2 DEF book, Kept
<1>3. CASE Creates(r)
  <2>1. orders[r] = None
    BY <1>3, Types DEF Creates, Fits, At, Ended, Existing
  <2>2. orders' = [orders EXCEPT ![r] = NewOrder(Quote(r), Key(r))]
    BY <1>3 DEF Creates
  <2> QED  BY <1>3, <2>1, <2>2 DEF Kept, TypeOK
<1>4. ASSUME NEW status \in Status, Become(r, status), lock[Order(r)] = r, ~At(r, "idle"), ~Asks(r, "CREATE")
      PROVE  Kept(r, o)
  <2>1. Order(r) \in OrderIds /\ Row(r) \in OrderRow
    BY <1>4, Types DEF Fits, TypeOK, Row
  <2> DEFINE row == [Row(r) EXCEPT !.status = status]
  <2>2. orders' = [orders EXCEPT ![Order(r)] = row]
    BY <1>4 DEF Become, Row
  <2>3. row \in OrderRow /\ row.quote = Row(r).quote /\ row.key = Row(r).key
    BY <2>1 DEF OrderRow
  <2> HIDE DEF row
  <2> QED
    BY <2>1, <2>2, <2>3, <1>4, RulesAssumption DEF TypeOK, Row, Kept
<1>5. CASE StartV2(r)
  BY <1>4, <1>5 DEF StartV2, Proceeds, At, Asks, Status, Holds
<1>6. CASE StartLegacy(r) /\ Row(r).quote \in paid
  BY <1>4, <1>6 DEF StartLegacy, At, Asks, Status, Holds, Fits
<1>7. CASE RecordEntry(r) /\ SameKey(r) = {} /\ Row(r).quote \in V2 /\ Accepts(Call(r).kind, Row(r).status)
  BY <1>7 DEF RecordEntry, SameKey, Kept
<1>8. CASE CommitComplete(r) /\ Accounts(Row(r).quote, Call(r).report)
  BY <1>4, <1>8 DEF CommitComplete, At, Asks, Status, Holds
<1>9. CASE CommitCancel(r)
  BY <1>4, <1>9 DEF CommitCancel, At, Asks, Status, Holds
<1> QED
  BY <1>2, <1>3, <1>5, <1>6, <1>7, <1>8, <1>9, BookSteps

(* Entries are only added, by a request that holds both their key and their *)
(* order.                                                                   *)
Added(r) ==
  /\ entries \subseteq entries'
  /\ \A e \in entries' \ entries :
       /\ e = [order |-> Order(r), kind |-> Call(r).kind, key |-> Key(r), by |-> r]
       /\ lock[e.order] = r /\ lock[e.key] = r
       /\ orders[e.order] # None /\ Accepts(e.kind, orders[e.order].status)
       /\ SameKey(r) = {}

(* Added holds of every step of a request. *)
LEMMA EntriesKeep ==
  ASSUME IInv, NEW r \in Requests, (\E c \in Calls : Arrive(r, c)) \/ Step(r) \/ RollBack(r)
  PROVE  Added(r)
<1>1. CASE entries' = entries
  BY <1>1 DEF Added
<1>2. CASE RecordEntry(r) /\ Row(r).quote \in V2 /\ Accepts(Call(r).kind, Row(r).status) /\ SameKey(r) = {}
  <2> DEFINE e == [order |-> Order(r), kind |-> Call(r).kind, key |-> Key(r), by |-> r]
  <2>1. entries' = entries \cup {e}
    BY <1>2 DEF RecordEntry, SameKey
  <2>2. lock[Order(r)] = r /\ lock[Key(r)] = r /\ Row(r) # None
    BY <1>2 DEF RecordEntry, IInv, Holds, Fits, At, Asks, Row
  <2> QED  BY <1>2, <2>1, <2>2 DEF Added, Row
<1> QED
  BY <1>1, <1>2, BookSteps DEF book, Creates, StartV2, StartLegacy, Become, CommitComplete, CommitCancel, Refuse

(* What the others know stays true: whoever could change it needs a lock    *)
(* that they have.                                                          *)
LEMMA OthersStay ==
  ASSUME IInv, NEW r \in Requests, (\E c \in Calls : Arrive(r, c)) \/ Step(r) \/ RollBack(r),
         NEW s \in Requests, s # r
  PROVE  Fits(s)' /\ Holds(s)' /\ Knows(s)'
<1> USE DEF IInv, At, Asks, Call, Key, Quote, Order, Row
<1>1. /\ req'[s] = req[s]
      /\ \A x \in Locks : lock[x] = s => lock'[x] = s
      /\ \A x \in Locks : lock[x] = s => lock[x] # r
  BY Bystanders
<1>2. \A o \in OrderIds : Kept(r, o)
  BY RowsKeep
<1>3. Added(r)
  BY EntriesKeep
<1>4. /\ ~At(s, "idle") => /\ Quote(s) \in Locks
                           /\ Asks(s, "RECORD") => Key(s) \in Locks
                           /\ Asks(s, "CREATE") /\ Key(s) # None => Key(s) \in Locks
      /\ Order(s) # None => Order(s) \in Locks /\ Order(s) \in OrderIds
  BY CallShape, Types DEF Fits, Locks
<1>5. Fits(s)'
  <2>1. s \in Existing(orders)' => s \in Existing(orders)
    BY <1>2 DEF Kept, Existing
  <2> QED  BY <1>1, <1>2, <1>4, <2>1 DEF Fits, Kept
<1>6. Holds(s)'
  BY <1>1, <1>4 DEF Holds, Fits
<1>7. Knows(s)'
  <2> USE <1>1, <1>2, <1>3, <1>4 DEF Holds
  <2>1. CASE At(s, "quote") \/ At(s, "quoted") \/ At(s, "insert")
    <3>1. WithKey(orders, Key(s))' = {}
      <4>1. ASSUME NEW o \in WithKey(orders, Key(s))'  PROVE FALSE
        <5>1. o \in OrderIds /\ orders'[o] # None /\ Key(s) # None /\ orders'[o].key = Key(s)
          BY <4>1 DEF WithKey, Existing
        <5>2. orders[o] = None
          BY <5>1, <2>1 DEF Kept, Knows, WithKey, Existing
        <5>3. o = r /\ Creates(r)
          BY <5>1, <5>2 DEF Kept
        <5>4. Key(r) = Key(s)
          BY <5>1, <5>3, Types DEF Creates, NewOrder, TypeOK
        <5> QED  BY <5>1, <5>3, <5>4, <2>1 DEF Creates, Fits
      <4> QED  BY <4>1
    <3>2. ASSUME At(s, "insert")  PROVE  (OfQuote(orders, Quote(s)) = {} /\ Quote(s) \in V2 \cup confirmed)'
      <4>1. ASSUME NEW o \in OfQuote(orders, Quote(s))'  PROVE FALSE
        <5>1. o \in OrderIds /\ orders'[o] # None /\ orders'[o].quote = Quote(s)
          BY <4>1 DEF OfQuote, Existing
        <5>2. orders[o] = None
          BY <5>1, <3>2 DEF Kept, Knows, OfQuote, Existing
        <5>3. o = r /\ Creates(r)
          BY <5>1, <5>2 DEF Kept
        <5>4. Quote(r) = Quote(s)
          BY <5>1, <5>3, Types DEF Creates, NewOrder, TypeOK
        <5> QED  BY <5>1, <5>3, <5>4, <3>2 DEF Creates, Fits
      <4>2. confirmed' = confirmed
        BY BookSteps DEF book, Creates, StartV2, StartLegacy, RecordEntry, SameKey, CommitComplete, CommitCancel
      <4> QED  BY <4>1, <4>2, <3>2 DEF Knows
    <3> QED  BY <2>1, <3>1, <3>2 DEF Knows
  <2>2. CASE At(s, "order") \/ At(s, "ordered")
    <3>1. Asks(s, "RECORD") => SameKey(s)' = {}
      BY <2>2 DEF Knows, SameKey, Keyed, Added
    <3> QED  BY <2>2, <3>1 DEF Knows
  <2>3. CASE At(s, "paying") \/ At(s, "close")
    <3>1. lock[Order(s)] = s /\ Order(s) \in OrderIds /\ orders'[Order(s)] = orders[Order(s)]
      BY <2>3 DEF Fits, Kept
    <3>2. Consumed(entries, Order(s))' = Consumed(entries, Order(s))
      BY <3>1 DEF Consumed, Added
    <3> QED  BY <2>3, <3>1, <3>2 DEF Knows, PendingKinds
  <2> QED  BY <2>1, <2>2, <2>3 DEF Knows
<1> QED  BY <1>5, <1>6, <1>7

(* Only Arrive moves a request that is idle. *)
LEMMA Awake ==
  ASSUME NEW r \in Requests, Step(r) \/ RollBack(r)
  PROVE  req[r].pc \in Waiting
BY DEF Step, RollBack, Creating, Recording, Starting, Closing, LockKey, LockOrder, AlreadyDone, WrongState,
       LookUpOrderKey, LockQuote, LookUpOrder, InsertOrder, LookUpEntryKey, RecordEntry, StartV2,
       LockPayment, StartLegacy, CheckClose, CommitComplete, CommitCancel, At, Waiting

(* A request that moves on knows what its next place asks for. *)
LEMMA MoverFits ==
  ASSUME IInv, NEW r \in Requests, (\E c \in Calls : Arrive(r, c)) \/ Step(r) \/ RollBack(r)
  PROVE  Fits(r)' /\ Holds(r)' /\ Knows(r)'
<1> USE DEF IInv, At, Asks, Call, Key, Quote, Order, Row
<1>1. \A o \in OrderIds : Kept(r, o)
  BY RowsKeep
<1>2. /\ req[r] \in ReqState
      /\ ~At(r, "idle") => /\ Quote(r) \in Locks
                           /\ Asks(r, "RECORD") => Key(r) \in Locks
                           /\ Asks(r, "CREATE") /\ Key(r) # None => Key(r) \in Locks
      /\ Order(r) # None => Order(r) \in Locks /\ Order(r) \in OrderIds
  BY CallShape, Types DEF Fits, Locks
<1>3. CASE \E c \in Calls : Arrive(r, c)
  <2>1. PICK c \in Calls : Arrive(r, c)
    BY <1>3
  <2>2. PICK o \in IF c.op = "CREATE" THEN {None} ELSE OfQuote(orders, c.quote),
             pc \in {"quote", "key", "order"} :
          /\ req' = [req EXCEPT ![r] = [may |-> @.may, pc |-> pc, call |-> c, order |-> o, reply |-> None]]
          /\ pc = "quote" => c.op = "CREATE" /\ c.key = None
          /\ pc = "key" => (c.op = "CREATE" /\ c.key # None) \/ c.op = "RECORD"
          /\ pc = "order" => c.op # "CREATE" /\ c.op # "RECORD"
    BY <2>1 DEF Arrive
  <2>3. req'[r].pc = pc /\ req'[r].call = c /\ req'[r].order = o
    BY <2>2 DEF TypeOK
  <2>4. /\ o # None => o \in OrderIds /\ orders[o] # None
        /\ c.op # "CREATE" => o # None
        /\ c.op = "RECORD" => c.key # None
        /\ orders' = orders
        /\ r \notin Existing(orders)
    BY <2>1, <2>2, CallShape, RulesAssumption DEF OfQuote, Existing, OrderIds, Arrive, book, Fits, Ended
  <2> QED  BY <2>1, <2>2, <2>3, <2>4 DEF Fits, Holds, Knows, Existing, WithKey
<1>4. CASE (Step(r) \/ RollBack(r)) /\ Ends(r)
  <2>1. PICK pc \in Ended, reply \in OrderIds \cup {None} : End(r, pc, reply)
    BY <1>4 DEF Ends
  <2>2. /\ req'[r].pc = pc /\ req'[r].call = req[r].call /\ req'[r].order = req[r].order
    BY <2>1, <1>2 DEF End, TypeOK, ReqState
  <2>3. ~At(r, "idle")
    BY <1>4, Awake DEF Waiting
  <2> QED  BY <1>1, <1>2, <2>2, <2>3 DEF Fits, Holds, Knows, Ended, Kept
<1> DEFINE Same(pc) == /\ req'[r].pc = pc /\ req'[r].call = req[r].call /\ req'[r].order = req[r].order
                       /\ orders' = orders /\ entries' = entries /\ confirmed' = confirmed
                       /\ \A x \in Locks : lock[x] = r => lock'[x] = r
                       /\ r \notin Existing(orders) /\ ~At(r, "idle")
<1>5. ASSUME Step(r), NEW pc \in Waiting, NEW x \in Locks, Take(r, x, pc)
      PROVE  Same(pc) /\ lock'[x] = r
  BY <1>5, <1>2, Awake DEF Take, Goto, TypeOK, ReqState, book, Fits, Waiting, Ended
<1>6. ASSUME Step(r), NEW pc \in Waiting, Goto(r, pc), UNCHANGED <<book, lock>>
      PROVE  Same(pc)
  BY <1>6, <1>2, Awake DEF Goto, TypeOK, ReqState, book, Fits, Waiting, Ended
<1>7. CASE Step(r) /\ ~Ends(r)
  <2> USE <1>1, <1>2
  <2>1. CASE LockKey(r)
    <3>1. Same("keyed") /\ lock'[Key(r)] = r
      BY <1>5, <1>7, <2>1 DEF LockKey, Fits, Waiting
    <3> QED  BY <2>1, <3>1 DEF LockKey, Fits, Holds, Knows, Existing
  <2>2. CASE LookUpOrderKey(r)
    <3>1. Same("quote") /\ WithKey(orders, Key(r)) = {}
      BY <1>6, <1>7, <2>2 DEF LookUpOrderKey, Waiting, Ends, Answer, Refuse, WithKey, Existing, Ended
    <3> QED  BY <2>2, <3>1 DEF LookUpOrderKey, Fits, Holds, Knows, Existing
  <2>3. CASE LockQuote(r)
    <3>1. Same("quoted") /\ lock'[Quote(r)] = r
      BY <1>5, <1>7, <2>3 DEF LockQuote, Waiting
    <3> QED  BY <2>3, <3>1 DEF LockQuote, Fits, Holds, Knows, Existing
  <2>4. CASE LookUpOrder(r)
    <3>1. Same("insert") /\ OfQuote(orders, Quote(r)) = {} /\ Quote(r) \in V2 \cup confirmed
      BY <1>6, <1>7, <2>4 DEF LookUpOrder, Waiting, Ends, Answer, Refuse, OfQuote, Existing, Ended
    <3> QED  BY <2>4, <3>1 DEF LookUpOrder, Fits, Holds, Knows, Existing
  <2>5. CASE LockOrder(r)
    <3>1. Same("ordered") /\ lock'[Order(r)] = r
      BY <1>5, <1>7, <2>5 DEF LockOrder, Fits, Waiting
    <3> QED  BY <2>5, <3>1 DEF LockOrder, Fits, Holds, Knows, Existing, SameKey
  <2>6. CASE LookUpEntryKey(r)
    <3>1. Same("order") /\ SameKey(r) = {}
      BY <1>6, <1>7, <2>6 DEF LookUpEntryKey, Waiting, Ends, AnswerEntry, Answer, Refuse, SameKey, Keyed,
         Ended, TypeOK, Entry, OrderIds
    <3> QED  BY <2>6, <3>1 DEF LookUpEntryKey, Fits, Holds, Knows, Existing, SameKey
  <2>7. CASE LockPayment(r)
    <3>1. Row(r).quote \in Locks
      BY <2>7, Types DEF LockPayment, Fits, Proceeds, Locks, OrderRow
    <3>2. Same("paying")
      BY <1>5, <1>7, <2>7, <3>1 DEF LockPayment, Waiting
    <3> QED  BY <2>7, <3>2 DEF LockPayment, Fits, Holds, Knows, Existing, Proceeds, Source
  <2>8. CASE CheckClose(r)
    <3>1. /\ Same("close")
          /\ \/ Proceeds(r, "COMPLETE") /\ PendingKinds(entries, Order(r), Row(r).quote) = {}
             \/ Proceeds(r, "CANCEL") /\ Consumed(entries, Order(r)) = {}
      BY <1>6, <1>7, <2>8 DEF CheckClose, Waiting, Ends, Refuse, Ended
    <3>2. PendingKinds(entries, Order(r), Row(r).quote)' = PendingKinds(entries, Order(r), Row(r).quote)
      BY <3>1 DEF PendingKinds, Consumed
    <3> QED  BY <2>8, <3>1, <3>2 DEF CheckClose, Fits, Holds, Knows, Existing, Proceeds, Source, Consumed
  <2>9. CASE AlreadyDone(r) \/ WrongState(r) \/ InsertOrder(r) \/ RecordEntry(r) \/ StartV2(r)
             \/ StartLegacy(r) \/ CommitComplete(r) \/ CommitCancel(r)
    BY <2>9, <1>7, EndsOnly
  <2> QED
    BY <1>7, <2>1, <2>2, <2>3, <2>4, <2>5, <2>6, <2>7, <2>8, <2>9 DEF Step, Creating, Recording, Starting, Closing
<1> QED  BY <1>3, <1>4, <1>7 DEF RollBack, Ends, Ended

-----------------------------------------------------------------------------
(* The rows under a step of a request. *)

(* No step gives a quotation or a key a second order. *)
LEMMA OneOrderStep ==
  ASSUME IInv, NEW r \in Requests, (\E c \in Calls : Arrive(r, c)) \/ Step(r) \/ RollBack(r)
  PROVE  OneOrder'
<1> SUFFICES ASSUME NEW o \in Existing(orders)', NEW p \in Existing(orders)'
             PROVE  /\ orders'[o].quote = orders'[p].quote => o = p
                    /\ orders'[o].key = orders'[p].key /\ orders'[o].key # None => o = p
  BY DEF OneOrder
<1>1. Kept(r, o) /\ Kept(r, p) /\ o \in OrderIds /\ p \in OrderIds
  BY RowsKeep DEF Existing
<1>2. CASE orders[o] # None /\ orders[p] # None
  BY <1>1, <1>2 DEF Kept, IInv, OneOrder, Existing
<1>3. ASSUME Creates(r), NEW q \in OrderIds, orders[q] # None, Kept(r, q)
      PROVE  orders'[q].quote # orders'[r].quote /\ (orders'[r].key # None => orders'[q].key # orders'[r].key)
  <2>1. orders'[r].quote = Quote(r) /\ orders'[r].key = Key(r)
    BY <1>3, Types DEF Creates, NewOrder, IInv, TypeOK
  <2>2. orders[q].quote # Quote(r) /\ (Key(r) # None => orders[q].key # Key(r))
    BY <1>3 DEF Creates, OfQuote, WithKey, Existing
  <2> QED  BY <1>3, <2>1, <2>2 DEF Kept
<1> QED
  BY <1>1, <1>2, <1>3 DEF Kept, Existing

(* Which rows a step writes apart from the orders. *)
LEMMA NoOrphansStep ==
  ASSUME IInv, NEW r \in Requests, (\E c \in Calls : Arrive(r, c)) \/ Step(r) \/ RollBack(r)
  PROVE  /\ \A x \in (entries \cup exits \cup results)' \ (entries \cup exits \cup results) :
              x.order = Order(r) /\ Row(r) # None /\ lock[Order(r)] = r
         /\ NoOrphans'
<1> USE DEF IInv, At, Asks, Holds, Fits, Row
<1>1. CASE entries' = entries /\ exits' = exits /\ results' = results
  BY <1>1, RowsKeep DEF NoOrphans, Kept, TypeOK, Entry, Exit, Result
<1>2. CASE StartLegacy(r) /\ Row(r).quote \in paid
  <2>1. /\ \A x \in (entries \cup exits \cup results)' \ (entries \cup exits \cup results) : x.order = Order(r)
        /\ Row(r) # None /\ lock[Order(r)] = r /\ Order(r) \in OrderIds
    BY <1>2, Types DEF StartLegacy
  <2> QED  BY <2>1, RowsKeep DEF NoOrphans, Kept, TypeOK, Entry, Exit, Result
<1>3. CASE RecordEntry(r) /\ Row(r).quote \in V2 /\ Accepts(Call(r).kind, Row(r).status) /\ SameKey(r) = {}
  <2>1. /\ \A x \in (entries \cup exits \cup results)' \ (entries \cup exits \cup results) : x.order = Order(r)
        /\ Row(r) # None /\ lock[Order(r)] = r /\ Order(r) \in OrderIds
    BY <1>3, Types DEF RecordEntry, SameKey
  <2> QED  BY <2>1, RowsKeep DEF NoOrphans, Kept, TypeOK, Entry, Exit, Result
<1>4. CASE CommitComplete(r) /\ Accounts(Row(r).quote, Call(r).report)
  <2>1. /\ \A x \in (entries \cup exits \cup results)' \ (entries \cup exits \cup results) : x.order = Order(r)
        /\ Row(r) # None /\ lock[Order(r)] = r /\ Order(r) \in OrderIds
    BY <1>4, Types DEF CommitComplete, ResultsOf
  <2> QED  BY <2>1, RowsKeep DEF NoOrphans, Kept, TypeOK, Entry, Exit, Result
<1> QED
  BY <1>1, <1>2, <1>3, <1>4, BookSteps DEF book, Creates, StartV2, CommitCancel

(* No step records a key of one table twice. *)
LEMMA KeyRecordsOnceStep ==
  ASSUME IInv, NEW r \in Requests, (\E c \in Calls : Arrive(r, c)) \/ Step(r) \/ RollBack(r)
  PROVE  KeyRecordsOnce'
<1>1. Added(r)
  BY EntriesKeep
<1> QED  BY <1>1 DEF Added, IInv, KeyRecordsOnce, SameKey, Keyed

(* What a request that ends answers. *)
Replies(r) ==
  /\ req[r].pc # "clash"
  /\ Answered(r) /\ Asks(r, "CREATE") =>
       /\ req[r].reply \in OrderIds /\ orders[req[r].reply] # None
       /\ Quote(r) \in V2 => OwnOrder(r)

(* The answer of the request that moves is right. *)
LEMMA MoverReplies ==
  ASSUME IInv, NEW r \in Requests, (\E c \in Calls : Arrive(r, c)) \/ Step(r) \/ RollBack(r)
  PROVE  Replies(r)'
<1> USE DEF IInv, At, Asks, Call, Key, Quote, Answered, OwnOrder, Replies
<1>1. ASSUME NEW pc, NEW reply, End(r, pc, reply)
      PROVE  req'[r].pc = pc /\ req'[r].call = req[r].call /\ req'[r].reply = reply
  BY <1>1 DEF End, TypeOK, ReqState
<1>2. ASSUME NEW pc \in Waiting, req' = [req EXCEPT ![r].pc = pc]
      PROVE  Replies(r)'
  BY <1>2 DEF TypeOK, ReqState, Waiting
<1>3. CASE \E c \in Calls : Arrive(r, c)
  <2>1. PICK c \in Calls : Arrive(r, c)
    BY <1>3
  <2>2. req'[r].pc \in {"quote", "key", "order"}
    BY <2>1 DEF Arrive, TypeOK
  <2> QED  BY <2>2
<1>4. CASE LookUpOrderKey(r)
  <2>1. CASE \E o \in WithKey(orders, Key(r)) : Answer(r, o) /\ (orders[o].quote = Quote(r) \/ AnswersForeign(Quote(r)))
    BY <2>1, <1>1 DEF Answer, WithKey, Existing, AnswersForeign, book
  <2>2. CASE Refuse(r)
    BY <2>2, <1>1 DEF Refuse
  <2> QED  BY <1>2, <1>4, <2>1, <2>2 DEF LookUpOrderKey, Goto, Waiting
<1>5. CASE LookUpOrder(r)
  <2>1. CASE \E o \in OfQuote(orders, Quote(r)) : Answer(r, o)
    BY <2>1, <1>1 DEF Answer, OfQuote, Existing, book
  <2>2. CASE Refuse(r)
    BY <2>2, <1>1 DEF Refuse
  <2> QED  BY <1>2, <1>5, <2>1, <2>2 DEF LookUpOrder, Goto, Waiting
<1>6. CASE InsertOrder(r)
  <2>1. OfQuote(orders, Quote(r)) = {} /\ WithKey(orders, Key(r)) = {}
    BY <1>6 DEF InsertOrder, Knows
  <2>2. /\ orders' = [orders EXCEPT ![r] = NewOrder(Quote(r), Key(r))]
        /\ End(r, "saved", r)
    BY <1>6, <2>1 DEF InsertOrder
  <2>3. orders'[r] = NewOrder(Quote(r), Key(r)) /\ r \in OrderIds
    BY <2>2, Types DEF TypeOK
  <2>4. NewOrder(Quote(r), Key(r)) # None /\ NewOrder(Quote(r), Key(r)).quote = Quote(r)
    BY <1>6, CallShape, RulesAssumption DEF InsertOrder, NewOrder, OrderRow, Fits, Status
  <2> QED  BY <1>1, <2>2, <2>3, <2>4
<1>7. CASE AlreadyDone(r) \/ WrongState(r) \/ RecordEntry(r) \/ StartV2(r) \/ StartLegacy(r)
           \/ CommitComplete(r) \/ CommitCancel(r)
  <2>1. ~Asks(r, "CREATE")
    BY <1>7 DEF AlreadyDone, WrongState, RecordEntry, StartV2, StartLegacy, CommitComplete,
                CommitCancel, Moves, Fits
  <2>2. \E pc \in {"saved", "found", "refused"} : \E reply : End(r, pc, reply)
    BY <1>7 DEF AlreadyDone, WrongState, RecordEntry, AnswerEntry, StartV2, StartLegacy, Become,
                CommitComplete, CommitCancel, Answer, Refuse
  <2> QED  BY <1>1, <2>1, <2>2
<1>8. CASE LookUpEntryKey(r)
  <2>1. CASE \E e \in SameKey(r) : AnswerEntry(r, e)
    BY <1>1, <1>8, <2>1 DEF LookUpEntryKey, AnswerEntry, Answer, Refuse
  <2> QED  BY <1>2, <1>8, <2>1 DEF LookUpEntryKey, Goto, Waiting
<1>9. CASE CheckClose(r)
  <2>1. CASE Refuse(r)
    BY <1>1, <2>1 DEF Refuse
  <2> QED  BY <1>2, <1>9, <2>1 DEF CheckClose, Goto, Waiting
<1>10. CASE LockKey(r) \/ LockOrder(r) \/ LockQuote(r) \/ LockPayment(r)
  BY <1>2, <1>10 DEF LockKey, LockOrder, LockQuote, LockPayment, Take, Goto, Waiting
<1>11. CASE RollBack(r)
  BY <1>1, <1>11 DEF RollBack
<1> QED
  BY <1>3, <1>4, <1>5, <1>6, <1>7, <1>8, <1>9, <1>10, <1>11 DEF Step, Creating, Recording, Starting, Closing

(* So are all answers: those given before stay right. *)
LEMMA RepliesStep ==
  ASSUME IInv, NEW r \in Requests, (\E c \in Calls : Arrive(r, c)) \/ Step(r) \/ RollBack(r)
  PROVE  RepliesExist' /\ RepliesOwnOrder' /\ NeverClashes'
<1> USE DEF IInv, Asks, Call, Quote, Answered, OwnOrder, Replies
<1>1. ASSUME NEW s \in Requests, s # r
      PROVE  Replies(s)'
  BY <1>1, Bystanders, RowsKeep DEF RepliesExist, RepliesOwnOrder, NeverClashes, Existing, Kept
<1>2. Replies(r)'
  BY MoverReplies
<1> QED
  BY <1>1, <1>2 DEF RepliesExist, RepliesOwnOrder, NeverClashes, Existing

(* The life of an order, and what each of its steps leaves in the stock.    *)
Lives(r, o) ==
  \/ orders'[o].status = orders[o].status
  \/ /\ orders[o].status = "CREATED" /\ orders'[o].status = "STARTED"
     /\ StartV2(r) \/ StartLegacy(r)
  \/ /\ orders[o].status = "STARTED" /\ orders'[o].status = "COMPLETED"
     /\ CommitComplete(r) /\ Accounts(Row(r).quote, Call(r).report) /\ Order(r) = o
  \/ /\ orders[o].status = "CREATED" /\ orders'[o].status = "CANCELLED"
     /\ CommitCancel(r) /\ Order(r) = o

(* Lives holds of every order under every step of a request. *)
LEMMA OrderLives ==
  ASSUME IInv, NEW r \in Requests, (\E c \in Calls : Arrive(r, c)) \/ Step(r) \/ RollBack(r),
         NEW o \in OrderIds, orders[o] # None
  PROVE  Lives(r, o)
<1> USE DEF IInv, At, Asks, Call, Order
<1>1. ASSUME NEW status \in Status, Become(r, status), ~At(r, "idle"), ~Asks(r, "CREATE")
      PROVE  /\ o # Order(r) => orders'[o] = orders[o]
             /\ o = Order(r) => orders'[o].status = status /\ orders[o] = Row(r)
  <2>1. Order(r) \in OrderIds /\ Row(r) \in OrderRow
    BY <1>1, Types DEF Fits, TypeOK, Row
  <2> DEFINE row == [Row(r) EXCEPT !.status = status]
  <2>2. orders' = [orders EXCEPT ![Order(r)] = row]
    BY <1>1 DEF Become, Row
  <2>3. row.status = status
    BY <2>1 DEF OrderRow
  <2> HIDE DEF row
  <2> QED  BY <2>1, <2>2, <2>3 DEF TypeOK, Row
<1>2. CASE StartV2(r)
  BY <1>1, <1>2 DEF StartV2, Lives, Proceeds, Source, Status
<1>3. CASE StartLegacy(r) /\ Row(r).quote \in paid
  BY <1>1, <1>3 DEF StartLegacy, Lives, Knows, Status, Fits
<1>4. CASE CommitComplete(r) /\ Accounts(Row(r).quote, Call(r).report)
  BY <1>1, <1>4 DEF CommitComplete, Lives, Knows, Status
<1>5. CASE CommitCancel(r)
  BY <1>1, <1>5 DEF CommitCancel, Lives, Knows, Status
<1>6. CASE orders' = orders
  BY <1>6 DEF Lives
<1>7. CASE Creates(r)
  BY <1>7 DEF Creates, Lives, TypeOK, Fits, Ended, Existing
<1> QED
  BY <1>2, <1>3, <1>4, <1>5, <1>6, <1>7, BookSteps DEF book, RecordEntry, SameKey

(* The material that leaves in a step, and why. *)
LEMMA NewExits ==
  ASSUME IInv, NEW r \in Requests, (\E c \in Calls : Arrive(r, c)) \/ Step(r) \/ RollBack(r),
         NEW x \in exits' \ exits
  PROVE  /\ x.order = Order(r) /\ x.order \in OrderIds
         /\ \/ orders'[x.order].status = "STARTED"
            \/ \E e \in entries' \ entries : e.order = x.order /\ e.kind \in Classes
<1> USE DEF IInv, At, Asks, Call
<1>1. CASE StartLegacy(r) /\ Row(r).quote \in paid
  <2>1. Order(r) \in OrderIds /\ Row(r) \in OrderRow /\ x.order = Order(r)
    BY <1>1, Types DEF Fits, TypeOK, Row, Order, StartLegacy
  <2> DEFINE row == [Row(r) EXCEPT !.status = "STARTED"]
  <2>2. orders' = [orders EXCEPT ![Order(r)] = row]
    BY <1>1 DEF StartLegacy, Become, Row
  <2>3. row.status = "STARTED"
    BY <2>1 DEF OrderRow
  <2> HIDE DEF row
  <2> QED  BY <2>1, <2>2, <2>3 DEF TypeOK
<1>2. CASE RecordEntry(r) /\ Row(r).quote \in V2 /\ Accepts(Call(r).kind, Row(r).status) /\ SameKey(r) = {}
  <2>1. Call(r).kind \in Classes /\ x.order = Order(r)
    BY <1>2 DEF RecordEntry, SameKey
  <2> DEFINE e == [order |-> Order(r), kind |-> Call(r).kind, key |-> Key(r), by |-> r]
  <2>2. e \in entries' /\ e \notin entries
    BY <1>2 DEF RecordEntry, SameKey, Keyed
  <2>3. Order(r) \in OrderIds
    BY <1>2, Types DEF RecordEntry, Fits
  <2> QED  BY <2>1, <2>2, <2>3
<1> QED
  BY <1>1, <1>2, BookSteps DEF book, Creates, StartV2, CommitComplete, CommitCancel, Refuse

(* What left the stock is still explained after a step. *)
LEMMA ExitsStep ==
  ASSUME IInv, NEW r \in Requests, (\E c \in Calls : Arrive(r, c)) \/ Step(r) \/ RollBack(r)
  PROVE  ExitsExplained'
<1>1. Added(r)
  BY EntriesKeep
<1>2. ASSUME NEW x \in exits
      PROVE  orders'[x.order].status \in {"STARTED", "COMPLETED"} \/ Consumed(entries, x.order)' # {}
  <2>1. x.order \in OrderIds /\ orders[x.order] # None
    BY DEF IInv, NoOrphans, TypeOK, Exit
  <2> QED  BY <1>1, <2>1, OrderLives DEF Lives, IInv, ExitsExplained, Consumed, Added
<1>3. ASSUME NEW x \in exits' \ exits
      PROVE  orders'[x.order].status \in {"STARTED", "COMPLETED"} \/ Consumed(entries, x.order)' # {}
  BY NewExits DEF Consumed
<1> QED
  BY <1>2, <1>3 DEF ExitsExplained

(* No step makes a cancelled order one that spent something: whoever could  *)
(* record under the canceller's eyes needs the lock of the order.           *)
LEMMA CancelledStep ==
  ASSUME IInv, NEW r \in Requests, (\E c \in Calls : Arrive(r, c)) \/ Step(r) \/ RollBack(r)
  PROVE  CancelledSpentNothing'
<1> USE DEF HasStatus
<1> SUFFICES ASSUME NEW o \in OrderIds, HasStatus(o, "CANCELLED")'
             PROVE  (Consumed(entries, o) = {} /\ ExitsOf(o) = {})'
  BY DEF CancelledSpentNothing
<1>1. Added(r)
  BY EntriesKeep
<1>2. orders[o] # None
  <2>1. CASE orders[o] = None
    <3>1. o = r /\ Creates(r)
      BY <2>1, RowsKeep DEF Kept
    <3>2. orders'[r].status = "CREATED"
      BY <3>1, Types DEF Creates, NewOrder, IInv, TypeOK
    <3> QED  BY <3>1, <3>2
  <2> QED  BY <2>1
<1>3. orders[o].status = "CANCELLED" \/ (orders[o].status = "CREATED" /\ CommitCancel(r) /\ Order(r) = o)
  BY <1>2, OrderLives DEF Lives
<1>4. Consumed(entries, o) = {} /\ ExitsOf(o) = {}
  <2>1. CASE orders[o].status = "CANCELLED"
    BY <1>2, <2>1 DEF IInv, CancelledSpentNothing
  <2>2. CASE orders[o].status = "CREATED" /\ CommitCancel(r) /\ Order(r) = o
    BY <2>2 DEF IInv, Knows, CommitCancel, At, Asks, ExitsExplained, ExitsOf
  <2> QED  BY <1>3, <2>1, <2>2
<1>5. ASSUME NEW e \in entries' \ entries, e.order = o, e.kind \in Classes
      PROVE  FALSE
  <2>1. Accepts(e.kind, orders[o].status)
    BY <1>1, <1>5 DEF Added
  <2>2. orders[o].status \in {"CREATED", "STARTED"}
    BY <2>1, <1>5 DEF Accepts, Classes
  <2>3. entries' = entries
    BY <1>3, <2>2 DEF CommitCancel
  <2> QED  BY <1>5, <2>3
<1>6. Consumed(entries, o)' = {}
  BY <1>4, <1>5 DEF Consumed
<1>7. ExitsOf(o)' = {}
  BY <1>4, <1>5, NewExits DEF ExitsOf
<1> QED
  BY <1>6, <1>7

(* No step leaves a completed order unaccounted, nor results elsewhere.     *)
LEMMA ClosedStep ==
  ASSUME IInv, NEW r \in Requests, (\E c \in Calls : Arrive(r, c)) \/ Step(r) \/ RollBack(r)
  PROVE  ClosedIsAccounted'
<1> SUFFICES ASSUME NEW o \in Existing(orders)'
             PROVE  IF orders'[o].status = "COMPLETED" THEN Accounted(o)' ELSE ResultsFor(o)' = {}
  BY DEF ClosedIsAccounted
<1>0. o \in OrderIds /\ orders'[o] # None /\ Kept(r, o) /\ Added(r)
  BY RowsKeep, EntriesKeep DEF Existing
<1>1. ASSUME NEW x \in results' \ results
      PROVE  CommitComplete(r) /\ Accounts(Row(r).quote, Call(r).report) /\ x.order = Order(r)
  BY <1>1, BookSteps DEF book, Creates, StartV2, StartLegacy, RecordEntry, SameKey, CommitCancel,
                         CommitComplete, ResultsOf
<1>2. results \subseteq results'
  BY BookSteps DEF book, Creates, StartV2, StartLegacy, RecordEntry, SameKey, CommitCancel, CommitComplete
<1>3. ASSUME CommitComplete(r), Accounts(Row(r).quote, Call(r).report)
      PROVE  /\ orders[Order(r)].status = "STARTED" /\ orders'[Order(r)].status = "COMPLETED"
             /\ orders[Order(r)] # None /\ Order(r) \in OrderIds
  <2>1. Order(r) \in OrderIds /\ Row(r) \in OrderRow /\ Row(r).status = "STARTED"
    BY <1>3, Types DEF CommitComplete, IInv, Fits, Knows, At, Asks, TypeOK, Row
  <2> DEFINE row == [Row(r) EXCEPT !.status = "COMPLETED"]
  <2>2. orders' = [orders EXCEPT ![Order(r)] = row]
    BY <1>3 DEF CommitComplete, Become, Row
  <2>3. row.status = "COMPLETED"
    BY <2>1 DEF OrderRow
  <2> HIDE DEF row
  <2> QED  BY <2>1, <2>2, <2>3, RulesAssumption DEF IInv, TypeOK, Row
<1>4. CASE orders[o] = None
  <2>1. o = r /\ Creates(r) /\ orders'[r].status = "CREATED"
    BY <1>0, <1>4, Types DEF Kept, Creates, NewOrder, IInv, TypeOK
  <2>2. ResultsFor(o)' = {}
    BY <1>1, <1>3, <1>4 DEF ResultsFor, IInv, NoOrphans
  <2> QED  BY <2>1, <2>2
<1>5. CASE orders[o] # None /\ orders'[o].status # "COMPLETED"
  <2>1. orders[o].status # "COMPLETED"
    BY <1>5, <1>0, OrderLives DEF Lives
  <2>2. ResultsFor(o)' = {}
    BY <2>1, <1>0, <1>1, <1>3, <1>5 DEF ResultsFor, IInv, ClosedIsAccounted, Existing
  <2> QED  BY <1>5, <2>2
<1>6. CASE orders[o] # None /\ orders[o].status = "COMPLETED"
  <2>1. ResultsFor(o)' = ResultsFor(o)
    BY <1>1, <1>2, <1>3, <1>6 DEF ResultsFor
  <2>2. orders'[o].quote = orders[o].quote /\ orders'[o].status = "COMPLETED"
    BY <1>0, <1>6, OrderLives DEF Kept, Lives
  <2>3. Consumed(entries, o) \subseteq Consumed(entries, o)'
    BY <1>0 DEF Consumed, Added
  <2>4. Accounted(o)
    BY <1>0, <1>6 DEF IInv, ClosedIsAccounted, Existing
  <2> QED  BY <2>1, <2>2, <2>3, <2>4 DEF Accounted
<1>7. CASE orders[o] # None /\ orders[o].status # "COMPLETED" /\ orders'[o].status = "COMPLETED"
  <2> DEFINE q == orders[o].quote
             report == Call(r).report
  <2>1. CommitComplete(r) /\ Accounts(q, report) /\ Order(r) = o
    BY <1>0, <1>7, OrderLives DEF Lives, Row
  <2>2. /\ results' = results \cup ResultsOf(o, report, r) /\ entries' = entries
        /\ orders'[o].quote = q
    BY <2>1, <1>0, <1>7 DEF CommitComplete, Kept, Row
  <2>3. ResultsFor(o)' = ResultsOf(o, report, r)
    BY <2>2, <1>0, <1>7 DEF ResultsFor, ResultsOf, IInv, ClosedIsAccounted, Existing
  <2>4. q \in V2 => Required[q] \subseteq {e.kind : e \in Consumed(entries, o)}
    BY <2>1 DEF CommitComplete, IInv, Knows, At, Asks, Row, PendingKinds
  <2>5. ASSUME NEW l \in DOMAIN Pieces[q]
        PROVE  \E x \in ResultsFor(o)' : /\ {y \in ResultsFor(o)' : y.line = l} = {x}
                                        /\ x.outcome.good + x.outcome.scrap = Pieces[q][l]
    <3> DEFINE x == [order |-> o, line |-> l, outcome |-> report[l], by |-> r]
    <3>1. l \in DOMAIN report /\ report[l].good + report[l].scrap = Pieces[q][l]
      BY <2>1 DEF Accounts
    <3>2. x \in ResultsFor(o)' /\ {y \in ResultsFor(o)' : y.line = l} = {x}
      BY <2>3, <3>1 DEF ResultsOf
    <3> QED  BY <3>1, <3>2
  <2>6. Consumed(entries, o)' = Consumed(entries, o)
    BY <2>2 DEF Consumed
  <2> QED  BY <1>7, <2>2, <2>4, <2>5, <2>6 DEF Accounted
<1> QED
  BY <1>4, <1>5, <1>6, <1>7

-----------------------------------------------------------------------------
(* The opening orders satisfy the invariant. *)
LEMMA InitIInv == Init => IInv
<1> SUFFICES ASSUME Init PROVE IInv
  OBVIOUS
<1> USE DEF Init
<1>1. TypeOK
  <2>1. PICK u \in Usages : req = [r \in Requests |->
          [may |-> u[r], pc |-> "idle", call |-> None, order |-> None, reply |-> None]]
    OBVIOUS
  <2>2. u \in [Requests -> SUBSET Calls]
    BY CallsAssumption
  <2>3. req \in [Requests -> ReqState]
    BY <2>1, <2>2 DEF ReqState
  <2> QED  BY <2>3, RulesAssumption DEF TypeOK, OrderIds
<1>2. \A r \in Requests : Fits(r) /\ Holds(r) /\ Knows(r)
  BY RulesAssumption, CallsAssumption DEF Fits, Holds, Knows, At, Order, Existing, OrderIds
<1>3. OneOrder
  BY RulesAssumption DEF OneOrder, Existing
<1>4. NoOrphans /\ ExitsExplained /\ KeyRecordsOnce
  BY DEF NoOrphans, ExitsExplained, KeyRecordsOnce
<1>5. RepliesExist /\ RepliesOwnOrder /\ NeverClashes
  BY DEF RepliesExist, RepliesOwnOrder, NeverClashes, Answered
<1>6. CancelledSpentNothing
  BY RulesAssumption DEF CancelledSpentNothing, HasStatus, Consumed, ExitsOf
<1>7. ClosedIsAccounted
  BY RulesAssumption DEF ClosedIsAccounted, Existing, ResultsFor
<1> QED
  BY <1>1, <1>2, <1>3, <1>4, <1>5, <1>6, <1>7 DEF IInv

(* Payment and withdrawal of a quotation, and stuttering. *)
LEMMA QuoteStep ==
  ASSUME IInv, (\E q \in Quotes : Pay(q) \/ Withdraw(q)) \/ UNCHANGED vars
  PROVE  IInv'
<1>1. TypeOK'
  BY TypeStep DEF Next
<1>2. orders' = orders /\ entries' = entries /\ exits' = exits /\ results' = results /\ req' = req /\ lock' = lock
  BY DEF Pay, Withdraw, vars, book
<1>3. ASSUME NEW r \in Requests
      PROVE  Fits(r)' /\ Holds(r)' /\ Knows(r)'
  <2>1. Fits(r) /\ Holds(r) /\ Knows(r)
    BY DEF IInv
  <2>2. Fits(r)' /\ Holds(r)'
    BY <1>2, <2>1 DEF Fits, Holds, At, Asks, Call, Key, Quote, Order, Existing
  <2>3. At(r, "insert") => Quote(r) \in V2 \cup confirmed'
    BY <2>1, RulesAssumption DEF Pay, Withdraw, Free, Holds, Knows, vars, book
  <2>4. Knows(r)'
    BY <1>2, <2>1, <2>3 DEF Knows, At, Asks, Call, Key, Quote, Order, Row, WithKey, OfQuote, SameKey,
       Existing, PendingKinds, Consumed
  <2> QED  BY <2>2, <2>4
<1>4. (OneOrder /\ NoOrphans /\ ExitsExplained /\ RepliesExist /\ NeverClashes /\ RepliesOwnOrder)'
  BY <1>2 DEF IInv, OneOrder, NoOrphans, ExitsExplained, RepliesExist, NeverClashes, RepliesOwnOrder,
     Answered, Asks, Call, Quote, OwnOrder, Existing, Consumed
<1>5. (CancelledSpentNothing /\ KeyRecordsOnce /\ ClosedIsAccounted)'
  BY <1>2 DEF IInv, CancelledSpentNothing, KeyRecordsOnce, ClosedIsAccounted, HasStatus, Consumed, ExitsOf,
     Existing, Accounted, ResultsFor
<1> QED
  BY <1>1, <1>3, <1>4, <1>5 DEF IInv

(* The invariant is inductive. *)
THEOREM StepIInv == IInv /\ [Next]_vars => IInv'
<1> SUFFICES ASSUME IInv, [Next]_vars PROVE IInv'
  OBVIOUS
<1>1. ASSUME NEW r \in Requests, (\E c \in Calls : Arrive(r, c)) \/ Step(r) \/ RollBack(r)
      PROVE  IInv'
  <2>1. TypeOK'
    BY <1>1, TypeStep DEF Next
  <2>2. \A s \in Requests : Fits(s)' /\ Holds(s)' /\ Knows(s)'
    BY <1>1, OthersStay, MoverFits
  <2>3. OneOrder' /\ NoOrphans' /\ ExitsExplained'
    BY <1>1, OneOrderStep, NoOrphansStep, ExitsStep
  <2>4. RepliesExist' /\ NeverClashes' /\ RepliesOwnOrder'
    BY <1>1, RepliesStep
  <2>5. CancelledSpentNothing' /\ KeyRecordsOnce' /\ ClosedIsAccounted'
    BY <1>1, CancelledStep, KeyRecordsOnceStep, ClosedStep
  <2> QED  BY <2>1, <2>2, <2>3, <2>4, <2>5 DEF IInv
<1>2. CASE (\E q \in Quotes : Pay(q) \/ Withdraw(q)) \/ UNCHANGED vars
  BY <1>2, QuoteStep
<1> QED
  BY <1>1, <1>2 DEF Next

(* The rows and the requests fit together in every state: IInv holds. *)
THEOREM Consistent == Spec => []IInv
BY InitIInv, StepIInv, PTL DEF Spec

(* Every variable keeps its type. *)
THEOREM TypeCorrect == Spec => []TypeOK
BY Consistent, PTL DEF IInv

(* No creation dies of a UNIQUE constraint: the lookups under the locks of  *)
(* key and quotation see every order that could clash.                      *)
THEOREM CreationsNeverClash == Spec => []NeverClashes
BY Consistent, PTL DEF IInv

(* A V2 creation never answers the order of another quotation. *)
THEOREM CreationsReplyOwn == Spec => []RepliesOwnOrder
BY Consistent, PTL DEF IInv

(* A cancelled order spent nothing: no consumption slips in between the     *)
(* check and the commit of its cancellation.                                *)
THEOREM CancelledIsUnspent == Spec => []CancelledSpentNothing
BY Consistent, PTL DEF IInv

(* A key records one entry of its table, whatever races with it. *)
THEOREM KeysRecordOnce == Spec => []KeyRecordsOnce
BY Consistent, PTL DEF IInv

(* A completed order consumed all it planned and has one result for each    *)
(* line, which accounts for its pieces; no other order has results.         *)
THEOREM ClosedOrdersAccount == Spec => []ClosedIsAccounted
BY Consistent, PTL DEF IInv

-----------------------------------------------------------------------------
(* What left the stock, counted.  Rows are finitely many, and each names a  *)
(* request that is over, so what a request writes is new.                   *)
Spent(o) ==
  Cardinality(ExitsOf(o)) =
    IF orders[o].quote \in V2 THEN Cardinality(Consumed(entries, o))
    ELSE IF orders[o].status \in {"STARTED", "COMPLETED"} THEN 1 ELSE 0

Counted ==
  /\ IsFiniteSet(entries) /\ IsFiniteSet(exits)
  /\ \A x \in entries \cup exits : req[x.by].pc \in Ended
  /\ \A o \in Existing(orders) : Spent(o)

(* One row more, of an order, of the kind that is counted. *)
LEMMA CountOneMore ==
  ASSUME NEW S, IsFiniteSet(S), NEW x, x \notin S, NEW T, T = S \cup {x}
  PROVE  IsFiniteSet(T) /\ Cardinality(T) = Cardinality(S) + 1 /\ Cardinality(S) \in Nat
BY FS_AddElement, FS_CardinalityType

LEMMA RowsFinite ==
  ASSUME Counted, NEW o
  PROVE  IsFiniteSet(ExitsOf(o)) /\ IsFiniteSet(Consumed(entries, o))
<1>1. ExitsOf(o) \in SUBSET exits /\ Consumed(entries, o) \in SUBSET entries
  BY DEF ExitsOf, Consumed
<1> QED
  BY <1>1, FS_Subset DEF Counted

LEMMA MoverIsOpen ==
  ASSUME NEW r \in Requests, (\E c \in Calls : Arrive(r, c)) \/ Step(r) \/ RollBack(r)
  PROVE  req[r].pc \notin Ended
BY DEF Arrive, RollBack, Step, LockKey, LockOrder, AlreadyDone, WrongState, Creating, LookUpOrderKey,
       LockQuote, LookUpOrder, InsertOrder, Recording, LookUpEntryKey, RecordEntry, Starting, StartV2,
       LockPayment, StartLegacy, Closing, CheckClose, CommitComplete, CommitCancel, At, Ended, Waiting

LEMMA EndsSaved ==
  ASSUME TypeOK, NEW r \in Requests, NEW reply, End(r, "saved", reply)
  PROVE  req'[r].pc = "saved"
BY DEF TypeOK, End, ReqState

LEMMA OldWritersStay ==
  ASSUME IInv, Counted, NEW r \in Requests, (\E c \in Calls : Arrive(r, c)) \/ Step(r) \/ RollBack(r)
  PROVE  \A x \in entries \cup exits : x.by # r /\ req'[x.by].pc \in Ended
<1> TAKE x \in entries \cup exits
<1>1. x.by \in Requests
  BY DEF IInv, TypeOK, Entry, Exit
<1>2. x.by # r
  BY MoverIsOpen DEF Counted
<1>3. req'[x.by] = req[x.by]
  BY <1>1, <1>2, Bystanders
<1> QED
  BY <1>2, <1>3 DEF Counted

(* A step that leaves material and entries alone.                           *)
LEMMA NothingLeaves ==
  ASSUME IInv, Counted, NEW r \in Requests, (\E c \in Calls : Arrive(r, c)) \/ Step(r) \/ RollBack(r),
         entries' = entries, exits' = exits
  PROVE  Counted'
<1>1. \A x \in entries' \cup exits' : req'[x.by].pc \in Ended
  BY OldWritersStay
<1>2. ASSUME NEW o \in Existing(orders)' PROVE Spent(o)'
  <2>1. o \in OrderIds /\ orders'[o] # None /\ Kept(r, o)
    BY RowsKeep DEF Existing
  <2>2. ExitsOf(o)' = ExitsOf(o) /\ Consumed(entries, o)' = Consumed(entries, o)
    BY DEF ExitsOf, Consumed
  <2>3. CASE orders[o] = None
    <3>1. o = r /\ Creates(r) /\ orders'[r].status = "CREATED"
      BY <2>1, <2>3, Types DEF Kept, Creates, NewOrder, IInv, TypeOK
    <3>2. ExitsOf(o) = {} /\ Consumed(entries, o) = {}
      BY <2>3 DEF IInv, NoOrphans, ExitsOf, Consumed
    <3> QED  BY <2>2, <3>1, <3>2, FS_EmptySet DEF Spent
  <2>4. CASE orders[o] # None
    <3>1. Spent(o) /\ orders'[o].quote = orders[o].quote
      BY <2>1, <2>4 DEF Counted, Existing, Kept
    <3>2. CASE orders[o].quote \in V2
      BY <2>2, <3>1, <3>2 DEF Spent
    <3>3. CASE orders[o].quote \notin V2
      <4>1. ~StartLegacy(r) \/ Row(r).quote \notin paid
        <5> SUFFICES ASSUME StartLegacy(r), Row(r).quote \in paid PROVE FALSE
          OBVIOUS
        <5> DEFINE x == [order |-> Order(r), key |-> None, by |-> r]
        <5>1. x \in exits /\ x.by = r
          BY DEF StartLegacy
        <5> QED  BY <5>1, OldWritersStay
      <4>2. ASSUME StartV2(r) PROVE orders'[o] = orders[o]
        <5>1. o # Order(r)
          BY <4>2, <3>3 DEF StartV2, Row
        <5> QED  BY <4>2, <5>1, <2>1 DEF StartV2, Become, IInv, TypeOK
      <4>3. orders'[o].status \in {"STARTED", "COMPLETED"} <=> orders[o].status \in {"STARTED", "COMPLETED"}
        <5>1. StartLegacy(r) => orders' = orders
          BY <4>1 DEF StartLegacy, Refuse, book
        <5> QED  BY <2>1, <2>4, <4>2, <5>1, OrderLives DEF Lives
      <4> QED  BY <2>2, <3>1, <3>3, <4>3 DEF Spent
    <3> QED  BY <3>2, <3>3
  <2> QED  BY <2>3, <2>4
<1>3. IsFiniteSet(entries') /\ IsFiniteSet(exits')
  BY DEF Counted
<1> QED
  BY <1>1, <1>2, <1>3 DEF Counted

(* The start of a legacy order takes its material out, and it had taken     *)
(* none: it was created and no more.                                        *)
LEMMA RecipeLeaves ==
  ASSUME IInv, Counted, NEW r \in Requests, StartLegacy(r), Row(r).quote \in paid
  PROVE  Counted'
<1>1. /\ Order(r) \in OrderIds /\ Row(r) \in OrderRow /\ Row(r).status = "CREATED"
      /\ Row(r).quote \notin V2 /\ Order(r) \in Existing(orders)
  BY Types, RulesAssumption DEF StartLegacy, IInv, Fits, Knows, At, Asks, TypeOK, Row, Order, Existing
<1>2. PICK x : x = [order |-> Order(r), key |-> None, by |-> r]
  OBVIOUS
<1>3. x.order = Order(r) /\ x.by = r
  BY <1>2
<1>4. exits' = exits \cup {x} /\ entries' = entries /\ req'[r].pc = "saved"
  <2>1. exits' = exits \cup {x} /\ entries' = entries /\ End(r, "saved", Order(r))
    BY <1>2 DEF StartLegacy, Become
  <2> QED  BY <2>1, EndsSaved DEF IInv
<1>5. Step(r)
  BY DEF Step, Starting
<1>6. \A y \in entries \cup exits : y.by # r /\ req'[y.by].pc \in Ended
  BY <1>5, OldWritersStay
<1>7. x \notin exits
  BY <1>3, <1>6
<1>8. PICK row : row = [Row(r) EXCEPT !.status = "STARTED"]
  OBVIOUS
<1>9. row.status = "STARTED" /\ row.quote = Row(r).quote
  BY <1>1, <1>8 DEF OrderRow
<1>10. orders' = [orders EXCEPT ![Order(r)] = row]
  BY <1>8 DEF StartLegacy, Become, Row
<1>11. /\ orders'[Order(r)] = row
       /\ \A o \in OrderIds : o # Order(r) => orders'[o] = orders[o]
  BY <1>1, <1>10 DEF IInv, TypeOK
<1>12. ASSUME NEW o \in Existing(orders)' PROVE Spent(o)'
  <2>1. Consumed(entries, o)' = Consumed(entries, o)
    BY <1>4 DEF Consumed
  <2>2. CASE o = Order(r)
    <3>1. ExitsOf(o)' = ExitsOf(o) \cup {x} /\ x \notin ExitsOf(o)
      BY <1>3, <1>4, <1>7, <2>2 DEF ExitsOf
    <3>2. Cardinality(ExitsOf(o)) = 0
      BY <1>1, <2>2 DEF Counted, Spent, Row
    <3>3. Cardinality(ExitsOf(o)') = Cardinality(ExitsOf(o)) + 1
      BY <3>1, RowsFinite, CountOneMore
    <3> QED  BY <1>1, <1>9, <1>11, <2>2, <3>2, <3>3 DEF Spent
  <2>3. CASE o # Order(r)
    <3>1. ExitsOf(o)' = ExitsOf(o)
      BY <1>3, <1>4, <2>3 DEF ExitsOf
    <3>2. orders'[o] = orders[o] /\ o \in Existing(orders)
      BY <1>11, <2>3 DEF Existing
    <3> QED  BY <2>1, <3>1, <3>2 DEF Counted, Spent
  <2> QED  BY <2>2, <2>3
<1>13. IsFiniteSet(exits') /\ IsFiniteSet(entries')
  BY <1>4, <1>7, CountOneMore DEF Counted
<1>14. \A y \in entries' \cup exits' : req'[y.by].pc \in Ended
  BY <1>3, <1>4, <1>6 DEF Ended
<1> QED
  BY <1>12, <1>13, <1>14 DEF Counted

(* An entry brings one movement if it is a consumption, and none if not.    *)
LEMMA EntryCounts ==
  ASSUME IInv, Counted, NEW r \in Requests, RecordEntry(r), Row(r).quote \in V2,
         Accepts(Call(r).kind, Row(r).status), SameKey(r) = {}
  PROVE  Counted'
<1>1. PICK x : x = [order |-> Order(r), key |-> Key(r), by |-> r]
  OBVIOUS
<1>2. PICK e : e = [order |-> Order(r), kind |-> Call(r).kind, key |-> Key(r), by |-> r]
  OBVIOUS
<1>3. x.order = Order(r) /\ x.by = r /\ e.order = Order(r) /\ e.by = r /\ e.kind = Call(r).kind
  BY <1>1, <1>2
<1>4. /\ entries' = entries \cup {e}
      /\ Call(r).kind \in Classes => exits' = exits \cup {x}
      /\ Call(r).kind \notin Classes => exits' = exits
      /\ orders' = orders /\ req'[r].pc = "saved"
  <2>1. /\ entries' = entries \cup {e}
        /\ exits' = IF Call(r).kind \in Classes THEN exits \cup {x} ELSE exits
        /\ orders' = orders /\ End(r, "saved", r)
    BY <1>1, <1>2 DEF RecordEntry, SameKey
  <2> QED  BY <2>1, EndsSaved DEF IInv
<1>5. Step(r)
  BY DEF Step, Recording
<1>6. \A y \in entries \cup exits : y.by # r /\ req'[y.by].pc \in Ended
  BY <1>5, OldWritersStay
<1>7. x \notin exits /\ e \notin entries
  BY <1>3, <1>6
<1>8. ASSUME NEW o \in Existing(orders)' PROVE Spent(o)'
  <2>1. Spent(o) /\ orders'[o] = orders[o]
    BY <1>4 DEF Counted, Existing
  <2>2. CASE o = Order(r) /\ Call(r).kind \in Classes
    <3>1. /\ ExitsOf(o)' = ExitsOf(o) \cup {x} /\ x \notin ExitsOf(o)
          /\ Consumed(entries, o)' = Consumed(entries, o) \cup {e} /\ e \notin Consumed(entries, o)
      BY <1>3, <1>4, <1>7, <2>2 DEF ExitsOf, Consumed
    <3>2. Cardinality(ExitsOf(o)') = Cardinality(ExitsOf(o)) + 1
      BY <3>1, RowsFinite, CountOneMore
    <3>3. Cardinality(Consumed(entries, o)') = Cardinality(Consumed(entries, o)) + 1
      BY <3>1, RowsFinite, CountOneMore
    <3>4. orders[o].quote \in V2
      BY <2>2 DEF Row
    <3> QED  BY <2>1, <3>2, <3>3, <3>4 DEF Spent
  <2>3. CASE o # Order(r) \/ Call(r).kind \notin Classes
    <3>1. ExitsOf(o)' = ExitsOf(o) /\ Consumed(entries, o)' = Consumed(entries, o)
      BY <1>3, <1>4, <2>3 DEF ExitsOf, Consumed
    <3> QED  BY <2>1, <3>1 DEF Spent
  <2> QED  BY <2>2, <2>3
<1>9. IsFiniteSet(exits') /\ IsFiniteSet(entries')
  <2>1. IsFiniteSet(entries')
    BY <1>4, <1>7, CountOneMore DEF Counted
  <2>2. IsFiniteSet(exits')
    BY <1>4, <1>7, CountOneMore DEF Counted
  <2> QED  BY <2>1, <2>2
<1>10. \A y \in entries' \cup exits' : req'[y.by].pc \in Ended
  BY <1>3, <1>4, <1>6 DEF Ended
<1> QED
  BY <1>8, <1>9, <1>10 DEF Counted

LEMMA CountedStep == IInv /\ Counted /\ [Next]_vars => Counted'
<1> SUFFICES ASSUME IInv, Counted, [Next]_vars PROVE Counted'
  OBVIOUS
<1>1. ASSUME NEW r \in Requests, (\E c \in Calls : Arrive(r, c)) \/ Step(r) \/ RollBack(r)
      PROVE  Counted'
  <2>1. CASE StartLegacy(r) /\ Row(r).quote \in paid
    BY <2>1, RecipeLeaves
  <2>2. CASE RecordEntry(r) /\ Row(r).quote \in V2 /\ Accepts(Call(r).kind, Row(r).status) /\ SameKey(r) = {}
    BY <2>2, EntryCounts
  <2>3. CASE entries' = entries /\ exits' = exits
    BY <1>1, <2>3, NothingLeaves
  <2> QED
    BY <1>1, <2>1, <2>2, <2>3, BookSteps DEF book, Creates, StartV2, CommitComplete, CommitCancel, Refuse
<1>2. CASE (\E q \in Quotes : Pay(q) \/ Withdraw(q)) \/ UNCHANGED vars
  <2>1. UNCHANGED <<orders, entries, exits, req>>
    BY <1>2 DEF Pay, Withdraw, vars, book
  <2> QED  BY <2>1 DEF Counted, Spent, ExitsOf, Consumed, Existing
<1> QED
  BY <1>1, <1>2 DEF Next

LEMMA InitCounted == Init => Counted
<1> SUFFICES ASSUME Init PROVE Counted
  OBVIOUS
<1>1. entries = {} /\ exits = {}
  BY DEF Init
<1>2. ASSUME NEW o \in Existing(orders) PROVE Spent(o)
  <2>1. orders[o].status = "CREATED"
    BY RulesAssumption DEF Init, Existing
  <2>2. ExitsOf(o) = {} /\ Consumed(entries, o) = {}
    BY <1>1 DEF ExitsOf, Consumed
  <2> QED  BY <2>1, <2>2, FS_EmptySet DEF Spent
<1> QED
  BY <1>1, <1>2, FS_EmptySet DEF Counted

(* Material leaves once, however many requests ask, repeat their keys, fail *)
(* and race: with the one start of a legacy order, and with each recorded   *)
(* consumption of a V2 order, no more and no less.                          *)
THEOREM MaterialLeavesOnce == Spec => []SpentOnce
<1>1. Counted => SpentOnce
  BY DEF Counted, Spent, SpentOnce
<1> QED
  BY <1>1, InitCounted, CountedStep, Consistent, PTL DEF Spec

-----------------------------------------------------------------------------
(* No step refuses what its request had already written. *)
LEMMA RetryStep ==
  ASSUME IInv, [Next]_vars, NEW r \in Requests
  PROVE  Recognised(r)
<1> USE DEF IInv, Asks, Call, Key, Quote, Order, At
<1> SUFFICES ASSUME req'[r].pc = "refused", req[r].pc # "refused"
             PROVE  /\ Asks(r, "RECORD") =>
                         \A e \in entries : e.key = Key(r) => e.kind # Call(r).kind \/ e.order # Order(r)
                    /\ Asks(r, "CREATE") => \A o \in WithKey(orders, Key(r)) : orders[o].quote # Quote(r)
  BY DEF Recognised
<1>1. \/ Step(r) \/ RollBack(r)
      \/ \E c \in Calls : Arrive(r, c)
  <2>1. ASSUME NEW s \in Requests, s # r, (\E c \in Calls : Arrive(s, c)) \/ Step(s) \/ RollBack(s)
        PROVE  FALSE
    BY <2>1, Bystanders
  <2>2. ~((\E q \in Quotes : Pay(q) \/ Withdraw(q)) \/ UNCHANGED vars)
    BY DEF Pay, Withdraw, vars
  <2> QED  BY <2>1, <2>2 DEF Next
<1>2. ASSUME NEW pc, NEW reply, End(r, pc, reply)
      PROVE  req'[r].pc = pc
  BY <1>2 DEF End, TypeOK, ReqState
<1>3. ASSUME NEW pc, Goto(r, pc)
      PROVE  req'[r].pc = pc
  BY <1>3 DEF Goto, TypeOK, ReqState
<1>4. CASE \E c \in Calls : Arrive(r, c)
  <2>1. PICK c \in Calls : Arrive(r, c)
    BY <1>4
  <2>2. req'[r].pc \in {"quote", "key", "order"}
    BY <2>1 DEF Arrive, TypeOK
  <2> QED  BY <2>2
<1>5. CASE LookUpEntryKey(r)
  <2>1. PICK e \in SameKey(r) : ~(e.order = Order(r) /\ e.kind = Call(r).kind)
    BY <1>2, <1>3, <1>5 DEF LookUpEntryKey, AnswerEntry, Answer
  <2>2. \A f \in entries : f.key = Key(r) /\ f.kind = Call(r).kind => f = e
    BY <2>1 DEF SameKey, Keyed, KeyRecordsOnce
  <2> QED  BY <2>1, <2>2, <1>5 DEF LookUpEntryKey
<1>6. CASE RecordEntry(r)
  <2>1. SameKey(r) = {}
    BY <1>6 DEF RecordEntry, Knows
  <2> QED  BY <2>1, <1>6 DEF SameKey, Keyed, RecordEntry
<1>7. CASE LookUpOrderKey(r)
  <2>1. PICK o \in WithKey(orders, Key(r)) : orders[o].quote # Quote(r)
    BY <1>2, <1>3, <1>7 DEF LookUpOrderKey, Answer
  <2>2. \A p \in WithKey(orders, Key(r)) : p = o
    BY DEF WithKey, OneOrder
  <2> QED  BY <2>1, <2>2, <1>7 DEF LookUpOrderKey
<1>8. CASE LookUpOrder(r)
  BY <1>8 DEF LookUpOrder, Knows, Fits
<1>9. CASE AlreadyDone(r) \/ WrongState(r) \/ StartV2(r) \/ StartLegacy(r) \/ LockPayment(r) \/ CheckClose(r)
           \/ CommitComplete(r) \/ CommitCancel(r)
  BY <1>9 DEF AlreadyDone, WrongState, StartV2, StartLegacy, LockPayment, CheckClose,
              CommitComplete, CommitCancel, Moves, Proceeds, Fits
<1>10. CASE LockKey(r) \/ LockOrder(r) \/ LockQuote(r)
  BY <1>3, <1>10 DEF LockKey, LockOrder, LockQuote, Take
<1>11. CASE InsertOrder(r)
  BY <1>2, <1>11 DEF InsertOrder, Answer
<1>12. CASE RollBack(r)
  BY <1>2, <1>12 DEF RollBack
<1> QED
  BY <1>1, <1>4, <1>5, <1>6, <1>7, <1>8, <1>9, <1>10, <1>11, <1>12 DEF Step, Creating, Recording, Starting, Closing

(* Whoever retries what is already written is never refused. *)
THEOREM RetriesRecognised == Spec => RetryIsRecognised
<1>1. IInv /\ [Next]_vars => [\A r \in Requests : Recognised(r)]_vars
  BY RetryStep
<1> QED  BY <1>1, Consistent, PTL DEF Spec, RetryIsRecognised

-----------------------------------------------------------------------------

(* Both start from the same rows. *)
LEMMA BookInit == Init => Book!Init
BY DEF Init, Book!Init, Book!OrderIds, OrderIds

(* The book reads its rules as the requests do. *)
LEMMA SameRules ==
  /\ Book!OrderIds = OrderIds /\ Book!EntryKinds = EntryKinds /\ Book!Classes = Classes
  /\ \A q \in Quotes : Book!OfQuote(orders, q) = OfQuote(orders, q)
  /\ \A k \in Keys \cup {None} : Book!WithKey(orders, k) = WithKey(orders, k)
  /\ \A o \in OrderIds : Book!Consumed(entries, o) = Consumed(entries, o)
  /\ \A o \in OrderIds, q \in Quotes : Book!PendingKinds(entries, o, q) = PendingKinds(entries, o, q)
  /\ \A kind \in EntryKinds, k \in Keys : Book!Keyed(entries, kind, k) = Keyed(entries, kind, k)
  /\ \A kind \in EntryKinds, s \in Status : Book!Accepts(kind, s) <=> Accepts(kind, s)
  /\ \A q \in Quotes, p \in Reports : Book!Accounts(q, p) <=> Accounts(q, p)
  /\ \A o \in OrderIds, p \in Reports, r \in Requests : Book!ResultsOf(o, p, r) = ResultsOf(o, p, r)
<1> USE DEF Book!OrderIds, OrderIds, Book!Classes, Classes, Book!Existing, Existing, Book!Consumed, Consumed
<1>1. /\ Book!OrderIds = OrderIds /\ Book!EntryKinds = EntryKinds /\ Book!Classes = Classes
  BY DEF Book!EntryKinds, EntryKinds, Book!Notes, Notes
<1>2. \A q \in Quotes : Book!OfQuote(orders, q) = OfQuote(orders, q)
  BY DEF Book!OfQuote, OfQuote
<1>3. \A k \in Keys \cup {None} : Book!WithKey(orders, k) = WithKey(orders, k)
  BY DEF Book!WithKey, WithKey
<1>4. \A o \in OrderIds : Book!Consumed(entries, o) = Consumed(entries, o)
  OBVIOUS
<1>5. \A o \in OrderIds, q \in Quotes : Book!PendingKinds(entries, o, q) = PendingKinds(entries, o, q)
  BY DEF Book!PendingKinds, PendingKinds
<1>6. \A kind \in EntryKinds, k \in Keys : Book!Keyed(entries, kind, k) = Keyed(entries, kind, k)
  BY DEF Book!Keyed, Keyed, Book!TableOf, TableOf, Book!Notes, Notes
<1>7. \A kind \in EntryKinds, s \in Status : Book!Accepts(kind, s) <=> Accepts(kind, s)
  BY DEF Book!Accepts, Accepts
<1>8. \A q \in Quotes, p \in Reports : Book!Accounts(q, p) <=> Accounts(q, p)
  BY DEF Book!Accounts, Accounts
<1>9. \A o \in OrderIds, p \in Reports, r \in Requests : Book!ResultsOf(o, p, r) = ResultsOf(o, p, r)
  BY DEF Book!ResultsOf, ResultsOf
<1> QED
  BY <1>1, <1>2, <1>3, <1>4, <1>5, <1>6, <1>7, <1>8, <1>9

(* Every step is a step of the book or leaves it alone. *)
LEMMA BookStep == IInv /\ [Next]_vars => [Book!Next]_(Book!book)
<1> SUFFICES ASSUME IInv, Next PROVE [Book!Next]_(Book!book)
  BY DEF vars, book, Book!book
<1> USE SameRules DEF IInv, Asks, Call, Key, Quote, At, Order
<1>1. ASSUME NEW r \in Requests, Creates(r)
      PROVE  Book!Next
  <2>1. Quote(r) \in Quotes /\ Key(r) \in Keys \cup {None}
    BY <1>1, CallShape DEF Creates, Fits
  <2>2. orders[r] = None /\ Quote(r) \in V2 \cup confirmed
    BY <1>1, Types DEF Creates, Knows, Fits, Ended, Existing
  <2>3. Book!Create(r, Quote(r), Key(r))
    BY <1>1, <2>1, <2>2 DEF Creates, Book!Create, Book!Producible, NewOrder
  <2> QED  BY <2>1, <2>3 DEF Book!Next
<1>2. ASSUME NEW r \in Requests, NEW from, NEW to, Become(r, to), Row(r) # None, Row(r).status = from
      PROVE  Book!Move(Order(r), from, to)
  BY <1>2 DEF Become, Book!Move, Row
<1>3. ASSUME NEW r \in Requests, StartV2(r)
      PROVE  Book!Next
  <2>1. Order(r) \in OrderIds /\ Row(r) # None
    BY <1>3, Types DEF StartV2, Fits, Proceeds, Row
  <2>2. Book!Start(r, Order(r))
    BY <1>2, <1>3, <2>1 DEF StartV2, Proceeds, Source, Book!Start, Row
  <2> QED  BY <2>1, <2>2 DEF Book!Next
<1>4. ASSUME NEW r \in Requests, StartLegacy(r), Row(r).quote \in paid
      PROVE  Book!Next
  <2>1. Order(r) \in OrderIds /\ Row(r) # None /\ Row(r).status = "CREATED"
    BY <1>4, Types DEF StartLegacy, Fits, Knows, Row
  <2>2. Book!Start(r, Order(r))
    BY <1>2, <1>4, <2>1 DEF StartLegacy, Book!Start, Row
  <2> QED  BY <2>1, <2>2 DEF Book!Next
<1>5. ASSUME NEW r \in Requests, RecordEntry(r), Row(r).quote \in V2,
             Accepts(Call(r).kind, Row(r).status), SameKey(r) = {}
      PROVE  Book!Next
  <2>1. Order(r) \in OrderIds /\ Row(r) # None /\ Row(r).status \in Status
    BY <1>5, Types DEF RecordEntry, Fits, Row, OrderRow
  <2>2. Call(r).kind \in EntryKinds /\ Key(r) \in Keys
    BY <1>5, CallShape DEF RecordEntry, Fits
  <2>3. Book!Record(r, Order(r), Call(r).kind, Key(r))
    BY <1>5, <2>1, <2>2 DEF RecordEntry, SameKey, Book!Record, Row
  <2> QED  BY <2>1, <2>2, <2>3 DEF Book!Next
<1>6. ASSUME NEW r \in Requests, CommitComplete(r), Accounts(Row(r).quote, Call(r).report)
      PROVE  Book!Next
  <2>1. /\ Order(r) \in OrderIds /\ Row(r) # None /\ Row(r).quote \in Quotes /\ Row(r).status = "STARTED"
        /\ PendingKinds(entries, Order(r), Row(r).quote) = {}
    BY <1>6, Types DEF CommitComplete, Fits, Knows, Row, OrderRow
  <2>2. Call(r).report \in Reports
    BY <1>6, CallShape DEF CommitComplete, Fits
  <2>3. Book!Complete(r, Order(r))
    BY <1>2, <1>6, <2>1, <2>2 DEF CommitComplete, Book!Complete, Row
  <2> QED  BY <2>1, <2>3 DEF Book!Next
<1>7. ASSUME NEW r \in Requests, CommitCancel(r)
      PROVE  Book!Next
  <2>1. /\ Order(r) \in OrderIds /\ Row(r) # None /\ Row(r).status = "CREATED"
        /\ Consumed(entries, Order(r)) = {}
    BY <1>7, Types DEF CommitCancel, Fits, Knows, Row
  <2>2. Book!Cancel(Order(r))
    BY <1>2, <1>7, <2>1 DEF CommitCancel, Book!Cancel, Row
  <2> QED  BY <2>1, <2>2 DEF Book!Next
<1>8. ASSUME NEW q \in Quotes, Pay(q) \/ Withdraw(q)
      PROVE  Book!Next
  BY <1>8 DEF Pay, Withdraw, Book!Pay, Book!Withdraw, Book!Next
<1>9. ASSUME NEW r \in Requests, (\E c \in Calls : Arrive(r, c)) \/ Step(r) \/ RollBack(r)
      PROVE  [Book!Next]_(Book!book)
  BY <1>1, <1>3, <1>4, <1>5, <1>6, <1>7, <1>9, BookSteps DEF book, Book!book
<1> QED
  BY <1>8, <1>9 DEF Next

(* Each commit of a request is one step of the book. *)
THEOREM Refinement == Spec => RefinesBook
<1>1. Init => Book!Init
  BY BookInit
<1>2. IInv /\ [Next]_vars => [Book!Next]_(Book!book)
  BY BookStep
<1> QED
  BY <1>1, <1>2, Consistent, PTL DEF Spec, RefinesBook, Book!Spec
=============================================================================
