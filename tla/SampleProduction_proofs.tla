------------------------ MODULE SampleProduction_proofs ------------------------
(***************************************************************************)
(* Proofs about SampleProduction, for any number of requests.              *)
(*                                                                         *)
(* Two invariants.  IInv holds whatever clients ask for: a request has the *)
(* locks of the place it is at, and what it checked under them is still    *)
(* so.  It gives the types, the payment of a direct start and the finality *)
(* of the decision.  OneWayInv holds of the behaviours in which clients    *)
(* make the sample through its order only, or directly only, and gives     *)
(* what fails when they do both: material and pieces are moved once, and   *)
(* the sample is where its order is.                                       *)
(***************************************************************************)
EXTENDS SampleProduction, FiniteSetTheorems, TLAPS

Pc(r) == req[r].pc
Op(r) == req[r].op

(* What a request asks for fits the place it is at. *)
Fits(r) ==
  /\ Op(r) \in usage[r] \cup {"NONE"}
  /\ Pc(r) \in {"read", "insert"} => Op(r) = "CREATE_ORDER"
  /\ Pc(r) \in {"order", "ordered"} => Op(r) \in OrderOps
  /\ Pc(r) = "mirror" => Op(r) = "CANCEL_ORDER"
  /\ Pc(r) \in {"sample", "held"} => Op(r) \in DirectOps
  /\ Pc(r) = "decide" => Op(r) = "DECIDE"
  /\ Pc(r) \in {"stock", "spend"} => Op(r) \in {"START", "START_ORDER"}

(* Where a request has the row of the order, or the row of the sample. *)
HasOrder(r) == \/ Pc(r) \in {"ordered", "mirror"}
               \/ Pc(r) \in {"stock", "spend"} /\ Op(r) = "START_ORDER"
HasSample(r) == \/ Pc(r) \in {"held", "decide"}
                \/ Pc(r) \in {"stock", "spend"} /\ Op(r) = "START"

Holds(r) ==
  /\ HasOrder(r) => lock["order"] = r
  /\ HasSample(r) => lock["sample"] = r

(* Between its checks and its commit, what a request relies on. *)
Prepared(r) ==
  /\ Pc(r) \in {"stock", "spend"} /\ Op(r) = "START" => sample = "CREATED" /\ ReadyToStart
  /\ Pc(r) \in {"stock", "spend", "mirror"} /\ Op(r) \in OrderOps => order = "CREATED"
  /\ Pc(r) = "decide" => Decidable

(* Who took the material is done, and was paid when that was asked for. *)
Settled(r) == r \in spent => Pc(r) = "saved" /\ (Op(r) = "START" => paid)

(* When the clients use one of the two services, the status that the order  *)
(* read without a lock is the sample's ...                                  *)
Seen(r) == Pc(r) \in {"stock", "spend", "mirror"} /\ Op(r) \in OrderOps => req[r].seen = "CREATED"

(* ... the sample and its order agree ... *)
Agree ==
  /\ ThroughOnly => sample = IF order = "NONE" THEN "CREATED" ELSE order
  /\ DirectOnly => order \in {"NONE", "CREATED"}

(* ... and the sample tells what was moved. *)
Moved ==
  /\ IF sample \in {"STARTED", "COMPLETED"} THEN \E r \in Requests : spent = {r} ELSE spent = {}
  /\ IF sample = "COMPLETED" THEN made = {} \/ \E r \in Requests : made = {r} ELSE made = {}

IInv ==
  /\ TypeOK
  /\ \A r \in Requests : Fits(r) /\ Holds(r) /\ Prepared(r) /\ Settled(r)

OneWayInv == MadeOneWay => Agree /\ Moved /\ \A r \in Requests : Seen(r)

-----------------------------------------------------------------------------
Moves(r) == Step(r) \/ RollBack(r) \/ CancelVictim(r) \/ \E op \in Ops : Arrive(r, op)

Locks == {"order", "sample", "stock"}

(* What a request becomes at a given place has the type of a request. *)
LEMMA GotoType ==
  ASSUME TypeOK, NEW r \in Requests, NEW pc \in {"idle"} \cup Waiting \cup Ended,
         Goto(r, pc), usage' = usage
  PROVE  /\ req' \in [Requests -> [pc : {"idle"} \cup Waiting \cup Ended,
                                   op : Ops \cup {"NONE"}, seen : Status]]
         /\ req'[r] = [req[r] EXCEPT !.pc = pc]
         /\ Pc(r)' = pc /\ Op(r)' = Op(r) /\ req'[r].seen = req[r].seen
         /\ \A s \in Requests \ {r} : req'[s] = req[s]
BY DEF TypeOK, Goto, Pc, Op

(* The end of a transaction frees its locks and no others. *)
LEMMA EndType ==
  ASSUME TypeOK, NEW r \in Requests, NEW pc \in Ended, End(r, pc), usage' = usage
  PROVE  /\ req' \in [Requests -> [pc : {"idle"} \cup Waiting \cup Ended,
                                   op : Ops \cup {"NONE"}, seen : Status]]
         /\ Pc(r)' = pc /\ Op(r)' = Op(r)
         /\ \A s \in Requests \ {r} : req'[s] = req[s]
         /\ lock' \in [Locks -> Requests \cup {None}]
         /\ \A s \in Requests \ {r}, x \in Locks : lock[x] = s => lock'[x] = s
<1>1. Goto(r, pc) /\ lock' = Released(r)
  BY DEF End
<1>2. /\ lock' \in [Locks -> Requests \cup {None}]
      /\ \A s \in Requests \ {r}, x \in Locks : lock[x] = s => lock'[x] = s
  BY <1>1 DEF TypeOK, Released, Locks
<1> QED  BY <1>1, <1>2, GotoType

(* A lock is taken from nobody. *)
LEMMA TakeType ==
  ASSUME TypeOK, NEW r \in Requests, NEW pc \in Waiting, NEW x \in Locks, Take(r, x, pc)
  PROVE  /\ req' \in [Requests -> [pc : {"idle"} \cup Waiting \cup Ended,
                                   op : Ops \cup {"NONE"}, seen : Status]]
         /\ Pc(r)' = pc /\ Op(r)' = Op(r) /\ req'[r].seen = req[r].seen
         /\ \A s \in Requests \ {r} : req'[s] = req[s]
         /\ lock' \in [Locks -> Requests \cup {None}]
         /\ lock'[x] = r /\ \A y \in Locks \ {x} : lock'[y] = lock[y]
         /\ \A s \in Requests \ {r}, y \in Locks : lock[y] = s => lock'[y] = s
<1>1. Goto(r, pc) /\ lock[x] = None /\ lock' = [lock EXCEPT ![x] = r] /\ usage' = usage
  BY DEF Take, Free, rows
<1>2. /\ lock' \in [Locks -> Requests \cup {None}]
      /\ lock'[x] = r /\ \A y \in Locks \ {x} : lock'[y] = lock[y]
      /\ \A s \in Requests \ {r}, y \in Locks : lock[y] = s => lock'[y] = s
  BY <1>1, SampleAssumption DEF TypeOK, Locks
<1> QED  BY <1>1, <1>2, GotoType

(* The steps that only end the request. *)
LEMMA Refusals ==
  ASSUME NEW r \in Requests,
         \/ RollBack(r) \/ CancelVictim(r) \/ OrderAnswered(r) \/ SampleAnswered(r)
         \/ Refuse(r)
  PROVE  (\E pc \in Ended : End(r, pc)) /\ UNCHANGED rows
BY DEF RollBack, CancelVictim, OrderAnswered, SampleAnswered, Refuse, Ended

(* What a step of one request leaves to the others, and to itself. *)
Frame(r) ==
  /\ TypeOK'
  /\ usage' = usage /\ birth' = birth
  /\ \A s \in Requests \ {r} : req'[s] = req[s]
  /\ \A s \in Requests \ {r}, x \in Locks : lock[x] = s => lock'[x] = s
  /\ paid' = paid
  /\ sample' = sample \/ lock["sample"] \in {None, r}
  /\ approval' = approval \/ lock["sample"] = r
  /\ order = "CREATED" => order' = order \/ lock["order"] = r
  /\ spent' \in {spent, spent \cup {r}}
  /\ spent' # spent => Pc(r)' = "saved" /\ (Op(r)' = "START" => paid)
  /\ Fits(r)' /\ Holds(r)' /\ Prepared(r)'

(* A request that ends without writing a row. *)
LEMMA QuietEnd ==
  ASSUME IInv, NEW r \in Requests, NEW pc \in Ended, End(r, pc), UNCHANGED rows
  PROVE  Frame(r)
<1> USE DEF IInv
<1>1. /\ usage' = usage /\ birth' = birth /\ paid' = paid /\ sample' = sample
      /\ approval' = approval /\ order' = order /\ spent' = spent /\ made' = made
  BY DEF rows
<1>2. TypeOK'
  BY <1>1, EndType DEF TypeOK, Locks
<1>3. Fits(r)' /\ Holds(r)' /\ Prepared(r)'
  BY <1>1, EndType DEF Ended, Fits, Holds, HasOrder, HasSample, Prepared
<1> QED  BY <1>1, <1>2, <1>3, EndType DEF Frame

-----------------------------------------------------------------------------
(* A request arrives with something its clients ask for. *)
LEMMA ArriveFrame ==
  ASSUME IInv, NEW r \in Requests, NEW op \in Ops, Arrive(r, op)
  PROVE  Frame(r) /\ Pc(r)' \in {"order", "sample", "read"}
<1> USE DEF IInv
<1> DEFINE pc == IF op \in OrderOps THEN "order" ELSE IF op \in DirectOps THEN "sample" ELSE "read"
<1>1. /\ op \in usage[r] /\ lock' = lock
      /\ req' = [req EXCEPT ![r].op = op, ![r].pc = pc]
      /\ UNCHANGED rows
  BY DEF Arrive
<1>2. /\ usage' = usage /\ birth' = birth /\ paid' = paid /\ sample' = sample
      /\ approval' = approval /\ order' = order /\ spent' = spent /\ made' = made
  BY <1>1 DEF rows
<1>3. pc \in Waiting /\ op \in OrderOps \cup DirectOps \cup {"CREATE_ORDER"}
  BY SampleAssumption DEF Waiting, TypeOK, Ops
<1>4. /\ pc = "order" => op \in OrderOps
      /\ pc = "sample" => op \in DirectOps
      /\ pc = "read" => op = "CREATE_ORDER"
      /\ pc \in {"order", "sample", "read"}
  BY <1>1, <1>3
<1> HIDE DEF pc
<1>5. /\ req' \in [Requests -> [pc : {"idle"} \cup Waiting \cup Ended,
                                op : Ops \cup {"NONE"}, seen : Status]]
      /\ Pc(r)' = pc /\ Op(r)' = op
      /\ \A s \in Requests \ {r} : req'[s] = req[s]
  BY <1>1, <1>2, <1>3 DEF TypeOK, Pc, Op
<1>6. TypeOK'
  BY <1>1, <1>2, <1>5 DEF TypeOK
<1>7. Fits(r)' /\ Holds(r)' /\ Prepared(r)'
  BY <1>1, <1>2, <1>4, <1>5 DEF Fits, Holds, HasOrder, HasSample, Prepared
<1> QED  BY <1>1, <1>2, <1>4, <1>5, <1>6, <1>7 DEF Frame

(* Steps that take a lock, and steps that only read. *)
LEMMA LookFrame ==
  ASSUME IInv, NEW r \in Requests,
         \/ ReadForOrder(r) \/ LockOrder(r) \/ ReadSample(r)
         \/ LockSample(r) \/ CheckReady(r) \/ CheckDecidable(r) \/ LockStock(r)
  PROVE  Frame(r)
<1> USE DEF IInv
<1>a. ASSUME UNCHANGED rows
      PROVE  /\ usage' = usage /\ birth' = birth /\ paid' = paid /\ sample' = sample
             /\ approval' = approval /\ order' = order /\ spent' = spent /\ made' = made
  BY <1>a DEF rows
<1>b. ASSUME UNCHANGED rows, TypeOK', Fits(r)', Holds(r)', Prepared(r)',
             \A s \in Requests \ {r} : req'[s] = req[s],
             \A s \in Requests \ {r}, x \in Locks : lock[x] = s => lock'[x] = s
      PROVE  Frame(r)
  BY <1>a, <1>b DEF Frame
<1>1. CASE ReadForOrder(r)
  <2>1. CASE Goto(r, "insert") /\ UNCHANGED <<rows, lock>>
    <3>1. UNCHANGED rows /\ lock' = lock /\ "insert" \in Waiting
      BY <2>1 DEF Waiting
    <3>2. Op(r) = "CREATE_ORDER"
      BY <1>1 DEF ReadForOrder, At, Fits, Pc
    <3>3. Pc(r)' = "insert" /\ Op(r)' = Op(r) /\ TypeOK'
      BY <1>a, <2>1, <3>1, GotoType DEF TypeOK
    <3>4. Fits(r)' /\ Holds(r)' /\ Prepared(r)'
      BY <1>a, <3>1, <3>2, <3>3 DEF Fits, Holds, HasOrder, HasSample, Prepared
    <3> QED  BY <1>a, <1>b, <2>1, <3>1, <3>3, <3>4, GotoType
  <2>2. CASE \E pc \in Ended : End(r, pc) /\ UNCHANGED rows
    BY <2>2, QuietEnd
  <2> QED  BY <1>1, <2>1, <2>2, Refusals DEF ReadForOrder, Ended
<1>2. CASE LockOrder(r)
  <2>1. /\ Take(r, "order", "ordered") /\ UNCHANGED rows /\ Op(r) \in OrderOps
        /\ "ordered" \in Waiting /\ "order" \in Locks
    BY <1>2 DEF LockOrder, Take, At, Fits, Pc, Waiting, Locks
  <2>2. Fits(r)' /\ Holds(r)' /\ Prepared(r)' /\ TypeOK'
    BY <1>a, <2>1, TakeType DEF Fits, Holds, HasOrder, HasSample, Prepared, TypeOK, Locks
  <2> QED  BY <1>b, <2>1, <2>2, TakeType
<1>3. CASE ReadSample(r)
  <2>1. CASE Refuse(r)
    BY <2>1, Refusals, QuietEnd
  <2>2. CASE ~Refuse(r)
    <3> DEFINE pc == IF Op(r) = "START_ORDER" THEN "stock" ELSE "mirror"
    <3>1. /\ req' = [req EXCEPT ![r].pc = pc, ![r].seen = sample]
          /\ UNCHANGED rows /\ lock' = lock /\ order = "CREATED"
          /\ Op(r) \in {"START_ORDER", "CANCEL_ORDER"} /\ Pc(r) = "ordered"
      BY <1>3, <2>2 DEF ReadSample, At, Asks, Pc, Op
    <3>2. pc \in Waiting /\ sample \in Status
      BY DEF Waiting, TypeOK
    <3>3. /\ pc = "stock" => Op(r) = "START_ORDER"
          /\ pc = "mirror" => Op(r) = "CANCEL_ORDER"
          /\ pc \in {"stock", "mirror"}
      BY <3>1
    <3> HIDE DEF pc
    <3>4. /\ req' \in [Requests -> [pc : {"idle"} \cup Waiting \cup Ended,
                                    op : Ops \cup {"NONE"}, seen : Status]]
          /\ Pc(r)' = pc /\ Op(r)' = Op(r)
          /\ \A s \in Requests \ {r} : req'[s] = req[s]
      BY <3>1, <3>2 DEF TypeOK, Pc, Op
    <3>5. TypeOK'
      BY <1>a, <3>1, <3>4 DEF TypeOK
    <3>6. lock["order"] = r
      BY <3>1 DEF Holds, HasOrder
    <3>7. Fits(r)' /\ Holds(r)' /\ Prepared(r)'
      BY <1>a, <3>1, <3>3, <3>4, <3>6
         DEF Fits, Holds, HasOrder, HasSample, Prepared, OrderOps
    <3> QED  BY <1>b, <3>1, <3>4, <3>5, <3>7
  <2> QED  BY <2>1, <2>2
<1>4. CASE LockSample(r)
  <2>1. /\ Take(r, "sample", "held") /\ UNCHANGED rows /\ Op(r) \in DirectOps
        /\ "held" \in Waiting /\ "sample" \in Locks
    BY <1>4 DEF LockSample, Take, At, Fits, Pc, Waiting, Locks
  <2>2. Fits(r)' /\ Holds(r)' /\ Prepared(r)' /\ TypeOK'
    BY <1>a, <2>1, TakeType DEF Fits, Holds, HasOrder, HasSample, Prepared, TypeOK, Locks
  <2> QED  BY <1>b, <2>1, <2>2, TakeType
<1>5. CASE CheckReady(r)
  <2>1. CASE Refuse(r)
    BY <2>1, Refusals, QuietEnd
  <2>2. CASE ~Refuse(r)
    <3>1. /\ Goto(r, "stock") /\ UNCHANGED rows /\ lock' = lock /\ "stock" \in Waiting
          /\ ReadyToStart /\ sample = "CREATED" /\ Op(r) = "START" /\ Pc(r) = "held"
      BY <1>5, <2>2 DEF CheckReady, At, Proceeds, Asks, Source, Pc, Op, Waiting
    <3>2. lock["sample"] = r
      BY <3>1 DEF Holds, HasSample
    <3>3. ReadyToStart'
      BY <1>a, <3>1 DEF ReadyToStart
    <3>4. Pc(r)' = "stock" /\ Op(r)' = "START" /\ TypeOK'
      BY <1>a, <3>1, GotoType DEF TypeOK
    <3>5. Fits(r)' /\ Holds(r)' /\ Prepared(r)'
      BY <1>a, <3>1, <3>2, <3>3, <3>4
         DEF Fits, Holds, HasOrder, HasSample, Prepared, OrderOps
    <3> QED  BY <1>a, <1>b, <3>1, <3>4, <3>5, GotoType
  <2> QED  BY <2>1, <2>2
<1>6. CASE LockStock(r)
  <2>1. /\ Take(r, "stock", "spend") /\ UNCHANGED rows /\ Pc(r) = "stock"
        /\ "spend" \in Waiting /\ "stock" \in Locks
    BY <1>6 DEF LockStock, Take, At, Pc, Waiting, Locks
  <2>2. ReadyToStart => ReadyToStart'
    BY <1>a, <2>1 DEF ReadyToStart
  <2>3. Fits(r)' /\ Holds(r)' /\ Prepared(r)' /\ TypeOK'
    BY <1>a, <2>1, <2>2, TakeType DEF Fits, Holds, HasOrder, HasSample, Prepared, TypeOK, Locks
  <2> QED  BY <1>b, <2>1, <2>3, TakeType
<1>7. CASE CheckDecidable(r)
  <2>1. CASE Refuse(r)
    BY <2>1, Refusals, QuietEnd
  <2>2. CASE ~Refuse(r)
    <3>1. /\ Goto(r, "decide") /\ UNCHANGED rows /\ lock' = lock /\ "decide" \in Waiting
          /\ Decidable /\ Op(r) = "DECIDE" /\ Pc(r) = "held"
      BY <1>7, <2>2 DEF CheckDecidable, At, Asks, Pc, Op, Waiting
    <3>2. lock["sample"] = r
      BY <3>1 DEF Holds, HasSample
    <3>3. Decidable'
      BY <1>a, <3>1 DEF Decidable
    <3>4. Pc(r)' = "decide" /\ Op(r)' = "DECIDE" /\ TypeOK'
      BY <1>a, <3>1, GotoType DEF TypeOK
    <3>5. Fits(r)' /\ Holds(r)' /\ Prepared(r)'
      BY <1>a, <3>1, <3>2, <3>3, <3>4 DEF Fits, Holds, HasOrder, HasSample, Prepared
    <3> QED  BY <1>a, <1>b, <3>1, <3>4, <3>5, GotoType
  <2> QED  BY <2>1, <2>2
<1> QED  BY <1>1, <1>2, <1>3, <1>4, <1>5, <1>6, <1>7

(* A request that ends with what it wrote. *)
LEMMA SavedEnd ==
  ASSUME IInv, NEW r \in Requests, End(r, "saved"), usage' = usage
  PROVE  /\ Pc(r)' = "saved" /\ Op(r)' = Op(r)
         /\ req' \in [Requests -> [pc : {"idle"} \cup Waiting \cup Ended,
                                   op : Ops \cup {"NONE"}, seen : Status]]
         /\ lock' \in [Locks -> Requests \cup {None}]
         /\ \A s \in Requests \ {r} : req'[s] = req[s]
         /\ \A s \in Requests \ {r}, x \in Locks : lock[x] = s => lock'[x] = s
         /\ Fits(r)' /\ Holds(r)' /\ Prepared(r)'
<1>1. "saved" \in Ended /\ TypeOK
  BY DEF Ended, IInv
<1>2. Pc(r)' = "saved" /\ Op(r)' = Op(r)
  BY <1>1, EndType
<1>3. Fits(r)' /\ Holds(r)' /\ Prepared(r)'
  BY <1>2 DEF IInv, Fits, Holds, HasOrder, HasSample, Prepared
<1> QED  BY <1>1, <1>2, <1>3, EndType

(* The commits of the service of orders. *)
LEMMA OrderWriteFrame ==
  ASSUME IInv, NEW r \in Requests,
         InsertOrder(r) \/ SpendForOrder(r) \/ CancelOrder(r) \/ CompleteOrder(r)
  PROVE  Frame(r)
<1> USE DEF IInv
<1>a. CASE \E pc \in Ended : End(r, pc) /\ UNCHANGED rows
  BY <1>a, QuietEnd
<1>b. ASSUME End(r, "saved"), usage' = usage, birth' = birth, paid' = paid,
             approval' = approval, sample' \in Status, order' \in Status \cup {"NONE"},
             spent' \in {spent, spent \cup {r}}, made' \in {made, made \cup {r}},
             spent' # spent => Op(r) # "START",
             sample' = sample \/ lock["sample"] = None,
             order = "CREATED" => lock["order"] = r
      PROVE  Frame(r)
  <2>1. TypeOK'
    BY <1>b, SavedEnd DEF TypeOK, Locks
  <2> QED  BY <1>b, <2>1, SavedEnd DEF Frame
<1>1. CASE InsertOrder(r)
  <2>1. CASE order # "NONE"
    BY <1>1, <1>a, <2>1 DEF InsertOrder, Ended
  <2>2. CASE order = "NONE"
    BY <1>1, <1>b, <2>2 DEF InsertOrder, TypeOK, Status
  <2> QED  BY <2>1, <2>2
<1>2. CASE SpendForOrder(r)
  <2>1. CASE End(r, "clash") /\ UNCHANGED rows
    BY <1>a, <2>1 DEF Ended
  <2>2. CASE ~(End(r, "clash") /\ UNCHANGED rows)
    <3>1. /\ End(r, "saved") /\ usage' = usage /\ birth' = birth /\ paid' = paid
          /\ approval' = approval /\ made' = made /\ spent' = spent \cup {r}
          /\ order' = "STARTED" /\ sample' = Mirrored(r, "STARTED")
          /\ Op(r) = "START_ORDER" /\ Pc(r) = "spend" /\ lock["sample"] = None
      BY <1>2, <2>2 DEF SpendForOrder, At, Asks, Free, Pc, Op
    <3>2. sample' \in Status
      BY <3>1 DEF Mirrored, TypeOK, Status
    <3>3. lock["order"] = r
      BY <3>1 DEF Holds, HasOrder
    <3> QED  BY <1>b, <3>1, <3>2, <3>3 DEF Status
  <2> QED  BY <2>1, <2>2
<1>3. CASE CancelOrder(r)
  <2>1. CASE End(r, "clash") /\ UNCHANGED rows
    BY <1>a, <2>1 DEF Ended
  <2>2. CASE ~(End(r, "clash") /\ UNCHANGED rows)
    <3>1. /\ End(r, "saved") /\ usage' = usage /\ birth' = birth /\ paid' = paid
          /\ approval' = approval /\ made' = made /\ spent' = spent
          /\ order' = "CANCELLED" /\ sample' = Mirrored(r, "CANCELLED")
          /\ Pc(r) = "mirror" /\ (req[r].seen = "CREATED" => lock["sample"] = None)
      BY <1>3, <2>2 DEF CancelOrder, At, Free, Pc
    <3>2. Op(r) = "CANCEL_ORDER"
      BY <3>1 DEF Fits
    <3>3. sample' \in Status /\ (sample' = sample \/ lock["sample"] = None)
      BY <3>1, <3>2 DEF Mirrored, TypeOK, Status, Source, Op
    <3>4. lock["order"] = r
      BY <3>1 DEF Holds, HasOrder
    <3> QED  BY <1>b, <3>1, <3>3, <3>4 DEF Status
  <2> QED  BY <2>1, <2>2
<1>4. CASE CompleteOrder(r)
  <2>1. /\ End(r, "saved") /\ usage' = usage /\ birth' = birth /\ paid' = paid
        /\ approval' = approval /\ spent' = spent /\ order' = "COMPLETED"
        /\ sample' = IF sample = "STARTED" THEN "COMPLETED" ELSE sample
        /\ made' \in {made, made \cup {r}} /\ Pc(r) = "ordered"
    BY <1>4 DEF CompleteOrder, At, Pc
  <2>2. sample' \in Status /\ (sample' = sample \/ lock["sample"] = None)
    BY <1>4, <2>1 DEF CompleteOrder, Free, TypeOK, Status
  <2>3. lock["order"] = r
    BY <2>1 DEF Holds, HasOrder
  <2> QED  BY <1>b, <2>1, <2>2, <2>3 DEF Status
<1> QED  BY <1>1, <1>2, <1>3, <1>4

(* The commits of the service of samples. *)
LEMMA SampleWriteFrame ==
  ASSUME IInv, NEW r \in Requests,
         StartSample(r) \/ CompleteSample(r) \/ CancelSample(r) \/ Decide(r)
  PROVE  Frame(r)
<1> USE DEF IInv
<1>a. CASE Refuse(r)
  BY <1>a, Refusals, QuietEnd
<1>b. ASSUME End(r, "saved"), usage' = usage, birth' = birth, paid' = paid,
             approval' \in {"PENDING", "APPROVED", "REJECTED"}, order' = order,
             sample' \in Status, lock["sample"] = r,
             spent' \in {spent, spent \cup {r}}, made' \in {made, made \cup {r}},
             spent' # spent => paid
      PROVE  Frame(r)
  <2>1. TypeOK'
    BY <1>b, SavedEnd DEF TypeOK, Locks
  <2> QED  BY <1>b, <2>1, SavedEnd DEF Frame
<1>1. CASE StartSample(r)
  <2>1. Pc(r) = "spend" /\ Op(r) = "START"
    BY <1>1 DEF StartSample, At, Asks, Pc, Op
  <2>2. lock["sample"] = r /\ paid
    BY <2>1 DEF Holds, HasSample, Prepared, ReadyToStart
  <2> QED  BY <1>1, <1>b, <2>2 DEF StartSample, Status, TypeOK
<1>2. ASSUME At(r, "held") PROVE lock["sample"] = r
  BY <1>2 DEF At, Pc, Holds, HasSample
<1>3. CASE CompleteSample(r)
  <2>1. CASE order # "NONE"
    BY <1>3, <1>a, <2>1 DEF CompleteSample
  <2>2. CASE order = "NONE"
    BY <1>2, <1>3, <1>b, <2>2 DEF CompleteSample, Status, TypeOK
  <2> QED  BY <2>1, <2>2
<1>4. CASE CancelSample(r)
  BY <1>2, <1>4, <1>b DEF CancelSample, Status, TypeOK
<1>5. CASE Decide(r)
  <2>1. lock["sample"] = r
    BY <1>5 DEF Decide, At, Pc, Holds, HasSample
  <2> QED  BY <1>5, <1>b, <2>1 DEF Decide, Decisions, TypeOK
<1> QED  BY <1>1, <1>3, <1>4, <1>5

-----------------------------------------------------------------------------
(* Every step of a request keeps to its frame. *)
LEMMA MovesFrame ==
  ASSUME IInv, NEW r \in Requests, Moves(r)
  PROVE  Frame(r)
<1>1. CASE RollBack(r) \/ CancelVictim(r) \/ OrderAnswered(r) \/ SampleAnswered(r)
  BY <1>1, Refusals, QuietEnd
<1> QED  BY <1>1, ArriveFrame, LookFrame, OrderWriteFrame, SampleWriteFrame
         DEF Moves, Step, ThroughOrder, Directly

(* A request that moves has not taken the material yet. *)
LEMMA InFlight ==
  ASSUME IInv, NEW r \in Requests, Moves(r)
  PROVE  r \notin spent
<1>1. Pc(r) # "saved"
  <2>1. CASE CancelVictim(r)
    BY <2>1 DEF CancelVictim, Blocked, WaitsFor, At, Pc
  <2>2. CASE RollBack(r)
    BY <2>2 DEF RollBack, Waiting, Pc
  <2>3. CASE Step(r)
    BY <2>3 DEF Step, ThroughOrder, Directly, ReadForOrder, InsertOrder, LockOrder,
                OrderAnswered, ReadSample, SpendForOrder, CancelOrder, CompleteOrder,
                LockSample, SampleAnswered, CheckReady, StartSample, CompleteSample,
                CancelSample, CheckDecidable, Decide, LockStock, At, Pc
  <2> QED  BY <2>1, <2>2, <2>3 DEF Moves, Arrive, At, Pc
<1> QED  BY <1>1 DEF IInv, Settled

(* What a frame leaves alone keeps the invariant. *)
LEMMA FrameKeeps ==
  ASSUME IInv, NEW r \in Requests, Frame(r), r \notin spent
  PROVE  IInv'
<1> SUFFICES ASSUME NEW s \in Requests
             PROVE  Fits(s)' /\ Holds(s)' /\ Prepared(s)' /\ Settled(s)'
  BY DEF IInv, Frame
<1> USE DEF IInv
<1>1. CASE s = r
  <2>1. CASE spent' # spent
    BY <1>1, <2>1 DEF Frame, Settled
  <2>2. CASE spent' = spent
    BY <1>1, <2>2 DEF Frame, Settled
  <2> QED  BY <2>1, <2>2
<1>2. CASE s # r
  <2>1. /\ Pc(s)' = Pc(s) /\ Op(s)' = Op(s)
        /\ lock["order"] = s => lock'["order"] = s
        /\ lock["sample"] = s => lock'["sample"] = s
    BY <1>2 DEF Frame, Pc, Op, Locks
  <2>2. Fits(s)' /\ Holds(s)'
    BY <2>1 DEF Frame, Fits, Holds, HasOrder, HasSample
  <2>3. Prepared(s)'
    <3>1. ReadyToStart => ReadyToStart'
      BY DEF Frame, ReadyToStart
    <3>2. HasSample(s) => sample' = sample /\ approval' = approval
      BY <1>2, SampleAssumption DEF Frame, Holds
    <3>3. HasOrder(s) /\ order = "CREATED" => order' = "CREATED"
      BY <1>2 DEF Frame, Holds
    <3>4. Pc(s) \in {"stock", "spend"} => Op(s) \in {"START", "START_ORDER"}
      BY DEF Fits
    <3>5. Pc(s) = "decide" /\ Decidable => Decidable'
      BY <3>2 DEF HasSample, Decidable
    <3> QED  BY <2>1, <3>1, <3>2, <3>3, <3>4, <3>5 DEF Prepared, HasOrder, HasSample, OrderOps
  <2>4. Settled(s)'
    BY <1>2, <2>1 DEF Frame, Settled
  <2> QED  BY <2>2, <2>3, <2>4
<1> QED  BY <1>1, <1>2

(* IInv holds initially. *)
LEMMA InitIInv == Init => IInv
<1> SUFFICES ASSUME Init PROVE IInv
  OBVIOUS
<1>1. TypeOK
  BY SampleAssumption DEF Init, TypeOK, Status
<1>2. \A r \in Requests : Pc(r) = "idle"
  BY DEF Init, Pc
<1> QED  BY <1>1, <1>2 DEF Init, IInv, Op, Fits, Holds, HasOrder, HasSample, Prepared, Settled

(* Every step keeps IInv. *)
THEOREM StepIInv == IInv /\ [Next]_vars => IInv'
<1> SUFFICES ASSUME IInv, [Next]_vars PROVE IInv'
  OBVIOUS
<1>1. ASSUME NEW r \in Requests, Moves(r) PROVE IInv'
  BY <1>1, MovesFrame, FrameKeeps, InFlight
<1>2. CASE Pay
  <2>1. paid' = TRUE /\ UNCHANGED <<usage, birth, sample, approval, order, spent, made, lock, req>>
    BY <1>2 DEF Pay
  <2>2. TypeOK'
    BY <2>1 DEF IInv, TypeOK
  <2>3. ASSUME NEW r \in Requests PROVE Fits(r)' /\ Holds(r)' /\ Prepared(r)' /\ Settled(r)'
    BY <2>1 DEF IInv, Fits, Holds, HasOrder, HasSample, Prepared, ReadyToStart, Decidable, Settled, Pc, Op
  <2> QED  BY <2>2, <2>3 DEF IInv
<1>3. CASE UNCHANGED vars
  <2>1. /\ UNCHANGED <<usage, birth, paid, sample, approval, order, spent, made, lock, req>>
    BY <1>3 DEF vars, rows
  <2>2. TypeOK'
    BY <2>1 DEF IInv, TypeOK
  <2>3. ASSUME NEW r \in Requests PROVE Fits(r)' /\ Holds(r)' /\ Prepared(r)' /\ Settled(r)'
    BY <2>1 DEF IInv, Fits, Holds, HasOrder, HasSample, Prepared, ReadyToStart, Decidable, Settled, Pc, Op
  <2> QED  BY <2>2, <2>3 DEF IInv
<1> QED  BY <1>1, <1>2, <1>3 DEF Next, Moves

(* The inductive invariant holds in every reachable state. *)
THEOREM Consistent == Spec => []IInv
BY InitIInv, StepIInv, PTL DEF Spec

(* Every variable keeps its type. *)
THEOREM SampleTypes == Spec => []TypeOK
BY Consistent, PTL DEF IInv

(* What a direct start spends is paid for, also while others make the       *)
(* sample through its order.                                                *)
THEOREM DirectStartIsPaid == Spec => []SpentIsPaid
<1>1. IInv => SpentIsPaid
  BY DEF IInv, TypeOK, Settled, SpentIsPaid, Asks, Op
<1> QED  BY <1>1, Consistent, PTL

(* A request moves by its own steps only. *)
LEMMA OthersWait ==
  ASSUME IInv, Next, NEW r \in Requests, req'[r] # req[r]
  PROVE  Moves(r)
<1>1. ASSUME NEW s \in Requests, Moves(s) PROVE s = r
  BY <1>1, MovesFrame DEF Frame
<1>2. req' = req => FALSE
  OBVIOUS
<1> QED  BY <1>1, <1>2 DEF Next, Moves, Pay

(* A decision is answered as saved by its commit only. *)
LEMMA SavesDecision ==
  ASSUME IInv, NEW r \in Requests, Moves(r), Asks(r, "DECIDE"), ~At(r, "saved"), At(r, "saved")'
  PROVE  Decide(r)
<1> USE DEF IInv
<1>1. Pc(r)' = "saved" /\ Op(r) = "DECIDE"
  BY DEF At, Asks, Pc, Op
<1>2. ASSUME NEW pc \in {"idle"} \cup Waiting \cup Ended, Goto(r, pc) PROVE pc = "saved"
  BY <1>1, <1>2 DEF Goto, TypeOK, Pc
<1>3. ~(\E op \in Ops : Arrive(r, op))
  BY <1>1, ArriveFrame
<1>4. ~RollBack(r) /\ ~CancelVictim(r) /\ ~Refuse(r)
  BY <1>2 DEF RollBack, CancelVictim, Refuse, End, Ended
<1>5. ~ThroughOrder(r)
  BY <1>1 DEF ThroughOrder, ReadForOrder, InsertOrder, LockOrder, OrderAnswered, ReadSample,
         SpendForOrder, CancelOrder, CompleteOrder, Fits, At, Asks, Pc, Op, OrderOps
<1>6. ~LockSample(r) /\ ~LockStock(r) /\ ~CheckDecidable(r)
  BY <1>2, <1>4 DEF LockSample, LockStock, CheckDecidable, Take, Waiting
<1>7. ~SampleAnswered(r) /\ ~CheckReady(r) /\ ~StartSample(r) /\ ~CompleteSample(r)
      /\ ~CancelSample(r)
  BY <1>1 DEF SampleAnswered, CheckReady, StartSample, CompleteSample, CancelSample, Proceeds,
         Asks, Op
<1> QED  BY <1>3, <1>4, <1>5, <1>6, <1>7 DEF Moves, Step, Directly

(* A decision is saved on a finished and undecided sample only, although it *)
(* is checked in one step and written in another while others complete or   *)
(* decide it: the row is theirs only after the commit.                      *)
THEOREM DecisionIsFinal == Spec => DecidedOnce
<1>1. IInv /\ [Next]_vars =>
        [\/ approval' # approval
         \/ \E r \in Requests : Asks(r, "DECIDE") /\ ~At(r, "saved") /\ At(r, "saved")'
         => approval = "PENDING" /\ sample = "COMPLETED"]_vars
  <2> SUFFICES ASSUME IInv, Next,
                      \/ approval' # approval
                      \/ \E r \in Requests : Asks(r, "DECIDE") /\ ~At(r, "saved") /\ At(r, "saved")'
               PROVE  approval = "PENDING" /\ sample = "COMPLETED"
    OBVIOUS
  <2>1. \E r \in Requests : Decide(r)
    <3>1. CASE approval' # approval
      BY <3>1 DEF Next, Arrive, Step, RollBack, CancelVictim, Pay, ThroughOrder, Directly,
             ReadForOrder, InsertOrder, LockOrder, OrderAnswered, ReadSample, SpendForOrder,
             CancelOrder, CompleteOrder, LockSample, SampleAnswered, CheckReady, StartSample,
             CompleteSample, CancelSample, CheckDecidable, LockStock, Refuse, Take, rows
    <3>2. ASSUME NEW r \in Requests, Asks(r, "DECIDE"), ~At(r, "saved"), At(r, "saved")'
          PROVE  Decide(r)
      <4>1. req'[r] # req[r]
        BY <3>2 DEF At
      <4>2. Moves(r)
        BY <4>1, OthersWait
      <4> QED  BY <3>2, <4>2, SavesDecision
    <3> QED  BY <3>1, <3>2
  <2>2. PICK r \in Requests : Decide(r)
    BY <2>1
  <2> QED  BY <2>2 DEF IInv, Prepared, Decide, Decidable, At, Pc
<1> QED  BY <1>1, Consistent, PTL DEF Spec, DecidedOnce

-----------------------------------------------------------------------------
(* What a request may ask for when the sample is made one way only. *)
LEMMA OneWayOps ==
  ASSUME IInv, NEW r \in Requests
  PROVE  /\ DirectOnly => Op(r) \in DirectOps \cup {"NONE"}
         /\ ThroughOnly => Op(r) \in OrderOps \cup {"CREATE_ORDER", "DECIDE", "NONE"}
BY DEF IInv, Fits, Only, DirectOnly, ThroughOnly

(* Steps that write none of the rows that OneWayInv speaks of. *)
LEMMA OneWayRows ==
  ASSUME OneWayInv, usage' = usage, sample' = sample, order' = order,
         spent' = spent, made' = made,
         \A r \in Requests : Seen(r) => Seen(r)'
  PROVE  OneWayInv'
BY DEF OneWayInv, MadeOneWay, ThroughOnly, DirectOnly, Only, Agree, Moved

(* The end of a request leaves what the others saw. *)
LEMMA SeenEnd ==
  ASSUME IInv, NEW r \in Requests, NEW pc \in Ended, End(r, pc), usage' = usage
  PROVE  \A s \in Requests : Seen(s) => Seen(s)'
BY EndType DEF IInv, Seen, Pc, Op, Ended

(* The commits of the service of orders, which only ThroughOnly sees. *)
LEMMA OneWayOrder ==
  ASSUME IInv, OneWayInv, NEW r \in Requests,
         InsertOrder(r) \/ SpendForOrder(r) \/ CancelOrder(r) \/ CompleteOrder(r)
  PROVE  OneWayInv'
<1> SUFFICES ASSUME MadeOneWay', ~\E pc \in Ended : End(r, pc) /\ UNCHANGED rows
             PROVE  OneWayInv'
  <2>1. CASE \E pc \in Ended : End(r, pc) /\ UNCHANGED rows
    BY <2>1, SeenEnd, OneWayRows DEF rows
  <2> QED  BY <2>1 DEF OneWayInv
<1>1. /\ End(r, "saved") /\ "saved" \in Ended /\ "clash" \in Ended
      /\ usage' = usage
  BY DEF InsertOrder, SpendForOrder, CancelOrder, CompleteOrder, Ended
<1>2. Op(r) \in OrderOps \cup {"CREATE_ORDER"}
  BY DEF IInv, Fits, InsertOrder, SpendForOrder, CancelOrder, CompleteOrder, At, Asks, Pc, Op,
         OrderOps
<1>3. ~DirectOnly /\ ThroughOnly
  BY <1>1, <1>2, OneWayOps DEF MadeOneWay, DirectOnly, ThroughOnly, Only, OrderOps, DirectOps
<1>4. Agree /\ Moved /\ Seen(r) /\ sample = IF order = "NONE" THEN "CREATED" ELSE order
  BY <1>3 DEF OneWayInv, MadeOneWay, Agree
<1>5. \A s \in Requests : Seen(s)'
  BY <1>1, <1>3, SeenEnd DEF OneWayInv, MadeOneWay
<1>6. ASSUME Agree', Moved' PROVE OneWayInv'
  BY <1>5, <1>6 DEF OneWayInv
<1>7. ASSUME sample' = IF order' = "NONE" THEN "CREATED" ELSE order' PROVE Agree'
  BY <1>1, <1>3, <1>7 DEF Agree, ThroughOnly, DirectOnly, Only
<1>8. CASE InsertOrder(r)
  <2>1. order = "NONE" /\ order' = "CREATED" /\ sample' = sample /\ spent' = spent /\ made' = made
    BY <1>1, <1>8 DEF InsertOrder
  <2> QED  BY <1>4, <1>6, <1>7, <2>1 DEF Moved
<1>9. CASE SpendForOrder(r)
  <2>1. /\ sample' = Mirrored(r, "STARTED") /\ order' = "STARTED"
        /\ spent' = spent \cup {r} /\ made' = made /\ Pc(r) = "spend" /\ Op(r) = "START_ORDER"
    BY <1>1, <1>9 DEF SpendForOrder, At, Asks, Pc, Op
  <2>2. order = "CREATED" /\ req[r].seen = "CREATED"
    BY <1>4, <2>1 DEF IInv, Prepared, Seen, OrderOps
  <2>3. sample = "CREATED" /\ spent = {} /\ made = {} /\ sample' = "STARTED"
    BY <1>4, <2>1, <2>2 DEF Moved, Mirrored, Source, Op
  <2> QED  BY <1>6, <1>7, <2>1, <2>3 DEF Moved
<1>10. CASE CancelOrder(r)
  <2>1. /\ sample' = Mirrored(r, "CANCELLED") /\ order' = "CANCELLED"
        /\ spent' = spent /\ made' = made /\ Pc(r) = "mirror"
    BY <1>1, <1>10 DEF CancelOrder, At, Pc
  <2>2. Op(r) = "CANCEL_ORDER"
    BY <2>1 DEF IInv, Fits
  <2>3. order = "CREATED" /\ req[r].seen = "CREATED"
    BY <1>4, <2>1, <2>2 DEF IInv, Prepared, Seen, OrderOps
  <2>4. sample = "CREATED" /\ spent = {} /\ made = {} /\ sample' = "CANCELLED"
    BY <1>4, <2>1, <2>2, <2>3 DEF Moved, Mirrored, Source, Op
  <2> QED  BY <1>6, <1>7, <2>1, <2>4 DEF Moved
<1>11. CASE CompleteOrder(r)
  <2>1. /\ order = "STARTED" /\ order' = "COMPLETED" /\ spent' = spent
        /\ sample' = IF sample = "STARTED" THEN "COMPLETED" ELSE sample
        /\ made' \in {made, made \cup {r}}
    BY <1>11 DEF CompleteOrder, InWork
  <2>2. sample = "STARTED" /\ made = {} /\ \E s \in Requests : spent = {s}
    BY <1>4, <2>1 DEF Moved
  <2>3. sample' = "COMPLETED" /\ (made' = {} \/ made' = {r})
    BY <2>1, <2>2
  <2> QED  BY <1>6, <1>7, <2>1, <2>2, <2>3 DEF Moved
<1> QED  BY <1>8, <1>9, <1>10, <1>11

(* The commits of the service of samples, which only DirectOnly sees, but   *)
(* for the decision, which writes none of these rows.                       *)
LEMMA OneWaySample ==
  ASSUME IInv, OneWayInv, NEW r \in Requests,
         StartSample(r) \/ CompleteSample(r) \/ CancelSample(r)
  PROVE  OneWayInv'
<1> SUFFICES ASSUME MadeOneWay', ~\E pc \in Ended : End(r, pc) /\ UNCHANGED rows
             PROVE  OneWayInv'
  <2>1. CASE \E pc \in Ended : End(r, pc) /\ UNCHANGED rows
    BY <2>1, SeenEnd, OneWayRows DEF rows
  <2> QED  BY <2>1 DEF OneWayInv
<1>1. /\ End(r, "saved") /\ "saved" \in Ended /\ usage' = usage /\ order' = order
  BY DEF StartSample, CompleteSample, CancelSample, Ended, Refuse
<1>2. Op(r) \in {"START", "COMPLETE", "CANCEL"}
  BY DEF StartSample, CompleteSample, CancelSample, Proceeds, Asks, Op
<1>3. DirectOnly /\ ~ThroughOnly
  BY <1>1, <1>2, OneWayOps DEF MadeOneWay, DirectOnly, ThroughOnly, Only, OrderOps
<1>4. Agree /\ Moved
  BY <1>3 DEF OneWayInv, MadeOneWay
<1>5. \A s \in Requests : Seen(s)'
  BY <1>1, <1>3, SeenEnd DEF OneWayInv, MadeOneWay
<1>6. Agree'
  BY <1>1, <1>3, <1>4 DEF Agree, ThroughOnly, DirectOnly, Only
<1>7. Moved'
  <2>1. CASE StartSample(r)
    <3>1. spent' = spent \cup {r} /\ sample' = "STARTED" /\ made' = made
          /\ Pc(r) = "spend" /\ Op(r) = "START"
      BY <2>1 DEF StartSample, At, Asks, Pc, Op
    <3>2. sample = "CREATED"
      BY <3>1 DEF IInv, Prepared
    <3> QED  BY <1>4, <3>1, <3>2 DEF Moved
  <2>2. CASE CompleteSample(r)
    <3>1. /\ sample = "STARTED" /\ sample' = "COMPLETED" /\ spent' = spent
          /\ made' \in {made, made \cup {r}}
      BY <2>2, <1>1 DEF CompleteSample, Proceeds, Source, Refuse, Ended
    <3>2. made = {} /\ \E s \in Requests : spent = {s}
      BY <1>4, <3>1 DEF Moved
    <3>3. made' = {} \/ made' = {r}
      BY <3>1, <3>2
    <3> QED  BY <3>1, <3>2, <3>3 DEF Moved
  <2>3. CASE CancelSample(r)
    <3>1. sample = "CREATED" /\ sample' = "CANCELLED" /\ spent' = spent /\ made' = made
      BY <2>3 DEF CancelSample, Proceeds, Source
    <3> QED  BY <1>4, <3>1 DEF Moved
  <2> QED  BY <2>1, <2>2, <2>3
<1> QED  BY <1>5, <1>6, <1>7 DEF OneWayInv

(* The other steps of a request write none of these rows; one of them, the  *)
(* read of the sample by a start or a cancellation of its order, records    *)
(* what it saw.                                                             *)
LEMMA OneWayLook ==
  ASSUME IInv, OneWayInv, NEW r \in Requests,
         \/ ReadForOrder(r) \/ LockOrder(r) \/ ReadSample(r)
         \/ CheckDecidable(r) \/ Decide(r)
         \/ LockSample(r) \/ CheckReady(r) \/ LockStock(r)
         \/ \E op \in Ops : Arrive(r, op)
  PROVE  OneWayInv'
<1>1. /\ usage' = usage /\ sample' = sample /\ order' = order /\ spent' = spent /\ made' = made
  BY DEF ReadForOrder, LockOrder, ReadSample, CheckDecidable, Decide, LockSample, CheckReady,
         LockStock, Arrive, Refuse, Take, rows
<1>2. \A s \in Requests \ {r} : Seen(s) => Seen(s)'
  <2>1. \A s \in Requests \ {r} : req'[s] = req[s]
    BY MovesFrame DEF Moves, Step, ThroughOrder, Directly, Frame, IInv
  <2> QED  BY <2>1 DEF Seen, Pc, Op
<1>3. CASE ReadSample(r)
  <2>1. CASE Refuse(r)
    BY <1>1, <2>1, SeenEnd, OneWayRows DEF Refuse, Ended
  <2>2. CASE ~Refuse(r)
    <3>1. order = "CREATED" /\ req'[r].seen = sample /\ Op(r) \in OrderOps
      BY <1>3, <2>2 DEF IInv, TypeOK, ReadSample, Asks, Op, OrderOps
    <3>2. MadeOneWay => Seen(r)'
      <4> SUFFICES ASSUME MadeOneWay PROVE sample = "CREATED"
        BY <3>1 DEF Seen
      <4>1. ThroughOnly
        BY <3>1, OneWayOps DEF MadeOneWay, OrderOps, DirectOps
      <4> QED  BY <3>1, <4>1 DEF OneWayInv, MadeOneWay, Agree
    <3> QED  BY <1>1, <1>2, <3>2
             DEF OneWayInv, MadeOneWay, ThroughOnly, DirectOnly, Only, Agree, Moved
  <2> QED  BY <2>1, <2>2
<1>4. CASE LockStock(r)
  <2>1. Pc(r) = "stock" /\ Op(r)' = Op(r) /\ req'[r].seen = req[r].seen
    BY <1>4 DEF LockStock, Take, Goto, At, Pc, Op, IInv, TypeOK
  <2>2. Seen(r) => Seen(r)'
    BY <2>1 DEF Seen
  <2> QED  BY <1>1, <1>2, <2>2, OneWayRows
<1>5. CASE ~ReadSample(r) /\ ~LockStock(r)
  <2>1. Pc(r)' \notin {"spend", "mirror"} /\ (Pc(r)' = "stock" => Op(r)' = "START")
    <3>1. CASE \E pc \in Ended \cup {"insert", "decide"} : Goto(r, pc)
      BY <1>1, <3>1, GotoType DEF IInv, Ended, Waiting
    <3>2. CASE LockOrder(r) \/ LockSample(r)
      BY <3>2 DEF LockOrder, LockSample, Take, Goto, Pc, IInv, TypeOK
    <3>3. CASE CheckReady(r) /\ Goto(r, "stock")
      <4>1. "stock" \in Waiting /\ Op(r) = "START"
        BY <3>3 DEF CheckReady, Proceeds, Asks, Op, Waiting
      <4>2. Pc(r)' = "stock" /\ Op(r)' = Op(r)
        BY <1>1, <3>3, <4>1, GotoType DEF IInv
      <4> QED  BY <4>1, <4>2
    <3>4. CASE \E op \in Ops : Arrive(r, op)
      <4>1. Pc(r)' \in {"order", "sample", "read"}
        BY <3>4, ArriveFrame
      <4> QED  BY <4>1
    <3>5. ReadForOrder(r) \/ CheckDecidable(r) \/ Decide(r) \/ (CheckReady(r) /\ ~Goto(r, "stock"))
            => \E pc \in Ended \cup {"insert", "decide"} : Goto(r, pc)
      BY DEF ReadForOrder, CheckDecidable, Decide, CheckReady, Refuse, End, Ended
    <3> QED  BY <1>5, <3>1, <3>2, <3>3, <3>4, <3>5
  <2>2. Seen(r)'
    BY <2>1 DEF Seen, OrderOps
  <2> QED  BY <1>1, <1>2, <2>2, OneWayRows
<1> QED  BY <1>3, <1>4, <1>5

(* Every step keeps OneWayInv. *)
THEOREM StepOneWay == IInv /\ OneWayInv /\ [Next]_vars => OneWayInv'
<1> SUFFICES ASSUME IInv, OneWayInv, [Next]_vars PROVE OneWayInv'
  OBVIOUS
<1>1. ASSUME NEW r \in Requests, Moves(r) PROVE OneWayInv'
  <2>1. CASE RollBack(r) \/ CancelVictim(r) \/ OrderAnswered(r) \/ SampleAnswered(r)
    <3>1. (\E pc \in Ended : End(r, pc)) /\ UNCHANGED rows
      BY <2>1, Refusals
    <3> QED  BY <3>1, SeenEnd, OneWayRows DEF rows
  <2> QED  BY <1>1, <2>1, OneWayOrder, OneWaySample, OneWayLook
           DEF Moves, Step, ThroughOrder, Directly
<1>2. CASE Pay \/ UNCHANGED vars
  <2>1. /\ usage' = usage /\ sample' = sample /\ order' = order
        /\ spent' = spent /\ made' = made /\ req' = req
    BY <1>2 DEF Pay, vars, rows
  <2>2. \A r \in Requests : Seen(r) => Seen(r)'
    BY <2>1 DEF Seen, Pc, Op
  <2> QED  BY <2>1, <2>2, OneWayRows
<1> QED  BY <1>1, <1>2 DEF Next, Moves

(* OneWayInv holds in every reachable state. *)
THEOREM OneWayConsistent == Spec => []OneWayInv
<1>1. Init => OneWayInv
  <2> SUFFICES ASSUME Init PROVE OneWayInv
    OBVIOUS
  <2>1. \A r \in Requests : Seen(r)
    BY DEF Init, Seen, Pc
  <2> QED  BY <2>1 DEF Init, OneWayInv, Agree, Moved
<1> QED  BY <1>1, StepOneWay, Consistent, PTL DEF Spec

(* "Arrancar dos veces no consume dos veces", while the sample is made      *)
(* through its order only, or directly only.                                *)
THEOREM OneWaySpentOnce == Spec => [](MadeOneWay => SpentOnce)
<1>1. OneWayInv => (MadeOneWay => SpentOnce)
  BY FS_EmptySet, FS_Singleton DEF OneWayInv, Moved, SpentOnce
<1> QED  BY <1>1, OneWayConsistent, PTL

(* The pieces come in once, while the sample is made one way only. *)
THEOREM OneWayMadeOnce == Spec => [](MadeOneWay => MadeOnce)
<1>1. OneWayInv => (MadeOneWay => MadeOnce)
  <2> SUFFICES ASSUME OneWayInv, MadeOneWay PROVE Cardinality(made) <= 1
    BY DEF MadeOnce
  <2>1. made = {} \/ \E r \in Requests : made = {r}
    BY DEF OneWayInv, Moved
  <2>2. CASE made = {}
    BY <2>2, FS_EmptySet
  <2>3. ASSUME NEW r \in Requests, made = {r} PROVE Cardinality(made) = 1
    BY <2>3, FS_Singleton
  <2> QED  BY <2>1, <2>2, <2>3
<1> QED  BY <1>1, OneWayConsistent, PTL

(* "No son dos verdades: es la misma": sample and order agree while the     *)
(* sample is made one way only.                                             *)
THEOREM OneWayFollowsOrder == Spec => [](MadeOneWay => FollowsOrder)
<1>1. OneWayInv => (MadeOneWay => FollowsOrder)
  BY DEF OneWayInv, MadeOneWay, Agree, FollowsOrder, Status
<1> QED  BY <1>1, OneWayConsistent, PTL

(* All three together: one way only, nothing is moved twice and the two     *)
(* services agree.                                                          *)
THEOREM OneWayMakesOnce == Spec => []OneWayAgrees
BY OneWaySpentOnce, OneWayMadeOnce, OneWayFollowsOrder, PTL DEF OneWayAgrees
================================================================================
