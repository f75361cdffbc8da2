-------------------------- MODULE SampleProduction --------------------------
(***************************************************************************)
(* One sample (prototype) and the production order that makes it.          *)
(*                                                                         *)
(* Two services write the same physical facts: PrototypeService starts,    *)
(* completes and cancels the sample itself under the row lock of the       *)
(* sample; ProductionService does it through the order, under the row lock *)
(* of the order, reads the sample without a lock and writes its status     *)
(* along (`_mirror_prototype_status').  Each request is one READ COMMITTED *)
(* transaction, published by its commit.                                   *)
(*                                                                         *)
(* The movements and the order carry a foreign key to the sample.          *)
(* PostgreSQL checks it with FOR KEY SHARE, so writing one of them waits   *)
(* while somebody else holds the sample FOR UPDATE.                        *)
(***************************************************************************)
EXTENDS Integers, FiniteSets

CONSTANTS
  Requests,  \* HTTP requests, one transaction each
  Usages,    \* what each request may ask for; a behaviour has one of these
  Births,    \* where the sample may come from
  None       \* nobody holds the lock

OrderOps == {"START_ORDER", "COMPLETE_ORDER", "CANCEL_ORDER"}
DirectOps == {"START", "COMPLETE", "CANCEL", "DECIDE"}
Ops == OrderOps \cup DirectOps \cup {"CREATE_ORDER"}

(* CPR: born when its own quotation was paid, together with its order.      *)
(* CTZ: a sample of a product quotation.  NONE: of no quotation yet.        *)
BirthKinds == {"CPR", "CTZ", "NONE"}

ASSUME SampleAssumption ==
  /\ Usages \subseteq [Requests -> SUBSET Ops]
  /\ Births \subseteq BirthKinds
  /\ None \notin Requests

VARIABLES
  usage,     \* what clients ask for
  birth,     \* where the sample comes from
  paid,      \* its quotation is paid
  sample,    \* status of the sample
  approval,  \* the decision on it
  order,     \* status of its order, "NONE" while it has none
  spent,     \* the requests that took its material out of the stock
  made,      \* the requests that brought its pieces into the stock
  lock,      \* the row locks of order and sample, and of the material's balances
  req        \* the local state of each request

rows == <<usage, birth, paid, sample, approval, order, spent, made>>
vars == <<rows, lock, req>>

Status == {"CREATED", "STARTED", "COMPLETED", "CANCELLED"}
Waiting == {"read", "insert", "order", "ordered", "sample", "held", "decide",
            "stock", "spend", "mirror"}
Ended == {"saved", "found", "refused", "clash", "lost"}

TypeOK ==
  /\ usage \in Usages
  /\ birth \in Births
  /\ paid \in BOOLEAN
  /\ sample \in Status
  /\ approval \in {"PENDING", "APPROVED", "REJECTED"}
  /\ order \in Status \cup {"NONE"}
  /\ spent \subseteq Requests
  /\ made \subseteq Requests
  /\ lock \in [{"order", "sample", "stock"} -> Requests \cup {None}]
  /\ req \in [Requests -> [pc : {"idle"} \cup Waiting \cup Ended,
                           op : Ops \cup {"NONE"}, seen : Status]]

(* A sample with a paid quotation of its own already has its order.         *)
Init ==
  /\ usage \in Usages
  /\ birth \in Births
  /\ paid = (birth = "CPR")
  /\ sample = "CREATED"
  /\ approval = "PENDING"
  /\ order = IF birth = "CPR" THEN "CREATED" ELSE "NONE"
  /\ spent = {}
  /\ made = {}
  /\ lock = [x \in {"order", "sample", "stock"} |-> None]
  /\ req = [r \in Requests |-> [pc |-> "idle", op |-> "NONE", seen |-> "CREATED"]]

-----------------------------------------------------------------------------
(* Operators named X_Slip are X with a plausible coding slip; no action     *)
(* uses one.  Each shows that some property would notice the slip.          *)

At(r, pc) == req[r].pc = pc
Asks(r, op) == req[r].op = op
Free(x) == lock[x] = None
Goto(r, pc) == req' = [req EXCEPT ![r].pc = pc]

(* Slip: the locks survive the transaction. *)
Released_Slip(r) == lock

(* The locks once the transaction of r is over. *)
Released(r) == [x \in DOMAIN lock |-> IF lock[x] = r THEN None ELSE lock[x]]

End(r, pc) == Goto(r, pc) /\ lock' = Released(r)

Refuse(r) == End(r, "refused") /\ UNCHANGED rows

Take(r, x, pc) ==
  /\ Free(x)
  /\ lock' = [lock EXCEPT ![x] = r]
  /\ Goto(r, pc)
  /\ UNCHANGED rows

(* CHECK status_timestamps_coherent on the row a statement leaves: a write  *)
(* sets the status and its own time stamp, the others stay as they are.     *)
Coherent(status) ==
  CASE status = "STARTED"   -> sample \in {"CREATED", "STARTED"}
    [] status = "COMPLETED" -> sample \in {"STARTED", "COMPLETED"}
    [] status = "CANCELLED" -> sample \in {"CREATED", "CANCELLED"}

(* CHECK started_requires_origin: what was started has a quotation. *)
HasOrigin(status) == status \in {"STARTED", "COMPLETED"} => birth # "NONE"

Writable(status) == Coherent(status) /\ HasOrigin(status)

-----------------------------------------------------------------------------
Arrive(r, op) ==
  /\ At(r, "idle") /\ op \in usage[r]
  /\ op \in OrderOps => order # "NONE"
  /\ req' = [req EXCEPT ![r].op = op,
                        ![r].pc = IF op \in OrderOps THEN "order"
                                  ELSE IF op \in DirectOps THEN "sample" ELSE "read"]
  /\ UNCHANGED <<rows, lock>>

Target(op) == CASE op \in {"START", "START_ORDER"} -> "STARTED"
                [] op \in {"COMPLETE", "COMPLETE_ORDER"} -> "COMPLETED"
                [] op \in {"CANCEL", "CANCEL_ORDER"} -> "CANCELLED"

Source(op) == IF op \in {"COMPLETE", "COMPLETE_ORDER"} THEN "STARTED" ELSE "CREATED"

(* create_for_prototype_id and create_for_prototype: the sample must not    *)
(* have started, and an order it has is the answer.  Nothing is locked.     *)
ReadForOrder(r) ==
  /\ At(r, "read")
  /\ IF sample # "CREATED" THEN Refuse(r)
     ELSE IF order # "NONE" THEN End(r, "found") /\ UNCHANGED rows
     ELSE Goto(r, "insert") /\ UNCHANGED <<rows, lock>>

(* INSERT and COMMIT of the order; UNIQUE prototype_id is the last word. *)
InsertOrder(r) ==
  /\ At(r, "insert") /\ Free("sample")
  /\ IF order # "NONE" THEN End(r, "clash") /\ UNCHANGED rows
     ELSE /\ order' = "CREATED"
          /\ End(r, "saved")
          /\ UNCHANGED <<usage, birth, paid, sample, approval, spent, made>>

-----------------------------------------------------------------------------
LockOrder(r) == At(r, "order") /\ Take(r, "order", "ordered")

(* Asked again, or asked too late: the status of the order decides. *)
OrderAnswered(r) ==
  /\ At(r, "ordered") /\ order # Source(req[r].op)
  /\ IF order = Target(req[r].op) THEN End(r, "found") /\ UNCHANGED rows ELSE Refuse(r)

(* start evaluates the sample (_evaluate_prototype) and cancel mirrors its  *)
(* status; both read it without a lock.  Only a quotation of the sample's   *)
(* own is asked whether it is paid.                                         *)
ReadSample(r) ==
  /\ At(r, "ordered") /\ order = "CREATED"
  /\ Asks(r, "START_ORDER") \/ Asks(r, "CANCEL_ORDER")
  /\ IF Asks(r, "START_ORDER") /\ birth = "CPR" /\ ~paid THEN Refuse(r)
     ELSE /\ req' = [req EXCEPT ![r].pc = IF Asks(r, "START_ORDER") THEN "stock" ELSE "mirror",
                                ![r].seen = sample]
          /\ UNCHANGED <<rows, lock>>

(* Slip: the mirrored sample keeps its status. *)
Mirrored_Slip(r, status) == sample

(* The status the sample gets with that of its order, from what was read.   *)
Mirrored(r, status) == IF req[r].seen = Source(req[r].op) THEN status ELSE sample

(* start, once the balances are locked: the movements name the sample, the  *)
(* sample follows if it was read CREATED, and all of it is committed.       *)
SpendForOrder(r) ==
  /\ At(r, "spend") /\ Asks(r, "START_ORDER") /\ Free("sample")
  /\ IF req[r].seen = "CREATED" /\ ~Writable("STARTED") THEN End(r, "clash") /\ UNCHANGED rows
     ELSE /\ spent' = spent \cup {r}
          /\ sample' = Mirrored(r, "STARTED")
          /\ order' = "STARTED"
          /\ End(r, "saved")
          /\ UNCHANGED <<usage, birth, paid, approval, made>>

CancelOrder(r) ==
  /\ At(r, "mirror")
  /\ req[r].seen = "CREATED" => Free("sample")
  /\ IF req[r].seen = "CREATED" /\ ~Writable("CANCELLED") THEN End(r, "clash") /\ UNCHANGED rows
     ELSE /\ sample' = Mirrored(r, "CANCELLED")
          /\ order' = "CANCELLED"
          /\ End(r, "saved")
          /\ UNCHANGED <<usage, birth, paid, approval, spent, made>>

InWork == order = "STARTED"

(* complete: with good pieces a movement names the sample before its status *)
(* is read, without them only the write of a STARTED sample waits.  The     *)
(* sample cannot change in between: it has an order, so it only completes   *)
(* through it.                                                              *)
CompleteOrder(r) ==
  /\ At(r, "ordered") /\ Asks(r, "COMPLETE_ORDER") /\ InWork
  /\ \E good \in BOOLEAN :
       /\ good \/ sample = "STARTED" => Free("sample")
       /\ made' = IF good THEN made \cup {r} ELSE made
  /\ sample' = IF sample = "STARTED" THEN "COMPLETED" ELSE sample
  /\ order' = "COMPLETED"
  /\ End(r, "saved")
  /\ UNCHANGED <<usage, birth, paid, approval, spent>>

-----------------------------------------------------------------------------
(* Slip: _decide reads the sample without for_update. *)
LockSample_Slip(r) ==
  /\ At(r, "sample")
  /\ IF Asks(r, "DECIDE") THEN Goto(r, "held") /\ UNCHANGED <<rows, lock>>
                          ELSE Take(r, "sample", "held")

(* get with for_update: SELECT ... FOR UPDATE. *)
LockSample(r) == At(r, "sample") /\ Take(r, "sample", "held")

SampleAnswered(r) ==
  /\ At(r, "held") /\ req[r].op \in {"START", "COMPLETE", "CANCEL"}
  /\ sample # Source(req[r].op)
  /\ IF sample = Target(req[r].op) THEN End(r, "found") /\ UNCHANGED rows ELSE Refuse(r)

Proceeds(r, op) == Asks(r, op) /\ sample = Source(op)

(* Slip: only a quotation of the sample's own is asked whether it is paid. *)
ReadyToStart_Slip == birth = "CPR" => paid

(* evaluate_readiness: a quotation, and paid. *)
ReadyToStart == birth # "NONE" /\ paid

CheckReady(r) ==
  /\ At(r, "held") /\ Proceeds(r, "START")
  /\ IF ReadyToStart THEN Goto(r, "stock") /\ UNCHANGED <<rows, lock>> ELSE Refuse(r)

(* The balances of the material, in product order. *)
LockStock(r) == At(r, "stock") /\ Take(r, "stock", "spend")

StartSample(r) ==
  /\ At(r, "spend") /\ Asks(r, "START")
  /\ spent' = spent \cup {r}
  /\ sample' = "STARTED"
  /\ End(r, "saved")
  /\ UNCHANGED <<usage, birth, paid, approval, order, made>>

(* A sample with an order is completed through it. *)
CompleteSample(r) ==
  /\ At(r, "held") /\ Proceeds(r, "COMPLETE")
  /\ IF order # "NONE" THEN Refuse(r)
     ELSE /\ \E good \in BOOLEAN : made' = IF good THEN made \cup {r} ELSE made
          /\ sample' = "COMPLETED"
          /\ End(r, "saved")
          /\ UNCHANGED <<usage, birth, paid, approval, order, spent>>

CancelSample(r) ==
  /\ At(r, "held") /\ Proceeds(r, "CANCEL")
  /\ sample' = "CANCELLED"
  /\ End(r, "saved")
  /\ UNCHANGED <<usage, birth, paid, approval, order, spent, made>>

Decidable == sample = "COMPLETED" /\ approval = "PENDING"

(* _decide: only what is finished, and not decided yet. *)
CheckDecidable(r) ==
  /\ At(r, "held") /\ Asks(r, "DECIDE")
  /\ IF Decidable THEN Goto(r, "decide") /\ UNCHANGED <<rows, lock>> ELSE Refuse(r)

Decisions == {"APPROVED", "REJECTED"}

(* _decide: the flush of what was checked above, and the commit. *)
Decide(r) ==
  /\ At(r, "decide")
  /\ approval' \in Decisions
  /\ End(r, "saved")
  /\ UNCHANGED <<usage, birth, paid, sample, order, spent, made>>

-----------------------------------------------------------------------------
(* mark_paid of the product quotation. *)
Pay ==
  /\ birth = "CTZ" /\ ~paid
  /\ paid' = TRUE
  /\ UNCHANGED <<usage, birth, sample, approval, order, spent, made, lock, req>>

(* Another statement fails, the client goes away or the process dies.  *)
RollBack(r) ==
  /\ req[r].pc \in Waiting
  /\ End(r, "lost")
  /\ UNCHANGED rows

(* Whom r waits for: the holder of the lock its next statement needs. *)
WaitsFor(r) ==
  IF At(r, "order") THEN lock["order"]
  ELSE IF At(r, "sample") \/ At(r, "insert") THEN lock["sample"]
  ELSE IF At(r, "stock") THEN lock["stock"]
  ELSE IF At(r, "spend") /\ Asks(r, "START_ORDER") THEN lock["sample"]
  ELSE IF At(r, "mirror") /\ req[r].seen = "CREATED" THEN lock["sample"]
  ELSE None

Blocked == {r \in Requests : WaitsFor(r) # None}

(* PostgreSQL's deadlock detector cancels one transaction of a circle in    *)
(* which each waits for the next.                                           *)
CancelVictim(r) ==
  /\ \E S \in SUBSET Blocked : r \in S /\ \A s \in S : WaitsFor(s) \in S
  /\ End(r, "lost") /\ UNCHANGED rows

ThroughOrder(r) ==
  \/ ReadForOrder(r) \/ InsertOrder(r) \/ LockOrder(r) \/ OrderAnswered(r)
  \/ ReadSample(r) \/ SpendForOrder(r) \/ CancelOrder(r) \/ CompleteOrder(r)
Directly(r) ==
  \/ LockSample(r) \/ SampleAnswered(r) \/ CheckReady(r) \/ StartSample(r)
  \/ CompleteSample(r) \/ CancelSample(r) \/ CheckDecidable(r) \/ Decide(r)
Step(r) == ThroughOrder(r) \/ Directly(r) \/ LockStock(r)

Next ==
  \/ \E r \in Requests, op \in Ops : Arrive(r, op)
  \/ \E r \in Requests : Step(r) \/ RollBack(r) \/ CancelVictim(r)
  \/ Pay

Spec == Init /\ [][Next]_vars

(* A request that arrived keeps running while nothing blocks it, and the    *)
(* database looks for deadlocks.                                            *)
Fairness == \A r \in Requests : WF_vars(Step(r)) /\ WF_vars(CancelVictim(r))

LiveSpec == Spec /\ Fairness

-----------------------------------------------------------------------------
(* "Arrancar dos veces no consume dos veces" (api/v1/prototypes.py:211): the *)
(* material of the sample leaves the stock once, when the sample starts.    *)
SpentOnce == Cardinality(spent) = IF sample \in {"STARTED", "COMPLETED"} THEN 1 ELSE 0

(* "El endpoint directo no debe duplicar resultados o movimientos de esa    *)
(* misma fabricacion" (prototypes.py:763-764): the pieces are made once.    *)
MadeOnce == Cardinality(made) <= 1

(* "Exige que la cotizacion de origen conste cobrada"                       *)
(* (api/v1/prototypes.py:208): a direct start spends what is paid only.     *)
SpentIsPaid == \A r \in spent : Asks(r, "START") => paid

(* "No son dos verdades: es la misma" (production.py:1588): once its order  *)
(* has moved on, the sample is where its order is.                          *)
FollowsOrder == order \in Status \ {"CREATED"} => sample = order

(* The clients of a behaviour use one of the two services. *)
Only(ops) == \A r \in Requests : usage[r] \subseteq ops
ThroughOnly == Only(OrderOps \cup {"CREATE_ORDER", "DECIDE"})
DirectOnly == Only(DirectOps)
MadeOneWay == ThroughOnly \/ DirectOnly

(* Then nothing is moved twice, and sample and order agree. *)
OneWayAgrees == MadeOneWay => SpentOnce /\ MadeOnce /\ FollowsOrder

(* Of an approval and a rejection at once, one is answered 409: whoever     *)
(* changes the decision, or is told that his was saved, finds the sample    *)
(* finished and undecided in the very commit.                               *)
DecidedOnce ==
  [][\/ approval' # approval
     \/ \E r \in Requests : Asks(r, "DECIDE") /\ ~At(r, "saved") /\ At(r, "saved")'
     => approval = "PENDING" /\ sample = "COMPLETED"]_vars

(* Every request that arrived ends. *)
EveryRequestEnds == \A r \in Requests : req[r].pc \in Waiting ~> req[r].pc \in Ended
=============================================================================
