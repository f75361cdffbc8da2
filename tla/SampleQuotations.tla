-------------------------- MODULE SampleQuotations --------------------------
(***************************************************************************)
(* What a sample promises: the quotation it is paid with                   *)
(* (PrototypeQuotationService), the line of samples that grows until one   *)
(* is good (PrototypeService), and the two gates behind it: the final      *)
(* quotation is made from the approved sample in force                     *)
(* (PrototypeQuotationBridge), and an order of a product quotation does    *)
(* not start while a sample of it is not approved                          *)
(* (ProductionOrderService._require_approved_prototypes).                  *)
(*                                                                         *)
(* Payments, successors, final quotations, edits and starts of the order   *)
(* are requests of several steps.  A handler that does all its work under  *)
(* one row lock is one action, enabled while nobody holds that lock.  A    *)
(* transaction is READ COMMITTED and is published by its commit.           *)
(*                                                                         *)
(* A sample carries foreign keys to its quotations.  PostgreSQL checks     *)
(* them with FOR KEY SHARE, so an INSERT, or an UPDATE of that column,     *)
(* waits while somebody holds the quotation FOR UPDATE.                    *)
(*                                                                         *)
(* The order of a sample and its stock are those of SampleProduction; the  *)
(* order of the product quotation is that of ProductionOrders.             *)
(***************************************************************************)
EXTENDS Integers, Sequences, FiniteSets

CONSTANTS
  Requests,    \* HTTP requests of several steps
  Quotes,      \* quotations of samples (CPR)
  Bulk,        \* paid or unpaid product quotations (CTZ), each with its order
  Inputs,      \* what a draft may say
  Whole,       \* the inputs with all that confirm asks for
  Rates,       \* the rates of the settings and the costs of the catalogue
  MaxSamples,  \* bound on the samples of a behaviour
  Usages,      \* sets of operations, of which a behaviour uses one
  None

(* The last three are asked in one step, the first five are requests. *)
Ops == {"EDIT", "PAY", "NEXT", "QUOTE", "START", "OFFER", "CREATE", "MOVE"}

ASSUME QuotationsAssumption ==
  /\ Whole \subseteq Inputs
  /\ MaxSamples \in Nat
  /\ Usages \subseteq SUBSET Ops
  /\ None \notin Requests \cup Quotes \cup Bulk

VARIABLES
  usage,    \* what clients ask for
  rates,    \* today's rates
  quote,    \* the rows of prototype_quotations
  bulk,     \* of each product quotation: is it paid, and the status of its order
  samples,  \* the rows of prototypes, in the order of their identifiers
  lock,     \* who holds each row FOR UPDATE
  req       \* the local state of each request

rows == <<usage, rates, quote, bulk, samples>>
vars == <<rows, lock, req>>

Ids == 1..MaxSamples
Rows == Quotes \cup Bulk \cup Ids
Waiting == {"edit", "pay", "paying", "next", "insert", "quote", "quoting",
            "start", "roots", "walk", "ready"}
Ended == {"saved", "found", "refused", "clash", "lost"}
Figures == Inputs \X Rates

QuoteRow ==
  [status : {"none", "DRAFT", "CONFIRMED", "CANCELLED"}, paid : BOOLEAN, input : Inputs,
   frozen : Figures \cup {None}, at : Nat, products : Nat]
BulkRow == [paid : BOOLEAN, order : {"CREATED", "STARTED"}]
SampleRow ==
  [quote : Quotes \cup {None}, bulk : Bulk \cup {None}, prev : 0..MaxSamples,
   status : {"CREATED", "STARTED", "COMPLETED", "CANCELLED"},
   approval : {"PENDING", "APPROVED", "REJECTED"}, order : BOOLEAN, final : BOOLEAN]
Sessions ==
  [pc : {"idle"} \cup Waiting \cup Ended, on : Rows \cup {None},
   token : Nat \cup {None}, roots : SUBSET Ids, pending : SUBSET Ids]

TypeOK ==
  /\ usage \in Usages
  /\ rates \in Rates
  /\ quote \in [Quotes -> QuoteRow]
  /\ bulk \in [Bulk -> BulkRow]
  /\ samples \in Seq(SampleRow) /\ Len(samples) <= MaxSamples
  /\ \A s \in DOMAIN samples : samples[s].prev < s
  /\ lock \in [Rows -> Requests \cup {None}]
  /\ req \in [Requests -> Sessions]

(* A request outside its transaction remembers nothing. *)
Session(pc) ==
  [pc |-> pc, on |-> None, token |-> None, roots |-> {}, pending |-> {}]

Init ==
  /\ usage \in Usages
  /\ rates \in Rates
  /\ quote \in [Quotes -> [status : {"none"}, paid : {FALSE}, input : Inputs, frozen : {None},
                           at : {0}, products : {0}]]
  /\ bulk = [b \in Bulk |-> [paid |-> FALSE, order |-> "CREATED"]]
  /\ samples = <<>>
  /\ lock = [x \in Rows |-> None]
  /\ req = [r \in Requests |-> Session("idle")]

-----------------------------------------------------------------------------
(* Operators named X_Slip are X with a plausible coding slip; no action     *)
(* uses one.  Each shows that some property would notice the slip.          *)

At(r, pc) == req[r].pc = pc
On(r) == req[r].on
Free(x) == lock[x] = None
Held(r, x) == [lock EXCEPT ![x] = r]
Goto(r, pc) == req' = [req EXCEPT ![r].pc = pc]

(* The locks once the transaction of r is over. *)
Released(r) == [x \in DOMAIN lock |-> IF lock[x] = r THEN None ELSE lock[x]]

End(r, pc) == req' = [req EXCEPT ![r] = Session(pc)] /\ lock' = Released(r)
Answer(r, pc) == End(r, pc) /\ UNCHANGED rows

(* A row may be written by r while nobody else holds it. *)
Mine(r, x) == lock[x] \in {r, None}

(* Slip: the reference is not checked in the database, and nobody waits. *)
Reachable_Slip(x) == TRUE

(* A row may be referred to while nobody holds it FOR UPDATE. *)
Reachable(x) == x # None => Free(x)

-----------------------------------------------------------------------------
(* The line of samples.                                                     *)

HasSuccessor(s) == \E t \in DOMAIN samples : samples[t].prev = s

(* The samples from s on: those in every set that has s and, with a sample, *)
(* the one after it.                                                        *)
LineFrom(s) ==
  {t \in DOMAIN samples :
     \A S \in SUBSET DOMAIN samples :
       s \in S /\ (\A u \in DOMAIN samples : samples[u].prev \in S => u \in S) => t \in S}

(* current_effective: the last sample of the line. *)
Effective(s) == CHOOSE t \in LineFrom(s) : ~HasSuccessor(t)

(* What blocking_prototypes holds against a sample in force. *)
Blocks(s) == samples[s].status # "CANCELLED" /\ samples[s].approval # "APPROVED"

SamplesOf(b) == {s \in DOMAIN samples : samples[s].bulk = b}

(* _muestra_original: the samples of a payment that follow no other. *)
Roots(p) == {s \in DOMAIN samples : samples[s].quote = p /\ samples[s].prev = 0}

NewSample(p, b, prev, order) ==
  [quote |-> p, bulk |-> b, prev |-> prev, status |-> "CREATED", approval |-> "PENDING",
   order |-> order, final |-> FALSE]

(* A bound of the model. *)
CanGrow == Len(samples) < MaxSamples

-----------------------------------------------------------------------------
(* The quotation of a sample.                                               *)

CreateDraft(p) ==
  /\ "OFFER" \in usage /\ quote[p].status = "none"
  /\ quote' = [quote EXCEPT ![p].status = "DRAFT"]
  /\ UNCHANGED <<usage, rates, bulk, samples, lock, req>>

ChangeRates ==
  /\ "OFFER" \in usage /\ rates' \in Rates \ {rates}
  /\ UNCHANGED <<usage, quote, bulk, samples, lock, req>>

(* The screen was opened when the draft was at `at'; the token is optional. *)
AskEdit(r, p) ==
  /\ At(r, "idle") /\ "EDIT" \in usage /\ quote[p].status # "none"
  /\ \E token \in {quote[p].at, None} :
       req' = [req EXCEPT ![r].pc = "edit", ![r].on = p, ![r].token = token]
  /\ UNCHANGED <<rows, lock>>

(* Slip: what the client had seen is not compared. *)
Fresh_Slip(r) == TRUE

Fresh(r) == req[r].token \in {quote[On(r)].at, None}

(* update_draft. *)
Edit(r) ==
  /\ At(r, "edit") /\ Free(On(r))
  /\ IF quote[On(r)].status # "DRAFT" \/ ~Fresh(r) THEN Answer(r, "refused")
     ELSE /\ \E input \in Inputs :
               quote' = [quote EXCEPT ![On(r)].input = input, ![On(r)].at = @ + 1]
          /\ End(r, "saved")
          /\ UNCHANGED <<usage, rates, bulk, samples>>

(* confirm: the figures of today are frozen and the number is issued.       *)
Confirm(p) ==
  /\ Free(p) /\ quote[p].status = "DRAFT" /\ quote[p].input \in Whole
  /\ quote' = [quote EXCEPT ![p].status = "CONFIRMED", ![p].at = @ + 1,
                            ![p].frozen = <<quote[p].input, rates>>]
  /\ UNCHANGED <<usage, rates, bulk, samples, lock, req>>

Cancellable(p) == quote[p].status \in {"DRAFT", "CONFIRMED"} /\ ~quote[p].paid

Cancel(p) ==
  /\ Free(p) /\ Cancellable(p)
  /\ quote' = [quote EXCEPT ![p].status = "CANCELLED", ![p].at = @ + 1]
  /\ UNCHANGED <<usage, rates, bulk, samples, lock, req>>

AskPay(r, p) ==
  /\ At(r, "idle") /\ "PAY" \in usage /\ quote[p].status # "none"
  /\ req' = [req EXCEPT ![r].pc = "pay", ![r].on = p]
  /\ UNCHANGED <<rows, lock>>

(* Slip: the row of the quotation is read without its lock. *)
LockToPay_Slip(r) ==
  /\ At(r, "pay") /\ Free(On(r))
  /\ IF quote[On(r)].status # "CONFIRMED" THEN Answer(r, "refused")
     ELSE /\ req' = [req EXCEPT ![r].pc = "paying", ![r].roots = Roots(On(r))]
          /\ UNCHANGED <<rows, lock>>

(* mark_paid: the quotation is locked before its original is looked for. *)
LockToPay(r) ==
  /\ At(r, "pay") /\ Free(On(r))
  /\ IF quote[On(r)].status # "CONFIRMED" THEN Answer(r, "refused")
     ELSE /\ req' = [req EXCEPT ![r].pc = "paying", ![r].roots = Roots(On(r))]
          /\ lock' = Held(r, On(r))
          /\ UNCHANGED rows

(* Two originals are refused; paid with its original, the order is there    *)
(* already.  Else the payment brings what is missing, in one commit: the    *)
(* product, the original, and its order.                                    *)
Pay(r) ==
  /\ At(r, "paying")
  /\ LET p == On(r)
         found == req[r].roots
     IN  IF Cardinality(found) > 1 THEN Answer(r, "refused")
         ELSE IF quote[p].paid /\ found # {} THEN Answer(r, "found")
         ELSE /\ found = {} => CanGrow
              /\ quote' = [quote EXCEPT ![p].paid = TRUE, ![p].at = @ + 1,
                                        ![p].products = IF @ = 0 THEN 1 ELSE @]
              /\ samples' = IF found = {} THEN Append(samples, NewSample(p, None, 0, TRUE))
                            ELSE [s \in DOMAIN samples |->
                                   IF s \in found THEN [samples[s] EXCEPT !.order = TRUE]
                                   ELSE samples[s]]
              /\ End(r, "saved")
              /\ UNCHANGED <<usage, rates, bulk>>

-----------------------------------------------------------------------------
(* The samples.                                                             *)

(* create: a sample of a product quotation, or of none yet. *)
Create(b) ==
  /\ "CREATE" \in usage /\ Len(samples) + 1 < MaxSamples /\ Reachable(b)
  /\ samples' = Append(samples, NewSample(None, b, 0, FALSE))
  /\ UNCHANGED <<usage, rates, quote, bulk, lock, req>>

(* update: while it has spent nothing a sample may move to another product  *)
(* quotation.  Its row is locked, and the reference is checked.             *)
Relink(s, b) ==
  /\ "MOVE" \in usage /\ Free(s) /\ samples[s].status = "CREATED"
  /\ samples[s].bulk # b /\ Reachable(b)
  /\ samples' = [samples EXCEPT ![s].bulk = b]
  /\ UNCHANGED <<usage, rates, quote, bulk, lock, req>>

(* evaluate_readiness: its own quotation is asked first, then that of the   *)
(* product.                                                                 *)
Ready(s) ==
  IF samples[s].quote # None
  THEN quote[samples[s].quote].status = "CONFIRMED" /\ quote[samples[s].quote].paid
  ELSE samples[s].bulk # None /\ bulk[samples[s].bulk].paid

Becomes(s, from, status) ==
  /\ Free(s) /\ samples[s].status = from
  /\ samples' = [samples EXCEPT ![s].status = status]
  /\ UNCHANGED <<usage, rates, quote, bulk, lock, req>>

Work(s) == (Ready(s) /\ Becomes(s, "CREATED", "STARTED")) \/ Becomes(s, "STARTED", "COMPLETED")
CancelSample(s) == Becomes(s, "CREATED", "CANCELLED")

(* _decide: approve or reject, once, what was finished. *)
Decide(s) ==
  /\ Free(s) /\ samples[s].status = "COMPLETED" /\ samples[s].approval = "PENDING"
  /\ \E decision \in {"APPROVED", "REJECTED"} :
       samples' = [samples EXCEPT ![s].approval = decision]
  /\ UNCHANGED <<usage, rates, quote, bulk, lock, req>>

AskNext(r, s) ==
  /\ At(r, "idle") /\ "NEXT" \in usage
  /\ req' = [req EXCEPT ![r].pc = "next", ![r].on = s]
  /\ UNCHANGED <<rows, lock>>

(* create_successor locks the sample and looks for a successor.  Neither    *)
(* its status nor its decision is asked.  _guard_lineage never finds a      *)
(* circle, since a sample comes after an older one.                         *)
LockPrevious(r) ==
  /\ At(r, "next") /\ Free(On(r))
  /\ IF HasSuccessor(On(r)) THEN Answer(r, "refused")
     ELSE Goto(r, "insert") /\ lock' = Held(r, On(r)) /\ UNCHANGED rows

(* The product quotation and the payment are inherited; the history is not. *)
Successor(s) == NewSample(samples[s].quote, samples[s].bulk, s, FALSE)

(* INSERT and COMMIT; UNIQUE supersedes_prototype_id is the last word.      *)
InsertSuccessor(r) ==
  /\ At(r, "insert")
  /\ Reachable(samples[On(r)].bulk) /\ Reachable(samples[On(r)].quote) /\ Mine(r, On(r))
  /\ IF HasSuccessor(On(r)) THEN Answer(r, "clash")
     ELSE /\ CanGrow
          /\ samples' = Append(samples, Successor(On(r)))
          /\ End(r, "saved")
          /\ UNCHANGED <<usage, rates, quote, bulk>>

AskQuote(r, s) ==
  /\ At(r, "idle") /\ "QUOTE" \in usage
  /\ req' = [req EXCEPT ![r].pc = "quote", ![r].on = s]
  /\ UNCHANGED <<rows, lock>>

(* create_final_quotation: of an approved sample that is its own            *)
(* current_effective; a draft that is still open is the answer.             *)
LockToQuote(r) ==
  /\ At(r, "quote") /\ Free(On(r))
  /\ IF samples[On(r)].approval # "APPROVED" \/ HasSuccessor(On(r)) THEN Answer(r, "refused")
     ELSE IF samples[On(r)].final THEN Answer(r, "found")
     ELSE Goto(r, "quoting") /\ lock' = Held(r, On(r)) /\ UNCHANGED rows

(* INSERT and COMMIT; a partial UNIQUE index allows one draft of a sample.  *)
Quote(r) ==
  /\ At(r, "quoting") /\ Mine(r, On(r))
  /\ IF samples[On(r)].final THEN Answer(r, "clash")
     ELSE /\ samples' = [samples EXCEPT ![On(r)].final = TRUE]
          /\ End(r, "saved")
          /\ UNCHANGED <<usage, rates, quote, bulk>>

(* The draft is confirmed or cancelled, and the sample may be quoted again. *)
CloseFinal(s) ==
  /\ samples[s].final
  /\ samples' = [samples EXCEPT ![s].final = FALSE]
  /\ UNCHANGED <<usage, rates, quote, bulk, lock, req>>

-----------------------------------------------------------------------------
(* The order of a product quotation.                                        *)

(* mark_paid of the product quotation. *)
PayBulk(b) ==
  /\ usage \cap {"START", "QUOTE"} # {} /\ Free(b) /\ ~bulk[b].paid
  /\ bulk' = [bulk EXCEPT ![b].paid = TRUE]
  /\ UNCHANGED <<usage, rates, quote, samples, lock, req>>

AskStart(r, b) ==
  /\ At(r, "idle") /\ "START" \in usage
  /\ req' = [req EXCEPT ![r].pc = "start", ![r].on = b]
  /\ UNCHANGED <<rows, lock>>

(* start and _require_paid_quotation.  An order belongs to one quotation,   *)
(* so the lock of the quotation stands for that of the order too.           *)
LockToStart(r) ==
  /\ At(r, "start") /\ Free(On(r))
  /\ IF bulk[On(r)].order = "STARTED" THEN Answer(r, "found")
     ELSE IF ~bulk[On(r)].paid THEN Answer(r, "refused")
     ELSE Goto(r, "roots") /\ lock' = Held(r, On(r)) /\ UNCHANGED rows

(* blocking_prototypes reads the samples of the quotation, without a lock. *)
ReadRoots(r) ==
  /\ At(r, "roots")
  /\ req' = [req EXCEPT ![r].pc = "walk", ![r].roots = SamplesOf(On(r)),
                        ![r].pending = {s \in SamplesOf(On(r)) : Blocks(s)}]
  /\ UNCHANGED <<rows, lock>>

(* A row the session has read keeps, in the session, what was read.         *)
BlocksFor(r, s) == IF s \in req[r].roots THEN s \in req[r].pending ELSE Blocks(s)

(* The sample in force of every line is approved, or cancelled. *)
Approved(r) == \A s \in req[r].roots : ~BlocksFor(r, Effective(s))

Walk(r) ==
  /\ At(r, "walk")
  /\ IF Approved(r) THEN Goto(r, "ready") /\ UNCHANGED <<rows, lock>> ELSE Answer(r, "refused")

(* The stock is there, or the transaction ends without a trace (RollBack). *)
Start(r) ==
  /\ At(r, "ready")
  /\ bulk' = [bulk EXCEPT ![On(r)].order = "STARTED"]
  /\ End(r, "saved")
  /\ UNCHANGED <<usage, rates, quote, samples>>

-----------------------------------------------------------------------------
(* A statement fails, the client goes away or the process dies. *)
RollBack(r) == req[r].pc \in Waiting /\ Answer(r, "lost")

Step(r) ==
  \/ Edit(r) \/ LockToPay(r) \/ Pay(r) \/ LockPrevious(r) \/ InsertSuccessor(r)
  \/ LockToQuote(r) \/ Quote(r) \/ LockToStart(r) \/ ReadRoots(r) \/ Walk(r) \/ Start(r)

Arrive(r) ==
  \/ \E p \in Quotes : AskEdit(r, p) \/ AskPay(r, p)
  \/ \E s \in DOMAIN samples : AskNext(r, s) \/ AskQuote(r, s)
  \/ \E b \in Bulk : AskStart(r, b)

Next ==
  \/ \E r \in Requests : Arrive(r) \/ Step(r) \/ RollBack(r)
  \/ \E p \in Quotes : CreateDraft(p) \/ Confirm(p) \/ Cancel(p)
  \/ ChangeRates
  \/ \E b \in Bulk \cup {None} : Create(b)
  \/ \E s \in DOMAIN samples :
       Work(s) \/ CancelSample(s) \/ Decide(s) \/ CloseFinal(s) \/ \E b \in Bulk : Relink(s, b)
  \/ \E b \in Bulk : PayBulk(b)

Spec == Init /\ [][Next]_vars

-----------------------------------------------------------------------------
(* "un reintento del navegador no puede duplicar el cobro, ni la muestra,   *)
(* ni el producto" (prototype_quotations.py:798): a payment has one product *)
(* and one original, with its order, and until then nothing; what follows   *)
(* the original is one line, of the same payment to its end.                *)
OneLinePerPayment ==
  /\ \A p \in Quotes :
       LET born == IF quote[p].paid THEN 1 ELSE 0
       IN  /\ quote[p].products = born
           /\ Cardinality({s \in DOMAIN samples : samples[s].quote = p /\ samples[s].prev = 0}) = born
           /\ \A s \in DOMAIN samples :
                samples[s].quote = p /\ samples[s].prev = 0 => samples[s].order
  /\ \A s, t \in DOMAIN samples :
       /\ samples[t].prev = s => samples[t].quote = samples[s].quote
       /\ samples[s].prev = samples[t].prev /\ samples[s].prev # 0 => s = t

(* What present shows: today's figures until confirmed, the frozen ones     *)
(* after that; a cancelled quotation is priced anew.                        *)
Shown(p) ==
  IF quote[p].status = "CONFIRMED" THEN quote[p].frozen ELSE <<quote[p].input, rates>>

(* "regenerar el PDF de un documento historico con el costo actual daria    *)
(* otro total que el firmado" (prototype_quotations.py:263-264): what was   *)
(* issued is shown with the same figures until it is cancelled, and once    *)
(* paid it is never cancelled.  "Ultimo-en-escribir-gana perderia el        *)
(* trabajo del otro" (617): who says what they saw overwrites only that.    *)
OfferKept ==
  [][/\ \A p \in Quotes :
          /\ quote[p].status = "CONFIRMED" =>
               quote'[p].status = "CANCELLED" \/ (Shown(p)' = Shown(p) /\ quote'[p].input = quote[p].input)
          /\ quote[p].paid => quote'[p].paid /\ quote'[p].status = "CONFIRMED"
     /\ \A r \in Requests :
          req[r].pc = "edit" /\ req'[r].pc = "saved" /\ req[r].token # None
            => req[r].token = quote[req[r].on].at]_vars

InForce(s, b) == samples[s].bulk = b /\ ~HasSuccessor(s)

(* "Exige que las muestras vigentes de ese pedido esten aprobadas"          *)
(* (production.py:1419): when the order of a product quotation starts, the  *)
(* sample in force of every line that is still of that quotation is         *)
(* approved or cancelled, whatever was created or moved since the check.    *)
StartedOnApproved(b) ==
  bulk[b].order # bulk'[b].order => \A s \in DOMAIN samples : InForce(s, b) => ~Blocks(s)

(* "cotizar desde ella seria cotizar la muestra que justamente no valio"    *)
(* (prototype_quotation.py:194): a final quotation comes from an approved   *)
(* sample that nobody has replaced by then.                                 *)
QuotedInForce(s) ==
  ~samples[s].final /\ samples'[s].final => samples[s].approval = "APPROVED" /\ ~HasSuccessor(s)

(* Both gates, at the commit that goes through them. *)
OnlyApprovedGoesOn ==
  [][/\ \A b \in Bulk : StartedOnApproved(b)
     /\ \A s \in DOMAIN samples : QuotedInForce(s)]_vars
=============================================================================
