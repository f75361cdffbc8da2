----------------------- MODULE SampleQuotations_proofs -----------------------
(***************************************************************************)
(* Proofs about SampleQuotations, for any number of requests, quotations   *)
(* and samples.                                                            *)
(*                                                                         *)
(* IInv adds to the properties what a request may rely on between its      *)
(* first read and its commit: a payment still finds the originals it       *)
(* looked for, a final quotation its sample in force, and a start no       *)
(* sample of its quotation that it has not read.  The first two hold by    *)
(* the row lock, the last because whoever brings a sample to a quotation   *)
(* waits for the lock of the quotation.                                    *)
(***************************************************************************)
EXTENDS SampleQuotations, FiniteSetTheorems, TLAPS

OnQuote == {"edit", "pay", "paying"}
OnSample == {"next", "insert", "quote", "quoting"}
OnBulk == {"start", "roots", "walk", "ready"}
Holding == {"paying", "insert", "quoting", "roots", "walk", "ready"}

(* What a request names exists, and what it locked is still its own. *)
Asked(r) ==
  /\ req[r].pc \in OnQuote => On(r) \in Quotes
  /\ req[r].pc \in OnSample => On(r) \in DOMAIN samples
  /\ req[r].pc \in OnBulk => On(r) \in Bulk
  /\ req[r].pc \in Holding => lock[On(r)] = r

(* What a request checked is still so when it writes. *)
Payable(r) == quote[On(r)].status = "CONFIRMED" /\ req[r].roots = Roots(On(r))
Quotable(r) == samples[On(r)].approval = "APPROVED" /\ ~HasSuccessor(On(r))
ReadAll(r) ==
  \A s \in SamplesOf(On(r)) : s \in req[r].roots /\ (Blocks(s) => s \in req[r].pending)
Startable(r) == \A s \in DOMAIN samples : InForce(s, On(r)) => ~Blocks(s)

Checked(r) ==
  /\ At(r, "paying") => Payable(r)
  /\ At(r, "quoting") => Quotable(r)
  /\ At(r, "walk") => ReadAll(r)
  /\ At(r, "ready") => Startable(r)

(* A payment brings one product and one original, with its order. *)
Paid(p) ==
  /\ ~quote[p].paid => Roots(p) = {} /\ quote[p].products = 0
  /\ quote[p].paid =>
       /\ quote[p].status = "CONFIRMED" /\ quote[p].products = 1
       /\ \E s \in DOMAIN samples : Roots(p) = {s} /\ samples[s].order

(* Samples follow one another in lines of one payment. *)
OneLine ==
  \A s, t \in DOMAIN samples :
    /\ samples[t].prev = s => samples[t].quote = samples[s].quote
    /\ samples[s].prev = samples[t].prev /\ samples[s].prev # 0 => s = t

IInv ==
  /\ TypeOK
  /\ \A r \in Requests : Asked(r) /\ Checked(r)
  /\ \A p \in Quotes : Paid(p)
  /\ OneLine

-----------------------------------------------------------------------------
(* A row of samples that is added, and one that changes.                    *)
LEMMA Added ==
  ASSUME TypeOK, CanGrow, NEW row \in SampleRow, samples' = Append(samples, row)
  PROVE  /\ samples' \in Seq(SampleRow) /\ Len(samples') <= MaxSamples
         /\ DOMAIN samples' = DOMAIN samples \cup {Len(samples) + 1}
         /\ Len(samples) + 1 \notin DOMAIN samples
         /\ samples'[Len(samples) + 1] = row
         /\ \A s \in DOMAIN samples : s \in Nat /\ s < Len(samples) + 1 /\ samples'[s] = samples[s]
BY QuotationsAssumption DEF TypeOK, CanGrow

LEMMA Changed ==
  ASSUME TypeOK, NEW s \in DOMAIN samples, NEW row \in SampleRow,
         samples' = [samples EXCEPT ![s] = row]
  PROVE  /\ samples' \in Seq(SampleRow) /\ Len(samples') = Len(samples)
         /\ DOMAIN samples' = DOMAIN samples
         /\ samples'[s] = row
         /\ \A t \in DOMAIN samples : t # s => samples'[t] = samples[t]
BY DEF TypeOK

(* The end of a transaction frees its locks and no others. *)
LEMMA EndFacts ==
  ASSUME TypeOK, NEW r \in Requests, NEW pc \in Ended, End(r, pc)
  PROVE  /\ req' \in [Requests -> Sessions]
         /\ req'[r].pc = pc
         /\ \A q \in Requests \ {r} : req'[q] = req[q]
         /\ lock' \in [Rows -> Requests \cup {None}]
         /\ \A x \in Rows : lock'[x] = IF lock[x] = r THEN None ELSE lock[x]
<1>1. Session(pc) \in Sessions /\ Session(pc).pc = pc
  BY DEF Session, Sessions
<1> QED
  BY <1>1 DEF TypeOK, End, Released

(* Whatever a request names is a row. *)
LEMMA InRows ==
  ASSUME IInv, NEW q \in Requests, req[q].pc \in OnQuote \cup OnSample \cup OnBulk \cup Holding
  PROVE  On(q) \in Rows
<1>1. DOMAIN samples \subseteq Ids
  BY QuotationsAssumption DEF IInv, TypeOK, Ids
<1> QED
  BY <1>1 DEF IInv, Asked, Rows, Holding, OnQuote, OnSample, OnBulk

(* A step of one request that writes no row. *)
LEMMA RowsStand ==
  ASSUME IInv, UNCHANGED rows, NEW r \in Requests,
         req' \in [Requests -> Sessions], lock' \in [Rows -> Requests \cup {None}],
         \A q \in Requests \ {r} : req'[q] = req[q] /\ \A x \in Rows : lock[x] = q => lock'[x] = q,
         Asked(r)', Checked(r)'
  PROVE  IInv'
<1>1. TypeOK'
  BY DEF IInv, TypeOK, rows
<1>2. ASSUME NEW q \in Requests PROVE Asked(q)' /\ Checked(q)'
  <2>1. CASE q = r
    BY <2>1
  <2>2. CASE q # r
    <3>1. On(q)' = On(q) /\ (On(q) \in Rows /\ lock[On(q)] = q => lock'[On(q)] = q)
      BY <2>2 DEF On
    <3>2. req[q].pc \in Holding => On(q) \in Rows
      BY InRows
    <3> QED
      BY <2>2, <3>1, <3>2 DEF IInv, Asked, Checked, Payable, Quotable, ReadAll, Startable, At, On,
         Roots, HasSuccessor, SamplesOf, InForce, Blocks, rows
  <2> QED
    BY <2>1, <2>2
<1>3. (\A p \in Quotes : Paid(p))' /\ OneLine'
  BY DEF IInv, Paid, Roots, OneLine, rows
<1> QED
  BY <1>1, <1>2, <1>3 DEF IInv

-----------------------------------------------------------------------------
(* Steps that write no row.                                                 *)
LEMMA AnswerKeeps ==
  ASSUME IInv, NEW r \in Requests, NEW pc \in Ended, Answer(r, pc)
  PROVE  IInv'
<1>1. TypeOK /\ End(r, pc) /\ UNCHANGED rows
  BY DEF IInv, Answer
<1>2. Asked(r)' /\ Checked(r)'
  BY <1>1, EndFacts DEF Asked, Checked, At, Ended, OnQuote, OnSample, OnBulk, Holding
<1>3. \A q \in Requests \ {r} : req'[q] = req[q] /\ \A x \in Rows : lock[x] = q => lock'[x] = q
  BY <1>1, EndFacts
<1> QED
  BY <1>1, <1>2, <1>3, EndFacts, RowsStand

(* The five requests arrive. *)
LEMMA ArriveKeeps ==
  ASSUME IInv, NEW r \in Requests, Arrive(r)
  PROVE  IInv'
<1>1. UNCHANGED rows /\ lock' = lock /\ TypeOK
  BY DEF IInv, Arrive, AskEdit, AskPay, AskNext, AskQuote, AskStart
<1>2. ASSUME NEW x \in Rows, NEW pc \in {"edit", "pay", "next", "quote", "start"},
             pc \in {"edit", "pay"} => x \in Quotes,
             pc \in {"next", "quote"} => x \in DOMAIN samples,
             pc = "start" => x \in Bulk,
             NEW token \in Nat \cup {None},
             \/ req' = [req EXCEPT ![r].pc = pc, ![r].on = x]
             \/ req' = [req EXCEPT ![r].pc = pc, ![r].on = x, ![r].token = token]
      PROVE  IInv'
  <2>0. req \in [Requests -> Sessions] /\ pc \in Waiting /\ x \in Rows \cup {None}
    BY <1>1, <1>2 DEF TypeOK, Waiting
  <2>1. /\ req'[r].pc = pc /\ On(r)' = x
        /\ req' \in [Requests -> Sessions]
        /\ \A q \in Requests \ {r} : req'[q] = req[q]
    <3>1. CASE req' = [req EXCEPT ![r].pc = pc, ![r].on = x]
      BY <2>0, <3>1 DEF Sessions, On
    <3>2. CASE req' = [req EXCEPT ![r].pc = pc, ![r].on = x, ![r].token = token]
      <4> DEFINE mid == [req EXCEPT ![r].pc = pc, ![r].on = x]
      <4>1. /\ mid[r].pc = pc /\ mid[r].on = x /\ mid \in [Requests -> Sessions]
            /\ \A q \in Requests \ {r} : mid[q] = req[q]
        BY <2>0 DEF Sessions
      <4>2. req' = [mid EXCEPT ![r].token = token] /\ token \in Nat \cup {None}
        BY <3>2
      <4> HIDE DEF mid
      <4> QED
        BY <4>1, <4>2 DEF Sessions, On
    <3> QED
      BY <1>2, <3>1, <3>2
  <2>2. Asked(r)' /\ Checked(r)'
    BY <1>1, <1>2, <2>1 DEF Asked, Checked, At, OnQuote, OnSample, OnBulk, Holding, rows
  <2> QED
    BY <1>1, <2>1, <2>2, RowsStand DEF TypeOK
<1>3. Quotes \subseteq Rows /\ Bulk \subseteq Rows /\ DOMAIN samples \subseteq Rows
  BY <1>1, QuotationsAssumption DEF TypeOK, Rows, Ids
<1>4. ASSUME NEW p \in Quotes, AskEdit(r, p) PROVE IInv'
  <2>1. quote[p].at \in Nat
    BY <1>1 DEF TypeOK, QuoteRow
  <2> QED
    BY <1>2, <1>3, <1>4, <2>1 DEF AskEdit
<1>5. ASSUME NEW p \in Quotes, AskPay(r, p) PROVE IInv'
  BY <1>2, <1>3, <1>5 DEF AskPay
<1>6. ASSUME NEW s \in DOMAIN samples, AskNext(r, s) PROVE IInv'
  BY <1>2, <1>3, <1>6 DEF AskNext
<1>7. ASSUME NEW s \in DOMAIN samples, AskQuote(r, s) PROVE IInv'
  BY <1>2, <1>3, <1>7 DEF AskQuote
<1>8. ASSUME NEW b \in Bulk, AskStart(r, b) PROVE IInv'
  BY <1>2, <1>3, <1>8 DEF AskStart
<1> QED
  BY <1>4, <1>5, <1>6, <1>7, <1>8 DEF Arrive

(* A request goes on, and takes the row it names or has it already. *)
LEMMA GoesOn ==
  ASSUME IInv, UNCHANGED rows, NEW r \in Requests, NEW from \in OnQuote \cup OnSample \cup OnBulk,
         At(r, from), NEW pc \in Holding,
         from \in OnQuote <=> pc \in OnQuote, from \in OnSample <=> pc \in OnSample,
         req' \in [Requests -> Sessions], At(r, pc)', On(r)' = On(r),
         \A q \in Requests \ {r} : req'[q] = req[q],
         \/ lock' = lock /\ from \in Holding
         \/ lock' = Held(r, On(r)) /\ Free(On(r)),
         Checked(r)'
  PROVE  IInv'
<1>1. On(r) \in Rows /\ lock \in [Rows -> Requests \cup {None}] /\ None \notin Requests
  BY InRows, QuotationsAssumption DEF IInv, TypeOK, At
<1>2. /\ lock' \in [Rows -> Requests \cup {None}] /\ lock'[On(r)] = r
      /\ \A q \in Requests \ {r} : \A x \in Rows : lock[x] = q => lock'[x] = q
  <2>1. CASE lock' = lock /\ from \in Holding
    BY <1>1, <2>1 DEF IInv, Asked, At
  <2>2. CASE lock' = Held(r, On(r)) /\ Free(On(r))
    BY <1>1, <2>2 DEF Held, Free
  <2> QED
    BY <2>1, <2>2
<1>3. Asked(r)'
  <2>1. req[r].pc = from /\ req'[r].pc = pc /\ samples' = samples /\ Asked(r)
    BY DEF IInv, At, rows
  <2>2. On(r)' = On(r) /\ lock'[On(r)'] = r
    BY <1>2
  <2>3. pc \in OnBulk => from \in OnBulk
    BY DEF OnQuote, OnSample, OnBulk, Holding
  <2> QED
    BY <2>1, <2>2, <2>3 DEF Asked
<1> QED
  BY <1>2, <1>3, RowsStand

(* What becomes of the session when a request goes on. *)
LEMMA GotoFacts ==
  ASSUME TypeOK, NEW r \in Requests, NEW pc \in Waiting, Goto(r, pc)
  PROVE  /\ req' \in [Requests -> Sessions]
         /\ At(r, pc)' /\ On(r)' = On(r) /\ req'[r].roots = req[r].roots
         /\ req'[r].pending = req[r].pending
         /\ \A q \in Requests \ {r} : req'[q] = req[q]
BY DEF TypeOK, Goto, Sessions, At, On

(* The original of the payment is looked for under the lock of the payment. *)
LEMMA LockToPayKeeps ==
  ASSUME IInv, NEW r \in Requests, LockToPay(r)
  PROVE  IInv'
<1>1. CASE quote[On(r)].status # "CONFIRMED"
  BY <1>1, AnswerKeeps DEF LockToPay, Ended
<1>2. CASE quote[On(r)].status = "CONFIRMED"
  <2>1. /\ At(r, "pay") /\ Free(On(r)) /\ lock' = Held(r, On(r)) /\ UNCHANGED rows
        /\ req' = [req EXCEPT ![r].pc = "paying", ![r].roots = Roots(On(r))]
    BY <1>2 DEF LockToPay
  <2>2. TypeOK /\ DOMAIN samples \subseteq Ids /\ req \in [Requests -> Sessions]
    BY QuotationsAssumption DEF IInv, TypeOK, Ids
  <2>3. Roots(On(r)) \in SUBSET Ids /\ Roots(On(r))' = Roots(On(r))
    BY <2>1, <2>2 DEF Roots, rows, On
  <2>4. /\ req' \in [Requests -> Sessions]
        /\ req'[r].pc = "paying" /\ req'[r].on = req[r].on /\ req'[r].roots = Roots(On(r))
        /\ \A q \in Requests \ {r} : req'[q] = req[q]
    <3> DEFINE found == Roots(On(r))
    <3>1. found \in SUBSET Ids /\ req' = [req EXCEPT ![r].pc = "paying", ![r].roots = found]
      BY <2>1, <2>3
    <3>2. "paying" \in Waiting
      BY DEF Waiting
    <3> HIDE DEF found
    <3>3. /\ req' \in [Requests -> Sessions]
          /\ req'[r].pc = "paying" /\ req'[r].on = req[r].on /\ req'[r].roots = found
          /\ \A q \in Requests \ {r} : req'[q] = req[q]
      BY <2>2, <3>1, <3>2 DEF Sessions
    <3> QED
      BY <3>3 DEF found
  <2>5. Roots(On(r))' = req'[r].roots /\ quote' = quote /\ On(r)' = On(r)
    BY <2>1, <2>4 DEF On, Roots, rows
  <2>6. Checked(r)'
    BY <1>2, <2>4, <2>5 DEF Checked, At, Payable
  <2> QED
    BY <2>1, <2>4, <2>5, <2>6, GoesOn DEF At, OnQuote, OnSample, OnBulk, Holding
<1> QED
  BY <1>1, <1>2

LEMMA LockPreviousKeeps ==
  ASSUME IInv, NEW r \in Requests, LockPrevious(r)
  PROVE  IInv'
<1>1. CASE HasSuccessor(On(r))
  BY <1>1, AnswerKeeps DEF LockPrevious, Ended
<1>2. CASE ~HasSuccessor(On(r))
  <2>1. /\ At(r, "next") /\ Free(On(r)) /\ lock' = Held(r, On(r)) /\ UNCHANGED rows
        /\ Goto(r, "insert") /\ TypeOK /\ "insert" \in Waiting
    BY <1>2 DEF LockPrevious, IInv, Waiting
  <2>2. Checked(r)'
    BY <2>1, GotoFacts DEF Checked, At
  <2> QED
    BY <2>1, <2>2, GotoFacts, GoesOn DEF OnQuote, OnSample, OnBulk, Holding
<1> QED
  BY <1>1, <1>2

(* The sample of a final quotation is approved and in force. *)
LEMMA LockToQuoteKeeps ==
  ASSUME IInv, NEW r \in Requests, LockToQuote(r)
  PROVE  IInv'
<1>1. CASE samples[On(r)].approval # "APPROVED" \/ HasSuccessor(On(r))
  BY <1>1, AnswerKeeps DEF LockToQuote, Ended
<1>2. CASE samples[On(r)].approval = "APPROVED" /\ ~HasSuccessor(On(r)) /\ samples[On(r)].final
  BY <1>2, AnswerKeeps DEF LockToQuote, Ended
<1>3. CASE samples[On(r)].approval = "APPROVED" /\ ~HasSuccessor(On(r)) /\ ~samples[On(r)].final
  <2>1. /\ At(r, "quote") /\ Free(On(r)) /\ lock' = Held(r, On(r)) /\ UNCHANGED rows
        /\ Goto(r, "quoting") /\ TypeOK /\ "quoting" \in Waiting
    BY <1>3 DEF LockToQuote, IInv, Waiting
  <2>2. samples' = samples /\ On(r)' = On(r) /\ At(r, "quoting")'
    BY <2>1, GotoFacts DEF rows
  <2>3. Checked(r)'
    BY <1>3, <2>2 DEF Checked, At, Quotable, HasSuccessor
  <2> QED
    BY <2>1, <2>3, GotoFacts, GoesOn DEF OnQuote, OnSample, OnBulk, Holding
<1> QED
  BY <1>1, <1>2, <1>3

LEMMA LockToStartKeeps ==
  ASSUME IInv, NEW r \in Requests, LockToStart(r)
  PROVE  IInv'
<1>1. CASE bulk[On(r)].order = "STARTED"
  BY <1>1, AnswerKeeps DEF LockToStart, Ended
<1>2. CASE bulk[On(r)].order # "STARTED" /\ ~bulk[On(r)].paid
  BY <1>2, AnswerKeeps DEF LockToStart, Ended
<1>3. CASE bulk[On(r)].order # "STARTED" /\ bulk[On(r)].paid
  <2>1. /\ At(r, "start") /\ Free(On(r)) /\ lock' = Held(r, On(r)) /\ UNCHANGED rows
        /\ Goto(r, "roots") /\ TypeOK /\ "roots" \in Waiting
    BY <1>3 DEF LockToStart, IInv, Waiting
  <2>2. Checked(r)'
    BY <2>1, GotoFacts DEF Checked, At
  <2> QED
    BY <2>1, <2>2, GotoFacts, GoesOn DEF OnQuote, OnSample, OnBulk, Holding
<1> QED
  BY <1>1, <1>2, <1>3

(* The session remembers every sample of the quotation it will start.       *)
LEMMA ReadRootsKeeps ==
  ASSUME IInv, NEW r \in Requests, ReadRoots(r)
  PROVE  IInv'
<1> DEFINE all == SamplesOf(On(r))
           bad == {s \in SamplesOf(On(r)) : Blocks(s)}
<1>1. /\ At(r, "roots") /\ lock' = lock /\ UNCHANGED rows
      /\ req' = [req EXCEPT ![r].pc = "walk", ![r].roots = all, ![r].pending = bad]
  BY DEF ReadRoots
<1>2. TypeOK /\ DOMAIN samples \subseteq Ids /\ req \in [Requests -> Sessions] /\ "walk" \in Waiting
  BY QuotationsAssumption DEF IInv, TypeOK, Ids, Waiting
<1>3. all \in SUBSET Ids /\ bad \in SUBSET Ids
  BY <1>2 DEF SamplesOf
<1>4. \A s \in all : Blocks(s) => s \in bad
  OBVIOUS
<1>5. /\ req' \in [Requests -> Sessions]
      /\ req'[r].pc = "walk" /\ req'[r].on = req[r].on
      /\ req'[r].roots = all /\ req'[r].pending = bad
      /\ \A q \in Requests \ {r} : req'[q] = req[q]
  <2> HIDE DEF all, bad
  <2> DEFINE mid == [req EXCEPT ![r].pc = "walk", ![r].roots = all]
  <2>1. /\ mid[r].pc = "walk" /\ mid[r].on = req[r].on /\ mid[r].roots = all
        /\ mid \in [Requests -> Sessions]
        /\ \A q \in Requests \ {r} : mid[q] = req[q]
    BY <1>2, <1>3 DEF Sessions
  <2>2. req' = [mid EXCEPT ![r].pending = bad]
    BY <1>1
  <2> HIDE DEF mid
  <2> QED
    BY <1>3, <2>1, <2>2 DEF Sessions
<1>6. ReadAll(r)'
  <2>1. SamplesOf(On(r))' = all /\ \A s \in all : Blocks(s)' = Blocks(s)
    BY <1>1, <1>5 DEF SamplesOf, On, Blocks, rows
  <2> QED
    BY <1>4, <1>5, <2>1 DEF ReadAll
<1>7. Checked(r)'
  BY <1>5, <1>6 DEF Checked, At
<1> QED
  BY <1>1, <1>5, <1>7, GoesOn DEF At, On, OnQuote, OnSample, OnBulk, Holding

(* The last sample of a line is what is in force of it. *)
LEMMA LastIsEffective ==
  ASSUME NEW s \in DOMAIN samples, ~HasSuccessor(s)
  PROVE  Effective(s) = s
<1>1. \A u \in DOMAIN samples : samples[u].prev # s
  BY DEF HasSuccessor
<1>2. {s} \in SUBSET DOMAIN samples /\ \A u \in DOMAIN samples : samples[u].prev \in {s} => u \in {s}
  BY <1>1
<1>3. LineFrom(s) \subseteq {s}
  BY <1>2 DEF LineFrom
<1>4. s \in LineFrom(s)
  BY DEF LineFrom
<1>5. LineFrom(s) = {s}
  BY <1>3, <1>4
<1> QED
  BY <1>5 DEF Effective

LEMMA WalkKeeps ==
  ASSUME IInv, NEW r \in Requests, Walk(r)
  PROVE  IInv'
<1>1. CASE ~Approved(r)
  BY <1>1, AnswerKeeps DEF Walk, Ended
<1>2. CASE Approved(r)
  <2>1. At(r, "walk") /\ lock' = lock /\ UNCHANGED rows /\ Goto(r, "ready") /\ TypeOK /\ "ready" \in Waiting
    BY <1>2 DEF Walk, IInv, Waiting, rows
  <2>2. ReadAll(r)
    BY <2>1 DEF IInv, Checked
  <2>3. ASSUME NEW s \in DOMAIN samples, InForce(s, On(r)) PROVE ~Blocks(s)
    <3>1. s \in req[r].roots /\ Effective(s) = s /\ (Blocks(s) => s \in req[r].pending)
      BY <2>2, <2>3, LastIsEffective DEF ReadAll, InForce, SamplesOf
    <3> QED
      BY <1>2, <3>1 DEF Approved, BlocksFor
  <2>4. samples' = samples /\ On(r)' = On(r) /\ At(r, "ready")'
    BY <2>1, GotoFacts DEF rows
  <2>5. Startable(r)'
    BY <2>3, <2>4 DEF Startable, InForce, HasSuccessor, Blocks
  <2>6. Checked(r)'
    BY <2>4, <2>5 DEF Checked, At
  <2> QED
    BY <2>1, <2>6, GotoFacts, GoesOn DEF OnQuote, OnSample, OnBulk, Holding
<1> QED
  BY <1>1, <1>2

LEMMA RollBackKeeps ==
  ASSUME IInv, NEW r \in Requests, RollBack(r)
  PROVE  IInv'
BY AnswerKeeps DEF RollBack, Ended


-----------------------------------------------------------------------------
(* Steps that write a row.                                                  *)
LEMMA Stands ==
  ASSUME IInv, TypeOK', DOMAIN samples \subseteq DOMAIN samples', req' = req, lock' = lock,
         \A q \in Requests : Checked(q)', \A p \in Quotes : Paid(p)', OneLine'
  PROVE  IInv'
<1>1. ASSUME NEW q \in Requests PROVE Asked(q)'
  BY DEF IInv, Asked, On
<1> QED
  BY <1>1 DEF IInv

LEMMA Ends ==
  ASSUME IInv, TypeOK', DOMAIN samples \subseteq DOMAIN samples',
         NEW r \in Requests, End(r, "saved"),
         \A q \in Requests \ {r} : Checked(q)', \A p \in Quotes : Paid(p)', OneLine'
  PROVE  IInv'
<1>1. TypeOK /\ "saved" \in Ended
  BY DEF IInv, Ended
<1>2. /\ req'[r].pc = "saved"
      /\ \A q \in Requests \ {r} : req'[q] = req[q] /\ \A x \in Rows : lock[x] = q => lock'[x] = q
  BY <1>1, EndFacts
<1>3. ASSUME NEW q \in Requests PROVE Asked(q)' /\ Checked(q)'
  <2>1. CASE q = r
    BY <1>2, <2>1 DEF Asked, Checked, At, OnQuote, OnSample, OnBulk, Holding
  <2>2. CASE q # r
    <3>1. req'[q] = req[q] /\ On(q)' = On(q) /\ Asked(q) /\ (req[q].pc \in Holding => On(q) \in Rows)
      BY <1>2, <2>2, InRows DEF IInv, On
    <3>2. req[q].pc \in Holding => lock'[On(q)] = q
      BY <1>2, <2>2, <3>1 DEF Asked
    <3>3. Asked(q)'
      BY <3>1, <3>2 DEF Asked
    <3> QED
      BY <2>2, <3>3
  <2> QED
    BY <2>1, <2>2
<1> QED
  BY <1>3 DEF IInv

(* A quotation whose payment is not touched, while nobody is paying it. *)
LEMMA QuoteChanged ==
  ASSUME IInv, NEW p \in Quotes, NEW row \in QuoteRow, quote' = [quote EXCEPT ![p] = row],
         UNCHANGED <<bulk, samples>>,
         row.paid = quote[p].paid, row.products = quote[p].products,
         quote[p].status = "CONFIRMED" => row.status = "CONFIRMED" \/ (Free(p) /\ ~row.paid)
  PROVE  /\ quote' \in [Quotes -> QuoteRow]
         /\ \A q \in Requests : req'[q] = req[q] => Checked(q)'
         /\ \A x \in Quotes : Paid(x)'
         /\ OneLine'
<1>1. TypeOK /\ None \notin Requests
  BY QuotationsAssumption DEF IInv
<1>2. quote' \in [Quotes -> QuoteRow] /\ quote'[p] = row /\ \A x \in Quotes \ {p} : quote'[x] = quote[x]
  BY <1>1 DEF TypeOK
<1>3. ASSUME NEW q \in Requests, req'[q] = req[q] PROVE Checked(q)'
  <2>1. Checked(q) /\ Asked(q) /\ On(q)' = On(q)
    BY <1>3 DEF IInv, On
  <2>2. CASE At(q, "paying")
    <3>1. Payable(q) /\ On(q) \in Quotes /\ lock[On(q)] = q
      BY <2>1, <2>2 DEF Checked, Asked, At, OnQuote, Holding
    <3>2. quote'[On(q)].status = "CONFIRMED" /\ Roots(On(q))' = Roots(On(q))
      BY <1>1, <1>2, <3>1, <2>1 DEF Payable, Free, Roots
    <3>3. Payable(q)'
      BY <1>3, <2>1, <3>1, <3>2 DEF Payable
    <3> QED
      BY <1>3, <2>2, <3>3 DEF Checked, At
  <2>3. CASE ~At(q, "paying")
    BY <1>3, <2>1, <2>3 DEF Checked, At, Quotable, ReadAll, Startable, On, HasSuccessor,
       SamplesOf, InForce, Blocks
  <2> QED
    BY <2>2, <2>3
<1>4. ASSUME NEW x \in Quotes PROVE Paid(x)'
  <2>1. Paid(x) /\ Paid(p) /\ Roots(x)' = Roots(x) /\ samples' = samples
    BY DEF IInv, Roots
  <2> QED
    BY <1>2, <2>1 DEF Paid
<1>5. OneLine'
  BY DEF IInv, OneLine
<1> QED
  BY <1>2, <1>3, <1>4, <1>5

(* A sample that stays in its line, keeps its payment and its approval, and *)
(* goes to a product quotation only while nobody holds it.                  *)
LEMMA SampleChanged ==
  ASSUME IInv, NEW s \in DOMAIN samples, NEW row \in SampleRow,
         samples' = [samples EXCEPT ![s] = row], quote' = quote,
         row.prev = samples[s].prev, row.quote = samples[s].quote,
         samples[s].order => row.order,
         samples[s].approval = "APPROVED" => row.approval = "APPROVED",
         row.bulk = samples[s].bulk \/ Reachable(row.bulk),
         row.status # "CANCELLED" /\ row.approval # "APPROVED" => Blocks(s)
  PROVE  /\ samples' \in Seq(SampleRow) /\ Len(samples') <= MaxSamples
         /\ \A t \in DOMAIN samples' : samples'[t].prev < t
         /\ DOMAIN samples' = DOMAIN samples
         /\ \A q \in Requests : req'[q] = req[q] => Checked(q)'
         /\ \A p \in Quotes : Paid(p)'
         /\ OneLine'
<1>1. TypeOK /\ None \notin Requests /\ None \notin Bulk
  BY QuotationsAssumption DEF IInv
<1>2. /\ samples' \in Seq(SampleRow) /\ Len(samples') = Len(samples)
      /\ DOMAIN samples' = DOMAIN samples /\ samples'[s] = row
      /\ \A t \in DOMAIN samples : t # s => samples'[t] = samples[t]
  BY <1>1, Changed
<1>3. \A t \in DOMAIN samples :
        /\ samples'[t].prev = samples[t].prev /\ samples'[t].quote = samples[t].quote
        /\ samples[t].order => samples'[t].order
        /\ samples[t].approval = "APPROVED" => samples'[t].approval = "APPROVED"
        /\ samples'[t].bulk = samples[t].bulk \/ Reachable(samples'[t].bulk)
  BY <1>2
<1>4. \A t \in DOMAIN samples : Blocks(t)' => Blocks(t)
  BY <1>2 DEF Blocks
<1>5. /\ \A p : Roots(p)' = Roots(p)
      /\ \A t : HasSuccessor(t)' <=> HasSuccessor(t)
  BY <1>2, <1>3 DEF Roots, HasSuccessor
<1>6. ASSUME NEW q \in Requests, req'[q] = req[q] PROVE Checked(q)'
  <2>1. Checked(q) /\ Asked(q) /\ On(q)' = On(q) /\ (\A pc : At(q, pc)' <=> At(q, pc))
    BY <1>6 DEF IInv, On, At
  <2>2. ASSUME At(q, "paying") PROVE Payable(q)'
    BY <1>5, <1>6, <2>1, <2>2 DEF Checked, Payable
  <2>3. ASSUME At(q, "quoting") PROVE Quotable(q)'
    <3>1. On(q) \in DOMAIN samples
      BY <2>1, <2>3 DEF Asked, At, OnSample
    <3> QED
      BY <1>3, <1>5, <2>1, <2>3, <3>1 DEF Checked, Quotable
  <2>4. ASSUME At(q, "walk") \/ At(q, "ready")
        PROVE  \A t \in DOMAIN samples : samples'[t].bulk = On(q) => samples[t].bulk = On(q)
    <3>1. On(q) \in Bulk /\ lock[On(q)] = q
      BY <2>1, <2>4 DEF Asked, At, OnBulk, Holding
    <3>2. ~Reachable(On(q))
      BY <1>1, <3>1 DEF Reachable, Free
    <3> QED
      BY <1>3, <3>2
  <2>5. ASSUME At(q, "walk") PROVE ReadAll(q)'
    <3>1. ReadAll(q) /\ req'[q] = req[q]
      BY <1>6, <2>1, <2>5 DEF Checked
    <3>2. ASSUME NEW t \in SamplesOf(On(q))' PROVE t \in SamplesOf(On(q)) /\ (Blocks(t)' => Blocks(t))
      BY <1>2, <1>4, <2>1, <2>4, <2>5, <3>2 DEF SamplesOf
    <3> QED
      BY <2>1, <3>1, <3>2 DEF ReadAll
  <2>6. ASSUME At(q, "ready") PROVE Startable(q)'
    <3>1. Startable(q)
      BY <2>1, <2>6 DEF Checked
    <3>2. ASSUME NEW t \in DOMAIN samples, samples'[t].bulk = On(q), ~HasSuccessor(t)' PROVE ~Blocks(t)'
      <4>1. samples[t].bulk = On(q) /\ ~HasSuccessor(t)
        BY <1>5, <2>4, <2>6, <3>2
      <4> QED
        BY <1>4, <3>1, <4>1 DEF Startable, InForce
    <3> QED
      BY <1>2, <2>1, <3>2 DEF Startable, InForce
  <2> QED
    BY <2>1, <2>2, <2>3, <2>5, <2>6 DEF Checked
<1>7. ASSUME NEW p \in Quotes PROVE Paid(p)'
  BY <1>2, <1>3, <1>5 DEF IInv, Paid
<1>8. OneLine'
  BY <1>2, <1>3 DEF IInv, OneLine
<1> QED
  BY <1>1, <1>2, <1>3, <1>6, <1>7, <1>8 DEF TypeOK

(* A sample is added at the end of a line, or as an original, of a product  *)
(* quotation that nobody holds; nobody is about to quote the one before it. *)
LEMMA SampleAdded ==
  ASSUME IInv, CanGrow, NEW row \in SampleRow, samples' = Append(samples, row),
         row.prev # 0 => /\ row.prev \in DOMAIN samples /\ ~HasSuccessor(row.prev)
                         /\ row.quote = samples[row.prev].quote,
         row.bulk # None => Free(row.bulk)
  PROVE  /\ samples' \in Seq(SampleRow) /\ Len(samples') <= MaxSamples
         /\ \A t \in DOMAIN samples' : samples'[t].prev < t
         /\ DOMAIN samples' = DOMAIN samples \cup {Len(samples) + 1}
         /\ samples'[Len(samples) + 1] = row
         /\ \A t \in DOMAIN samples : samples'[t] = samples[t]
         /\ \A p : Roots(p)' = IF row.prev = 0 /\ row.quote = p THEN Roots(p) \cup {Len(samples) + 1}
                               ELSE Roots(p)
         /\ \A q \in Requests :
              /\ req'[q] = req[q]
              /\ At(q, "paying") => Payable(q)'
              /\ At(q, "quoting") => On(q) # row.prev
              => Checked(q)'
         /\ OneLine'
<1> DEFINE n == Len(samples) + 1
<1>1. TypeOK /\ None \notin Requests /\ None \notin Bulk
  BY QuotationsAssumption DEF IInv
<1>2. /\ samples' \in Seq(SampleRow) /\ Len(samples') <= MaxSamples
      /\ DOMAIN samples' = DOMAIN samples \cup {n} /\ n \notin DOMAIN samples
      /\ samples'[n] = row
      /\ \A t \in DOMAIN samples : t \in Nat /\ t < n /\ samples'[t] = samples[t]
  BY <1>1, Added
<1>3. /\ n \in Nat /\ row.prev \in Nat /\ row.prev < n
      /\ \A t \in DOMAIN samples : samples[t].prev \in Nat /\ samples[t].prev < t
  <2>1. n \in Nat /\ row.prev \in Nat
    BY <1>1, QuotationsAssumption DEF TypeOK, SampleRow
  <2>2. row.prev < n
    BY <1>2, <2>1
  <2>3. \A t \in DOMAIN samples : samples[t] \in SampleRow /\ samples[t].prev < t
    BY <1>1 DEF TypeOK
  <2> QED
    BY <2>1, <2>2, <2>3, QuotationsAssumption DEF SampleRow
<1> HIDE DEF n
<1>4. \A t \in DOMAIN samples' : samples'[t].prev < t
  BY <1>2, <1>3
<1>5. \A p : Roots(p)' = IF row.prev = 0 /\ row.quote = p THEN Roots(p) \cup {n} ELSE Roots(p)
  BY <1>2 DEF Roots
<1>6. \A t \in DOMAIN samples :
        (HasSuccessor(t)' <=> HasSuccessor(t) \/ row.prev = t) /\ (Blocks(t)' <=> Blocks(t))
  BY <1>2 DEF HasSuccessor, Blocks
<1>7. ASSUME NEW q \in Requests, req'[q] = req[q], At(q, "paying") => Payable(q)',
             At(q, "quoting") => On(q) # row.prev
      PROVE  Checked(q)'
  <2>1. Checked(q) /\ Asked(q) /\ On(q)' = On(q) /\ (\A pc : At(q, pc)' <=> At(q, pc))
    BY <1>7 DEF IInv, On, At
  <2>2. ASSUME At(q, "quoting") PROVE Quotable(q)'
    <3>1. On(q) \in DOMAIN samples /\ Quotable(q)
      BY <2>1, <2>2 DEF Asked, At, OnSample, Checked
    <3>2. ~HasSuccessor(On(q))' /\ samples'[On(q)].approval = "APPROVED"
      BY <1>2, <1>6, <1>7, <2>1, <2>2, <3>1 DEF Quotable, HasSuccessor
    <3> QED
      BY <2>1, <3>2 DEF Quotable
  <2>3. ASSUME At(q, "walk") \/ At(q, "ready") PROVE row.bulk # On(q)
    <3>1. On(q) \in Bulk /\ lock[On(q)] = q
      BY <2>1, <2>3 DEF Asked, At, OnBulk, Holding
    <3> QED
      BY <1>1, <3>1 DEF Free
  <2>4. ASSUME At(q, "walk") PROVE ReadAll(q)'
    <3>1. ReadAll(q) /\ req'[q] = req[q]
      BY <1>7, <2>1, <2>4 DEF Checked
    <3>2. ASSUME NEW t \in SamplesOf(On(q))' PROVE t \in SamplesOf(On(q)) /\ (Blocks(t)' => Blocks(t))
      BY <1>2, <1>6, <2>1, <2>3, <2>4, <3>2 DEF SamplesOf
    <3> QED
      BY <2>1, <3>1, <3>2 DEF ReadAll
  <2>5. ASSUME At(q, "ready") PROVE Startable(q)'
    <3>1. Startable(q)
      BY <2>1, <2>5 DEF Checked
    <3>2. ASSUME NEW t \in DOMAIN samples', samples'[t].bulk = On(q), ~HasSuccessor(t)' PROVE ~Blocks(t)'
      <4>1. t \in DOMAIN samples /\ samples[t].bulk = On(q) /\ ~HasSuccessor(t)
        BY <1>2, <1>6, <2>3, <2>5, <3>2
      <4> QED
        BY <1>6, <3>1, <4>1 DEF Startable, InForce
    <3> QED
      BY <2>1, <3>2 DEF Startable, InForce
  <2> QED
    BY <1>7, <2>1, <2>2, <2>4, <2>5 DEF Checked
<1>8. OneLine'
  <2>1. OneLine
    BY DEF IInv
  <2>2. ASSUME NEW s \in DOMAIN samples', NEW t \in DOMAIN samples', samples'[t].prev = s
        PROVE  samples'[t].quote = samples'[s].quote
    <3>1. s \in DOMAIN samples /\ s # 0
      BY <1>2, <1>3, <1>4, <2>2
    <3>2. CASE t \in DOMAIN samples
      BY <1>2, <2>1, <2>2, <3>1, <3>2 DEF OneLine
    <3>3. CASE t = n
      BY <1>2, <2>2, <3>1, <3>3
    <3> QED
      BY <1>2, <3>2, <3>3
  <2>3. ASSUME NEW s \in DOMAIN samples', NEW t \in DOMAIN samples',
               samples'[s].prev = samples'[t].prev, samples'[s].prev # 0
        PROVE  s = t
    BY <1>2, <2>1, <2>3 DEF OneLine, HasSuccessor
  <2> QED
    BY <2>2, <2>3 DEF OneLine
<1> QED
  BY <1>2, <1>4, <1>5, <1>7, <1>8 DEF n


-----------------------------------------------------------------------------
(* Each action keeps the invariant.                                         *)
LEMMA CreateDraftKeeps ==
  ASSUME IInv, NEW p \in Quotes, CreateDraft(p)
  PROVE  IInv'
<1> DEFINE row == [quote[p] EXCEPT !.status = "DRAFT"]
<1>1. TypeOK /\ quote[p] \in QuoteRow /\ Paid(p)
  BY DEF IInv, TypeOK
<1>2. row \in QuoteRow /\ row.paid = quote[p].paid /\ row.products = quote[p].products
  BY <1>1 DEF QuoteRow
<1>3. quote' = [quote EXCEPT ![p] = row] /\ quote[p].status # "CONFIRMED" /\ req' = req
  BY DEF CreateDraft
<1> HIDE DEF row
<1>4. /\ quote' \in [Quotes -> QuoteRow]
      /\ \A q \in Requests : Checked(q)'
      /\ \A x \in Quotes : Paid(x)'
      /\ OneLine'
  BY <1>2, <1>3, QuoteChanged DEF CreateDraft
<1>5. TypeOK'
  BY <1>1, <1>4 DEF CreateDraft, TypeOK
<1> QED
  BY <1>4, <1>5, Stands DEF CreateDraft

LEMMA ChangeRatesKeeps ==
  ASSUME IInv, ChangeRates
  PROVE  IInv'
<1>1. TypeOK'
  BY DEF IInv, ChangeRates, TypeOK
<1>2. ASSUME NEW q \in Requests PROVE Checked(q)'
  BY DEF IInv, ChangeRates, Checked, At, On, Payable, Quotable, ReadAll, Startable, Roots,
     HasSuccessor, SamplesOf, InForce, Blocks
<1>3. \A p \in Quotes : Paid(p)'
  BY DEF IInv, ChangeRates, Paid, Roots
<1>4. OneLine'
  BY DEF IInv, ChangeRates, OneLine
<1> QED
  BY <1>1, <1>2, <1>3, <1>4, Stands DEF ChangeRates

(* A confirmed quotation is not edited, and an edit pays nothing. *)
LEMMA EditKeeps ==
  ASSUME IInv, NEW r \in Requests, Edit(r)
  PROVE  IInv'
<1>1. CASE quote[On(r)].status # "DRAFT" \/ ~Fresh(r)
  BY <1>1, AnswerKeeps DEF Edit, Ended
<1>2. CASE ~(quote[On(r)].status # "DRAFT" \/ ~Fresh(r))
  <2>1. PICK input \in Inputs : quote' = [quote EXCEPT ![On(r)].input = input, ![On(r)].at = @ + 1]
    BY <1>2 DEF Edit
  <2>2. /\ quote[On(r)].status = "DRAFT" /\ End(r, "saved") /\ UNCHANGED <<usage, rates, bulk, samples>>
        /\ TypeOK /\ On(r) \in Quotes
    BY <1>2 DEF Edit, IInv, Asked, At, OnQuote
  <2> DEFINE p == On(r)
             row == [quote[p] EXCEPT !.input = input, !.at = @ + 1]
  <2>3. quote[p] \in QuoteRow
    BY <2>2 DEF TypeOK
  <2>4. row \in QuoteRow /\ row.paid = quote[p].paid /\ row.products = quote[p].products
    <3> DEFINE mid == [quote[p] EXCEPT !.input = input]
    <3>1. mid \in QuoteRow /\ mid.paid = quote[p].paid /\ mid.products = quote[p].products
      BY <2>3 DEF QuoteRow
    <3>2. quote[p].at + 1 \in Nat /\ row = [mid EXCEPT !.at = quote[p].at + 1]
      BY <2>3 DEF QuoteRow
    <3> HIDE DEF mid, row
    <3> QED
      BY <3>1, <3>2 DEF QuoteRow
  <2>5. quote' = [quote EXCEPT ![p] = row]
    BY <2>1, <2>2 DEF TypeOK
  <2> HIDE DEF row
  <2>6. /\ quote' \in [Quotes -> QuoteRow]
        /\ \A q \in Requests : req'[q] = req[q] => Checked(q)'
        /\ \A x \in Quotes : Paid(x)'
        /\ OneLine'
    BY <2>2, <2>4, <2>5, QuoteChanged
  <2>7. /\ req' \in [Requests -> Sessions] /\ lock' \in [Rows -> Requests \cup {None}]
        /\ \A q \in Requests \ {r} : req'[q] = req[q]
    BY <2>2, EndFacts DEF Ended
  <2>8. TypeOK'
    BY <2>2, <2>6, <2>7 DEF TypeOK
  <2> QED
    BY <2>2, <2>6, <2>7, <2>8, Ends
<1> QED
  BY <1>1, <1>2

LEMMA ConfirmKeeps ==
  ASSUME IInv, NEW p \in Quotes, Confirm(p)
  PROVE  IInv'
<1> DEFINE row == [quote[p] EXCEPT !.status = "CONFIRMED", !.at = @ + 1,
                                   !.frozen = <<quote[p].input, rates>>]
<1>1. TypeOK /\ quote[p] \in QuoteRow /\ rates \in Rates
  BY DEF IInv, TypeOK
<1>2. row \in QuoteRow /\ row.paid = quote[p].paid /\ row.products = quote[p].products
      /\ row.status = "CONFIRMED"
  <2>1. <<quote[p].input, rates>> \in Figures
    BY <1>1 DEF QuoteRow, Figures
  <2> DEFINE frozen == <<quote[p].input, rates>>
  <2> HIDE DEF frozen
  <2>2. frozen \in Figures
    BY <2>1 DEF frozen
  <2> DEFINE mid == [quote[p] EXCEPT !.status = "CONFIRMED"]
             next == [mid EXCEPT !.at = quote[p].at + 1]
  <2>3. /\ mid \in QuoteRow /\ mid.paid = quote[p].paid /\ mid.products = quote[p].products
        /\ mid.status = "CONFIRMED"
    BY <1>1 DEF QuoteRow
  <2>4. quote[p].at + 1 \in Nat /\ row = [next EXCEPT !.frozen = frozen]
    BY <1>1 DEF QuoteRow, frozen
  <2> HIDE DEF mid, row
  <2>5. /\ next \in QuoteRow /\ next.paid = quote[p].paid /\ next.products = quote[p].products
        /\ next.status = "CONFIRMED"
    BY <2>3, <2>4 DEF QuoteRow
  <2> HIDE DEF next
  <2> QED
    BY <2>2, <2>4, <2>5 DEF QuoteRow
<1>3. quote' = [quote EXCEPT ![p] = row] /\ req' = req
  BY <1>1 DEF Confirm, TypeOK
<1> HIDE DEF row
<1>4. /\ quote' \in [Quotes -> QuoteRow]
      /\ \A q \in Requests : Checked(q)'
      /\ \A x \in Quotes : Paid(x)'
      /\ OneLine'
  BY <1>2, <1>3, QuoteChanged DEF Confirm
<1>5. TypeOK'
  BY <1>1, <1>4 DEF Confirm, TypeOK
<1> QED
  BY <1>4, <1>5, Stands DEF Confirm

(* What is paid is not cancelled, and nobody is paying what is. *)
LEMMA CancelKeeps ==
  ASSUME IInv, NEW p \in Quotes, Cancel(p)
  PROVE  IInv'
<1> DEFINE row == [quote[p] EXCEPT !.status = "CANCELLED", !.at = @ + 1]
<1>1. TypeOK /\ quote[p] \in QuoteRow /\ ~quote[p].paid
  BY DEF IInv, TypeOK, Cancel, Cancellable
<1>2. row \in QuoteRow /\ row.paid = quote[p].paid /\ row.products = quote[p].products
  <2> DEFINE mid == [quote[p] EXCEPT !.status = "CANCELLED"]
  <2>1. mid \in QuoteRow /\ mid.paid = quote[p].paid /\ mid.products = quote[p].products
    BY <1>1 DEF QuoteRow
  <2>2. quote[p].at + 1 \in Nat /\ row = [mid EXCEPT !.at = quote[p].at + 1]
    BY <1>1 DEF QuoteRow
  <2> HIDE DEF mid, row
  <2> QED
    BY <2>1, <2>2 DEF QuoteRow
<1>3. quote' = [quote EXCEPT ![p] = row] /\ req' = req /\ Free(p)
  BY <1>1 DEF Cancel, TypeOK
<1> HIDE DEF row
<1>4. /\ quote' \in [Quotes -> QuoteRow]
      /\ \A q \in Requests : Checked(q)'
      /\ \A x \in Quotes : Paid(x)'
      /\ OneLine'
  BY <1>1, <1>2, <1>3, QuoteChanged DEF Cancel
<1>5. TypeOK'
  BY <1>1, <1>4 DEF Cancel, TypeOK
<1> QED
  BY <1>4, <1>5, Stands DEF Cancel

LEMMA PayBulkKeeps ==
  ASSUME IInv, NEW b \in Bulk, PayBulk(b)
  PROVE  IInv'
<1>1. TypeOK'
  BY DEF IInv, PayBulk, TypeOK, BulkRow
<1>2. ASSUME NEW q \in Requests PROVE Checked(q)'
  BY DEF IInv, PayBulk, Checked, At, On, Payable, Quotable, ReadAll, Startable, Roots,
     HasSuccessor, SamplesOf, InForce, Blocks
<1>3. (\A p \in Quotes : Paid(p)') /\ OneLine'
  BY DEF IInv, PayBulk, Paid, Roots, OneLine
<1> QED
  BY <1>1, <1>2, <1>3, Stands DEF PayBulk

(* The order of a product quotation starts.                                 *)
LEMMA StartKeeps ==
  ASSUME IInv, NEW r \in Requests, Start(r)
  PROVE  IInv'
<1>1. TypeOK /\ On(r) \in Bulk /\ End(r, "saved") /\ UNCHANGED <<usage, rates, quote, samples>>
      /\ bulk' = [bulk EXCEPT ![On(r)].order = "STARTED"] /\ "saved" \in Ended
  BY DEF IInv, Start, Asked, At, OnBulk, OnQuote, Ended
<1>2. /\ req' \in [Requests -> Sessions] /\ lock' \in [Rows -> Requests \cup {None}]
      /\ \A q \in Requests \ {r} : req'[q] = req[q]
  BY <1>1, EndFacts
<1>3. bulk' \in [Bulk -> BulkRow]
  BY <1>1 DEF TypeOK, BulkRow
<1>4. TypeOK'
  BY <1>1, <1>2, <1>3 DEF TypeOK
<1>5. ASSUME NEW q \in Requests \ {r} PROVE Checked(q)'
  BY <1>1, <1>2 DEF IInv, Checked, At, On, Payable, Quotable, ReadAll, Startable, Roots,
     HasSuccessor, SamplesOf, InForce, Blocks
<1>6. (\A p \in Quotes : Paid(p)') /\ OneLine'
  BY <1>1 DEF IInv, Paid, Roots, OneLine
<1> QED
  BY <1>1, <1>4, <1>5, <1>6, Ends

(* One of the steps of a sample under its own lock. *)
LEMMA OnSampleKeeps ==
  ASSUME IInv, NEW s \in DOMAIN samples, NEW row \in SampleRow,
         samples' = [samples EXCEPT ![s] = row],
         UNCHANGED <<usage, rates, quote, bulk, lock, req>>,
         row.prev = samples[s].prev, row.quote = samples[s].quote, row.order = samples[s].order,
         samples[s].approval = "APPROVED" => row.approval = "APPROVED",
         row.bulk = samples[s].bulk \/ Reachable(row.bulk),
         row.status # "CANCELLED" /\ row.approval # "APPROVED" => Blocks(s)
  PROVE  IInv'
<1>1. /\ samples' \in Seq(SampleRow) /\ Len(samples') <= MaxSamples
      /\ \A t \in DOMAIN samples' : samples'[t].prev < t
      /\ DOMAIN samples' = DOMAIN samples
      /\ \A q \in Requests : Checked(q)'
      /\ \A p \in Quotes : Paid(p)'
      /\ OneLine'
  BY SampleChanged
<1>2. TypeOK'
  BY <1>1 DEF IInv, TypeOK
<1> QED
  BY <1>1, <1>2, Stands

LEMMA BecomesKeeps ==
  ASSUME IInv, NEW s \in DOMAIN samples,
         \/ Becomes(s, "CREATED", "STARTED") \/ Becomes(s, "STARTED", "COMPLETED")
         \/ Becomes(s, "CREATED", "CANCELLED")
  PROVE  IInv'
<1>1. samples[s] \in SampleRow
  BY DEF IInv, TypeOK
<1>2. ASSUME NEW to \in {"STARTED", "COMPLETED", "CANCELLED"}, NEW from \in {"CREATED", "STARTED"},
             Becomes(s, from, to)
      PROVE  IInv'
  <2> DEFINE row == [samples[s] EXCEPT !.status = to]
  <2>1. /\ row \in SampleRow /\ row.prev = samples[s].prev /\ row.quote = samples[s].quote
        /\ row.order = samples[s].order /\ row.approval = samples[s].approval
        /\ row.bulk = samples[s].bulk
    BY <1>1 DEF SampleRow
  <2>2. samples' = [samples EXCEPT ![s] = row] /\ samples[s].status = from
    BY <1>2 DEF Becomes
  <2> HIDE DEF row
  <2>3. row.status # "CANCELLED" /\ row.approval # "APPROVED" => Blocks(s)
    BY <2>1, <2>2 DEF Blocks
  <2>4. UNCHANGED <<usage, rates, quote, bulk, lock, req>>
    BY <1>2 DEF Becomes
  <2> QED
    BY <2>1, <2>2, <2>3, <2>4, OnSampleKeeps
<1> QED
  BY <1>2

LEMMA DecideKeeps ==
  ASSUME IInv, NEW s \in DOMAIN samples, Decide(s)
  PROVE  IInv'
<1>1. PICK decision \in {"APPROVED", "REJECTED"} : samples' = [samples EXCEPT ![s].approval = decision]
  BY DEF Decide
<1> DEFINE row == [samples[s] EXCEPT !.approval = decision]
<1>2. samples[s] \in SampleRow /\ samples[s].approval = "PENDING" /\ samples[s].status = "COMPLETED"
  BY DEF IInv, TypeOK, Decide
<1>3. /\ row \in SampleRow /\ row.prev = samples[s].prev /\ row.quote = samples[s].quote
      /\ row.order = samples[s].order /\ row.bulk = samples[s].bulk
  BY <1>2 DEF SampleRow
<1>4. samples' = [samples EXCEPT ![s] = row] /\ Blocks(s)
  BY <1>1, <1>2 DEF Blocks
<1> HIDE DEF row
<1> QED
  BY <1>2, <1>3, <1>4, OnSampleKeeps DEF Decide

LEMMA CloseFinalKeeps ==
  ASSUME IInv, NEW s \in DOMAIN samples, CloseFinal(s)
  PROVE  IInv'
<1> DEFINE row == [samples[s] EXCEPT !.final = FALSE]
<1>1. samples[s] \in SampleRow
  BY DEF IInv, TypeOK
<1>2. /\ row \in SampleRow /\ row.prev = samples[s].prev /\ row.quote = samples[s].quote
      /\ row.order = samples[s].order /\ row.bulk = samples[s].bulk
      /\ row.status = samples[s].status /\ row.approval = samples[s].approval
  BY <1>1 DEF SampleRow
<1>3. samples' = [samples EXCEPT ![s] = row] /\ UNCHANGED <<usage, rates, quote, bulk, lock, req>>
  BY DEF CloseFinal
<1> HIDE DEF row
<1>4. row.status # "CANCELLED" /\ row.approval # "APPROVED" => Blocks(s)
  BY <1>2 DEF Blocks
<1> QED
  BY <1>2, <1>3, <1>4, OnSampleKeeps

(* A sample moves to a product quotation that nobody holds. *)
LEMMA RelinkKeeps ==
  ASSUME IInv, NEW s \in DOMAIN samples, NEW b \in Bulk, Relink(s, b)
  PROVE  IInv'
<1> DEFINE row == [samples[s] EXCEPT !.bulk = b]
<1>1. samples[s] \in SampleRow /\ Reachable(b)
  BY DEF IInv, TypeOK, Relink
<1>2. /\ row \in SampleRow /\ row.prev = samples[s].prev /\ row.quote = samples[s].quote
      /\ row.order = samples[s].order /\ row.bulk = b
      /\ row.status = samples[s].status /\ row.approval = samples[s].approval
  BY <1>1 DEF SampleRow
<1>3. samples' = [samples EXCEPT ![s] = row] /\ UNCHANGED <<usage, rates, quote, bulk, lock, req>>
  BY DEF Relink
<1> HIDE DEF row
<1>4. row.status # "CANCELLED" /\ row.approval # "APPROVED" => Blocks(s)
  BY <1>2 DEF Blocks
<1> QED
  BY <1>1, <1>2, <1>3, <1>4, OnSampleKeeps


(* A new sample, of a product quotation that nobody holds, or of none. *)
LEMMA CreateKeeps ==
  ASSUME IInv, NEW b \in Bulk \cup {None}, Create(b)
  PROVE  IInv'
<1> DEFINE row == NewSample(None, b, 0, FALSE)
<1>1. /\ TypeOK /\ CanGrow /\ samples' = Append(samples, row)
      /\ UNCHANGED <<usage, rates, quote, bulk, lock, req>> /\ (b # None => Free(b))
  BY QuotationsAssumption DEF IInv, TypeOK, Create, CanGrow, Reachable
<1>2. row \in SampleRow /\ row.prev = 0 /\ row.quote = None /\ row.bulk = b
  BY QuotationsAssumption DEF NewSample, SampleRow
<1>3. None \notin Quotes
  BY QuotationsAssumption
<1> HIDE DEF row
<1>4. /\ samples' \in Seq(SampleRow) /\ Len(samples') <= MaxSamples
      /\ \A t \in DOMAIN samples' : samples'[t].prev < t
      /\ DOMAIN samples \subseteq DOMAIN samples'
      /\ \A t \in DOMAIN samples : samples'[t] = samples[t]
      /\ \A p \in Quotes : Roots(p)' = Roots(p)
      /\ \A q \in Requests : (At(q, "paying") => Payable(q)') /\ (At(q, "quoting") => On(q) # row.prev)
                             => Checked(q)'
      /\ OneLine'
  BY <1>1, <1>2, <1>3, SampleAdded
<1>5. ASSUME NEW q \in Requests PROVE Checked(q)'
  <2>1. Asked(q) /\ Checked(q) /\ On(q)' = On(q)
    BY <1>1 DEF IInv, On
  <2>2. At(q, "paying") => Payable(q)'
    BY <1>1, <1>4, <2>1 DEF Asked, Checked, At, OnQuote, Payable
  <2>3. At(q, "quoting") => On(q) # row.prev
    BY <1>1, <1>2, <2>1 DEF Asked, At, OnSample, TypeOK
  <2> QED
    BY <1>4, <2>2, <2>3
<1>6. \A p \in Quotes : Paid(p)'
  BY <1>1, <1>4 DEF IInv, Paid
<1>7. TypeOK'
  BY <1>1, <1>4 DEF TypeOK
<1> QED
  BY <1>1, <1>4, <1>5, <1>6, <1>7, Stands

(* A successor takes the place of the sample it follows, whose row is held. *)
LEMMA InsertSuccessorKeeps ==
  ASSUME IInv, NEW r \in Requests, InsertSuccessor(r)
  PROVE  IInv'
<1>1. CASE HasSuccessor(On(r))
  BY <1>1, AnswerKeeps DEF InsertSuccessor, Ended
<1>2. CASE ~HasSuccessor(On(r))
  <2> DEFINE s == On(r)
             row == Successor(s)
  <2>1. /\ At(r, "insert") /\ CanGrow /\ samples' = Append(samples, row) /\ End(r, "saved")
        /\ UNCHANGED <<usage, rates, quote, bulk>>
        /\ Reachable(samples[s].bulk)
    BY <1>2 DEF InsertSuccessor
  <2>2. TypeOK /\ s \in DOMAIN samples /\ lock[s] = r /\ "saved" \in Ended
    BY <2>1 DEF IInv, Asked, At, OnSample, Holding, Ended
  <2>3. samples[s] \in SampleRow /\ s \in 0..MaxSamples /\ s # 0 /\ None \notin Quotes
    BY <2>2, QuotationsAssumption DEF TypeOK
  <2>4. row \in SampleRow /\ row.prev = s /\ row.quote = samples[s].quote /\ row.bulk = samples[s].bulk
    BY <2>3 DEF Successor, NewSample, SampleRow
  <2> HIDE DEF row, s
  <2>5. /\ samples' \in Seq(SampleRow) /\ Len(samples') <= MaxSamples
        /\ \A t \in DOMAIN samples' : samples'[t].prev < t
        /\ DOMAIN samples \subseteq DOMAIN samples'
        /\ \A t \in DOMAIN samples : samples'[t] = samples[t]
        /\ \A p : Roots(p)' = Roots(p)
        /\ \A q \in Requests :
             req'[q] = req[q] /\ (At(q, "paying") => Payable(q)') /\ (At(q, "quoting") => On(q) # s)
               => Checked(q)'
        /\ OneLine'
    BY <1>2, <2>1, <2>2, <2>3, <2>4, SampleAdded DEF Reachable, s
  <2>6. /\ req' \in [Requests -> Sessions] /\ lock' \in [Rows -> Requests \cup {None}]
        /\ \A q \in Requests \ {r} : req'[q] = req[q]
    BY <2>1, <2>2, EndFacts
  <2>7. ASSUME NEW q \in Requests \ {r} PROVE Checked(q)'
    <3>1. Asked(q) /\ Checked(q) /\ On(q)' = On(q)
      BY <2>6 DEF IInv, On
    <3>2. At(q, "paying") => Payable(q)'
      BY <2>1, <2>5, <2>6, <3>1 DEF Checked, Payable
    <3>3. At(q, "quoting") => On(q) # s
      BY <2>2, <3>1 DEF Asked, At, Holding
    <3> QED
      BY <2>5, <2>6, <3>2, <3>3
  <2>8. \A p \in Quotes : Paid(p)'
    BY <2>1, <2>5 DEF IInv, Paid
  <2>9. TypeOK'
    BY <2>1, <2>2, <2>5, <2>6 DEF TypeOK
  <2> QED
    BY <2>1, <2>5, <2>7, <2>8, <2>9, Ends
<1> QED
  BY <1>1, <1>2

(* A final quotation of a sample whose row is held. *)
LEMMA QuoteKeeps ==
  ASSUME IInv, NEW r \in Requests, Quote(r)
  PROVE  IInv'
<1>1. CASE samples[On(r)].final
  BY <1>1, AnswerKeeps DEF Quote, Ended
<1>2. CASE ~samples[On(r)].final
  <2> DEFINE s == On(r)
             row == [samples[s] EXCEPT !.final = TRUE]
  <2>1. /\ At(r, "quoting") /\ samples' = [samples EXCEPT ![s] = row] /\ End(r, "saved")
        /\ UNCHANGED <<usage, rates, quote, bulk>>
    BY <1>2 DEF Quote
  <2>2. TypeOK /\ s \in DOMAIN samples /\ "saved" \in Ended
    BY <2>1 DEF IInv, Asked, At, OnSample, Ended
  <2>3. samples[s] \in SampleRow
    BY <2>2 DEF TypeOK
  <2>4. /\ row \in SampleRow /\ row.prev = samples[s].prev /\ row.quote = samples[s].quote
        /\ row.order = samples[s].order /\ row.bulk = samples[s].bulk
        /\ row.status = samples[s].status /\ row.approval = samples[s].approval
    BY <2>3 DEF SampleRow
  <2> HIDE DEF row, s
  <2>5. row.status # "CANCELLED" /\ row.approval # "APPROVED" => Blocks(s)
    BY <2>4 DEF Blocks
  <2>6. /\ samples' \in Seq(SampleRow) /\ Len(samples') <= MaxSamples
        /\ \A t \in DOMAIN samples' : samples'[t].prev < t
        /\ DOMAIN samples' = DOMAIN samples
        /\ \A q \in Requests : req'[q] = req[q] => Checked(q)'
        /\ \A p \in Quotes : Paid(p)'
        /\ OneLine'
    BY <2>1, <2>2, <2>4, <2>5, SampleChanged
  <2>7. /\ req' \in [Requests -> Sessions] /\ lock' \in [Rows -> Requests \cup {None}]
        /\ \A q \in Requests \ {r} : req'[q] = req[q]
    BY <2>1, <2>2, EndFacts
  <2>8. TypeOK'
    BY <2>1, <2>2, <2>6, <2>7 DEF TypeOK
  <2> QED
    BY <2>1, <2>6, <2>7, <2>8, Ends
<1> QED
  BY <1>1, <1>2

(* A payment of what is not paid finds no original, and brings one. *)
LEMMA PayKeeps ==
  ASSUME IInv, NEW r \in Requests, Pay(r)
  PROVE  IInv'
<1> DEFINE p == On(r)
<1>1. /\ TypeOK /\ p \in Quotes /\ lock[p] = r /\ req[r].roots = Roots(p) /\ Paid(p)
      /\ quote[p].status = "CONFIRMED" /\ "saved" \in Ended
  BY DEF IInv, Pay, Asked, Checked, Payable, At, OnQuote, Holding, Ended
<1>2. CASE Cardinality(req[r].roots) > 1
  BY <1>2, AnswerKeeps DEF Pay, Ended
<1>3. CASE ~(Cardinality(req[r].roots) > 1) /\ quote[p].paid
  <2>1. req[r].roots # {}
    BY <1>1, <1>3 DEF Paid
  <2> QED
    BY <1>3, <2>1, AnswerKeeps DEF Pay, Ended
<1>4. CASE ~(Cardinality(req[r].roots) > 1) /\ ~quote[p].paid
  <2> DEFINE sample == NewSample(p, None, 0, TRUE)
             row == [quote[p] EXCEPT !.paid = TRUE, !.at = @ + 1, !.products = 1]
             n == Len(samples) + 1
  <2>1. req[r].roots = {} /\ Roots(p) = {} /\ quote[p].products = 0
    BY <1>1, <1>4 DEF Paid
  <2>2. /\ CanGrow /\ samples' = Append(samples, sample) /\ End(r, "saved")
        /\ UNCHANGED <<usage, rates, bulk>>
        /\ quote' = [quote EXCEPT ![p].paid = TRUE, ![p].at = @ + 1,
                                  ![p].products = IF @ = 0 THEN 1 ELSE @]
    BY <1>4, <2>1 DEF Pay
  <2>3. quote[p] \in QuoteRow /\ quote \in [Quotes -> QuoteRow]
    BY <1>1 DEF TypeOK
  <2>4. /\ row \in QuoteRow /\ row.status = quote[p].status /\ row.paid /\ row.products = 1
    <3> DEFINE mid == [quote[p] EXCEPT !.paid = TRUE]
               next == [mid EXCEPT !.at = quote[p].at + 1]
    <3>1. mid \in QuoteRow /\ mid.paid /\ mid.status = quote[p].status
      BY <2>3 DEF QuoteRow
    <3>2. quote[p].at + 1 \in Nat /\ row = [next EXCEPT !.products = 1]
      BY <2>3 DEF QuoteRow
    <3> HIDE DEF mid, row
    <3>3. next \in QuoteRow /\ next.paid /\ next.status = quote[p].status
      BY <3>1, <3>2 DEF QuoteRow
    <3> HIDE DEF next
    <3> QED
      BY <3>2, <3>3 DEF QuoteRow
  <2>5. quote' = [quote EXCEPT ![p] = row]
    BY <2>1, <2>2, <2>3
  <2>6. sample \in SampleRow /\ sample.prev = 0 /\ sample.quote = p /\ sample.bulk = None /\ sample.order
    BY <1>1, QuotationsAssumption DEF NewSample, SampleRow
  <2> HIDE DEF row, sample, p
  <2>7. quote' \in [Quotes -> QuoteRow] /\ quote'[p] = row /\ \A x \in Quotes \ {p} : quote'[x] = quote[x]
    BY <1>1, <2>3, <2>4, <2>5
  <2>8. /\ samples' \in Seq(SampleRow) /\ Len(samples') <= MaxSamples
        /\ \A t \in DOMAIN samples' : samples'[t].prev < t
        /\ DOMAIN samples' = DOMAIN samples \cup {n} /\ samples'[n] = sample
        /\ \A t \in DOMAIN samples : samples'[t] = samples[t]
        /\ \A x : Roots(x)' = IF p = x THEN Roots(x) \cup {n} ELSE Roots(x)
        /\ \A q \in Requests :
             req'[q] = req[q] /\ (At(q, "paying") => Payable(q)') /\ (At(q, "quoting") => On(q) # 0)
               => Checked(q)'
        /\ OneLine'
    BY <2>2, <2>6, SampleAdded
  <2>9. /\ req' \in [Requests -> Sessions] /\ lock' \in [Rows -> Requests \cup {None}]
        /\ \A q \in Requests \ {r} : req'[q] = req[q]
    BY <1>1, <2>2, EndFacts
  <2>10. ASSUME NEW q \in Requests \ {r} PROVE Checked(q)'
    <3>1. Asked(q) /\ Checked(q) /\ On(q)' = On(q) /\ req'[q] = req[q]
      BY <2>9 DEF IInv, On
    <3>2. ASSUME At(q, "paying") PROVE Payable(q)'
      <4>1. On(q) \in Quotes /\ On(q) # p /\ Payable(q)
        BY <1>1, <3>1, <3>2 DEF Asked, Checked, At, OnQuote, Holding
      <4> QED
        BY <2>7, <2>8, <3>1, <4>1 DEF Payable
    <3>3. At(q, "quoting") => On(q) # 0
      BY <1>1, <3>1 DEF Asked, At, OnSample, TypeOK
    <3> QED
      BY <2>8, <3>1, <3>2, <3>3
  <2>11. ASSUME NEW x \in Quotes PROVE Paid(x)'
    <3>1. CASE x = p
      <4>1. Roots(x)' = {n} /\ n \in DOMAIN samples' /\ samples'[n].order
        BY <2>1, <2>6, <2>8, <3>1
      <4> QED
        BY <1>1, <2>4, <2>7, <3>1, <4>1 DEF Paid
    <3>2. CASE x # p
      BY <2>7, <2>8, <3>2 DEF IInv, Paid
    <3> QED
      BY <3>1, <3>2
  <2>12. TypeOK'
    BY <1>1, <2>2, <2>7, <2>8, <2>9 DEF TypeOK
  <2> QED
    BY <2>2, <2>8, <2>10, <2>11, <2>12, Ends
<1> QED
  BY <1>2, <1>3, <1>4


-----------------------------------------------------------------------------
(* The invariant, and what follows from it.                                 *)
LEMMA InitInv == Init => IInv
<1> SUFFICES ASSUME Init PROVE IInv
  OBVIOUS
<1>1. Session("idle") \in Sessions /\ Session("idle").pc = "idle"
  BY DEF Session, Sessions
<1> DEFINE Blank == [status : {"none"}, paid : {FALSE}, input : Inputs, frozen : {None},
                     at : {0}, products : {0}]
<1>0. /\ quote \in [Quotes -> QuoteRow]
      /\ \A p \in Quotes : ~quote[p].paid /\ quote[p].products = 0
  <2>1. quote \in [Quotes -> Blank]
    BY DEF Init
  <2>2. ASSUME NEW row \in Blank PROVE row \in QuoteRow /\ ~row.paid /\ row.products = 0
    <3>1. /\ row.status = "none" /\ row.paid = FALSE /\ row.input \in Inputs /\ row.frozen = None
          /\ row.at = 0 /\ row.products = 0
          /\ row = [status |-> row.status, paid |-> row.paid, input |-> row.input,
                    frozen |-> row.frozen, at |-> row.at, products |-> row.products]
      BY <2>2
    <3> HIDE DEF Blank
    <3>2. row.status \in {"none", "DRAFT", "CONFIRMED", "CANCELLED"}
      BY <3>1
    <3>3. row.frozen \in Figures \cup {None} /\ row.input \in Inputs
      BY <3>1
    <3>4. row.paid \in BOOLEAN
      BY <3>1, Zenon
    <3>5. row.at \in Nat /\ row.products \in Nat
      BY <3>1
    <3>6. ~row.paid
      BY <3>1
    <3>7. row \in QuoteRow
      BY <3>1, <3>2, <3>3, <3>4, <3>5, Zenon DEF QuoteRow
    <3> QED
      BY <3>1, <3>6, <3>7
  <2> HIDE DEF Blank
  <2> QED
    BY <2>1, <2>2
<1> HIDE DEF Blank
<1>2. TypeOK
  <2>1. quote \in [Quotes -> QuoteRow]
    BY <1>0
  <2>2. bulk \in [Bulk -> BulkRow]
    BY DEF Init, BulkRow
  <2>3. samples = <<>> /\ samples \in Seq(SampleRow) /\ Len(samples) <= MaxSamples
    BY QuotationsAssumption DEF Init
  <2>4. lock \in [Rows -> Requests \cup {None}] /\ req \in [Requests -> Sessions]
    BY <1>1 DEF Init
  <2> QED
    BY <2>1, <2>2, <2>3, <2>4 DEF Init, TypeOK
<1>3. \A r \in Requests : Asked(r) /\ Checked(r)
  BY <1>1 DEF Init, Asked, Checked, At, OnQuote, OnSample, OnBulk, Holding
<1>4. \A p \in Quotes : Paid(p)
  <2>1. \A p : Roots(p) = {}
    BY DEF Init, Roots
  <2> QED
    BY <1>0, <2>1 DEF Paid
<1>5. OneLine
  BY DEF Init, OneLine
<1> QED
  BY <1>2, <1>3, <1>4, <1>5 DEF IInv

LEMMA NextInv == IInv /\ [Next]_vars => IInv'
<1> SUFFICES ASSUME IInv, [Next]_vars PROVE IInv'
  OBVIOUS
<1>1. ASSUME NEW r \in Requests, Step(r) PROVE IInv'
  BY <1>1, EditKeeps, LockToPayKeeps, PayKeeps, LockPreviousKeeps, InsertSuccessorKeeps,
     LockToQuoteKeeps, QuoteKeeps, LockToStartKeeps, ReadRootsKeeps, WalkKeeps, StartKeeps DEF Step
<1>2. ASSUME NEW r \in Requests, Arrive(r) \/ RollBack(r) PROVE IInv'
  BY <1>2, ArriveKeeps, RollBackKeeps
<1>3. ASSUME NEW p \in Quotes, CreateDraft(p) \/ Confirm(p) \/ Cancel(p) PROVE IInv'
  BY <1>3, CreateDraftKeeps, ConfirmKeeps, CancelKeeps
<1>4. CASE ChangeRates
  BY <1>4, ChangeRatesKeeps
<1>5. ASSUME NEW b \in Bulk \cup {None}, Create(b) PROVE IInv'
  BY <1>5, CreateKeeps
<1>6. ASSUME NEW s \in DOMAIN samples,
             \/ Work(s) \/ CancelSample(s) \/ Decide(s) \/ CloseFinal(s)
             \/ \E b \in Bulk : Relink(s, b)
      PROVE  IInv'
  BY <1>6, BecomesKeeps, DecideKeeps, CloseFinalKeeps, RelinkKeeps DEF Work, CancelSample
<1>7. ASSUME NEW b \in Bulk, PayBulk(b) PROVE IInv'
  BY <1>7, PayBulkKeeps
<1>8. CASE UNCHANGED vars
  <2>1. TypeOK' /\ (\A p \in Quotes : Paid(p)') /\ OneLine'
    BY <1>8 DEF IInv, TypeOK, Paid, Roots, OneLine, vars, rows
  <2>2. \A q \in Requests : Checked(q)'
    BY <1>8 DEF IInv, Checked, At, On, Payable, Quotable, ReadAll, Startable, Roots,
       HasSuccessor, SamplesOf, InForce, Blocks, vars, rows
  <2> QED
    BY <1>8, <2>1, <2>2, Stands DEF vars, rows
<1> QED
  BY <1>1, <1>2, <1>3, <1>4, <1>5, <1>6, <1>7, <1>8 DEF Next

(* The inductive invariant holds in every state of every behaviour. *)
THEOREM Invariance == Spec => []IInv
BY InitInv, NextInv, PTL DEF Spec

(* Every variable keeps its type, and samples only follow older ones. *)
THEOREM TypeCorrect == Spec => []TypeOK
BY Invariance, PTL DEF IInv

(* However often a quotation is paid, and by however many at once, it       *)
(* brings one product, one original with its order, and one line of         *)
(* samples.                                                                 *)
THEOREM PaidOnce == Spec => []OneLinePerPayment
<1>1. IInv => OneLinePerPayment
  <2> SUFFICES ASSUME IInv PROVE OneLinePerPayment
    OBVIOUS
  <2>1. ASSUME NEW p \in Quotes
        PROVE  LET born == IF quote[p].paid THEN 1 ELSE 0
               IN  /\ quote[p].products = born
                   /\ Cardinality({s \in DOMAIN samples : samples[s].quote = p /\ samples[s].prev = 0}) = born
                   /\ \A s \in DOMAIN samples :
                        samples[s].quote = p /\ samples[s].prev = 0 => samples[s].order
    <3>1. Paid(p) /\ Roots(p) = {s \in DOMAIN samples : samples[s].quote = p /\ samples[s].prev = 0}
      BY DEF IInv, Roots
    <3>2. CASE quote[p].paid
      <4>1. PICK s \in DOMAIN samples : Roots(p) = {s} /\ samples[s].order
        BY <3>1, <3>2 DEF Paid
      <4>2. Cardinality({s}) = 1
        BY FS_Singleton
      <4> QED
        BY <3>1, <3>2, <4>1, <4>2 DEF Paid
    <3>3. CASE ~quote[p].paid
      <4>1. Roots(p) = {} /\ Cardinality({}) = 0
        BY <3>1, <3>3, FS_EmptySet DEF Paid
      <4> QED
        BY <3>1, <3>3, <4>1 DEF Paid
    <3> QED
      BY <3>2, <3>3
  <2>2. OneLine
    BY DEF IInv
  <2> QED
    BY <2>1, <2>2 DEF OneLinePerPayment, OneLine
<1> QED
  BY <1>1, Invariance, PTL


-----------------------------------------------------------------------------
(* A step of one request leaves the others where they were.                 *)
LEMMA OthersStand ==
  ASSUME TypeOK, NEW q \in Requests, Arrive(q) \/ Step(q) \/ RollBack(q), NEW r \in Requests \ {q}
  PROVE  req'[r] = req[r]
<1>1. ASSUME NEW pc, Answer(q, pc) \/ End(q, pc) PROVE req'[r] = req[r]
  BY <1>1 DEF Answer, End, TypeOK
<1>2. CASE Arrive(q)
  BY <1>2 DEF Arrive, AskEdit, AskPay, AskNext, AskQuote, AskStart, TypeOK
<1>3. CASE Edit(q) \/ Pay(q) \/ InsertSuccessor(q) \/ Quote(q) \/ Start(q) \/ RollBack(q)
  BY <1>1, <1>3 DEF Edit, Pay, InsertSuccessor, Quote, Start, RollBack
<1>4. CASE LockToPay(q) \/ LockPrevious(q) \/ LockToQuote(q) \/ LockToStart(q) \/ Walk(q)
  BY <1>1, <1>4 DEF LockToPay, LockPrevious, LockToQuote, LockToStart, Walk, Goto, TypeOK
<1>5. CASE ReadRoots(q)
  BY <1>5 DEF ReadRoots, TypeOK
<1> QED
  BY <1>2, <1>3, <1>4, <1>5 DEF Step

(* What a step may do to what was offered. *)
Offered(p) ==
  /\ quote[p].status = "CONFIRMED" =>
       \/ quote'[p].status = "CANCELLED"
       \/ quote'[p].status = "CONFIRMED" /\ quote'[p].frozen = quote[p].frozen
          /\ quote'[p].input = quote[p].input
  /\ quote[p].paid => quote'[p].paid /\ quote'[p].status = "CONFIRMED"

LEMMA OfferedByStep ==
  ASSUME IInv, [Next]_vars, NEW p \in Quotes
  PROVE  Offered(p)
<1>1. TypeOK /\ quote \in [Quotes -> QuoteRow] /\ (quote[p].paid => quote[p].status = "CONFIRMED")
  BY DEF IInv, TypeOK, Paid
<1>2. CASE quote' = quote
  BY <1>1, <1>2 DEF Offered
<1>3. ASSUME NEW x \in Quotes, CreateDraft(x) PROVE Offered(p)
  BY <1>1, <1>3 DEF CreateDraft, Offered
<1>4. ASSUME NEW x \in Quotes, Confirm(x) PROVE Offered(p)
  BY <1>1, <1>4 DEF Confirm, Offered
<1>5. ASSUME NEW x \in Quotes, Cancel(x) PROVE Offered(p)
  BY <1>1, <1>5 DEF Cancel, Cancellable, Offered
<1>6. ASSUME NEW r \in Requests, Edit(r) PROVE Offered(p)
  <2>1. CASE quote[On(r)].status = "DRAFT" /\ \E input \in Inputs :
               quote' = [quote EXCEPT ![On(r)].input = input, ![On(r)].at = @ + 1]
    BY <1>1, <2>1 DEF Offered
  <2> QED
    BY <1>2, <1>6, <2>1 DEF Edit, Answer, rows
<1>7. ASSUME NEW r \in Requests, Pay(r) PROVE Offered(p)
  <2>1. CASE quote' = [quote EXCEPT ![On(r)].paid = TRUE, ![On(r)].at = @ + 1,
                                    ![On(r)].products = IF @ = 0 THEN 1 ELSE @]
    <3>1. CASE p # On(r)
      BY <1>1, <1>2, <2>1, <3>1 DEF Offered
    <3>2. CASE p = On(r)
      <4>1. quote'[p].paid /\ quote'[p].status = quote[p].status /\ quote'[p].frozen = quote[p].frozen
            /\ quote'[p].input = quote[p].input
        BY <1>1, <2>1, <3>2 DEF QuoteRow
      <4> QED
        BY <1>1, <4>1 DEF Offered
    <3> QED
      BY <3>1, <3>2
  <2> QED
    BY <1>2, <1>7, <2>1 DEF Pay, Answer, rows
<1>8. ASSUME NEW r \in Requests,
             \/ Arrive(r) \/ LockToPay(r) \/ LockPrevious(r) \/ InsertSuccessor(r) \/ LockToQuote(r)
             \/ Quote(r) \/ LockToStart(r) \/ ReadRoots(r) \/ Walk(r) \/ Start(r) \/ RollBack(r)
      PROVE  quote' = quote
  BY <1>8 DEF Arrive, AskEdit, AskPay, AskNext, AskQuote, AskStart, LockToPay, LockPrevious,
     InsertSuccessor, LockToQuote, Quote, LockToStart, ReadRoots, Walk, Start, RollBack, Answer, rows
<1>9. ASSUME \/ ChangeRates \/ \E b \in Bulk \cup {None} : Create(b)
             \/ \E s \in DOMAIN samples :
                  Work(s) \/ CancelSample(s) \/ Decide(s) \/ CloseFinal(s) \/ \E b \in Bulk : Relink(s, b)
             \/ \E b \in Bulk : PayBulk(b)
      PROVE  quote' = quote
  BY <1>9 DEF ChangeRates, Create, Work, CancelSample, Becomes, Decide, CloseFinal, Relink, PayBulk
<1>10. CASE UNCHANGED vars
  BY <1>2, <1>10 DEF vars, rows
<1> QED
  BY <1>2, <1>3, <1>4, <1>5, <1>6, <1>7, <1>8, <1>9, <1>10 DEF Next, Step

(* An edit that is saved had seen what it overwrites, or did not say. *)
LEMMA EditedAsSeen ==
  ASSUME IInv, [Next]_vars, NEW r \in Requests, req[r].pc = "edit", req'[r].pc = "saved",
         req[r].token # None
  PROVE  req[r].token = quote[req[r].on].at
<1>1. TypeOK /\ req \in [Requests -> Sessions] /\ req'[r] # req[r]
  BY DEF IInv, TypeOK
<1>2. CASE Edit(r)
  <2>1. CASE Answer(r, "refused")
    BY <1>1, <2>1 DEF Answer, End, Session
  <2>2. CASE Fresh(r)
    BY <2>2 DEF Fresh, On
  <2> QED
    BY <1>2, <2>1, <2>2 DEF Edit
<1>3. CASE RollBack(r)
  BY <1>1, <1>3 DEF RollBack, Answer, End, Session
<1>4. CASE Arrive(r) \/ (Step(r) /\ ~Edit(r))
  BY <1>4 DEF Arrive, AskEdit, AskPay, AskNext, AskQuote, AskStart, Step, LockToPay, Pay, LockPrevious,
     InsertSuccessor, LockToQuote, Quote, LockToStart, ReadRoots, Walk, Start, At
<1>5. ASSUME NEW q \in Requests, Arrive(q) \/ Step(q) \/ RollBack(q) PROVE q = r
  BY <1>1, <1>5, OthersStand
<1>6. ASSUME \/ \E p \in Quotes : CreateDraft(p) \/ Confirm(p) \/ Cancel(p)
             \/ ChangeRates \/ \E b \in Bulk \cup {None} : Create(b)
             \/ \E s \in DOMAIN samples :
                  Work(s) \/ CancelSample(s) \/ Decide(s) \/ CloseFinal(s) \/ \E b \in Bulk : Relink(s, b)
             \/ \E b \in Bulk : PayBulk(b)
             \/ UNCHANGED vars
      PROVE  req' = req
  BY <1>6 DEF CreateDraft, Confirm, Cancel, ChangeRates, Create, Work, CancelSample, Becomes, Decide,
     CloseFinal, Relink, PayBulk, vars
<1> QED
  BY <1>1, <1>2, <1>3, <1>4, <1>5, <1>6 DEF Next

(* What was issued is shown with the same figures until it is cancelled,    *)
(* what is paid stays confirmed, and an edit that names what its screen     *)
(* showed overwrites nothing else.                                          *)
THEOREM OfferStands == Spec => OfferKept
<1> DEFINE Kept ==
      /\ \A p \in Quotes :
           /\ quote[p].status = "CONFIRMED" =>
                quote'[p].status = "CANCELLED" \/ (Shown(p)' = Shown(p) /\ quote'[p].input = quote[p].input)
           /\ quote[p].paid => quote'[p].paid /\ quote'[p].status = "CONFIRMED"
      /\ \A r \in Requests :
           req[r].pc = "edit" /\ req'[r].pc = "saved" /\ req[r].token # None
             => req[r].token = quote[req[r].on].at
<1>1. IInv /\ [Next]_vars => Kept
  BY OfferedByStep, EditedAsSeen DEF Offered, Shown
<1>2. IInv /\ [Next]_vars => [Kept]_vars
  BY <1>1
<1> HIDE DEF Kept
<1>3. Spec => [][Kept]_vars
  BY <1>2, Invariance, PTL DEF Spec
<1> QED
  BY <1>3 DEF OfferKept, Kept

Gates ==
  /\ \A b \in Bulk : StartedOnApproved(b)
  /\ \A s \in DOMAIN samples : QuotedInForce(s)

(* A step through either gate relies on what its request checked under the  *)
(* lock of the row.                                                         *)
LEMMA GateStep ==
  ASSUME IInv, [Next]_vars
  PROVE  Gates
<1>1. TypeOK /\ bulk \in [Bulk -> BulkRow] /\ samples \in Seq(SampleRow)
  BY DEF IInv, TypeOK
<1>2. CASE bulk' = bulk /\ samples' = samples
  BY <1>2 DEF Gates, StartedOnApproved, QuotedInForce
<1>3. ASSUME NEW row, bulk' = bulk, samples' = Append(samples, row) PROVE Gates
  <2>1. \A s \in DOMAIN samples : samples'[s] = samples[s]
    BY <1>1, <1>3
  <2> QED
    BY <1>3, <2>1 DEF Gates, StartedOnApproved, QuotedInForce
<1>4. ASSUME NEW s \in DOMAIN samples,
             Work(s) \/ CancelSample(s) \/ Decide(s) \/ CloseFinal(s) \/ \E b \in Bulk : Relink(s, b)
      PROVE  Gates
  <2>1. bulk' = bulk
    BY <1>4 DEF Work, CancelSample, Becomes, Decide, CloseFinal, Relink
  <2>2. samples[s] \in SampleRow
    BY <1>1
  <2>3. \A t \in DOMAIN samples : samples'[t].final => samples[t].final
    BY <1>1, <1>4, <2>2 DEF Work, CancelSample, Becomes, Decide, CloseFinal, Relink, SampleRow
  <2> QED
    BY <2>1, <2>3 DEF Gates, StartedOnApproved, QuotedInForce
<1>5. ASSUME NEW b \in Bulk, PayBulk(b) PROVE Gates
  BY <1>1, <1>5 DEF PayBulk, Gates, StartedOnApproved, QuotedInForce, BulkRow
<1>6. ASSUME NEW r \in Requests, Start(r) PROVE Gates
  <2>1. /\ Startable(r) /\ bulk' = [bulk EXCEPT ![On(r)].order = "STARTED"] /\ samples' = samples
    BY <1>6 DEF Start, IInv, Checked
  <2>2. \A b \in Bulk : bulk'[b].order # bulk[b].order => b = On(r)
    BY <1>1, <2>1
  <2> QED
    BY <2>1, <2>2 DEF Startable, Gates, StartedOnApproved, QuotedInForce
<1>7. ASSUME NEW r \in Requests, Quote(r) PROVE Gates
  <2>1. CASE Answer(r, "clash")
    BY <1>2, <2>1 DEF Answer, rows
  <2>2. CASE ~Answer(r, "clash")
    <3>1. /\ Quotable(r) /\ samples' = [samples EXCEPT ![On(r)].final = TRUE] /\ bulk' = bulk
      BY <1>7, <2>2 DEF Quote, IInv, Checked
    <3>2. \A s \in DOMAIN samples : s # On(r) => samples'[s] = samples[s]
      BY <1>1, <3>1
    <3> QED
      BY <3>1, <3>2 DEF Quotable, Gates, StartedOnApproved, QuotedInForce
  <2> QED
    BY <2>1, <2>2
<1>8. ASSUME NEW r \in Requests, Pay(r) PROVE Gates
  <2>1. CASE UNCHANGED rows
    BY <1>2, <2>1 DEF rows
  <2>2. CASE ~UNCHANGED rows
    <3>1. Payable(r) /\ Paid(On(r)) /\ bulk' = bulk
      BY <1>8, <2>2 DEF Pay, Answer, IInv, Checked, Asked, At, OnQuote
    <3>2. req[r].roots = {}
      BY <1>8, <2>2, <3>1 DEF Pay, Answer, Payable, Paid
    <3> QED
      BY <1>3, <1>8, <2>2, <3>1, <3>2 DEF Pay, Answer
  <2> QED
    BY <2>1, <2>2
<1>9. ASSUME NEW r \in Requests, InsertSuccessor(r) PROVE Gates
  <2>1. CASE UNCHANGED rows
    BY <1>2, <2>1 DEF rows
  <2>2. CASE ~UNCHANGED rows
    BY <1>3, <1>9, <2>2 DEF InsertSuccessor, Answer
  <2> QED
    BY <2>1, <2>2
<1>10. ASSUME NEW b \in Bulk \cup {None}, Create(b) PROVE Gates
  BY <1>3, <1>10 DEF Create
<1>11. ASSUME NEW r \in Requests,
             \/ Arrive(r) \/ Edit(r) \/ LockToPay(r) \/ LockPrevious(r) \/ LockToQuote(r)
             \/ LockToStart(r) \/ ReadRoots(r) \/ Walk(r) \/ RollBack(r)
      PROVE  bulk' = bulk /\ samples' = samples
  BY <1>11 DEF Arrive, AskEdit, AskPay, AskNext, AskQuote, AskStart, Edit, LockToPay, LockPrevious,
     LockToQuote, LockToStart, ReadRoots, Walk, RollBack, Answer, rows
<1>12. ASSUME \/ \E p \in Quotes : CreateDraft(p) \/ Confirm(p) \/ Cancel(p)
              \/ ChangeRates \/ UNCHANGED vars
       PROVE  bulk' = bulk /\ samples' = samples
  BY <1>12 DEF CreateDraft, Confirm, Cancel, ChangeRates, vars, rows
<1>13. CASE bulk' = bulk /\ samples' = samples
  BY <1>2, <1>13
<1>14. ASSUME NEW r \in Requests, Arrive(r) \/ Step(r) \/ RollBack(r) PROVE Gates
  BY <1>6, <1>7, <1>8, <1>9, <1>11, <1>13, <1>14 DEF Step
<1> QED
  BY <1>4, <1>5, <1>10, <1>12, <1>13, <1>14 DEF Next

(* The two gates, whatever is created, moved, decided or replaced between   *)
(* the check and the commit.                                                *)
THEOREM GatesHold == Spec => OnlyApprovedGoesOn
<1>1. IInv /\ [Next]_vars => [Gates]_vars
  BY GateStep
<1>2. Spec => [][Gates]_vars
  BY <1>1, Invariance, PTL DEF Spec
<1> QED
  BY <1>2 DEF OnlyApprovedGoesOn, Gates
=============================================================================
