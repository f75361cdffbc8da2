----------------------- MODULE QuoterV2Lifecycle_proofs -----------------------
(***************************************************************************)
(* Proofs about QuoterV2Lifecycle, for any number of quotations and of     *)
(* requests, any bounds and any validity.                                  *)
(*                                                                         *)
(* IInv says what a request can rely on between its first read and its     *)
(* commit, since it holds the header all the while, and that a quotation   *)
(* with a duplicate is over for good: nothing brings a cancelled one back, *)
(* and the clock does not go back either.  The invariants follow from it,  *)
(* and every step from a state of IInv is a step of the book of offers.    *)
(***************************************************************************)
EXTENDS QuoterV2Lifecycle, TLAPS

(* A request at work holds the header of a quotation that exists, alone. *)
Holder(r) ==
  IF At(r, "idle") THEN Quote(r) = None
                   ELSE Quote(r) \in Quotations /\ status[Quote(r)] # "NONE"

Alone == \A r, s \in Requests : Quote(r) = Quote(s) => r = s \/ Quote(r) = None

(* Neither can be sold any more: what was cancelled, and what expired.  *)
Over(q) ==
  \/ status[q] = "CANCELLED"
  \/ status[q] = "CONFIRMED" /\ handoff[q] = None /\ now >= expires[q]

IsSource(q) == \E d \in Quotations : source[d] = q

HasOpenDuplicate(q) == \E d \in Quotations : source[d] = q /\ status[d] = "DRAFT"

(* What a request checked is still so when it writes. *)
Pending(r) ==
  /\ At(r, "issue") => /\ status[Quote(r)] = "DRAFT"
                       /\ req[r].doc \in Documents /\ req[r].doc = shown[Quote(r)]
  /\ At(r, "send") => /\ status[Quote(r)] = "CONFIRMED" /\ handoff[Quote(r)] = None
                      /\ InTerm(Quote(r), req[r].at) /\ ~IsSource(Quote(r))
  /\ At(r, "copy") => Over(Quote(r)) /\ ~HasOpenDuplicate(Quote(r))

(* What the columns of a header say together. *)
Header(q) ==
  /\ issued[q] # None => status[q] \in {"CONFIRMED", "CANCELLED"} /\ issued[q] = shown[q]
  /\ status[q] = "CONFIRMED" => issued[q] # None /\ expires[q] - Validity <= now
  /\ handoff[q] # None => status[q] = "CONFIRMED" /\ InTerm(q, handoff[q])
  /\ status[q] = "NONE" => source[q] = None

Sourced(d) == source[d] # None => Over(source[d])

IInv ==
  /\ TypeOK
  /\ Alone
  /\ \A r \in Requests : Holder(r) /\ Pending(r)
  /\ \A q \in Quotations : Header(q) /\ Sourced(q)
  /\ OneOpenDuplicate

-----------------------------------------------------------------------------
(* What taking up a quotation, and finishing with it, say of the requests. *)
LEMMA GotoFacts ==
  ASSUME TypeOK, NEW r \in Requests, NEW pc \in {"issue", "send", "copy"}, NEW q \in Quotations,
         NEW d \in Documents \cup {None}, NEW t \in Times, Goto(r, pc, q, d, t)
  PROVE  /\ At(r, "idle")
         /\ \A x : At(r, x)' <=> x = pc
         /\ Quote(r)' = q /\ req'[r].doc = d /\ req'[r].at = t
         /\ \A s \in Requests \ {r} : req'[s] = req[s]
         /\ req' \in [Requests -> [pc : {"idle", "issue", "send", "copy"},
              quote : Quotations \cup {None}, doc : Documents \cup {None}, at : Times]]
BY DEF TypeOK, Goto, At, Quote

LEMMA EndFacts ==
  ASSUME TypeOK, NEW r \in Requests, End(r)
  PROVE  /\ \A x : At(r, x)' <=> x = "idle"
         /\ Quote(r)' = None
         /\ \A s \in Requests \ {r} : req'[s] = req[s]
         /\ req' \in [Requests -> [pc : {"idle", "issue", "send", "copy"},
              quote : Quotations \cup {None}, doc : Documents \cup {None}, at : Times]]
<1>1. Idle \in [pc : {"idle", "issue", "send", "copy"}, quote : Quotations \cup {None},
                doc : Documents \cup {None}, at : Times]
  BY LifecycleAssumption DEF Idle, Times
<1> QED
  BY <1>1 DEF TypeOK, End, Idle, At, Quote

(* A paper is a document. *)
LEMMA DocumentType ==
  ASSUME TypeOK, NEW q \in Quotations
  PROVE  Document(q) \in Documents
BY DEF TypeOK, Document, Documents

(* A draft that is born. *)
LEMMA CreateKeeps ==
  ASSUME IInv, NEW q \in Quotations, CreateDraft(q)
  PROVE  IInv'
<1>1. TypeOK'
  BY LifecycleAssumption DEF IInv, TypeOK, Status, Documents, Times, CreateDraft
<1>2. Alone'
  BY DEF IInv, TypeOK, Alone, Holder, Quote, At, CreateDraft
<1>3. ASSUME NEW s \in Requests PROVE Holder(s)'
  BY <1>1, LifecycleAssumption DEF IInv, TypeOK, Alone, Holder, Quote, At, CreateDraft
<1>4. ASSUME NEW s \in Requests PROVE Pending(s)'
  <2>1. Holder(s) /\ Pending(s) /\ TypeOK /\ Alone
    BY DEF IInv
  <2>2. (At(s, "issue") => /\ status[Quote(s)] = "DRAFT"
                         /\ req[s].doc \in Documents /\ req[s].doc = shown[Quote(s)])'
    BY <2>1, LifecycleAssumption DEF TypeOK, Alone, Holder, Pending, Quote, At, CreateDraft
  <2>3. (At(s, "send") => /\ status[Quote(s)] = "CONFIRMED" /\ handoff[Quote(s)] = None
                        /\ InTerm(Quote(s), req[s].at) /\ ~IsSource(Quote(s)))'
    BY <2>1, LifecycleAssumption DEF InTerm, IInv, TypeOK, Alone, Holder, Pending, Header, Sourced, Over, IsSource, Quote, At, CreateDraft
  <2>4. (At(s, "copy") => Over(Quote(s)))'
    BY <2>1, LifecycleAssumption DEF IInv, TypeOK, Times, Status, Alone, Holder, Pending, Header, Over, Quote, At, CreateDraft
  <2>5. (At(s, "copy") => ~HasOpenDuplicate(Quote(s)))'
    BY <2>1, LifecycleAssumption DEF IInv, TypeOK, Alone, Holder, Pending, Header, HasOpenDuplicate, OpenDuplicates, Quote, At, CreateDraft
  <2> QED
    BY <2>2, <2>3, <2>4, <2>5 DEF Pending
<1>5. ASSUME NEW p \in Quotations PROVE Header(p)'
  BY LifecycleAssumption DEF InTerm, IInv, TypeOK, Times, Documents, Holder, Pending, Header, Quote, At, CreateDraft
<1>6. ASSUME NEW p \in Quotations PROVE Sourced(p)'
  BY LifecycleAssumption DEF IInv, TypeOK, Times, Status, Holder, Pending, Header, Sourced, Over, IsSource, Quote, At, CreateDraft
<1>7. OneOpenDuplicate'
  BY DEF IInv, TypeOK, OneOpenDuplicate, Holder, Pending, Header, HasOpenDuplicate, Quote, At, CreateDraft
<1> QED
  BY <1>1, <1>2, <1>3, <1>4, <1>5, <1>6, <1>7 DEF IInv

(* A draft that is edited. *)
LEMMA EditKeeps ==
  ASSUME IInv, NEW q \in Quotations, Edit(q)
  PROVE  IInv'
<1>1. TypeOK'
  <2>1. PICK c \in {draft[q].client, TRUE} :
          draft' = [draft EXCEPT ![q] = [content |-> edition', client |-> c]]
    BY DEF Edit
  <2>2. c \in BOOLEAN
    BY ZenonT(30) DEF IInv, TypeOK
  <2>3. edition' \in 0..MaxContent
    BY LifecycleAssumption DEF IInv, TypeOK, Edit
  <2>4. draft' \in [Quotations -> [content : 0..MaxContent, client : BOOLEAN]]
    BY <2>1, <2>2, <2>3 DEF IInv, TypeOK
  <2> QED
    BY <2>3, <2>4 DEF IInv, TypeOK, Edit
<1>2. Alone'
  BY DEF IInv, TypeOK, Alone, Holder, Quote, At, Edit, Locked
<1>3. ASSUME NEW s \in Requests PROVE Holder(s)'
  BY <1>1, LifecycleAssumption DEF IInv, TypeOK, Alone, Holder, Quote, At, Edit, Locked
<1>4. ASSUME NEW s \in Requests PROVE Pending(s)'
  <2>1. Holder(s) /\ Pending(s) /\ TypeOK /\ Alone
    BY DEF IInv
  <2>2. (At(s, "issue") => /\ status[Quote(s)] = "DRAFT"
                         /\ req[s].doc \in Documents /\ req[s].doc = shown[Quote(s)])'
    BY <2>1, LifecycleAssumption DEF TypeOK, Alone, Holder, Pending, Quote, At, Edit, Locked
  <2>3. (At(s, "send") => /\ status[Quote(s)] = "CONFIRMED" /\ handoff[Quote(s)] = None
                        /\ InTerm(Quote(s), req[s].at) /\ ~IsSource(Quote(s)))'
    BY <2>1, LifecycleAssumption DEF InTerm, IInv, TypeOK, Alone, Holder, Pending, Header, Sourced, Over, IsSource, Quote, At, Edit, Locked
  <2>4. (At(s, "copy") => Over(Quote(s)))'
    BY <2>1, LifecycleAssumption DEF IInv, TypeOK, Times, Status, Alone, Holder, Pending, Header, Over, Quote, At, Edit, Locked
  <2>5. (At(s, "copy") => ~HasOpenDuplicate(Quote(s)))'
    BY <2>1, LifecycleAssumption DEF IInv, TypeOK, Alone, Holder, Pending, Header, HasOpenDuplicate, OpenDuplicates, Quote, At, Edit, Locked
  <2> QED
    BY <2>2, <2>3, <2>4, <2>5 DEF Pending
<1>5. ASSUME NEW p \in Quotations PROVE Header(p)'
  BY LifecycleAssumption DEF InTerm, IInv, TypeOK, Times, Documents, Holder, Pending, Header, Quote, At, Edit, Locked
<1>6. ASSUME NEW p \in Quotations PROVE Sourced(p)'
  BY LifecycleAssumption DEF IInv, TypeOK, Times, Status, Holder, Pending, Header, Sourced, Over, IsSource, Quote, At, Edit, Locked
<1>7. OneOpenDuplicate'
  BY DEF IInv, TypeOK, OneOpenDuplicate, Holder, Pending, Header, HasOpenDuplicate, Quote, At, Edit, Locked
<1> QED
  BY <1>1, <1>2, <1>3, <1>4, <1>5, <1>6, <1>7 DEF IInv

(* A draft that is shown. *)
LEMMA PreviewKeeps ==
  ASSUME IInv, NEW q \in Quotations, Preview(q)
  PROVE  IInv'
<1>0. Document(q) \in Documents
  BY DocumentType DEF IInv
<1>1. TypeOK'
  BY <1>0, LifecycleAssumption DEF IInv, TypeOK, Status, Documents, Times, Preview, Locked, rows, headers
<1>2. Alone'
  BY <1>0 DEF IInv, TypeOK, Alone, Holder, Quote, At, Preview, Locked, rows, headers
<1>3. ASSUME NEW s \in Requests PROVE Holder(s)'
  BY <1>0, <1>1, LifecycleAssumption DEF IInv, TypeOK, Alone, Holder, Quote, At, Preview, Locked, rows, headers
<1>4. ASSUME NEW s \in Requests PROVE Pending(s)'
  <2>1. Holder(s) /\ Pending(s) /\ TypeOK /\ Alone
    BY DEF IInv
  <2>2. (At(s, "issue") => /\ status[Quote(s)] = "DRAFT"
                         /\ req[s].doc \in Documents /\ req[s].doc = shown[Quote(s)])'
    BY <1>0, <2>1, LifecycleAssumption DEF TypeOK, Alone, Holder, Pending, Quote, At, Preview, Locked, rows, headers
  <2>3. (At(s, "send") => /\ status[Quote(s)] = "CONFIRMED" /\ handoff[Quote(s)] = None
                        /\ InTerm(Quote(s), req[s].at) /\ ~IsSource(Quote(s)))'
    BY <1>0, <2>1, LifecycleAssumption DEF InTerm, IInv, TypeOK, Alone, Holder, Pending, Header, Sourced, Over, IsSource, Quote, At, Preview, Locked, rows, headers
  <2>4. (At(s, "copy") => Over(Quote(s)))'
    BY <1>0, <2>1, LifecycleAssumption DEF IInv, TypeOK, Times, Status, Alone, Holder, Pending, Header, Over, Quote, At, Preview, Locked, rows, headers
  <2>5. (At(s, "copy") => ~HasOpenDuplicate(Quote(s)))'
    BY <1>0, <2>1, LifecycleAssumption DEF IInv, TypeOK, Alone, Holder, Pending, Header, HasOpenDuplicate, OpenDuplicates, Quote, At, Preview, Locked, rows, headers
  <2> QED
    BY <2>2, <2>3, <2>4, <2>5 DEF Pending
<1>5. ASSUME NEW p \in Quotations PROVE Header(p)'
  BY <1>0, LifecycleAssumption DEF InTerm, IInv, TypeOK, Times, Documents, Holder, Pending, Header, Quote, At, Preview, Locked, rows, headers
<1>6. ASSUME NEW p \in Quotations PROVE Sourced(p)'
  BY <1>0, LifecycleAssumption DEF IInv, TypeOK, Times, Status, Holder, Pending, Header, Sourced, Over, IsSource, Quote, At, Preview, Locked, rows, headers
<1>7. OneOpenDuplicate'
  BY <1>0 DEF IInv, TypeOK, OneOpenDuplicate, Holder, Pending, Header, HasOpenDuplicate, Quote, At, Preview, Locked, rows, headers
<1> QED
  BY <1>1, <1>2, <1>3, <1>4, <1>5, <1>6, <1>7 DEF IInv

(* A draft or an offer that is withdrawn: it was not taken. *)
LEMMA CancelKeeps ==
  ASSUME IInv, NEW q \in Quotations, Cancel(q)
  PROVE  IInv'
<1>1. TypeOK'
  BY LifecycleAssumption DEF IInv, TypeOK, Status, Documents, Times, Cancel, Locked
<1>2. Alone'
  BY DEF IInv, TypeOK, Alone, Holder, Quote, At, Cancel, Locked
<1>3. ASSUME NEW s \in Requests PROVE Holder(s)'
  BY <1>1, LifecycleAssumption DEF IInv, TypeOK, Alone, Holder, Quote, At, Cancel, Locked
<1>4. ASSUME NEW s \in Requests PROVE Pending(s)'
  <2>1. Holder(s) /\ Pending(s) /\ TypeOK /\ Alone
    BY DEF IInv
  <2>2. (At(s, "issue") => /\ status[Quote(s)] = "DRAFT"
                         /\ req[s].doc \in Documents /\ req[s].doc = shown[Quote(s)])'
    BY <2>1, LifecycleAssumption DEF TypeOK, Alone, Holder, Pending, Quote, At, Cancel, Locked
  <2>3. (At(s, "send") => /\ status[Quote(s)] = "CONFIRMED" /\ handoff[Quote(s)] = None
                        /\ InTerm(Quote(s), req[s].at) /\ ~IsSource(Quote(s)))'
    BY <2>1, LifecycleAssumption DEF InTerm, IInv, TypeOK, Alone, Holder, Pending, Header, Sourced, Over, IsSource, Quote, At, Cancel, Locked
  <2>4. (At(s, "copy") => Over(Quote(s)))'
    BY <2>1, LifecycleAssumption DEF IInv, TypeOK, Times, Status, Alone, Holder, Pending, Header, Over, Quote, At, Cancel, Locked
  <2>5. (At(s, "copy") => ~HasOpenDuplicate(Quote(s)))'
    BY <2>1, LifecycleAssumption DEF IInv, TypeOK, Alone, Holder, Pending, Header, HasOpenDuplicate, OpenDuplicates, Quote, At, Cancel, Locked
  <2> QED
    BY <2>2, <2>3, <2>4, <2>5 DEF Pending
<1>5. ASSUME NEW p \in Quotations PROVE Header(p)'
  BY LifecycleAssumption DEF InTerm, IInv, TypeOK, Times, Documents, Holder, Pending, Header, Quote, At, Cancel, Locked
<1>6. ASSUME NEW p \in Quotations PROVE Sourced(p)'
  BY LifecycleAssumption DEF IInv, TypeOK, Times, Status, Holder, Pending, Header, Sourced, Over, IsSource, Quote, At, Cancel, Locked
<1>7. OneOpenDuplicate'
  BY DEF IInv, TypeOK, OneOpenDuplicate, Holder, Pending, Header, HasOpenDuplicate, Quote, At, Cancel, Locked
<1> QED
  BY <1>1, <1>2, <1>3, <1>4, <1>5, <1>6, <1>7 DEF IInv

(* A confirmation that found the document its client was shown. *)
LEMMA CompareKeeps ==
  ASSUME IInv, NEW r \in Requests, NEW q \in Quotations, Compare(r, q)
  PROVE  IInv'
<1>0. /\ At(r, "idle")
      /\ \A x : At(r, x)' <=> x = "issue"
      /\ Quote(r)' = q /\ req'[r].doc = Document(q) /\ req'[r].at = 0
      /\ \A s \in Requests \ {r} : req'[s] = req[s]
      /\ req' \in [Requests -> [pc : {"idle", "issue", "send", "copy"},
           quote : Quotations \cup {None}, doc : Documents \cup {None}, at : Times]]
      /\ Document(q) \in Documents
  BY LifecycleAssumption, DocumentType, GotoFacts DEF IInv, Compare, Times
<1>1. TypeOK'
  BY <1>0, LifecycleAssumption DEF IInv, TypeOK, Status, Documents, Times, Compare, Locked, Goto, rows, headers
<1>2. Alone'
  BY <1>0 DEF IInv, TypeOK, Alone, Holder, Quote, At, Compare, Locked, Goto, rows, headers
<1>3. ASSUME NEW s \in Requests PROVE Holder(s)'
  BY <1>0, <1>1, LifecycleAssumption DEF IInv, TypeOK, Alone, Holder, Quote, At, Compare, Locked, Goto, rows, headers
<1>4. ASSUME NEW s \in Requests PROVE Pending(s)'
  <2>1. Holder(s) /\ Pending(s) /\ TypeOK /\ Alone
    BY DEF IInv
  <2>2. (At(s, "issue") => /\ status[Quote(s)] = "DRAFT"
                         /\ req[s].doc \in Documents /\ req[s].doc = shown[Quote(s)])'
    BY <1>0, <2>1, LifecycleAssumption DEF TypeOK, Alone, Holder, Pending, Quote, At, Compare, Locked, Goto, rows, headers
  <2>3. (At(s, "send") => /\ status[Quote(s)] = "CONFIRMED" /\ handoff[Quote(s)] = None
                        /\ InTerm(Quote(s), req[s].at) /\ ~IsSource(Quote(s)))'
    BY <1>0, <2>1, LifecycleAssumption DEF InTerm, IInv, TypeOK, Alone, Holder, Pending, Header, Sourced, Over, IsSource, Quote, At, Compare, Locked, Goto, rows, headers
  <2>4. (At(s, "copy") => Over(Quote(s)))'
    BY <1>0, <2>1, LifecycleAssumption DEF IInv, TypeOK, Times, Status, Alone, Holder, Pending, Header, Over, Quote, At, Compare, Locked, Goto, rows, headers
  <2>5. (At(s, "copy") => ~HasOpenDuplicate(Quote(s)))'
    BY <1>0, <2>1, LifecycleAssumption DEF IInv, TypeOK, Alone, Holder, Pending, Header, HasOpenDuplicate, OpenDuplicates, Quote, At, Compare, Locked, Goto, rows, headers
  <2> QED
    BY <2>2, <2>3, <2>4, <2>5 DEF Pending
<1>5. ASSUME NEW p \in Quotations PROVE Header(p)'
  BY <1>0, LifecycleAssumption DEF InTerm, IInv, TypeOK, Times, Documents, Holder, Pending, Header, Quote, At, Compare, Locked, Goto, rows, headers
<1>6. ASSUME NEW p \in Quotations PROVE Sourced(p)'
  BY <1>0, LifecycleAssumption DEF IInv, TypeOK, Times, Status, Holder, Pending, Header, Sourced, Over, IsSource, Quote, At, Compare, Locked, Goto, rows, headers
<1>7. OneOpenDuplicate'
  BY <1>0 DEF IInv, TypeOK, OneOpenDuplicate, Holder, Pending, Header, HasOpenDuplicate, Quote, At, Compare, Locked, Goto, rows, headers
<1> QED
  BY <1>1, <1>2, <1>3, <1>4, <1>5, <1>6, <1>7 DEF IInv

(* An offer that is good by the clock is the source of nothing. *)
LEMMA ReadClockKeeps ==
  ASSUME IInv, NEW r \in Requests, NEW q \in Quotations, ReadClock(r, q)
  PROVE  IInv'
<1>0. /\ At(r, "idle")
      /\ \A x : At(r, x)' <=> x = "send"
      /\ Quote(r)' = q /\ req'[r].doc = None /\ req'[r].at = now
      /\ \A s \in Requests \ {r} : req'[s] = req[s]
      /\ req' \in [Requests -> [pc : {"idle", "issue", "send", "copy"},
           quote : Quotations \cup {None}, doc : Documents \cup {None}, at : Times]]
  BY GotoFacts DEF IInv, TypeOK, ReadClock
<1>1. TypeOK'
  BY <1>0, LifecycleAssumption DEF IInv, TypeOK, Status, Documents, Times, ReadClock, Locked, Goto, rows, headers
<1>2. Alone'
  BY <1>0 DEF IInv, TypeOK, Alone, Holder, Quote, At, ReadClock, Locked, Goto, rows, headers
<1>3. ASSUME NEW s \in Requests PROVE Holder(s)'
  BY <1>0, <1>1, LifecycleAssumption DEF IInv, TypeOK, Alone, Holder, Quote, At, ReadClock, Locked, Goto, rows, headers
<1>4. ASSUME NEW s \in Requests PROVE Pending(s)'
  <2>1. Holder(s) /\ Pending(s) /\ TypeOK /\ Alone
    BY DEF IInv
  <2>2. (At(s, "issue") => /\ status[Quote(s)] = "DRAFT"
                         /\ req[s].doc \in Documents /\ req[s].doc = shown[Quote(s)])'
    BY <1>0, <2>1, LifecycleAssumption DEF TypeOK, Alone, Holder, Pending, Quote, At, ReadClock, Locked, Goto, rows, headers
  <2>3. (At(s, "send") => /\ status[Quote(s)] = "CONFIRMED" /\ handoff[Quote(s)] = None
                        /\ InTerm(Quote(s), req[s].at) /\ ~IsSource(Quote(s)))'
    <3>1. ~IsSource(q)
      <4>1. now < expires[q] /\ status[q] = "CONFIRMED" /\ now \in Int /\ expires[q] \in Int
        BY LifecycleAssumption DEF IInv, TypeOK, Times, ReadClock
      <4>2. ~Over(q)
        BY <4>1 DEF Over
      <4> QED
        BY <4>2, LifecycleAssumption DEF IInv, Sourced, IsSource
    <3>2. InTerm(q, now)
      BY DEF IInv, Header, InTerm, ReadClock
    <3>3. CASE s = r
      BY <1>0, <3>1, <3>3, <3>2 DEF InTerm, ReadClock, Goto, IsSource, Quote, At, rows, headers
    <3>4. CASE s # r
      BY <1>0, <2>1, <3>4 DEF InTerm, TypeOK, Pending, IsSource, Quote, At, ReadClock, Goto, rows, headers
    <3> QED
      BY <3>3, <3>4
  <2>4. (At(s, "copy") => Over(Quote(s)))'
    BY <1>0, <2>1, LifecycleAssumption DEF IInv, TypeOK, Times, Status, Alone, Holder, Pending, Header, Over, Quote, At, ReadClock, Locked, Goto, rows, headers
  <2>5. (At(s, "copy") => ~HasOpenDuplicate(Quote(s)))'
    BY <1>0, <2>1, LifecycleAssumption DEF IInv, TypeOK, Alone, Holder, Pending, Header, HasOpenDuplicate, OpenDuplicates, Quote, At, ReadClock, Locked, Goto, rows, headers
  <2> QED
    BY <2>2, <2>3, <2>4, <2>5 DEF Pending
<1>5. ASSUME NEW p \in Quotations PROVE Header(p)'
  BY <1>0, LifecycleAssumption DEF InTerm, IInv, TypeOK, Times, Documents, Holder, Pending, Header, Quote, At, ReadClock, Locked, Goto, rows, headers
<1>6. ASSUME NEW p \in Quotations PROVE Sourced(p)'
  BY <1>0, LifecycleAssumption DEF IInv, TypeOK, Times, Status, Holder, Pending, Header, Sourced, Over, IsSource, Quote, At, ReadClock, Locked, Goto, rows, headers
<1>7. OneOpenDuplicate'
  BY <1>0 DEF IInv, TypeOK, OneOpenDuplicate, Holder, Pending, Header, HasOpenDuplicate, Quote, At, ReadClock, Locked, Goto, rows, headers
<1> QED
  BY <1>1, <1>2, <1>3, <1>4, <1>5, <1>6, <1>7 DEF IInv

(* A quotation that is over, without an open duplicate. *)
LEMMA ReadViewKeeps ==
  ASSUME IInv, NEW r \in Requests, NEW q \in Quotations, ReadView(r, q)
  PROVE  IInv'
<1>0. /\ At(r, "idle")
      /\ \A x : At(r, x)' <=> x = "copy"
      /\ Quote(r)' = q /\ req'[r].doc = None /\ req'[r].at = now
      /\ \A s \in Requests \ {r} : req'[s] = req[s]
      /\ req' \in [Requests -> [pc : {"idle", "issue", "send", "copy"},
           quote : Quotations \cup {None}, doc : Documents \cup {None}, at : Times]]
  BY GotoFacts DEF IInv, TypeOK, ReadView
<1>1. TypeOK'
  BY <1>0, LifecycleAssumption DEF IInv, TypeOK, Status, Documents, Times, ReadView, EffectiveStatus, Locked, Goto, rows, headers
<1>2. Alone'
  BY <1>0 DEF IInv, TypeOK, Alone, Holder, Quote, At, ReadView, EffectiveStatus, Locked, Goto, rows, headers
<1>3. ASSUME NEW s \in Requests PROVE Holder(s)'
  BY <1>0, <1>1, LifecycleAssumption DEF IInv, TypeOK, Alone, Holder, Quote, At, ReadView, EffectiveStatus, Locked, Goto, rows, headers
<1>4. ASSUME NEW s \in Requests PROVE Pending(s)'
  <2>1. Holder(s) /\ Pending(s) /\ TypeOK /\ Alone
    BY DEF IInv
  <2>2. (At(s, "issue") => /\ status[Quote(s)] = "DRAFT"
                         /\ req[s].doc \in Documents /\ req[s].doc = shown[Quote(s)])'
    BY <1>0, <2>1, LifecycleAssumption DEF TypeOK, Alone, Holder, Pending, Quote, At, ReadView, EffectiveStatus, Locked, Goto, rows, headers
  <2>3. (At(s, "send") => /\ status[Quote(s)] = "CONFIRMED" /\ handoff[Quote(s)] = None
                        /\ InTerm(Quote(s), req[s].at) /\ ~IsSource(Quote(s)))'
    BY <1>0, <2>1, LifecycleAssumption DEF InTerm, IInv, TypeOK, Alone, Holder, Pending, Header, Sourced, Over, IsSource, Quote, At, ReadView, EffectiveStatus, Locked, Goto, rows, headers
  <2>4. (At(s, "copy") => Over(Quote(s)))'
    BY <1>0, <2>1, LifecycleAssumption DEF IInv, TypeOK, Times, Status, Alone, Holder, Pending, Header, Over, Quote, At, ReadView, EffectiveStatus, Locked, Goto, rows, headers
  <2>5. (At(s, "copy") => ~HasOpenDuplicate(Quote(s)))'
    BY <1>0, <2>1, LifecycleAssumption DEF IInv, TypeOK, Alone, Holder, Pending, Header, HasOpenDuplicate, OpenDuplicates, Quote, At, ReadView, EffectiveStatus, Locked, Goto, rows, headers
  <2> QED
    BY <2>2, <2>3, <2>4, <2>5 DEF Pending
<1>5. ASSUME NEW p \in Quotations PROVE Header(p)'
  BY <1>0, LifecycleAssumption DEF InTerm, IInv, TypeOK, Times, Documents, Holder, Pending, Header, Quote, At, ReadView, EffectiveStatus, Locked, Goto, rows, headers
<1>6. ASSUME NEW p \in Quotations PROVE Sourced(p)'
  BY <1>0, LifecycleAssumption DEF IInv, TypeOK, Times, Status, Holder, Pending, Header, Sourced, Over, IsSource, Quote, At, ReadView, EffectiveStatus, Locked, Goto, rows, headers
<1>7. OneOpenDuplicate'
  BY <1>0 DEF IInv, TypeOK, OneOpenDuplicate, Holder, Pending, Header, HasOpenDuplicate, Quote, At, ReadView, EffectiveStatus, Locked, Goto, rows, headers
<1> QED
  BY <1>1, <1>2, <1>3, <1>4, <1>5, <1>6, <1>7 DEF IInv

(* An offer that is made. *)
LEMMA IssueKeeps ==
  ASSUME IInv, NEW r \in Requests, Issue(r)
  PROVE  IInv'
<1>0. req' \in [Requests -> [pc : {"idle", "issue", "send", "copy"},
                           quote : Quotations \cup {None}, doc : Documents \cup {None}, at : Times]]
  BY EndFacts DEF IInv, Issue
<1>1. TypeOK'
  <2>1. Quote(r) \in Quotations /\ req[r].doc \in Documents
    BY DEF IInv, Holder, Pending, Issue, At
  <2>2. now + Validity \in Nat
    BY LifecycleAssumption DEF IInv, TypeOK, Times
  <2> QED
    BY <1>0, <2>1, <2>2 DEF IInv, TypeOK, Status, Issue
<1>2. Alone'
  BY DEF IInv, TypeOK, Alone, Holder, Quote, At, Issue, End, Idle
<1>3. ASSUME NEW s \in Requests PROVE Holder(s)'
  BY <1>1, LifecycleAssumption DEF IInv, TypeOK, Alone, Holder, Quote, At, Issue, End, Idle
<1>4. ASSUME NEW s \in Requests PROVE Pending(s)'
  <2>1. Holder(s) /\ Pending(s) /\ TypeOK /\ Alone
    BY DEF IInv
  <2>2. (At(s, "issue") => /\ status[Quote(s)] = "DRAFT"
                         /\ req[s].doc \in Documents /\ req[s].doc = shown[Quote(s)])'
    BY <2>1, LifecycleAssumption DEF TypeOK, Alone, Holder, Pending, Quote, At, Issue, End, Idle
  <2>3. (At(s, "send") => /\ status[Quote(s)] = "CONFIRMED" /\ handoff[Quote(s)] = None
                        /\ InTerm(Quote(s), req[s].at) /\ ~IsSource(Quote(s)))'
    BY <2>1, LifecycleAssumption DEF InTerm, IInv, TypeOK, Alone, Holder, Pending, Header, Sourced, Over, IsSource, Quote, At, Issue, End, Idle
  <2>4. (At(s, "copy") => Over(Quote(s)))'
    BY <2>1, LifecycleAssumption DEF IInv, TypeOK, Times, Status, Alone, Holder, Pending, Header, Over, Quote, At, Issue, End, Idle
  <2>5. (At(s, "copy") => ~HasOpenDuplicate(Quote(s)))'
    BY <2>1, LifecycleAssumption DEF IInv, TypeOK, Alone, Holder, Pending, Header, HasOpenDuplicate, OpenDuplicates, Quote, At, Issue, End, Idle
  <2> QED
    BY <2>2, <2>3, <2>4, <2>5 DEF Pending
<1>5. ASSUME NEW p \in Quotations PROVE Header(p)'
  BY LifecycleAssumption DEF InTerm, IInv, TypeOK, Times, Documents, Holder, Pending, Header, Quote, At, Issue, End, Idle
<1>6. ASSUME NEW p \in Quotations PROVE Sourced(p)'
  BY LifecycleAssumption DEF IInv, TypeOK, Times, Status, Holder, Pending, Header, Sourced, Over, IsSource, Quote, At, Issue, End, Idle
<1>7. OneOpenDuplicate'
  BY DEF IInv, TypeOK, OneOpenDuplicate, Holder, Pending, Header, HasOpenDuplicate, Quote, At, Issue, End, Idle
<1> QED
  BY <1>1, <1>2, <1>3, <1>4, <1>5, <1>6, <1>7 DEF IInv

(* An offer that is taken. *)
LEMMA SendKeeps ==
  ASSUME IInv, NEW r \in Requests, SendToProduction(r)
  PROVE  IInv'
<1>0. req' \in [Requests -> [pc : {"idle", "issue", "send", "copy"},
                           quote : Quotations \cup {None}, doc : Documents \cup {None}, at : Times]]
  BY EndFacts DEF IInv, SendToProduction
<1>1. TypeOK'
  BY <1>0 DEF IInv, TypeOK, SendToProduction, headers
<1>2. Alone'
  BY DEF IInv, TypeOK, Alone, Holder, Quote, At, SendToProduction, headers, End, Idle
<1>3. ASSUME NEW s \in Requests PROVE Holder(s)'
  BY <1>1, LifecycleAssumption DEF IInv, TypeOK, Alone, Holder, Quote, At, SendToProduction, headers, End, Idle
<1>4. ASSUME NEW s \in Requests PROVE Pending(s)'
  <2>1. Holder(s) /\ Pending(s) /\ TypeOK /\ Alone
    BY DEF IInv
  <2>2. (At(s, "issue") => /\ status[Quote(s)] = "DRAFT"
                         /\ req[s].doc \in Documents /\ req[s].doc = shown[Quote(s)])'
    BY <2>1, LifecycleAssumption DEF TypeOK, Alone, Holder, Pending, Quote, At, SendToProduction, headers, End, Idle
  <2>3. (At(s, "send") => /\ status[Quote(s)] = "CONFIRMED" /\ handoff[Quote(s)] = None
                        /\ InTerm(Quote(s), req[s].at) /\ ~IsSource(Quote(s)))'
    BY <2>1, LifecycleAssumption DEF InTerm, IInv, TypeOK, Alone, Holder, Pending, Header, Sourced, Over, IsSource, Quote, At, SendToProduction, headers, End, Idle
  <2>4. (At(s, "copy") => Over(Quote(s)))'
    BY <2>1, LifecycleAssumption DEF IInv, TypeOK, Times, Status, Alone, Holder, Pending, Header, Over, Quote, At, SendToProduction, headers, End, Idle
  <2>5. (At(s, "copy") => ~HasOpenDuplicate(Quote(s)))'
    BY <2>1, LifecycleAssumption DEF IInv, TypeOK, Alone, Holder, Pending, Header, HasOpenDuplicate, OpenDuplicates, Quote, At, SendToProduction, headers, End, Idle
  <2> QED
    BY <2>2, <2>3, <2>4, <2>5 DEF Pending
<1>5. ASSUME NEW p \in Quotations PROVE Header(p)'
  BY LifecycleAssumption DEF InTerm, IInv, TypeOK, Times, Documents, Holder, Pending, Header, Quote, At, SendToProduction, headers, End, Idle
<1>6. ASSUME NEW p \in Quotations PROVE Sourced(p)'
  BY LifecycleAssumption DEF IInv, TypeOK, Times, Status, Holder, Pending, Header, Sourced, Over, IsSource, Quote, At, SendToProduction, headers, End, Idle
<1>7. OneOpenDuplicate'
  BY DEF IInv, TypeOK, OneOpenDuplicate, Holder, Pending, Header, HasOpenDuplicate, Quote, At, SendToProduction, headers, End, Idle
<1> QED
  BY <1>1, <1>2, <1>3, <1>4, <1>5, <1>6, <1>7 DEF IInv

(* A quotation that is priced anew. *)
LEMMA DuplicateKeeps ==
  ASSUME IInv, NEW r \in Requests, NEW d \in Quotations, Duplicate(r, d)
  PROVE  IInv'
<1>0. req' \in [Requests -> [pc : {"idle", "issue", "send", "copy"},
                           quote : Quotations \cup {None}, doc : Documents \cup {None}, at : Times]]
  BY EndFacts DEF IInv, Duplicate
<1>1. TypeOK'
  <2>1. Quote(r) \in Quotations /\ 0 \in 0..MaxContent
    BY LifecycleAssumption DEF IInv, Holder, Duplicate, At
  <2>2. (draft[Quote(r)].client /\ usable) \in BOOLEAN
    BY ZenonT(30)
  <2>3. draft' \in [Quotations -> [content : 0..MaxContent, client : BOOLEAN]]
    BY <2>1, <2>2 DEF IInv, TypeOK, Duplicate
  <2> QED
    BY <1>0, <2>1, <2>3 DEF IInv, TypeOK, Status, Duplicate
<1>2. Alone'
  BY DEF IInv, TypeOK, Alone, Holder, Quote, At, Duplicate, End, Idle
<1>3. ASSUME NEW s \in Requests PROVE Holder(s)'
  BY <1>1, LifecycleAssumption DEF IInv, TypeOK, Alone, Holder, Quote, At, Duplicate, End, Idle
<1>4. ASSUME NEW s \in Requests PROVE Pending(s)'
  <2>1. Holder(s) /\ Pending(s) /\ TypeOK /\ Alone
    BY DEF IInv
  <2>2. (At(s, "issue") => /\ status[Quote(s)] = "DRAFT"
                         /\ req[s].doc \in Documents /\ req[s].doc = shown[Quote(s)])'
    BY <2>1, LifecycleAssumption DEF TypeOK, Alone, Holder, Pending, Quote, At, Duplicate, End, Idle
  <2>3. (At(s, "send") => /\ status[Quote(s)] = "CONFIRMED" /\ handoff[Quote(s)] = None
                        /\ InTerm(Quote(s), req[s].at) /\ ~IsSource(Quote(s)))'
    BY <2>1, LifecycleAssumption DEF InTerm, IInv, TypeOK, Alone, Holder, Pending, Header, Sourced, Over, IsSource, Quote, At, Duplicate, End, Idle
  <2>4. (At(s, "copy") => Over(Quote(s)))'
    BY <2>1, LifecycleAssumption DEF IInv, TypeOK, Times, Status, Alone, Holder, Pending, Header, Over, Quote, At, Duplicate, End, Idle
  <2>5. (At(s, "copy") => ~HasOpenDuplicate(Quote(s)))'
    BY <2>1, LifecycleAssumption DEF IInv, TypeOK, Alone, Holder, Pending, Header, HasOpenDuplicate, OpenDuplicates, Quote, At, Duplicate, End, Idle
  <2> QED
    BY <2>2, <2>3, <2>4, <2>5 DEF Pending
<1>5. ASSUME NEW p \in Quotations PROVE Header(p)'
  BY LifecycleAssumption DEF InTerm, IInv, TypeOK, Times, Documents, Holder, Pending, Header, Quote, At, Duplicate, End, Idle
<1>6. ASSUME NEW p \in Quotations PROVE Sourced(p)'
  BY LifecycleAssumption DEF IInv, TypeOK, Times, Status, Holder, Pending, Header, Sourced, Over, IsSource, Quote, At, Duplicate, End, Idle
<1>7. OneOpenDuplicate'
  BY DEF IInv, TypeOK, OneOpenDuplicate, Holder, Pending, Header, HasOpenDuplicate, Quote, At, Duplicate, End, Idle
<1> QED
  BY <1>1, <1>2, <1>3, <1>4, <1>5, <1>6, <1>7 DEF IInv

(* A request that is rolled back. *)
LEMMA AbortKeeps ==
  ASSUME IInv, NEW r \in Requests, Abort(r)
  PROVE  IInv'
<1>0. req' \in [Requests -> [pc : {"idle", "issue", "send", "copy"},
                           quote : Quotations \cup {None}, doc : Documents \cup {None}, at : Times]]
  BY EndFacts DEF IInv, Abort
<1>1. TypeOK'
  BY <1>0 DEF IInv, TypeOK, Abort, rows, headers
<1>2. Alone'
  BY DEF IInv, TypeOK, Alone, Holder, Quote, At, Abort, rows, headers, End, Idle
<1>3. ASSUME NEW s \in Requests PROVE Holder(s)'
  BY <1>1, LifecycleAssumption DEF IInv, TypeOK, Alone, Holder, Quote, At, Abort, rows, headers, End, Idle
<1>4. ASSUME NEW s \in Requests PROVE Pending(s)'
  <2>1. Holder(s) /\ Pending(s) /\ TypeOK /\ Alone
    BY DEF IInv
  <2>2. (At(s, "issue") => /\ status[Quote(s)] = "DRAFT"
                         /\ req[s].doc \in Documents /\ req[s].doc = shown[Quote(s)])'
    BY <2>1, LifecycleAssumption DEF TypeOK, Alone, Holder, Pending, Quote, At, Abort, rows, headers, End, Idle
  <2>3. (At(s, "send") => /\ status[Quote(s)] = "CONFIRMED" /\ handoff[Quote(s)] = None
                        /\ InTerm(Quote(s), req[s].at) /\ ~IsSource(Quote(s)))'
    BY <2>1, LifecycleAssumption DEF InTerm, IInv, TypeOK, Alone, Holder, Pending, Header, Sourced, Over, IsSource, Quote, At, Abort, rows, headers, End, Idle
  <2>4. (At(s, "copy") => Over(Quote(s)))'
    BY <2>1, LifecycleAssumption DEF IInv, TypeOK, Times, Status, Alone, Holder, Pending, Header, Over, Quote, At, Abort, rows, headers, End, Idle
  <2>5. (At(s, "copy") => ~HasOpenDuplicate(Quote(s)))'
    BY <2>1, LifecycleAssumption DEF IInv, TypeOK, Alone, Holder, Pending, Header, HasOpenDuplicate, OpenDuplicates, Quote, At, Abort, rows, headers, End, Idle
  <2> QED
    BY <2>2, <2>3, <2>4, <2>5 DEF Pending
<1>5. ASSUME NEW p \in Quotations PROVE Header(p)'
  BY LifecycleAssumption DEF InTerm, IInv, TypeOK, Times, Documents, Holder, Pending, Header, Quote, At, Abort, rows, headers, End, Idle
<1>6. ASSUME NEW p \in Quotations PROVE Sourced(p)'
  BY LifecycleAssumption DEF IInv, TypeOK, Times, Status, Holder, Pending, Header, Sourced, Over, IsSource, Quote, At, Abort, rows, headers, End, Idle
<1>7. OneOpenDuplicate'
  BY DEF IInv, TypeOK, OneOpenDuplicate, Holder, Pending, Header, HasOpenDuplicate, Quote, At, Abort, rows, headers, End, Idle
<1> QED
  BY <1>1, <1>2, <1>3, <1>4, <1>5, <1>6, <1>7 DEF IInv

(* The masters change. *)
LEMMA MasterKeeps ==
  ASSUME IInv, EditMaster
  PROVE  IInv'
<1>1. TypeOK'
  BY LifecycleAssumption DEF IInv, TypeOK, Status, Documents, Times, EditMaster, rows, headers
<1>2. Alone'
  BY DEF IInv, TypeOK, Alone, Holder, Quote, At, EditMaster, rows, headers
<1>3. ASSUME NEW s \in Requests PROVE Holder(s)'
  BY <1>1, LifecycleAssumption DEF IInv, TypeOK, Alone, Holder, Quote, At, EditMaster, rows, headers
<1>4. ASSUME NEW s \in Requests PROVE Pending(s)'
  <2>1. Holder(s) /\ Pending(s) /\ TypeOK /\ Alone
    BY DEF IInv
  <2>2. (At(s, "issue") => /\ status[Quote(s)] = "DRAFT"
                         /\ req[s].doc \in Documents /\ req[s].doc = shown[Quote(s)])'
    BY <2>1, LifecycleAssumption DEF TypeOK, Alone, Holder, Pending, Quote, At, EditMaster, rows, headers
  <2>3. (At(s, "send") => /\ status[Quote(s)] = "CONFIRMED" /\ handoff[Quote(s)] = None
                        /\ InTerm(Quote(s), req[s].at) /\ ~IsSource(Quote(s)))'
    BY <2>1, LifecycleAssumption DEF InTerm, IInv, TypeOK, Alone, Holder, Pending, Header, Sourced, Over, IsSource, Quote, At, EditMaster, rows, headers
  <2>4. (At(s, "copy") => Over(Quote(s)))'
    BY <2>1, LifecycleAssumption DEF IInv, TypeOK, Times, Status, Alone, Holder, Pending, Header, Over, Quote, At, EditMaster, rows, headers
  <2>5. (At(s, "copy") => ~HasOpenDuplicate(Quote(s)))'
    BY <2>1, LifecycleAssumption DEF IInv, TypeOK, Alone, Holder, Pending, Header, HasOpenDuplicate, OpenDuplicates, Quote, At, EditMaster, rows, headers
  <2> QED
    BY <2>2, <2>3, <2>4, <2>5 DEF Pending
<1>5. ASSUME NEW p \in Quotations PROVE Header(p)'
  BY LifecycleAssumption DEF InTerm, IInv, TypeOK, Times, Documents, Holder, Pending, Header, Quote, At, EditMaster, rows, headers
<1>6. ASSUME NEW p \in Quotations PROVE Sourced(p)'
  BY LifecycleAssumption DEF IInv, TypeOK, Times, Status, Holder, Pending, Header, Sourced, Over, IsSource, Quote, At, EditMaster, rows, headers
<1>7. OneOpenDuplicate'
  BY DEF IInv, TypeOK, OneOpenDuplicate, Holder, Pending, Header, HasOpenDuplicate, Quote, At, EditMaster, rows, headers
<1> QED
  BY <1>1, <1>2, <1>3, <1>4, <1>5, <1>6, <1>7 DEF IInv

(* The clock goes on: what was over is over. *)
LEMMA TickKeeps ==
  ASSUME IInv, Tick
  PROVE  IInv'
<1>1. TypeOK'
  BY LifecycleAssumption DEF IInv, TypeOK, Status, Documents, Times, Tick, rows, headers
<1>2. Alone'
  BY DEF IInv, TypeOK, Alone, Holder, Quote, At, Tick, rows, headers
<1>3. ASSUME NEW s \in Requests PROVE Holder(s)'
  BY <1>1, LifecycleAssumption DEF IInv, TypeOK, Alone, Holder, Quote, At, Tick, rows, headers
<1>4. ASSUME NEW s \in Requests PROVE Pending(s)'
  <2>1. Holder(s) /\ Pending(s) /\ TypeOK /\ Alone
    BY DEF IInv
  <2>2. (At(s, "issue") => /\ status[Quote(s)] = "DRAFT"
                         /\ req[s].doc \in Documents /\ req[s].doc = shown[Quote(s)])'
    BY <2>1, LifecycleAssumption DEF TypeOK, Alone, Holder, Pending, Quote, At, Tick, rows, headers
  <2>3. (At(s, "send") => /\ status[Quote(s)] = "CONFIRMED" /\ handoff[Quote(s)] = None
                        /\ InTerm(Quote(s), req[s].at) /\ ~IsSource(Quote(s)))'
    BY <2>1, LifecycleAssumption DEF InTerm, IInv, TypeOK, Alone, Holder, Pending, Header, Sourced, Over, IsSource, Quote, At, Tick, rows, headers
  <2>4. (At(s, "copy") => Over(Quote(s)))'
    BY <2>1, LifecycleAssumption DEF IInv, TypeOK, Times, Status, Alone, Holder, Pending, Header, Over, Quote, At, Tick, rows, headers
  <2>5. (At(s, "copy") => ~HasOpenDuplicate(Quote(s)))'
    BY <2>1, LifecycleAssumption DEF IInv, TypeOK, Alone, Holder, Pending, Header, HasOpenDuplicate, OpenDuplicates, Quote, At, Tick, rows, headers
  <2> QED
    BY <2>2, <2>3, <2>4, <2>5 DEF Pending
<1>5. ASSUME NEW p \in Quotations PROVE Header(p)'
  BY LifecycleAssumption DEF InTerm, IInv, TypeOK, Times, Documents, Holder, Pending, Header, Quote, At, Tick, rows, headers
<1>6. ASSUME NEW p \in Quotations PROVE Sourced(p)'
  BY LifecycleAssumption DEF IInv, TypeOK, Times, Status, Holder, Pending, Header, Sourced, Over, IsSource, Quote, At, Tick, rows, headers
<1>7. OneOpenDuplicate'
  BY DEF IInv, TypeOK, OneOpenDuplicate, Holder, Pending, Header, HasOpenDuplicate, Quote, At, Tick, rows, headers
<1> QED
  BY <1>1, <1>2, <1>3, <1>4, <1>5, <1>6, <1>7 DEF IInv

-----------------------------------------------------------------------------
LEMMA InitInv == Init => IInv
<1> SUFFICES ASSUME Init PROVE IInv
  OBVIOUS
<1>1. TypeOK
  <2>1. draft \in [Quotations -> [content : 0..MaxContent, client : BOOLEAN]]
    BY LifecycleAssumption DEF Init
  <2> QED
    BY <2>1, LifecycleAssumption DEF Init, TypeOK, Times, Status, Idle
<1>2. Alone /\ \A r \in Requests : Holder(r) /\ Pending(r)
  BY DEF Init, Idle, Alone, Holder, Pending, Quote, At
<1>3. (\A q \in Quotations : Header(q) /\ Sourced(q)) /\ OneOpenDuplicate
  BY DEF Init, Header, Sourced, OneOpenDuplicate
<1> QED
  BY <1>1, <1>2, <1>3 DEF IInv

LEMMA NextInv == IInv /\ [Next]_vars => IInv'
<1> SUFFICES ASSUME IInv, [Next]_vars PROVE IInv'
  OBVIOUS
<1>1. ASSUME NEW q \in Quotations, CreateDraft(q) \/ Edit(q) \/ Preview(q) \/ Cancel(q) PROVE IInv'
  BY <1>1, CreateKeeps, EditKeeps, PreviewKeeps, CancelKeeps
<1>2. ASSUME NEW r \in Requests, Start(r) PROVE IInv'
  BY <1>2, CompareKeeps, ReadClockKeeps, ReadViewKeeps DEF Start
<1>3. ASSUME NEW r \in Requests, Finish(r) PROVE IInv'
  BY <1>3, IssueKeeps, SendKeeps, DuplicateKeeps, AbortKeeps DEF Finish
<1>4. CASE EditMaster
  BY <1>4, MasterKeeps
<1>5. CASE Tick
  BY <1>5, TickKeeps
<1>6. CASE UNCHANGED vars
  BY <1>6 DEF InTerm, vars, rows, headers, IInv, TypeOK, Alone, Holder, Pending, Header, Sourced,
     OneOpenDuplicate, Over, IsSource, HasOpenDuplicate, Quote, At
<1> QED
  BY <1>1, <1>2, <1>3, <1>4, <1>5, <1>6 DEF Next

LEMMA Invariance == Spec => []IInv
BY InitInv, NextInv, PTL DEF Spec

-----------------------------------------------------------------------------
(* What is issued is what a client was shown, whatever changes meanwhile.   *)
THEOREM IssuedIsShown == Spec => []IssuedAsShown
<1>1. IInv => IssuedAsShown
  BY DEF IInv, Header, IssuedAsShown
<1> QED
  BY <1>1, Invariance, PTL

(* What is produced is an offer that stands, whoever cancels it, and the    *)
(* instant it was sent by is one of its term, whatever the request waited   *)
(* for: the clock of a request that has the lock is past the issue.         *)
THEOREM SentSafe == Spec => []SentIsGood
<1>1. IInv => SentIsGood
  BY DEF IInv, Header, SentIsGood, SentStands, SentInTime
<1> QED
  BY <1>1, Invariance, PTL

(* A quotation that is priced anew is over, and has one open successor.     *)
THEOREM ReplacedSafe == Spec => []ReplacedOnce
<1>1. IInv => ReplacedOnce
  <2> SUFFICES ASSUME IInv PROVE ReplacedOnce
    OBVIOUS
  <2>1. ASSUME NEW d \in Quotations, source[d] # None PROVE handoff[source[d]] = None
    BY <2>1 DEF IInv, TypeOK, Sourced, Over, Header
  <2> QED
    BY <2>1 DEF IInv, ReplacedOnce, ReplacedIsOver
<1> QED
  BY <1>1, Invariance, PTL

(* An offer that was made stays as it was made, or is withdrawn.            *)
THEOREM OfferIsFinal == Spec => OfferStands
<1>1. IInv /\ [Next]_vars => [\A q \in Quotations :
       /\ issued[q] # None => issued'[q] = issued[q] /\ expires'[q] = expires[q]
       /\ status[q] \in {"CONFIRMED", "CANCELLED"} => status'[q] \in {status[q], "CANCELLED"}]_vars
  <2> SUFFICES ASSUME IInv, Next, NEW q \in Quotations
               PROVE  /\ issued[q] # None => issued'[q] = issued[q] /\ expires'[q] = expires[q]
                      /\ status[q] \in {"CONFIRMED", "CANCELLED"} => status'[q] \in {status[q], "CANCELLED"}
    OBVIOUS
  <2>1. ASSUME NEW p \in Quotations, CreateDraft(p) \/ Edit(p) \/ Preview(p) \/ Cancel(p)
        PROVE  /\ issued' = issued /\ expires' = expires
               /\ status[q] \in {"CONFIRMED", "CANCELLED"} => status'[q] \in {status[q], "CANCELLED"}
    BY <2>1 DEF IInv, TypeOK, CreateDraft, Edit, Preview, Cancel, rows, headers
  <2>2. ASSUME NEW r \in Requests, Start(r) \/ SendToProduction(r) \/ Abort(r)
        PROVE  UNCHANGED <<issued, expires, status>>
    BY <2>2 DEF Start, Compare, ReadClock, ReadView, Goto, SendToProduction, Abort, rows, headers
  <2>3. ASSUME NEW r \in Requests, NEW d \in Quotations, Duplicate(r, d)
        PROVE  /\ issued' = issued /\ expires' = expires
               /\ status[q] \in {"CONFIRMED", "CANCELLED"} => status'[q] = status[q]
    BY <2>3 DEF IInv, TypeOK, Duplicate
  <2>4. ASSUME NEW r \in Requests, Issue(r)
        PROVE  /\ issued[q] # None => issued'[q] = issued[q] /\ expires'[q] = expires[q]
               /\ status[q] \in {"CONFIRMED", "CANCELLED"} => status'[q] = status[q]
    <3>1. status[Quote(r)] = "DRAFT"
      BY <2>4 DEF IInv, Pending, Issue
    <3> QED
      BY <2>4, <3>1 DEF IInv, TypeOK, Header, Issue
  <2>5. CASE EditMaster \/ Tick
    BY <2>5 DEF EditMaster, Tick, rows, headers
  <2> QED
    BY <2>1, <2>2, <2>3, <2>4, <2>5 DEF Next, Finish
<1> QED
  BY <1>1, Invariance, PTL DEF Spec, OfferStands

-----------------------------------------------------------------------------
(* The stage of a quotation that no step touches, and of one that it does.  *)
LEMMA StageMoves ==
  ASSUME NEW q \in Quotations, NEW to,
         \A p \in Quotations \ {q} : Stage(p)' = Stage(p), Stage(q)' = to
  PROVE  [p \in Quotations |-> Stage(p)]' = [[p \in Quotations |-> Stage(p)] EXCEPT ![q] = to]
OBVIOUS

LEMMA InitBook == Init => Book!Init
BY DEF Init, Book!Init, Stage, Replaced

(* What each operation is, read in the book of offers. *)
LEMMA DraftsInBook ==
  ASSUME IInv, NEW q \in Quotations, CreateDraft(q)
  PROVE  Book!Draft(q)
<1>1. Stage(q) = "none" /\ Stage(q)' = "draft" /\ \A p \in Quotations \ {q} : Stage(p)' = Stage(p)
  BY DEF IInv, TypeOK, CreateDraft, Stage
<1>2. [p \in Quotations |-> Stage(p)]' = [[p \in Quotations |-> Stage(p)] EXCEPT ![q] = "draft"]
  BY <1>1, StageMoves
<1>3. issued' = issued /\ Replaced' = Replaced
  BY DEF CreateDraft, Replaced
<1> QED
  BY <1>1, <1>2, <1>3 DEF Book!Draft, Book!Move

LEMMA WithdrawsInBook ==
  ASSUME IInv, NEW q \in Quotations, Cancel(q)
  PROVE  Book!Withdraw(q)
<1>1. /\ Stage(q) \in {"draft", "offered"} /\ Stage(q)' = "withdrawn"
      /\ \A p \in Quotations \ {q} : Stage(p)' = Stage(p)
  BY DEF IInv, TypeOK, Status, Cancel, Locked, Stage
<1>2. [p \in Quotations |-> Stage(p)]' = [[p \in Quotations |-> Stage(p)] EXCEPT ![q] = "withdrawn"]
  BY <1>1, StageMoves
<1>3. issued' = issued /\ Replaced' = Replaced
  BY DEF Cancel, Replaced
<1> QED
  BY <1>1, <1>2, <1>3 DEF Book!Withdraw, Book!Move

LEMMA MakesInBook ==
  ASSUME IInv, NEW r \in Requests, Issue(r), NEW q \in Quotations, q = Quote(r)
  PROVE  \E d \in Documents : Book!Make(q, d)
<1>1. status[q] = "DRAFT" /\ handoff[q] = None /\ req[r].doc \in Documents
  BY DEF IInv, Holder, Pending, Header, Issue, At
<1>2. /\ Stage(q) = "draft" /\ Stage(q)' = "offered"
      /\ \A p \in Quotations \ {q} : Stage(p)' = Stage(p)
  BY <1>1 DEF IInv, TypeOK, Issue, Stage
<1>3. [p \in Quotations |-> Stage(p)]' = [[p \in Quotations |-> Stage(p)] EXCEPT ![q] = "offered"]
  BY <1>1, <1>2, StageMoves
<1>4. issued' = [issued EXCEPT ![q] = req[r].doc] /\ Replaced' = Replaced
  BY DEF Issue, Replaced
<1> QED
  BY <1>1, <1>2, <1>3, <1>4 DEF Book!Make, Book!Move

LEMMA TakesInBook ==
  ASSUME IInv, NEW r \in Requests, SendToProduction(r), NEW q \in Quotations, q = Quote(r)
  PROVE  Book!Take(q)
<1>1. status[q] = "CONFIRMED" /\ handoff[q] = None /\ ~IsSource(q)
  BY DEF IInv, Holder, Pending, SendToProduction, At
<1>2. handoff'[q] # None /\ \A p \in Quotations \ {q} : handoff'[p] = handoff[p]
  BY <1>1, LifecycleAssumption DEF IInv, TypeOK, SendToProduction
<1>3. /\ Stage(q) = "offered" /\ Stage(q)' = "taken"
      /\ \A p \in Quotations \ {q} : Stage(p)' = Stage(p)
  BY <1>1, <1>2 DEF SendToProduction, headers, Stage
<1>4. [p \in Quotations |-> Stage(p)]' = [[p \in Quotations |-> Stage(p)] EXCEPT ![q] = "taken"]
  BY <1>1, <1>3, StageMoves
<1>5. issued' = issued /\ Replaced' = Replaced
  BY DEF SendToProduction, headers, Replaced
<1>6. q \notin Replaced
  BY <1>1 DEF Replaced, IsSource
<1> QED
  BY <1>1, <1>3, <1>4, <1>5, <1>6 DEF Book!Take, Book!Move

LEMMA ReplacesInBook ==
  ASSUME IInv, NEW r \in Requests, NEW d \in Quotations, Duplicate(r, d)
  PROVE  Quote(r) \in Quotations /\ Book!Replace(Quote(r), d)
<1> DEFINE q == Quote(r)
<1>1. q \in Quotations /\ Over(q) /\ q # None /\ source[d] = None /\ handoff[d] = None
  BY LifecycleAssumption DEF IInv, Holder, Pending, Header, Duplicate, At
<1>2. Stage(q) \in {"offered", "withdrawn"}
  BY <1>1 DEF Over, Stage
<1>3. /\ Stage(d) = "none" /\ Stage(d)' = "draft"
      /\ \A p \in Quotations \ {d} : Stage(p)' = Stage(p)
  BY DEF IInv, TypeOK, Duplicate, Stage
<1>4. [p \in Quotations |-> Stage(p)]' = [[p \in Quotations |-> Stage(p)] EXCEPT ![d] = "draft"]
  BY <1>3, StageMoves
<1>5. source' = [source EXCEPT ![d] = q] /\ issued' = issued
  BY DEF Duplicate
<1>6. Replaced' = Replaced \cup {q}
  <2>1. \A p \in Quotations : source'[p] = IF p = d THEN q ELSE source[p]
    BY <1>5 DEF IInv, TypeOK
  <2>2. Replaced' = {source'[p] : p \in Quotations} \ {None}
    BY DEF Replaced
  <2> QED
    BY <2>1, <2>2, <1>1 DEF Replaced
<1> QED
  BY <1>1, <1>2, <1>3, <1>4, <1>5, <1>6 DEF Book!Replace, Book!Move

(* The quotations are a book of offers: whatever requests, locks and clock  *)
(* do, each step is one of the book, or none.                               *)
THEOREM BookIsKept == Spec => KeepsTheBook
<1>1. IInv /\ [Next]_vars => [Book!Next]_(Book!offers)
  <2> SUFFICES ASSUME IInv, [Next]_vars PROVE [Book!Next]_(Book!offers)
    OBVIOUS
  <2>1. ASSUME NEW q \in Quotations, CreateDraft(q) \/ Cancel(q) PROVE Book!Next
    BY <2>1, DraftsInBook, WithdrawsInBook DEF Book!Next
  <2>2. ASSUME NEW r \in Requests, Issue(r) \/ SendToProduction(r) PROVE Book!Next
    <3>1. PICK q \in Quotations : q = Quote(r)
      BY <2>2 DEF IInv, Holder, Issue, SendToProduction, At
    <3> QED
      BY <2>2, <3>1, MakesInBook, TakesInBook DEF Book!Next
  <2>3. ASSUME NEW r \in Requests, NEW d \in Quotations, Duplicate(r, d) PROVE Book!Next
    BY <2>3, ReplacesInBook DEF Book!Next
  <2>4. ASSUME UNCHANGED <<status, handoff, issued, source>> PROVE UNCHANGED Book!offers
    BY <2>4 DEF Book!offers, Stage, Replaced
  <2>5. ASSUME NEW q \in Quotations, Edit(q) \/ Preview(q) PROVE UNCHANGED <<status, handoff, issued, source>>
    BY <2>5 DEF Edit, Preview, rows, headers
  <2>6. ASSUME NEW r \in Requests, Start(r) \/ Abort(r) PROVE UNCHANGED <<status, handoff, issued, source>>
    BY <2>6 DEF Start, Compare, ReadClock, ReadView, Goto, Abort, rows, headers
  <2>7. CASE EditMaster \/ Tick \/ UNCHANGED vars
    BY <2>4, <2>7 DEF EditMaster, Tick, vars, rows, headers
  <2> QED
    BY <2>1, <2>2, <2>3, <2>4, <2>5, <2>6, <2>7 DEF Next, Finish
<1> QED
  BY <1>1, InitBook, Invariance, PTL DEF Spec, KeepsTheBook, Book!Spec

=============================================================================
