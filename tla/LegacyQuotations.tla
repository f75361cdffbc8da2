--------------------------- MODULE LegacyQuotations ---------------------------
(***************************************************************************)
(* The quotations made before Quoter V2: the ones of the builder, with     *)
(* products and charges, and the classic ones of one product, whose price  *)
(* may become that of the product.  They are priced with the settings of   *)
(* the company and with the product as they are when the request reads     *)
(* them; a fingerprint of both tells a draft whose sources have moved.     *)
(*                                                                         *)
(* A request locks the row of its quotation before anything else and keeps *)
(* it to the commit (Begin...).  It reads the settings and the product,    *)
(* each once: the builder the settings first, a classic quotation the      *)
(* product.  The second read is the last that may find a change, and is    *)
(* one step with the commit.                                               *)
(***************************************************************************)
EXTENDS CompanySettings

CONSTANTS
  Quotations,
  Builder,          \* the ones of the builder; the others are classic
  Contents,         \* what each may be asked for: the product or recipe it
                    \* names, and the rest of its form
  MaxCharge,        \* bound of the charges of a quotation
  Openings,         \* the drafts there may be from when creating was open to all
  CreationEnabled   \* LEGACY_CREATION_ENABLED

Classic == Quotations \ Builder
Charges == 0..MaxCharge

ASSUME LegacyAssumption ==
  /\ Builder \subseteq Quotations
  /\ \A q \in Quotations : Contents[q] \subseteq [item : Nat, detail : Nat]
  /\ \A q \in Classic : \A c \in Contents[q] : c.item # 0
  /\ MaxCharge \in Nat
  /\ \A o \in Openings : \A q \in Quotations : o[q] \in Contents[q] \cup {None}
  /\ CreationEnabled \in BOOLEAN

VARIABLES
  quote,     \* the rows of quotations
  product,   \* sale_price and updated_at of the product they are made of
  raised,    \* the row of quotation_product_price_updates of each
  screen,    \* the quotation each administrator looks at, as it was read
  work,      \* the request of each; it holds the row of its quotation
  approved   \* what the screen said that a quotation was confirmed from

quotes == <<quote, product, raised, screen, work, approved>>
vars == <<left, settings, quotes>>

Forms == UNION {Contents[q] : q \in Quotations}

(* What amounts are computed from. *)
Bases == [content : Forms, charges : Charges, tax : Choices["pricing"], product : Nat]

Quotation == [status : {"DRAFT", "CONFIRMED", "CANCELLED"}, content : Forms, charges : Charges,
              basis : Bases, stamp : Nat, validity : Choices["wording"] \cup {None}, paid : BOOLEAN]

(* There is a quotation, or there is none. *)
ASSUME RowAssumption == None \notin Quotation

Free == [pc |-> "free", quote |-> None, seen |-> None, content |-> None, charges |-> 0,
         accept |-> FALSE, shown |-> None, old |-> None]

TypeOK ==
  /\ SettingsTypeOK
  /\ quote \in [Quotations -> Quotation \cup {None}]
  /\ product.stamp \in Nat
  /\ \A a \in Admins : screen[a] = None \/ screen[a].row \in Quotation
  /\ \A a \in Admins : work[a].quote \in Quotations \cup {None}
  /\ approved \in [Quotations -> Bases \cup {None}]

(* What a quotation is priced from, of the settings and the product that    *)
(* were read.  A quotation without products reads none.                     *)
Basis(content, charges, seen, p) ==
  [content |-> content, charges |-> charges, tax |-> seen.values["pricing"],
   product |-> IF content.item = 0 THEN 0 ELSE p.stamp]

(* source_fingerprint: what is named and what it is priced with, not how    *)
(* much of it.                                                              *)
Fingerprint(b) == <<b.content.item, b.tax, b.product>>

(* calculated_unit_price, and a price that somebody typed. *)
UnitPrice(b) == <<b.content.item, b.content.detail, b.tax, b.product>>
Typed(n) == <<0, n, 0, 0>>

NewRow(content, basis) ==
  [status |-> "DRAFT", content |-> content, charges |-> 0, basis |-> basis,
   stamp |-> 1, validity |-> None, paid |-> FALSE]

Init ==
  /\ SettingsInit
  /\ product = [price |-> Typed(0), stamp |-> 1]
  /\ \E o \in Openings : quote = [q \in Quotations |->
       IF o[q] = None THEN None ELSE NewRow(o[q], Basis(o[q], 0, FirstRow, product))]
  /\ raised = [q \in Quotations |-> None]
  /\ screen = [a \in Admins |-> None]
  /\ work = [a \in Admins |-> Free]
  /\ approved = [q \in Quotations |-> None]

-----------------------------------------------------------------------------
WorkIs(a, pc) == work[a].pc = pc
Mine(a) == work[a].quote
Row(a) == quote[Mine(a)]
Status(q) == IF quote[q] = None THEN "NONE" ELSE quote[q].status

(* Slip: the row is read without FOR UPDATE. *)
Unlocked_Slip(q) == TRUE

(* Nobody holds the row, so SELECT ... FOR UPDATE takes it. *)
Unlocked(q) == \A a \in Admins : Mine(a) # q

(* An administrator waits for one answer at a time. *)
Waits(a) == ~WorkIs(a, "free") \/ ~JobIs(a, "idle")

(* What the session read first, and will not read again.                   *)
FirstRead(q) == IF q \in Builder THEN row["commercial"] ELSE product

(* The row is locked, and the first of the two sources is read. *)
Start(a, q, w) ==
  /\ ~Waits(a) /\ Unlocked(q)
  /\ Count("uses")
  /\ work' = [work EXCEPT ![a] = [w EXCEPT !.quote = q, !.seen = FirstRead(q)]]
  /\ UNCHANGED <<settings, quote, product, raised, screen, approved>>

(* The settings a request works with, and what it prices from them, from    *)
(* the product, and from what it is asked for.                              *)
Settings(a) == IF Mine(a) \in Builder THEN work[a].seen ELSE row["commercial"]

Today(a, content, charges) ==
  Basis(content, charges, Settings(a), IF Mine(a) \in Builder THEN product ELSE work[a].seen)

Finish(a) == work' = [work EXCEPT ![a] = Free]

(* The commit of a new version of the row, with a new updated_at. *)
Save(a, new) ==
  /\ quote' = [quote EXCEPT ![Mine(a)] = [new EXCEPT !.stamp = @ + 1]]
  /\ Finish(a)

(* GET of a quotation. *)
Look(a, q) ==
  /\ ~Waits(a) /\ quote[q] # None
  /\ Count("uses")
  /\ screen' = [screen EXCEPT ![a] = [quote |-> q, row |-> quote[q]]]
  /\ UNCHANGED <<settings, quote, product, raised, work, approved>>

LooksAt(a, q) == screen[a] # None /\ screen[a].quote = q

(* Slip: the token is not compared. *)
IsFresh_Slip(a, q) == LooksAt(a, q)

(* _ensure_fresh: the row is still the one on the screen, by its updated_at. *)
IsFresh(a, q) == LooksAt(a, q) /\ screen[a].row.stamp = quote[q].stamp

-----------------------------------------------------------------------------
(* create, and duplicate, which creates from the form of a quotation it     *)
(* reads without a lock and leaves its charges behind.                      *)
BeginCreate(a, q) ==
  /\ CreationEnabled
  /\ quote[q] = None
  /\ \E c \in Contents[q] \cup {quote[s].content : s \in {t \in Quotations :
          quote[t] # None /\ (t \in Builder <=> q \in Builder)}} :
       Start(a, q, [Free EXCEPT !.pc = "create", !.content = c])

Create(a) ==
  /\ WorkIs(a, "create")
  /\ quote' = [quote EXCEPT ![Mine(a)] =
       NewRow(work[a].content, Today(a, work[a].content, 0))]
  /\ Finish(a)
  /\ UNCHANGED <<left, settings, product, raised, screen, approved>>

(* update of the builder: the whole form, with the token of the screen.     *)
(* The charges stay, and with them a product has to.                        *)
BeginUpdate(a, q, content) ==
  /\ q \in Builder /\ Status(q) = "DRAFT" /\ IsFresh(a, q)
  /\ content.item # 0 \/ quote[q].charges = 0
  /\ Start(a, q, [Free EXCEPT !.pc = "price", !.content = content, !.charges = quote[q].charges])

(* A charge is added, changed or deleted, by the sum the charges come to.   *)
(* The first needs a product.  No token is asked for.                       *)
BeginCharge(a, q, charges) ==
  /\ q \in Builder /\ Status(q) = "DRAFT"
  /\ quote[q].charges # 0 \/ quote[q].content.item # 0
  /\ charges # quote[q].charges
  /\ Start(a, q, [Free EXCEPT !.pc = "price", !.content = quote[q].content, !.charges = charges])

(* preview and _apply: the quotation is priced anew, charges included. *)
Priced(a) ==
  [Row(a) EXCEPT !.content = work[a].content, !.charges = work[a].charges,
                 !.basis = Today(a, work[a].content, work[a].charges)]

Reprice(a) ==
  /\ WorkIs(a, "price")
  /\ Save(a, Priced(a))
  /\ UNCHANGED <<left, settings, product, raised, screen, approved>>

BeginConfirm(a, q) ==
  /\ q \in Builder /\ Status(q) = "DRAFT" /\ IsFresh(a, q)
  /\ quote[q].content.item # 0
  /\ Start(a, q, [Free EXCEPT !.pc = "confirm", !.shown = screen[a].row.basis])

(* confirm of the builder: the fingerprint of today is the stored one, so   *)
(* the stored amounts are issued, and the days of validity are frozen.      *)
Confirm(a) ==
  /\ WorkIs(a, "confirm")
  /\ Fingerprint(Today(a, Row(a).content, Row(a).charges)) = Fingerprint(Row(a).basis)
  /\ Save(a, [Row(a) EXCEPT !.status = "CONFIRMED", !.validity = Settings(a).values["wording"]])
  /\ approved' = [approved EXCEPT ![Mine(a)] = work[a].shown]
  /\ UNCHANGED <<left, settings, product, raised, screen>>

(* mark_paid; a second one answers and changes nothing. *)
MarkPaid(q) ==
  /\ q \in Builder /\ Unlocked(q) /\ Status(q) = "CONFIRMED" /\ ~quote[q].paid
  /\ Count("uses")
  /\ quote' = [quote EXCEPT ![q].paid = TRUE, ![q].stamp = @ + 1]
  /\ UNCHANGED <<settings, product, raised, screen, work, approved>>

(* cancel, of both. *)
Cancel(q) ==
  /\ Unlocked(q) /\ Status(q) \in {"DRAFT", "CONFIRMED"}
  /\ Count("uses")
  /\ quote' = [quote EXCEPT ![q].status = "CANCELLED", ![q].stamp = @ + 1]
  /\ UNCHANGED <<settings, product, raised, screen, work, approved>>

-----------------------------------------------------------------------------
(* update of a classic quotation: its token is the fingerprint. *)
BeginEdit(a, q, content, accept) ==
  /\ q \in Classic /\ Status(q) = "DRAFT"
  /\ LooksAt(a, q) /\ Fingerprint(screen[a].row.basis) = Fingerprint(quote[q].basis)
  /\ Start(a, q, [Free EXCEPT !.pc = "edit", !.content = content, !.accept = accept])

(* SOURCE_CHANGED, unless the client said that the new prices will do. *)
Accepted(a, new) == Fingerprint(new) = Fingerprint(Row(a).basis) \/ work[a].accept

Edit(a) ==
  LET new == Today(a, work[a].content, 0) IN
  /\ WorkIs(a, "edit")
  /\ work[a].content.item = Row(a).content.item => Accepted(a, new)
  /\ Save(a, [Row(a) EXCEPT !.content = work[a].content, !.basis = new])
  /\ UNCHANGED <<left, settings, product, raised, screen, approved>>

(* confirm of a classic quotation: no token, and what is issued is priced   *)
(* now.                                                                     *)
BeginIssue(a, q, accept) ==
  /\ q \in Classic /\ Status(q) = "DRAFT"
  /\ Start(a, q, [Free EXCEPT !.pc = "issue", !.accept = accept])

Issue(a) ==
  LET new == Today(a, Row(a).content, 0) IN
  /\ WorkIs(a, "issue")
  /\ Accepted(a, new)
  /\ Save(a, [Row(a) EXCEPT !.basis = new, !.status = "CONFIRMED",
                            !.validity = Settings(a).values["wording"]])
  /\ UNCHANGED <<left, settings, product, raised, screen, approved>>

(* update_product_price: once for a confirmed quotation. *)
BeginRaise(a, q) ==
  /\ q \in Classic /\ Status(q) = "CONFIRMED" /\ raised[q] = None
  /\ Start(a, q, [Free EXCEPT !.pc = "raise"])

(* Slip: the product is read without FOR UPDATE. *)
ProductFree_Slip == TRUE

ProductFree == \A a \in Admins : ~WorkIs(a, "raising")

LockProduct(a) ==
  /\ WorkIs(a, "raise") /\ ProductFree
  /\ work' = [work EXCEPT ![a].pc = "raising", ![a].old = product.price]
  /\ UNCHANGED <<left, settings, quote, product, raised, screen, approved>>

(* The product at another price; an equal one writes nothing. *)
Repriced(price) ==
  IF price = product.price THEN product ELSE [price |-> price, stamp |-> product.stamp + 1]

RaisePrice(a) ==
  /\ WorkIs(a, "raising")
  /\ product' = Repriced(UnitPrice(Row(a).basis))
  /\ raised' = [raised EXCEPT ![Mine(a)] = [old |-> work[a].old, new |-> product'.price]]
  /\ Finish(a)
  /\ UNCHANGED <<left, settings, quote, screen, approved>>

(* update_product of the masters, with or without another price. *)
EditProduct ==
  /\ ProductFree
  /\ Count("uses")
  /\ \E price \in {product.price, Typed(1)} :
       product' = [price |-> price, stamp |-> product.stamp + 1]
  /\ UNCHANGED <<settings, quote, raised, screen, work, approved>>

(* A refusal, a statement that fails, a process that dies: nothing stays. *)
Abort(a) ==
  /\ ~WorkIs(a, "free")
  /\ Finish(a)
  /\ UNCHANGED <<left, settings, quote, product, raised, screen, approved>>

-----------------------------------------------------------------------------
Begin(a, q) ==
  \/ BeginCreate(a, q) \/ BeginConfirm(a, q) \/ BeginRaise(a, q)
  \/ \E c \in Contents[q] : BeginUpdate(a, q, c) \/ \E accept \in BOOLEAN : BeginEdit(a, q, c, accept)
  \/ \E n \in Charges : BeginCharge(a, q, n)
  \/ \E accept \in BOOLEAN : BeginIssue(a, q, accept)

End(a) ==
  \/ Create(a) \/ Reprice(a) \/ Confirm(a) \/ Edit(a) \/ Issue(a)
  \/ LockProduct(a) \/ RaisePrice(a) \/ Abort(a)

Next ==
  \/ \E a \in Admins : WorkIs(a, "free") /\ SettingsStep(a) /\ UNCHANGED quotes
  \/ \E a \in Admins : \E q \in Quotations : Look(a, q) \/ Begin(a, q)
  \/ \E a \in Admins : End(a)
  \/ \E q \in Quotations : MarkPaid(q) \/ Cancel(q)
  \/ EditProduct

Spec == Init /\ [][Next]_vars

-----------------------------------------------------------------------------
(* The amounts of a quotation are those of its own form and of all its      *)
(* charges, priced at once, and a charge stands beside a product.           *)
PricedWhole ==
  \A q \in Quotations : quote[q] # None =>
    LET r == quote[q] IN
    /\ r.basis.content = r.content /\ r.basis.charges = r.charges
    /\ r.charges # 0 => r.content.item # 0

(* What the builder issued is what the screen of the one who confirmed it   *)
(* said, to the last charge and source, however often others changed it.    *)
IssuedAsSeen ==
  \A q \in Quotations : approved[q] # None => quote[q].basis = approved[q]

(* Both, of rows of their types. *)
OfferAddsUp == TypeOK /\ PricedWhole /\ IssuedAsSeen

(* A quotation that is no draft any more changes in two ways only: it is    *)
(* cancelled, or paid, once each.                                           *)
OfferIsFinal ==
  [][\A q \in Quotations : Status(q) \in {"CONFIRMED", "CANCELLED"} =>
       LET r == quote[q] IN
       /\ Status(q)' \in {r.status, "CANCELLED"}
       /\ quote'[q].paid \in {r.paid, TRUE}
       /\ quote'[q] = [r EXCEPT !.status = Status(q)', !.paid = quote'[q].paid,
                                !.stamp = quote'[q].stamp]]_vars

(* The price a raise records as the old one is the price it replaces, and   *)
(* the new one that of the offer, which stands; and there is one raise.     *)
PriceTrail ==
  [][\A q \in Quotations : raised'[q] # raised[q] =>
       /\ raised[q] = None /\ Status(q) = "CONFIRMED"
       /\ raised'[q] = [old |-> product.price, new |-> product'.price]
       /\ product'.price = UnitPrice(quote[q].basis)]_vars
=============================================================================
