-------------------------- MODULE QuoterV2Lifecycle --------------------------
(***************************************************************************)
(* The life of Quoter V2 quotations: drafted, edited, shown before it is   *)
(* issued, issued, cancelled, sent to production, duplicated.              *)
(*                                                                         *)
(* A request holds the header of its quotation FOR UPDATE from its first   *)
(* read to its commit, so what only reads and writes the quotation is one  *)
(* step.  It does not hold what it reads besides: the customer and the     *)
(* policy, and the clock of the database, which goes on while it works.  A *)
(* request may die before its commit, and a client that lost the answer    *)
(* asks again.                                                             *)
(***************************************************************************)
EXTENDS Integers

CONSTANTS
  Quotations,
  Fresh,       \* those that are not born as the duplicate of another
  Requests,    \* requests at work at the same time
  MaxContent,  \* bound of the edits of all drafts
  MaxMaster,   \* bound of the edits of customer and policy
  MaxTime,     \* bound of the clock
  Validity,    \* how long an offer is valid
  None

Times == 0..MaxTime
Documents == [content : 0..MaxContent, master : 0..MaxMaster]

ASSUME LifecycleAssumption ==
  /\ MaxContent \in Nat /\ MaxMaster \in Nat /\ MaxTime \in Nat
  /\ Validity \in Nat \ {0}
  /\ Fresh \subseteq Quotations
  /\ None \notin Requests \cup Quotations \cup Documents \cup Times

VARIABLES
  now,      \* clock_timestamp()
  master,   \* customer and commercial policy, as the masters have them
  usable,   \* the customer is active
  status,   \* of the header of each quotation, "NONE" while there is none
  edition,  \* counts the edits of drafts
  draft,    \* the edition a draft holds, and whether it names a customer
  source,   \* duplicated_from_id
  issued,   \* the document that was frozen
  expires,  \* expires_at
  handoff,  \* the bridge to production, with the instant its check read
  shown,    \* the document somebody was shown last while it was a draft
  req       \* what each slot works on; it holds the header of that quotation

headers == <<status, edition, draft, source, issued, expires>>
rows == <<headers, handoff>>
vars == <<now, master, usable, rows, shown, req>>

Status == {"NONE", "DRAFT", "CONFIRMED", "CANCELLED"}
Idle == [pc |-> "idle", quote |-> None, doc |-> None, at |-> 0]

TypeOK ==
  /\ now \in Times
  /\ master \in 0..MaxMaster
  /\ usable \in BOOLEAN
  /\ status \in [Quotations -> Status]
  /\ edition \in 0..MaxContent
  /\ draft \in [Quotations -> [content : 0..MaxContent, client : BOOLEAN]]
  /\ source \in [Quotations -> Quotations \cup {None}]
  /\ issued \in [Quotations -> Documents \cup {None}]
  /\ expires \in [Quotations -> Nat]
  /\ handoff \in [Quotations -> Times \cup {None}]
  /\ shown \in [Quotations -> Documents \cup {None}]
  /\ req \in [Requests -> [pc : {"idle", "issue", "send", "copy"},
                           quote : Quotations \cup {None}, doc : Documents \cup {None},
                           at : Times]]

Init ==
  /\ now = 0
  /\ master = 0
  /\ usable = TRUE
  /\ status = [q \in Quotations |-> "NONE"]
  /\ edition = 0
  /\ draft = [q \in Quotations |-> [content |-> 0, client |-> TRUE]]
  /\ source = [q \in Quotations |-> None]
  /\ issued = [q \in Quotations |-> None]
  /\ expires = [q \in Quotations |-> 0]
  /\ handoff = [q \in Quotations |-> None]
  /\ shown = [q \in Quotations |-> None]
  /\ req = [r \in Requests |-> Idle]

-----------------------------------------------------------------------------
(* Operators named X_Slip are X with a plausible coding slip; no action     *)
(* uses one.  Each shows that some property would notice the slip.          *)

At(r, pc) == req[r].pc = pc
Quote(r) == req[r].quote

(* SELECT ... FOR UPDATE of a header nobody holds. *)
Locked(q) ==
  /\ status[q] # "NONE"
  /\ \A r \in Requests : Quote(r) # q

Goto(r, pc, q, d, t) ==
  /\ At(r, "idle")
  /\ req' = [req EXCEPT ![r] = [pc |-> pc, quote |-> q, doc |-> d, at |-> t]]
  /\ UNCHANGED <<now, master, usable, rows, shown>>

End(r) == req' = [req EXCEPT ![r] = Idle]

(* What the paper would say if it were issued now. *)
Document(q) == [content |-> draft[q].content, master |-> master]

OpenDuplicates(q) == {d \in Quotations : source[d] = q /\ status[d] = "DRAFT"}

(* What was cancelled is cancelled, what went to production does not        *)
(* expire, and only an offer nobody took does.                              *)
EffectiveStatus(q) ==
  CASE status[q] # "CONFIRMED" -> status[q]
    [] status[q] = "CONFIRMED" /\ handoff[q] # None -> "READY_FOR_PRODUCTION"
    [] OTHER -> IF now >= expires[q] THEN "EXPIRED" ELSE "CONFIRMED"

-----------------------------------------------------------------------------
CreateDraft(q) ==
  /\ q \in Fresh
  /\ status[q] = "NONE"
  /\ status' = [status EXCEPT ![q] = "DRAFT"]
  /\ UNCHANGED <<now, master, usable, edition, draft, source, issued, expires, handoff, shown, req>>

(* Any handler of the content; naming the customer is one of them. *)
Edit(q) ==
  /\ Locked(q)
  /\ status[q] = "DRAFT"
  /\ edition < MaxContent
  /\ edition' = edition + 1
  /\ \E c \in {draft[q].client, TRUE} :
       draft' = [draft EXCEPT ![q] = [content |-> edition', client |-> c]]
  /\ UNCHANGED <<now, master, usable, status, source, issued, expires, handoff, shown, req>>

(* The summary and its fingerprint; nothing is committed. *)
Preview(q) ==
  /\ Locked(q)
  /\ status[q] = "DRAFT"
  /\ shown' = [shown EXCEPT ![q] = Document(q)]
  /\ UNCHANGED <<now, master, usable, rows, req>>

(* A confirmation brings the fingerprint of what its client was shown, and  *)
(* the draft must still say it.  A quotation that is issued already is the  *)
(* answer or a refusal, and nothing changes.                                *)
Compare(r, q) ==
  /\ Locked(q)
  /\ status[q] = "DRAFT"
  /\ shown[q] = Document(q)
  /\ Goto(r, "issue", q, Document(q), 0)

(* Slip: what is frozen is read once more. *)
Issue_Slip(r) ==
  /\ At(r, "issue")
  /\ draft[Quote(r)].client /\ usable
  /\ status' = [status EXCEPT ![Quote(r)] = "CONFIRMED"]
  /\ issued' = [issued EXCEPT ![Quote(r)] = Document(Quote(r))]
  /\ expires' = [expires EXCEPT ![Quote(r)] = now + Validity]
  /\ End(r)
  /\ UNCHANGED <<now, master, usable, edition, draft, source, handoff, shown>>

(* The blockers, which ask for an active customer, the clock, and the       *)
(* document that was compared, frozen.                                      *)
Issue(r) ==
  /\ At(r, "issue")
  /\ draft[Quote(r)].client /\ usable
  /\ status' = [status EXCEPT ![Quote(r)] = "CONFIRMED"]
  /\ issued' = [issued EXCEPT ![Quote(r)] = req[r].doc]
  /\ expires' = [expires EXCEPT ![Quote(r)] = now + Validity]
  /\ End(r)
  /\ UNCHANGED <<now, master, usable, edition, draft, source, handoff, shown>>

(* Slip: an offer that went to production can be cancelled. *)
Cancel_Slip(q) ==
  /\ Locked(q)
  /\ status' = [status EXCEPT ![q] = "CANCELLED"]
  /\ UNCHANGED <<now, master, usable, edition, draft, source, issued, expires, handoff, shown, req>>

(* A draft, or an offer that did not go to production. *)
Cancel(q) ==
  /\ Locked(q)
  /\ status[q] # "CANCELLED" /\ handoff[q] = None
  /\ status' = [status EXCEPT ![q] = "CANCELLED"]
  /\ UNCHANGED <<now, master, usable, edition, draft, source, issued, expires, handoff, shown, req>>

(* Slip: now() is the start of the transaction, which waited for the lock. *)
ReadClock_Slip(r, q) ==
  /\ Locked(q)
  /\ handoff[q] = None /\ status[q] = "CONFIRMED"
  /\ \E t \in 0..now : t < expires[q] /\ Goto(r, "send", q, None, t)

(* A bridge that exists is the answer, whatever the status; else only an    *)
(* offer that is valid by the clock of the database passes.                 *)
ReadClock(r, q) ==
  /\ Locked(q)
  /\ handoff[q] = None /\ status[q] = "CONFIRMED"
  /\ now < expires[q]
  /\ Goto(r, "send", q, None, now)

SendToProduction(r) ==
  /\ At(r, "send")
  /\ handoff' = [handoff EXCEPT ![Quote(r)] = req[r].at]
  /\ End(r)
  /\ UNCHANGED <<now, master, usable, headers, shown>>

(* Slip: a double click gives two drafts. *)
ReadView_Slip(r, q) ==
  /\ Locked(q)
  /\ EffectiveStatus(q) \in {"EXPIRED", "CANCELLED"}
  /\ Goto(r, "copy", q, None, now)

(* Only what expired or was cancelled is duplicated; an open duplicate is   *)
(* the answer.                                                              *)
ReadView(r, q) ==
  /\ Locked(q)
  /\ EffectiveStatus(q) \in {"EXPIRED", "CANCELLED"}
  /\ OpenDuplicates(q) = {}
  /\ Goto(r, "copy", q, None, now)

(* A new draft at the prices of today; a customer who is not active stays   *)
(* behind.                                                                  *)
Duplicate(r, d) ==
  /\ At(r, "copy")
  /\ status[d] = "NONE" /\ d \notin Fresh
  /\ status' = [status EXCEPT ![d] = "DRAFT"]
  /\ source' = [source EXCEPT ![d] = Quote(r)]
  /\ draft' = [draft EXCEPT ![d] =
       [content |-> 0, client |-> draft[Quote(r)].client /\ usable]]
  /\ End(r)
  /\ UNCHANGED <<now, master, usable, edition, issued, expires, handoff, shown>>

(* A blocker, a statement that fails, a connection that breaks: the         *)
(* transaction is rolled back.                                              *)
Abort(r) ==
  /\ ~At(r, "idle")
  /\ End(r)
  /\ UNCHANGED <<now, master, usable, rows, shown>>

-----------------------------------------------------------------------------
EditMaster ==
  /\ master < MaxMaster
  /\ master' = master + 1
  /\ usable' \in BOOLEAN
  /\ UNCHANGED <<now, rows, shown, req>>

Tick ==
  /\ now < MaxTime
  /\ now' = now + 1
  /\ UNCHANGED <<master, usable, rows, shown, req>>

Start(r) == \E q \in Quotations : Compare(r, q) \/ ReadClock(r, q) \/ ReadView(r, q)

Finish(r) ==
  \/ Issue(r) \/ SendToProduction(r) \/ Abort(r)
  \/ \E d \in Quotations : Duplicate(r, d)

Next ==
  \/ \E q \in Quotations : CreateDraft(q) \/ Edit(q) \/ Preview(q) \/ Cancel(q)
  \/ \E r \in Requests : Start(r) \/ Finish(r)
  \/ EditMaster \/ Tick

Spec == Init /\ [][Next]_vars

-----------------------------------------------------------------------------
(* What was issued is a document somebody was shown, customer and policy    *)
(* included, although both can change up to the commit.                     *)
IssuedAsShown ==
  \A q \in Quotations : issued[q] # None => issued[q] = shown[q]

(* What goes to production is an offer that stands: cancelling and sending  *)
(* at once do not both succeed.                                             *)
SentStands ==
  \A q \in Quotations : handoff[q] # None => status[q] = "CONFIRMED" /\ issued[q] # None

(* The instants from the issue of an offer to its end. *)
InTerm(q, t) == expires[q] - Validity <= t /\ t < expires[q]

(* Whatever a request waited for, the instant by which it sent an offer to  *)
(* production is neither before the offer was issued nor after its end.     *)
SentInTime ==
  \A q \in Quotations : handoff[q] # None => InTerm(q, handoff[q])

(* Both, of rows of their types: what is produced is an offer that stands   *)
(* and was good when it went.                                               *)
SentIsGood == TypeOK /\ SentStands /\ SentInTime

(* A quotation is replaced by one open draft at most. *)
OneOpenDuplicate ==
  \A d, e \in Quotations :
    source[d] # None /\ source[e] = source[d] /\ status[d] = "DRAFT" /\ status[e] = "DRAFT"
      => d = e

(* A quotation that was priced anew is not produced as well. *)
ReplacedIsOver ==
  \A d \in Quotations : source[d] # None => handoff[source[d]] = None

(* Pricing a quotation anew ends it, and is done once at a time. *)
ReplacedOnce == OneOpenDuplicate /\ ReplacedIsOver

(* An issued document never changes, nor does its validity, and a quotation *)
(* never goes back to be a draft.                                           *)
OfferStands ==
  [][\A q \in Quotations :
       /\ issued[q] # None => issued'[q] = issued[q] /\ expires'[q] = expires[q]
       /\ status[q] \in {"CONFIRMED", "CANCELLED"} => status'[q] \in {status[q], "CANCELLED"}]_vars

-----------------------------------------------------------------------------
Stage(q) ==
  CASE status[q] = "NONE" -> "none"
    [] status[q] = "DRAFT" -> "draft"
    [] status[q] = "CANCELLED" -> "withdrawn"
    [] OTHER -> IF handoff[q] = None THEN "offered" ELSE "taken"

Replaced == {source[d] : d \in Quotations} \ {None}

Book == INSTANCE OfferBook WITH
  Offers <- Quotations,
  NoDocument <- None,
  stage <- [q \in Quotations |-> Stage(q)],
  terms <- issued,
  replaced <- Replaced

(* The quotations are a book of offers. *)
KeepsTheBook == Book!Spec
=============================================================================
