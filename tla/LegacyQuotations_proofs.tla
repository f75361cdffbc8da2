----------------------- MODULE LegacyQuotations_proofs -----------------------
(***************************************************************************)
(* Proofs about LegacyQuotations and the CompanySettings it extends, for   *)
(* any number of administrators and quotations, any forms, charges and     *)
(* budgets.                                                                *)
(*                                                                         *)
(* IInv has a part for each.  The settings rely on numbers: paths are      *)
(* numbered as files are made, and rows and forms are contents that were   *)
(* committed under their version.  The quotations rely on the lock of the  *)
(* row: what a request was allowed for is still so when it commits,        *)
(* because nobody else writes that row, and a screen with the stamp of the *)
(* row shows the amounts of the row.                                       *)
(***************************************************************************)
EXTENDS LegacyQuotations, TLAPS


-----------------------------------------------------------------------------
(* The settings.                                                           *)

JobState == [pc : {"idle", "save", "logo", "drop"}, row : Rows, seen : Shown \cup {None},
             values : Values \cup {None}, path : Paths \cup {None}, old : Paths \cup {None}]

SettingsTypes ==
  /\ left \in [settings : Nat, uses : Nat]
  /\ files \in Paths
  /\ row \in [Rows -> Shown]
  /\ logo \in Paths \cup {None}
  /\ bucket \in SUBSET Paths
  /\ form \in [Admins -> [Rows -> Shown \cup {None}]]
  /\ job \in [Admins -> JobState]
  /\ past \in [Rows -> SUBSET Shown]

(* A save holds what the form and the row said when it was allowed; an      *)
(* upload or a deletion is about the row of the company.                    *)
JobFits(a) ==
  /\ JobIs(a, "save") => /\ job[a].seen \in Shown /\ job[a].values \in Values
                         /\ form[a][job[a].row] # None
                         /\ form[a][job[a].row].version = job[a].seen.version
  /\ JobIs(a, "logo") => job[a].row = "company" /\ job[a].seen \in Shown

(* The row and every form of it are contents it was committed with. *)
Remembered(s) ==
  /\ row[s] \in past[s]
  /\ \A a \in Admins : form[a][s] # None => form[a][s] \in past[s]

(* Paths are numbered as they are made; a file that waits to be the logo    *)
(* was never the logo and nobody else's, so nobody drops it, and what is    *)
(* dropped is not the logo any more.                                        *)
Numbered ==
  /\ \A p \in bucket : p <= files
  /\ logo # None => logo \in bucket
Waiting(b) == JobIs(b, "logo") /\ job[b].path # None
Uploaded(b) ==
  Waiting(b) =>
    /\ job[b].path \in bucket /\ job[b].path # logo
    /\ \A a \in Admins : job[a].pc \in {"logo", "drop"} => job[a].old # job[b].path
    /\ \A a \in Admins \ {b} : Waiting(a) => job[a].path # job[b].path
Dropped(a) ==
  /\ job[a].pc \in {"logo", "drop"} /\ job[a].old # None => job[a].old <= files
  /\ JobIs(a, "drop") /\ logo # None => job[a].old # logo

SettingsInv ==
  /\ SettingsTypes
  /\ Numbered
  /\ \A a \in Admins : JobFits(a) /\ Uploaded(a) /\ Dropped(a)
  /\ \A s \in Rows : Remembered(s)

-----------------------------------------------------------------------------
(* The quotations.                                                         *)

Price == Nat \X Nat \X Nat \X Nat
Product == [price : Price, stamp : Nat]
Places == {"free", "create", "price", "confirm", "edit", "issue", "raise", "raising"}
WorkState == [pc : Places, quote : Quotations \cup {None}, seen : Shown \cup Product \cup {None},
              content : Forms \cup {None}, charges : Charges, accept : BOOLEAN,
              shown : Bases \cup {None}, old : Price \cup {None}]

QuoteTypes ==
  /\ quote \in [Quotations -> Quotation \cup {None}]
  /\ product \in Product
  /\ raised \in [Quotations -> [old : Price, new : Price] \cup {None}]
  /\ screen \in [Admins -> [quote : Quotations, row : Quotation] \cup {None}]
  /\ work \in [Admins -> WorkState]
  /\ approved \in [Quotations -> Bases \cup {None}]

(* What a request was allowed for is still so: it has the row of its        *)
(* quotation, and a raise that has locked the product has its price.        *)
Fits(q, w) ==
  /\ w.pc = "create" => Status(q) = "NONE" /\ w.content \in Forms
  /\ w.pc = "price" => /\ q \in Builder /\ Status(q) = "DRAFT" /\ w.content \in Forms
                       /\ w.charges # 0 => w.content.item # 0
  /\ w.pc = "confirm" => q \in Builder /\ Status(q) = "DRAFT" /\ w.shown = quote[q].basis
  /\ w.pc = "edit" => q \in Classic /\ Status(q) = "DRAFT" /\ w.content \in Forms
  /\ w.pc = "issue" => q \in Classic /\ Status(q) = "DRAFT"
  /\ w.pc \in {"raise", "raising"} => q \in Classic /\ Status(q) = "CONFIRMED" /\ raised[q] = None
  /\ w.pc = "raising" => w.old = product.price

Allowed(a) ==
  /\ WorkIs(a, "free") => Mine(a) = None
  /\ ~WorkIs(a, "free") =>
       /\ Mine(a) \in Quotations
       /\ work[a].seen \in (IF Mine(a) \in Builder THEN Shown ELSE Product)
       /\ Fits(Mine(a), work[a])

Alone ==
  /\ \A a, b \in Admins : Mine(a) = Mine(b) /\ ~WorkIs(a, "free") /\ ~WorkIs(b, "free") => a = b
  /\ \A a, b \in Admins : WorkIs(a, "raising") /\ WorkIs(b, "raising") => a = b

(* A screen with the stamp of the row shows the amounts of the row.        *)
ScreenFits(a) ==
  screen[a] # None =>
    LET q == screen[a].quote IN
    /\ Status(q) # "NONE" /\ screen[a].row.stamp <= quote[q].stamp
    /\ screen[a].row.stamp = quote[q].stamp => screen[a].row.basis = quote[q].basis

(* The amounts of a row, and of one that was confirmed from a screen.      *)
RowFits(q) ==
  /\ Status(q) # "NONE" =>
       /\ quote[q].basis.content = quote[q].content
       /\ quote[q].basis.charges = quote[q].charges
       /\ quote[q].charges # 0 => quote[q].content.item # 0
       /\ q \in Classic => quote[q].charges = 0
  /\ approved[q] # None =>
       Status(q) \in {"CONFIRMED", "CANCELLED"} /\ quote[q].basis = approved[q]

QuotesInv ==
  /\ QuoteTypes
  /\ Alone
  /\ \A a \in Admins : Allowed(a) /\ ScreenFits(a)
  /\ \A q \in Quotations : RowFits(q)

IInv == SettingsInv /\ QuotesInv

-----------------------------------------------------------------------------
(* Records of the settings.                                                *)
LEMMA IdleTyped == Idle \in JobState
BY DEF Idle, JobState, Rows

LEMMA DropTyped ==
  ASSUME NEW j \in JobState,
         NEW k, k = [j EXCEPT !.pc = "drop"]
  PROVE  /\ k \in JobState
         /\ k.pc = "drop" /\ k.path = j.path /\ k.old = j.old
BY DEF JobState

LEMMA IdleFields == Idle.pc = "idle"
BY DEF Idle

LEMMA MergedTyped ==
  ASSUME NEW now \in Shown, NEW seen \in Shown, NEW values \in Values
  PROVE  Merged(now, seen, values) \in Shown /\ Merged(now, seen, values).version = seen.version + 1
<1>1. values \in Values /\ seen.values \in Values /\ now.values \in Values /\ seen.version \in Nat
  BY DEF Shown
<1>2. [f \in Fields |-> IF values[f] # seen.values[f] THEN values[f] ELSE now.values[f]] \in Values
  BY <1>1 DEF Values, Fields
<1>3. QED
  BY <1>1, <1>2 DEF Shown, Merged

LEMMA VersionTyped ==
  ASSUME NEW r \in Shown, NEW n \in Nat
  PROVE  [r EXCEPT !.version = n] \in Shown /\ [r EXCEPT !.version = n].version = n
BY DEF Shown

LEMMA BudgetTyped ==
  ASSUME left \in [settings : Nat, uses : Nat], NEW area \in {"settings", "uses"}, Count(area)
  PROVE  left' \in [settings : Nat, uses : Nat]
<1> DEFINE n == left[area] - 1
<1>1. n \in Nat
  BY DEF Count
<1>2. left' = [left EXCEPT ![area] = n]
  BY DEF Count
<1> HIDE DEF n
<1>3. CASE area = "settings"
  BY <1>1, <1>2, <1>3
<1>4. CASE area = "uses"
  BY <1>1, <1>2, <1>4
<1>5. QED
  BY <1>3, <1>4

(* A commit adds what it wrote to what its row was, and forgets nothing. *)
LEMMA PastGrows ==
  ASSUME past \in [Rows -> SUBSET Shown], NEW s \in Rows, NEW new \in Shown,
         past' = [past EXCEPT ![s] = @ \cup {new}]
  PROVE  /\ past' \in [Rows -> SUBSET Shown]
         /\ new \in past'[s]
         /\ \A t \in Rows : past[t] \subseteq past'[t]
OBVIOUS

-----------------------------------------------------------------------------
(* Each step about the settings.                                            *)
LEMMA JobChanges ==
  ASSUME SettingsTypes, NEW a \in Admins, NEW j \in JobState, job' = [job EXCEPT ![a] = j]
  PROVE  /\ job' \in [Admins -> JobState]
         /\ job'[a] = j
         /\ \A b \in Admins : b # a => job'[b] = job[b]
BY DEF SettingsTypes

LEMMA OpenFormKeeps ==
  ASSUME SettingsInv, NEW a \in Admins, NEW s \in Rows, OpenForm(a, s)
  PROVE  SettingsInv'
<1>1. SettingsTypes /\ JobIs(a, "idle")
  BY DEF SettingsInv, OpenForm
<1>2. left' \in [settings : Nat, uses : Nat]
  BY BudgetTyped DEF OpenForm, SettingsInv, SettingsTypes
<1>3. /\ form' \in [Admins -> [Rows -> Shown \cup {None}]]
      /\ form'[a][s] = row[s]
      /\ \A b \in Admins : \A t \in Rows : b # a \/ t # s => form'[b][t] = form[b][t]
  BY <1>1 DEF OpenForm, SettingsTypes
<1>4. UNCHANGED <<row, logo, bucket, files, job, past>>
  BY DEF OpenForm
<1>5. SettingsTypes'
  BY <1>1, <1>2, <1>3, <1>4 DEF SettingsTypes
<1>6. Numbered'
  BY <1>4 DEF SettingsInv, Numbered
<1>7. ASSUME NEW b \in Admins PROVE (JobFits(b) /\ Uploaded(b) /\ Dropped(b))'
  <2>1. JobFits(b) /\ Uploaded(b) /\ Dropped(b)
    BY DEF SettingsInv
  <2>2. JobFits(b)'
    <3>1. JobIs(b, "save") => b # a
      BY <1>1 DEF JobIs
    <3>2. job[b].row \in Rows
      BY <1>1 DEF SettingsTypes, JobState
    <3>3. QED
      BY <2>1, <1>3, <1>4, <3>1, <3>2 DEF JobFits, JobIs
  <2>3. (Uploaded(b) /\ Dropped(b))'
    BY <2>1, <1>4 DEF Uploaded, Dropped, Waiting, JobIs
  <2>4. QED
    BY <2>2, <2>3
<1>8. ASSUME NEW t \in Rows PROVE Remembered(t)'
  <2>1. Remembered(t) /\ Remembered(s)
    BY DEF SettingsInv
  <2>2. QED
    BY <2>1, <1>3, <1>4 DEF Remembered
<1>9. QED
  BY <1>5, <1>6, <1>7, <1>8 DEF SettingsInv

LEMMA BeginSaveKeeps ==
  ASSUME SettingsInv, NEW a \in Admins, NEW s \in Rows, NEW values \in Values,
         BeginSave(a, s, values)
  PROVE  SettingsInv'
<1>1. SettingsTypes /\ JobIs(a, "idle") /\ AsRead(a, s)
  BY DEF SettingsInv, BeginSave
<1>2. left' \in [settings : Nat, uses : Nat]
  BY BudgetTyped DEF BeginSave, SettingsInv, SettingsTypes
<1>3. row[s] \in Shown
  BY <1>1 DEF SettingsTypes
<1>a. PICK seen : seen = row[s]
  OBVIOUS
<1>b. PICK j : j = [Idle EXCEPT !.pc = "save", !.row = s, !.seen = seen, !.values = values]
  OBVIOUS
<1>4. /\ j \in JobState
      /\ j.pc = "save" /\ j.row = s /\ j.seen = row[s] /\ j.values = values
  <2>1. seen \in Shown
    BY <1>3, <1>a
  <2>2. /\ j \in JobState
        /\ j.pc = "save" /\ j.row = s /\ j.seen = seen /\ j.values = values
    BY <2>1, <1>b DEF Idle, JobState
  <2>3. QED
    BY <2>2, <1>a
<1>5. job' = [job EXCEPT ![a] = j]
  BY <1>a, <1>b DEF BeginSave
<1>6. /\ job' \in [Admins -> JobState] /\ job'[a] = j
      /\ \A b \in Admins : b # a => job'[b] = job[b]
  BY <1>1, <1>4, <1>5, JobChanges
<1>7. UNCHANGED <<row, logo, bucket, files, form, past>>
  BY DEF BeginSave
<1>8. SettingsTypes'
  BY <1>1, <1>2, <1>6, <1>7 DEF SettingsTypes
<1>9. Numbered'
  BY <1>7 DEF SettingsInv, Numbered
<1>10. ASSUME NEW b \in Admins PROVE (JobFits(b) /\ Uploaded(b) /\ Dropped(b))'
  <2>1. JobFits(b) /\ Uploaded(b) /\ Dropped(b)
    BY DEF SettingsInv
  <2>2. JobFits(b)'
    <3>1. CASE b = a
      BY <1>1, <1>3, <1>4, <1>6, <1>7, <3>1 DEF JobFits, JobIs, AsRead
    <3>2. CASE b # a
      BY <2>1, <1>6, <1>7, <3>2 DEF JobFits, JobIs
    <3>3. QED
      BY <3>1, <3>2
  <2>3. Uploaded(b)'
    BY <2>1, <1>4, <1>6, <1>7 DEF Uploaded, Waiting, JobIs
  <2>4. Dropped(b)'
    BY <2>1, <1>4, <1>6, <1>7 DEF Dropped, JobIs
  <2>5. QED
    BY <2>2, <2>3, <2>4
<1>11. ASSUME NEW t \in Rows PROVE Remembered(t)'
  <2>1. Remembered(t)
    BY DEF SettingsInv
  <2>2. QED
    BY <2>1, <1>4, <1>6, <1>7 DEF Remembered
<1>12. QED
  BY <1>8, <1>9, <1>10, <1>11 DEF SettingsInv

LEMMA CommitSaveKeeps ==
  ASSUME SettingsInv, NEW a \in Admins, CommitSave(a)
  PROVE  SettingsInv' /\ left' = left
<1> DEFINE s == job[a].row
           seen == job[a].seen
           new == Merged(row[s], seen, job[a].values)
<1>1. SettingsTypes /\ JobIs(a, "save") /\ JobFits(a)
  BY DEF SettingsInv, CommitSave
<1>2. s \in Rows /\ seen \in Shown /\ job[a].values \in Values
  BY <1>1 DEF JobFits, SettingsTypes, JobState
<1>3. row[s] \in Shown
  BY <1>1, <1>2 DEF SettingsTypes
<1>4. new \in Shown
  BY <1>2, <1>3, MergedTyped
<1>5. /\ row' = [row EXCEPT ![s] = new]
      /\ past' = [past EXCEPT ![s] = @ \cup {new}]
      /\ form' = [form EXCEPT ![a][s] = new]
      /\ job' = [job EXCEPT ![a] = Idle]
      /\ UNCHANGED <<left, logo, bucket, files>>
  BY DEF CommitSave
<1> HIDE DEF new
<1>6. /\ past' \in [Rows -> SUBSET Shown] /\ new \in past'[s]
      /\ \A t \in Rows : past[t] \subseteq past'[t]
  <2>1. past \in [Rows -> SUBSET Shown]
    BY <1>1 DEF SettingsTypes
  <2>2. QED
    BY <2>1, <1>2, <1>4, <1>5, PastGrows
<1>7. /\ job' \in [Admins -> JobState] /\ job'[a].pc = "idle"
      /\ \A b \in Admins : b # a => job'[b] = job[b]
  BY <1>1, <1>5, IdleTyped, IdleFields, JobChanges
<1>8. /\ row' \in [Rows -> Shown] /\ row'[s] = new
      /\ \A t \in Rows : t # s => row'[t] = row[t]
  BY <1>1, <1>2, <1>4, <1>5 DEF SettingsTypes
<1>9. /\ form' \in [Admins -> [Rows -> Shown \cup {None}]] /\ form'[a][s] = new
      /\ \A b \in Admins : \A t \in Rows : b # a \/ t # s => form'[b][t] = form[b][t]
  BY <1>1, <1>2, <1>4, <1>5 DEF SettingsTypes
<1>10. SettingsTypes'
  BY <1>1, <1>5, <1>6, <1>7, <1>8, <1>9 DEF SettingsTypes
<1>11. Numbered'
  BY <1>5 DEF SettingsInv, Numbered
<1>12. ASSUME NEW b \in Admins PROVE (JobFits(b) /\ Uploaded(b) /\ Dropped(b))'
  <2>1. JobFits(b) /\ Uploaded(b) /\ Dropped(b)
    BY DEF SettingsInv
  <2>2. JobFits(b)'
    <3>1. job[b].row \in Rows
      BY <1>1 DEF SettingsTypes, JobState
    <3>2. QED
      BY <2>1, <3>1, <1>7, <1>9 DEF JobFits, JobIs
  <2>3. Uploaded(b)'
    BY <2>1, <1>5, <1>7 DEF Uploaded, Waiting, JobIs
  <2>4. Dropped(b)'
    BY <2>1, <1>5, <1>7 DEF Dropped, JobIs
  <2>5. QED
    BY <2>2, <2>3, <2>4
<1>13. ASSUME NEW t \in Rows PROVE Remembered(t)'
  <2>1. Remembered(t)
    BY DEF SettingsInv
  <2>2. QED
    BY <2>1, <1>6, <1>8, <1>9 DEF Remembered
<1>14. QED
  BY <1>5, <1>10, <1>11, <1>12, <1>13 DEF SettingsInv

LEMMA BeginUploadKeeps ==
  ASSUME SettingsInv, NEW a \in Admins, BeginUpload(a)
  PROVE  SettingsInv'
<1>1. SettingsTypes /\ Numbered /\ JobIs(a, "idle") /\ (logo # None => logo \in bucket)
  BY DEF SettingsInv, BeginUpload, Numbered
<1>2. left' \in [settings : Nat, uses : Nat]
  BY BudgetTyped DEF BeginUpload, SettingsInv, SettingsTypes
<1>a. PICK seen : seen = row["company"]
  OBVIOUS
<1>b. PICK j : j = [Idle EXCEPT !.pc = "logo", !.seen = seen, !.path = FreshPath, !.old = logo]
  OBVIOUS
<1>3. FreshPath \in Paths /\ FreshPath = files + 1 /\ files \in Nat
  BY <1>1 DEF SettingsTypes, Paths, FreshPath
<1>4. /\ j \in JobState
      /\ j.pc = "logo" /\ j.row = "company" /\ j.seen = row["company"] /\ j.seen \in Shown
      /\ j.path = FreshPath /\ j.old = logo
  <2>1. seen \in Shown /\ logo \in Paths \cup {None}
    BY <1>1, <1>a DEF SettingsTypes, Rows
  <2>2. PICK p : p = FreshPath
    OBVIOUS
  <2>3. /\ j \in JobState
        /\ j.pc = "logo" /\ j.row = "company" /\ j.seen = seen /\ j.path = p /\ j.old = logo
    BY <2>1, <2>2, <1>3, <1>b DEF Idle, JobState, Rows
  <2>4. QED
    BY <2>1, <2>2, <2>3, <1>a
<1>5. job' = [job EXCEPT ![a] = j]
  BY <1>a, <1>b DEF BeginUpload
<1>6. /\ job' \in [Admins -> JobState] /\ job'[a] = j
      /\ \A b \in Admins : b # a => job'[b] = job[b]
  BY <1>1, <1>4, <1>5, JobChanges
<1>7. /\ bucket' = bucket \cup {FreshPath} /\ files' = FreshPath
      /\ UNCHANGED <<row, logo, form, past>>
  BY DEF BeginUpload
<1>8. SettingsTypes'
  BY <1>1, <1>2, <1>3, <1>6, <1>7 DEF SettingsTypes
<1>9. bucket \in SUBSET Nat /\ \A p \in bucket : p <= files
  BY <1>1 DEF SettingsTypes, Paths, Numbered
<1>10. Numbered'
  BY <1>1, <1>3, <1>7, <1>9 DEF Numbered
<1>11. ASSUME NEW b \in Admins PROVE (JobFits(b) /\ Uploaded(b) /\ Dropped(b))'
  <2>1. \A c \in Admins : JobFits(c) /\ Uploaded(c) /\ Dropped(c)
    BY DEF SettingsInv
  <2>2. JobFits(b)'
    BY <2>1, <1>4, <1>6, <1>7 DEF JobFits, JobIs
  <2>3. None # FreshPath /\ logo # FreshPath
    BY <1>1, <1>3, <1>9, SettingsAssumption
  <2>4. \A c \in Admins : job[c].pc \in {"logo", "drop"} => job[c].old # FreshPath
    <3>1. \A c \in Admins : job[c].old \in Paths \cup {None}
      BY <1>1 DEF SettingsTypes, JobState
    <3>2. QED
      BY <3>1, <2>1, <2>3, <1>3 DEF Dropped, Paths
  <2>5. \A c \in Admins : Waiting(c) => job[c].path # FreshPath
    BY <2>1, <1>3, <1>9 DEF Uploaded
  <2>6. Uploaded(b)'
    <3>1. CASE b = a
      <4>1. \A c \in Admins : job'[c].pc \in {"logo", "drop"} => job'[c].old # FreshPath
        BY <2>3, <2>4, <1>4, <1>6
      <4>2. \A c \in Admins \ {b} : Waiting(c)' => job'[c].path # FreshPath
        BY <3>1, <2>5, <1>6 DEF Waiting, JobIs
      <4>3. job'[b].path = FreshPath
        BY <3>1, <1>4, <1>6
      <4>4. QED
        BY <4>1, <4>2, <4>3, <2>3, <1>7 DEF Uploaded
    <3>2. CASE b # a
      BY <2>1, <2>5, <1>4, <1>6, <1>7, <3>2 DEF Uploaded, Waiting, JobIs
    <3>3. QED
      BY <3>1, <3>2
  <2>7. Dropped(b)'
    <3>1. CASE b = a
      <4>1. logo # None => logo \in Nat /\ logo <= files
        BY <1>1, <1>9
      <4>2. job'[b].old = logo /\ job'[b].pc = "logo" /\ files' = files + 1
        BY <1>3, <1>4, <1>6, <1>7, <3>1
      <4>3. QED
        BY <4>1, <4>2, <1>3 DEF Dropped, JobIs
    <3>2. CASE b # a
      <4>1. job[b].old # None => job[b].old \in Nat
        BY <1>1 DEF SettingsTypes, JobState, Paths
      <4>2. QED
        BY <2>1, <4>1, <1>3, <1>6, <1>7, <3>2 DEF Dropped, JobIs
    <3>3. QED
      BY <3>1, <3>2
  <2>8. QED
    BY <2>2, <2>6, <2>7
<1>12. ASSUME NEW t \in Rows PROVE Remembered(t)'
  <2>1. Remembered(t)
    BY DEF SettingsInv
  <2>2. QED
    BY <2>1, <1>4, <1>6, <1>7 DEF Remembered
<1>13. QED
  BY <1>8, <1>10, <1>11, <1>12 DEF SettingsInv

LEMMA BeginDeleteKeeps ==
  ASSUME SettingsInv, NEW a \in Admins, BeginDelete(a)
  PROVE  SettingsInv'
<1>1. SettingsTypes /\ JobIs(a, "idle") /\ logo \in bucket /\ logo <= files
  BY DEF SettingsInv, BeginDelete, Numbered
<1>2. left' \in [settings : Nat, uses : Nat]
  BY BudgetTyped DEF BeginDelete, SettingsInv, SettingsTypes
<1>a. PICK seen : seen = row["company"]
  OBVIOUS
<1>b. PICK j : j = [Idle EXCEPT !.pc = "logo", !.seen = seen, !.old = logo]
  OBVIOUS
<1>3. /\ j \in JobState
      /\ j.pc = "logo" /\ j.row = "company" /\ j.seen = row["company"] /\ j.seen \in Shown
      /\ j.path = None /\ j.old = logo
  <2>1. seen \in Shown /\ logo \in Paths \cup {None}
    BY <1>1, <1>a DEF SettingsTypes, Rows
  <2>2. /\ j \in JobState
        /\ j.pc = "logo" /\ j.row = "company" /\ j.seen = seen /\ j.path = None /\ j.old = logo
    BY <2>1, <1>b DEF Idle, JobState, Rows
  <2>3. QED
    BY <2>1, <2>2, <1>a
<1>4. job' = [job EXCEPT ![a] = j]
  BY <1>a, <1>b DEF BeginDelete
<1>5. /\ job' \in [Admins -> JobState] /\ job'[a] = j
      /\ \A b \in Admins : b # a => job'[b] = job[b]
  BY <1>1, <1>3, <1>4, JobChanges
<1>6. UNCHANGED <<row, logo, bucket, files, form, past>>
  BY DEF BeginDelete
<1>7. SettingsTypes'
  BY <1>1, <1>2, <1>5, <1>6 DEF SettingsTypes
<1>8. Numbered'
  BY <1>6 DEF SettingsInv, Numbered
<1>9. ASSUME NEW b \in Admins PROVE (JobFits(b) /\ Uploaded(b) /\ Dropped(b))'
  <2>1. \A c \in Admins : JobFits(c) /\ Uploaded(c) /\ Dropped(c)
    BY DEF SettingsInv
  <2>2. JobFits(b)'
    BY <2>1, <1>3, <1>5, <1>6 DEF JobFits, JobIs
  <2>3. Uploaded(b)'
    BY <2>1, <1>3, <1>5, <1>6 DEF Uploaded, Waiting, JobIs
  <2>4. Dropped(b)'
    BY <2>1, <1>1, <1>3, <1>5, <1>6 DEF Dropped, JobIs
  <2>5. QED
    BY <2>2, <2>3, <2>4
<1>10. ASSUME NEW t \in Rows PROVE Remembered(t)'
  <2>1. Remembered(t)
    BY DEF SettingsInv
  <2>2. QED
    BY <2>1, <1>3, <1>5, <1>6 DEF Remembered
<1>11. QED
  BY <1>7, <1>8, <1>9, <1>10 DEF SettingsInv

LEMMA CommitLogoKeeps ==
  ASSUME SettingsInv, NEW a \in Admins, CommitLogo(a)
  PROVE  SettingsInv' /\ left' = left
<1> DEFINE s == "company"
           seen == job[a].seen
<1>1. SettingsTypes /\ JobIs(a, "logo") /\ JobFits(a) /\ s \in Rows
  BY DEF SettingsInv, CommitLogo, Rows
<1>2. job[a] \in JobState /\ job[a].row = s /\ seen \in Shown /\ row[s] \in Shown
  BY <1>1 DEF JobFits, SettingsTypes
<1>3. PICK n : n = seen.version + 1
  OBVIOUS
<1>4. n \in Nat /\ seen.version \in Nat
  BY <1>2, <1>3 DEF Shown
<1>5. PICK new : new = [row[s] EXCEPT !.version = n]
  OBVIOUS
<1>6. new \in Shown /\ new.version = n
  BY <1>2, <1>4, <1>5, VersionTyped
<1>7. PICK j : j = [job[a] EXCEPT !.pc = "drop"]
  OBVIOUS
<1>8. j \in JobState /\ j.pc = "drop" /\ j.path = job[a].path /\ j.old = job[a].old
  BY <1>2, <1>7, DropTyped
<1>9. /\ row' = [row EXCEPT ![s] = new]
      /\ logo' = job[a].path
      /\ past' = [past EXCEPT ![s] = @ \cup {row'[s]}]
      /\ job' = [job EXCEPT ![a] = j]
      /\ UNCHANGED <<left, bucket, files, form>>
  BY <1>1, <1>3, <1>5, <1>7 DEF CommitLogo, SettingsTypes
<1>10. /\ row' \in [Rows -> Shown] /\ row'[s] = new
       /\ \A t \in Rows : t # s => row'[t] = row[t]
  BY <1>1, <1>6, <1>9 DEF SettingsTypes
<1>11. /\ job' \in [Admins -> JobState] /\ job'[a] = j
       /\ \A b \in Admins : b # a => job'[b] = job[b]
  BY <1>1, <1>8, <1>9, JobChanges
<1>12. /\ past' \in [Rows -> SUBSET Shown] /\ new \in past'[s]
       /\ \A t \in Rows : past[t] \subseteq past'[t]
  <2>1. past \in [Rows -> SUBSET Shown]
    BY <1>1 DEF SettingsTypes
  <2>2. QED
    BY <2>1, <1>1, <1>6, <1>9, <1>10, PastGrows
<1>13. \A c \in Admins : JobFits(c) /\ Uploaded(c) /\ Dropped(c)
  BY DEF SettingsInv
<1>14. SettingsTypes'
  <2>1. logo' \in Paths \cup {None}
    BY <1>2, <1>9 DEF JobState
  <2>2. QED
    BY <2>1, <1>1, <1>9, <1>10, <1>11, <1>12 DEF SettingsTypes
<1>15. Numbered'
  BY <1>1, <1>9, <1>13 DEF SettingsInv, Numbered, Uploaded, Waiting
<1>16. ASSUME NEW b \in Admins PROVE (JobFits(b) /\ Uploaded(b) /\ Dropped(b))'
  <2>1. JobFits(b)'
    BY <1>8, <1>9, <1>11, <1>13 DEF JobFits, JobIs
  <2>2. Uploaded(b)'
    <3>1. Waiting(b)' => Waiting(b) /\ b # a /\ job'[b].path = job[b].path
      BY <1>8, <1>11 DEF Waiting, JobIs
    <3>2. Waiting(b) /\ b # a => logo' # job[b].path
      <4>1. Waiting(b) /\ b # a /\ job[a].path = job[b].path => Waiting(a)
        BY <1>1 DEF Waiting
      <4>2. QED
        BY <4>1, <1>9, <1>13 DEF Uploaded
    <3>3. \A c \in Admins : /\ job'[c].pc \in {"logo", "drop"} => job[c].pc \in {"logo", "drop"}
                            /\ job'[c].old = job[c].old /\ job'[c].path = job[c].path
                            /\ Waiting(c)' => Waiting(c)
      BY <1>1, <1>8, <1>11 DEF Waiting, JobIs
    <3>4. QED
      BY <3>1, <3>2, <3>3, <1>9, <1>13 DEF Uploaded
  <2>3. Dropped(b)'
    <3>1. job'[b].pc \in {"logo", "drop"} => job[b].pc \in {"logo", "drop"}
      BY <1>1, <1>8, <1>11 DEF JobIs
    <3>2. job'[b].old = job[b].old
      BY <1>8, <1>11
    <3>3. job[b].pc \in {"logo", "drop"} /\ job[a].path # None => job[b].old # job[a].path
      BY <1>1, <1>13 DEF Uploaded, Waiting
    <3>4. QED
      BY <3>1, <3>2, <3>3, <1>9, <1>13 DEF Dropped, JobIs
  <2>4. QED
    BY <2>1, <2>2, <2>3
<1>17. ASSUME NEW t \in Rows PROVE Remembered(t)'
  <2>1. Remembered(t)
    BY DEF SettingsInv
  <2>2. QED
    BY <2>1, <1>9, <1>10, <1>12 DEF Remembered
<1>18. QED
  BY <1>9, <1>14, <1>15, <1>16, <1>17 DEF SettingsInv

(* A request that is over, and one whose file goes. *)
LEMMA EndKeeps ==
  ASSUME SettingsInv, NEW a \in Admins, DropOld(a) \/ Fail(a)
  PROVE  SettingsInv' /\ left' = left
<1>1. SettingsTypes /\ job' = [job EXCEPT ![a] = Idle]
  BY DEF SettingsInv, DropOld, Fail
<1>2. /\ job' \in [Admins -> JobState] /\ job'[a].pc = "idle"
      /\ \A b \in Admins : b # a => job'[b] = job[b]
  BY <1>1, IdleTyped, IdleFields, JobChanges
<1>3. UNCHANGED <<left, row, logo, files, form, past>>
  BY DEF DropOld, Fail
<1>4. \/ bucket' = bucket
      \/ JobIs(a, "drop") /\ bucket' = bucket \ {job[a].old}
  BY DEF DropOld, Fail
<1>5. \A c \in Admins : JobFits(c) /\ Uploaded(c) /\ Dropped(c)
  BY DEF SettingsInv
<1>6. SettingsTypes'
  <2>1. bucket' \in SUBSET Paths
    BY <1>1, <1>4 DEF SettingsTypes
  <2>2. QED
    BY <2>1, <1>1, <1>2, <1>3 DEF SettingsTypes
<1>7. Numbered'
  BY <1>3, <1>4, <1>5 DEF SettingsInv, Numbered, Dropped
<1>8. ASSUME NEW b \in Admins PROVE (JobFits(b) /\ Uploaded(b) /\ Dropped(b))'
  <2>1. JobFits(b)'
    BY <1>2, <1>3, <1>5 DEF JobFits, JobIs
  <2>2. Uploaded(b)'
    BY <1>2, <1>3, <1>4, <1>5 DEF Uploaded, Waiting, JobIs
  <2>3. Dropped(b)'
    BY <1>2, <1>3, <1>5 DEF Dropped, JobIs
  <2>4. QED
    BY <2>1, <2>2, <2>3
<1>9. ASSUME NEW t \in Rows PROVE Remembered(t)'
  <2>1. Remembered(t)
    BY DEF SettingsInv
  <2>2. QED
    BY <2>1, <1>2, <1>3 DEF Remembered
<1>10. QED
  BY <1>3, <1>6, <1>7, <1>8, <1>9 DEF SettingsInv

LEMMA SettingsStepKeeps ==
  ASSUME SettingsInv, NEW a \in Admins, SettingsStep(a)
  PROVE  SettingsInv'
BY OpenFormKeeps, BeginSaveKeeps, CommitSaveKeeps, BeginUploadKeeps, BeginDeleteKeeps,
   CommitLogoKeeps, EndKeeps DEF SettingsStep

(* A request about a quotation leaves the settings alone. *)
LEMMA SettingsStay ==
  ASSUME SettingsInv, UNCHANGED settings, left' = left \/ Count("uses")
  PROVE  SettingsInv'
<1>1. left' \in [settings : Nat, uses : Nat]
  BY BudgetTyped DEF SettingsInv, SettingsTypes
<1>2. UNCHANGED <<row, logo, bucket, files, form, job, past>>
  BY DEF settings
<1>3. SettingsTypes'
  BY <1>1, <1>2 DEF SettingsInv, SettingsTypes
<1>4. Numbered'
  BY <1>2 DEF SettingsInv, Numbered
<1>5. ASSUME NEW b \in Admins PROVE (JobFits(b) /\ Uploaded(b) /\ Dropped(b))'
  BY <1>2 DEF SettingsInv, JobFits, Uploaded, Dropped, Waiting, JobIs
<1>6. ASSUME NEW t \in Rows PROVE Remembered(t)'
  BY <1>2 DEF SettingsInv, Remembered
<1>7. QED
  BY <1>3, <1>4, <1>5, <1>6 DEF SettingsInv

-----------------------------------------------------------------------------
(* Rows, requests and prices of quotations.                                 *)
LEMMA FormsTyped ==
  /\ \A q \in Quotations : Contents[q] \subseteq Forms
  /\ \A c \in Forms : c.item \in Nat /\ c.detail \in Nat
BY LegacyAssumption DEF Forms

LEMMA FreeTyped == Free \in WorkState /\ Free.pc = "free" /\ Free.quote = None
BY LegacyAssumption DEF Free, WorkState, Places, Charges

LEMMA BasisTyped ==
  ASSUME NEW content \in Forms, NEW charges \in Charges, NEW seen \in Shown, NEW p \in Product
  PROVE  LET b == Basis(content, charges, seen, p) IN
         b \in Bases /\ b.content = content /\ b.charges = charges
<1>1. seen.values["pricing"] \in Choices["pricing"]
  BY DEF Shown, Values, Fields
<1>2. p.stamp \in Nat
  BY DEF Product
<1>3. (IF content.item = 0 THEN 0 ELSE p.stamp) \in Nat
  BY <1>2
<1>4. QED
  BY <1>1, <1>3 DEF Basis, Bases

LEMMA UnitPriceTyped ==
  ASSUME NEW b \in Bases
  PROVE  UnitPrice(b) \in Price
<1>1. b.content \in Forms /\ b.tax \in Nat /\ b.product \in Nat
  BY SettingsAssumption DEF Bases, Fields
<1>2. QED
  BY <1>1, FormsTyped DEF UnitPrice, Price

LEMMA NewRowTyped ==
  ASSUME NEW content \in Forms, NEW basis \in Bases
  PROVE  LET r == NewRow(content, basis) IN
         /\ r \in Quotation
         /\ r.status = "DRAFT" /\ r.content = content /\ r.charges = 0 /\ r.basis = basis
BY LegacyAssumption DEF NewRow, Quotation, Charges

(* A row that is written has the stamp after its own. *)
LEMMA StampTyped ==
  ASSUME NEW r \in Quotation, NEW n, n = [r EXCEPT !.stamp = @ + 1]
  PROVE  /\ n \in Quotation /\ n.stamp > r.stamp /\ r.stamp \in Nat
         /\ n.status = r.status /\ n.content = r.content /\ n.charges = r.charges
         /\ n.basis = r.basis /\ n.paid = r.paid /\ n.validity = r.validity
<1> DEFINE k == r.stamp + 1
<1>1. k \in Nat /\ k > r.stamp /\ r.stamp \in Nat
  BY DEF Quotation
<1>2. n = [r EXCEPT !.stamp = k]
  OBVIOUS
<1> HIDE DEF k
<1>3. QED
  BY <1>1, <1>2 DEF Quotation

(* A payment and a cancellation change one field, and the stamp.            *)
LEMMA PaidTyped ==
  ASSUME NEW r \in Quotation, NEW n, n = [r EXCEPT !.paid = TRUE, !.stamp = @ + 1]
  PROVE  /\ n \in Quotation /\ n.stamp > r.stamp
         /\ n.status = r.status /\ n.content = r.content /\ n.charges = r.charges
         /\ n.basis = r.basis /\ n.paid = TRUE /\ n.validity = r.validity
<1> DEFINE k == r.stamp + 1
<1>1. k \in Nat /\ k > r.stamp
  BY DEF Quotation
<1>2. n = [r EXCEPT !.paid = TRUE, !.stamp = k]
  BY DEF Quotation
<1> HIDE DEF k
<1>3. QED
  BY <1>1, <1>2 DEF Quotation

LEMMA CancelledTyped ==
  ASSUME NEW r \in Quotation, NEW n, n = [r EXCEPT !.status = "CANCELLED", !.stamp = @ + 1]
  PROVE  /\ n \in Quotation /\ n.stamp > r.stamp
         /\ n.status = "CANCELLED" /\ n.content = r.content /\ n.charges = r.charges
         /\ n.basis = r.basis /\ n.paid = r.paid /\ n.validity = r.validity
<1> DEFINE k == r.stamp + 1
<1>1. k \in Nat /\ k > r.stamp
  BY DEF Quotation
<1>2. n = [r EXCEPT !.status = "CANCELLED", !.stamp = k]
  BY DEF Quotation
<1> HIDE DEF k
<1>3. QED
  BY <1>1, <1>2 DEF Quotation

(* A row is a row, and its status says so. *)
LEMMA StatusFacts ==
  ASSUME QuoteTypes, NEW q \in Quotations
  PROVE  /\ Status(q) # "NONE" <=> quote[q] # None
         /\ quote[q] # None => quote[q] \in Quotation /\ Status(q) = quote[q].status
BY DEF QuoteTypes, Status, Quotation

(* What a request prices from. *)
LEMMA TodayTyped ==
  ASSUME SettingsInv, QuotesInv, NEW a \in Admins, ~WorkIs(a, "free"),
         NEW content \in Forms, NEW charges \in Charges
  PROVE  /\ Settings(a) \in Shown
         /\ Today(a, content, charges) \in Bases
         /\ Today(a, content, charges).content = content
         /\ Today(a, content, charges).charges = charges
<1>1. row["commercial"] \in Shown /\ product \in Product
  BY DEF SettingsInv, SettingsTypes, Rows, QuotesInv, QuoteTypes
<1>2. work[a].seen \in (IF Mine(a) \in Builder THEN Shown ELSE Product)
  BY DEF QuotesInv, Allowed
<1>3. Settings(a) \in Shown
  BY <1>1, <1>2 DEF Settings
<1>4. PICK p : p = IF Mine(a) \in Builder THEN product ELSE work[a].seen
  OBVIOUS
<1>5. p \in Product
  BY <1>1, <1>2, <1>4
<1>6. PICK s : s = Settings(a)
  OBVIOUS
<1>7. Today(a, content, charges) = Basis(content, charges, s, p)
  BY <1>4, <1>6 DEF Today
<1>8. QED
  BY <1>3, <1>5, <1>6, <1>7, BasisTyped

-----------------------------------------------------------------------------
(* The two ways requests move on.                                           *)

(* Some requests end; the others go on with what they had. *)
LEMMA WorkEnds ==
  ASSUME QuotesInv, work' \in [Admins -> WorkState],
         \A b \in Admins : work'[b] = work[b] \/ (work'[b].pc = "free" /\ work'[b].quote = None)
  PROVE  /\ Alone'
         /\ \A b \in Admins :
              \/ WorkIs(b, "free")' /\ Mine(b)' = None
              \/ work'[b] = work[b] /\ Mine(b)' = Mine(b) /\ ~WorkIs(b, "free")
<1>1. \A b \in Admins : \/ WorkIs(b, "free")' /\ Mine(b)' = None
                        \/ work'[b] = work[b] /\ Mine(b)' = Mine(b) /\ ~WorkIs(b, "free")
  BY DEF QuotesInv, Allowed, WorkIs, Mine
<1>2. Alone'
  BY <1>1 DEF QuotesInv, Alone, WorkIs, Mine
<1>3. QED
  BY <1>1, <1>2

LEMMA Finished ==
  ASSUME QuotesInv, NEW a \in Admins, Finish(a)
  PROVE  /\ work' \in [Admins -> WorkState]
         /\ work'[a].pc = "free" /\ work'[a].quote = None
         /\ \A b \in Admins : b # a => work'[b] = work[b]
BY FreeTyped DEF QuotesInv, QuoteTypes, Finish

(* A row is written by the one that has it, and nobody else's changes.      *)
LEMMA RowChanges ==
  ASSUME QuotesInv, NEW q \in Quotations, NEW new \in Quotation,
         quote' = [quote EXCEPT ![q] = new],
         UNCHANGED <<product, raised, screen>>,
         work' \in [Admins -> WorkState],
         \A b \in Admins : work'[b] = work[b] \/ (work'[b].pc = "free" /\ work'[b].quote = None),
         \A b \in Admins : Mine(b) = q => work'[b].pc = "free",
         approved' \in [Quotations -> Bases \cup {None}],
         \A p \in Quotations : p # q => approved'[p] = approved[p],
         quote[q] # None => new.stamp > quote[q].stamp,
         /\ new.basis.content = new.content /\ new.basis.charges = new.charges
         /\ new.charges # 0 => new.content.item # 0
         /\ q \in Classic => new.charges = 0,
         approved'[q] # None => new.status \in {"CONFIRMED", "CANCELLED"} /\ new.basis = approved'[q]
  PROVE  QuotesInv'
<1>1. QuoteTypes
  BY DEF QuotesInv
<1>2. /\ quote' \in [Quotations -> Quotation \cup {None}]
      /\ quote'[q] = new
      /\ \A p \in Quotations : p # q => quote'[p] = quote[p]
  BY <1>1 DEF QuoteTypes
<1>3. QuoteTypes'
  BY <1>1, <1>2 DEF QuoteTypes
<1>4. /\ Alone'
      /\ \A b \in Admins :
           \/ WorkIs(b, "free")' /\ Mine(b)' = None
           \/ work'[b] = work[b] /\ Mine(b)' = Mine(b) /\ ~WorkIs(b, "free")
  BY WorkEnds
<1>5. /\ \A p \in Quotations : p # q => Status(p)' = Status(p)
      /\ Status(q)' = new.status /\ new.status # "NONE"
  BY <1>2, RowAssumption DEF Status, Quotation
<1>6. ASSUME NEW b \in Admins PROVE Allowed(b)'
  <2>1. CASE WorkIs(b, "free")' /\ Mine(b)' = None
    BY <2>1 DEF Allowed
  <2>2. CASE work'[b] = work[b] /\ Mine(b)' = Mine(b) /\ ~WorkIs(b, "free")
    <3>1. /\ Mine(b) \in Quotations
          /\ work[b].seen \in (IF Mine(b) \in Builder THEN Shown ELSE Product)
          /\ Fits(Mine(b), work[b])
      BY <2>2 DEF QuotesInv, Allowed
    <3>2. Mine(b) # q
      BY <2>2 DEF WorkIs
    <3>3. Status(Mine(b))' = Status(Mine(b)) /\ quote'[Mine(b)] = quote[Mine(b)]
      BY <3>1, <3>2, <1>2, <1>5, <2>2
    <3>4. Fits(Mine(b), work[b])'
      BY <3>1, <3>3, <2>2 DEF Fits
    <3>5. QED
      BY <3>1, <3>4, <2>2 DEF Allowed, WorkIs
  <2>3. QED
    BY <1>4, <2>1, <2>2
<1>7. ASSUME NEW b \in Admins PROVE ScreenFits(b)'
  <2>1. ScreenFits(b) /\ screen' = screen
    BY DEF QuotesInv
  <2>2. SUFFICES ASSUME screen[b] # None
                 PROVE  LET p == screen[b].quote IN
                        /\ Status(p)' # "NONE" /\ screen[b].row.stamp <= quote'[p].stamp
                        /\ screen[b].row.stamp = quote'[p].stamp => screen[b].row.basis = quote'[p].basis
    BY <2>1 DEF ScreenFits
  <2>3. /\ screen[b].quote \in Quotations /\ screen[b].row \in Quotation
        /\ screen[b].row.stamp \in Nat
    BY <2>2, <1>1 DEF QuoteTypes, Quotation
  <2>4. CASE screen[b].quote = q
    <3>1. quote[q] \in Quotation /\ quote[q] # None
      BY <2>1, <2>2, <2>3, <2>4, <1>1, StatusFacts DEF ScreenFits
    <3>2. quote[q].stamp \in Nat /\ new.stamp \in Nat /\ new.stamp > quote[q].stamp
      BY <3>1 DEF Quotation
    <3>3. screen[b].row.stamp <= quote[q].stamp
      BY <2>1, <2>2, <2>4 DEF ScreenFits
    <3>4. QED
      BY <3>2, <3>3, <2>3, <2>4, <1>2, <1>5
  <2>5. CASE screen[b].quote # q
    BY <2>1, <2>2, <2>3, <2>5, <1>2, <1>5 DEF ScreenFits
  <2>6. QED
    BY <2>4, <2>5
<1>8. ASSUME NEW p \in Quotations PROVE RowFits(p)'
  <2>1. CASE p = q
    BY <2>1, <1>2, <1>5 DEF RowFits
  <2>2. CASE p # q
    <3>1. RowFits(p) /\ approved'[p] = approved[p]
      BY <2>2 DEF QuotesInv
    <3>2. QED
      BY <3>1, <2>2, <1>2, <1>5 DEF RowFits
  <2>3. QED
    BY <2>1, <2>2
<1>9. QED
  BY <1>3, <1>4, <1>6, <1>7, <1>8 DEF QuotesInv

(* A request that starts finds what it is allowed for, and has the row. *)
LEMMA StartKeeps ==
  ASSUME SettingsInv, QuotesInv, NEW a \in Admins, NEW q \in Quotations, NEW w \in WorkState,
         Start(a, q, w), w.pc \notin {"free", "raising"}, Fits(q, w)
  PROVE  QuotesInv'
<1>1. QuoteTypes /\ Unlocked(q) /\ WorkIs(a, "free")
  BY DEF QuotesInv, Start, Waits
<1>2. PICK first : first = FirstRead(q)
  OBVIOUS
<1>3. first \in (IF q \in Builder THEN Shown ELSE Product)
  BY <1>1, <1>2 DEF FirstRead, SettingsInv, SettingsTypes, Rows, QuoteTypes
<1>4. PICK v : v = [w EXCEPT !.quote = q, !.seen = first]
  OBVIOUS
<1>5. /\ v \in WorkState /\ v.pc = w.pc /\ v.quote = q /\ v.seen = first
      /\ v.content = w.content /\ v.charges = w.charges /\ v.shown = w.shown /\ v.old = w.old
  BY <1>3, <1>4 DEF WorkState
<1>6. /\ work' = [work EXCEPT ![a] = v]
      /\ UNCHANGED <<quote, product, raised, screen, approved>>
  BY <1>2, <1>4 DEF Start
<1>7. /\ work' \in [Admins -> WorkState] /\ work'[a] = v
      /\ \A b \in Admins : b # a => work'[b] = work[b]
  BY <1>1, <1>5, <1>6 DEF QuoteTypes
<1>8. QuoteTypes'
  BY <1>1, <1>6, <1>7 DEF QuoteTypes
<1>9. \A p : Status(p)' = Status(p)
  BY <1>6 DEF Status
<1>10. Alone'
  <2>1. \A b \in Admins : Mine(b) # q
    BY <1>1 DEF Unlocked
  <2>2. Mine(a)' = q /\ ~WorkIs(a, "raising")'
    BY <1>5, <1>7 DEF Mine, WorkIs
  <2>3. \A b \in Admins : b # a =>
          /\ Mine(b)' = Mine(b) /\ WorkIs(b, "free")' = WorkIs(b, "free")
          /\ WorkIs(b, "raising")' = WorkIs(b, "raising")
    BY <1>7 DEF Mine, WorkIs
  <2>4. QED
    BY <2>1, <2>2, <2>3 DEF QuotesInv, Alone
<1>11. ASSUME NEW b \in Admins PROVE Allowed(b)'
  <2>1. CASE b = a
    <3>1. Fits(q, v)'
      BY <1>5, <1>6, <1>9 DEF Fits
    <3>2. QED
      BY <2>1, <3>1, <1>3, <1>5, <1>7 DEF Allowed, WorkIs, Mine
  <2>2. CASE b # a
    <3>1. Allowed(b) /\ work'[b] = work[b]
      BY <2>2, <1>7 DEF QuotesInv
    <3>2. Fits(Mine(b), work[b]) => Fits(Mine(b), work[b])'
      BY <3>1, <1>6, <1>9 DEF Fits, Mine
    <3>3. QED
      BY <3>1, <3>2 DEF Allowed, WorkIs, Mine
  <2>3. QED
    BY <2>1, <2>2
<1>12. ASSUME NEW b \in Admins PROVE ScreenFits(b)'
  BY <1>6, <1>9 DEF QuotesInv, ScreenFits
<1>13. ASSUME NEW p \in Quotations PROVE RowFits(p)'
  BY <1>6, <1>9 DEF QuotesInv, RowFits
<1>14. QED
  BY <1>8, <1>10, <1>11, <1>12, <1>13 DEF QuotesInv

-----------------------------------------------------------------------------
(* Each step about the quotations.                                          *)
LEMMA BeginCreateFits ==
  ASSUME QuotesInv, NEW a \in Admins, NEW q \in Quotations, BeginCreate(a, q)
  PROVE  \E w \in WorkState : Start(a, q, w) /\ w.pc \notin {"free", "raising"} /\ Fits(q, w)
<1>1. PICK c \in Contents[q] \cup {quote[s].content : s \in {t \in Quotations :
          quote[t] # None /\ (t \in Builder <=> q \in Builder)}} :
        Start(a, q, [Free EXCEPT !.pc = "create", !.content = c])
  BY DEF BeginCreate
<1>2. QuoteTypes /\ quote[q] = None
  BY DEF QuotesInv, BeginCreate
<1>3. c \in Forms
  <2>1. \A s \in Quotations : quote[s] # None => quote[s].content \in Forms
    BY <1>2 DEF QuoteTypes, Quotation
  <2>2. QED
    BY <1>1, <2>1, FormsTyped
<1>4. PICK w : w = [Free EXCEPT !.pc = "create", !.content = c]
  OBVIOUS
<1>5. w \in WorkState /\ w.pc = "create" /\ w.content \in Forms
  BY <1>3, <1>4, FreeTyped DEF WorkState, Places
<1>6. Status(q) = "NONE"
  BY <1>2 DEF Status
<1>7. QED
  BY <1>1, <1>4, <1>5, <1>6 DEF Fits

LEMMA BeginUpdateFits ==
  ASSUME QuotesInv, NEW a \in Admins, NEW q \in Quotations, NEW c \in Contents[q],
         BeginUpdate(a, q, c)
  PROVE  \E w \in WorkState : Start(a, q, w) /\ w.pc \notin {"free", "raising"} /\ Fits(q, w)
<1>1. /\ q \in Builder /\ Status(q) = "DRAFT"
      /\ c.item # 0 \/ quote[q].charges = 0
      /\ Start(a, q, [Free EXCEPT !.pc = "price", !.content = c, !.charges = quote[q].charges])
  BY DEF BeginUpdate
<1>2. PICK n : n = quote[q].charges
  OBVIOUS
<1>3. n \in Charges /\ c \in Forms
  <2>1. quote[q] \in Quotation
    BY <1>1, StatusFacts DEF QuotesInv
  <2>2. QED
    BY <2>1, <1>2, FormsTyped DEF Quotation
<1>4. PICK w : w = [Free EXCEPT !.pc = "price", !.content = c, !.charges = n]
  OBVIOUS
<1>5. w \in WorkState /\ w.pc = "price" /\ w.content = c /\ w.charges = n
  BY <1>3, <1>4, FreeTyped DEF WorkState, Places
<1>6. Start(a, q, w)
  BY <1>1, <1>2, <1>4
<1>7. w.charges # 0 => w.content.item # 0
  BY <1>1, <1>2, <1>5
<1>8. QED
  BY <1>1, <1>3, <1>5, <1>6, <1>7 DEF Fits

LEMMA BeginChargeFits ==
  ASSUME QuotesInv, NEW a \in Admins, NEW q \in Quotations, NEW n \in Charges,
         BeginCharge(a, q, n)
  PROVE  \E w \in WorkState : Start(a, q, w) /\ w.pc \notin {"free", "raising"} /\ Fits(q, w)
<1>1. /\ q \in Builder /\ Status(q) = "DRAFT"
      /\ quote[q].charges # 0 \/ quote[q].content.item # 0
      /\ Start(a, q, [Free EXCEPT !.pc = "price", !.content = quote[q].content, !.charges = n])
  BY DEF BeginCharge
<1>2. PICK c : c = quote[q].content
  OBVIOUS
<1>3. c \in Forms /\ quote[q] # None
  <2>1. quote[q] \in Quotation
    BY <1>1, StatusFacts DEF QuotesInv
  <2>2. QED
    BY <2>1, <1>2, RowAssumption DEF Quotation
<1>4. PICK w : w = [Free EXCEPT !.pc = "price", !.content = c, !.charges = n]
  OBVIOUS
<1>5. w \in WorkState /\ w.pc = "price" /\ w.content = c /\ w.charges = n
  BY <1>3, <1>4, FreeTyped DEF WorkState, Places
<1>6. Start(a, q, w)
  BY <1>1, <1>2, <1>4
<1>7. c.item # 0
  BY <1>1, <1>2 DEF QuotesInv, RowFits
<1>8. QED
  BY <1>1, <1>3, <1>5, <1>6, <1>7 DEF Fits

(* The screen had the stamp of the row, so it shows its amounts. *)
LEMMA BeginConfirmFits ==
  ASSUME QuotesInv, NEW a \in Admins, NEW q \in Quotations, BeginConfirm(a, q)
  PROVE  \E w \in WorkState : Start(a, q, w) /\ w.pc \notin {"free", "raising"} /\ Fits(q, w)
<1>1. /\ q \in Builder /\ Status(q) = "DRAFT" /\ IsFresh(a, q)
      /\ Start(a, q, [Free EXCEPT !.pc = "confirm", !.shown = screen[a].row.basis])
  BY DEF BeginConfirm
<1>2. PICK b : b = screen[a].row.basis
  OBVIOUS
<1>3. b \in Bases
  BY <1>1, <1>2 DEF QuotesInv, QuoteTypes, IsFresh, LooksAt, Quotation
<1>4. b = quote[q].basis
  BY <1>1, <1>2 DEF QuotesInv, ScreenFits, IsFresh, LooksAt
<1>5. PICK w : w = [Free EXCEPT !.pc = "confirm", !.shown = b]
  OBVIOUS
<1>6. w \in WorkState /\ w.pc = "confirm" /\ w.shown = b
  BY <1>3, <1>5, FreeTyped DEF WorkState, Places
<1>7. Start(a, q, w)
  BY <1>1, <1>2, <1>5
<1>8. QED
  BY <1>1, <1>4, <1>6, <1>7 DEF Fits

LEMMA BeginEditFits ==
  ASSUME QuotesInv, NEW a \in Admins, NEW q \in Quotations, NEW c \in Contents[q],
         NEW accept \in BOOLEAN, BeginEdit(a, q, c, accept)
  PROVE  \E w \in WorkState : Start(a, q, w) /\ w.pc \notin {"free", "raising"} /\ Fits(q, w)
<1>1. /\ q \in Classic /\ Status(q) = "DRAFT"
      /\ Start(a, q, [Free EXCEPT !.pc = "edit", !.content = c, !.accept = accept])
  BY DEF BeginEdit
<1>2. c \in Forms
  BY FormsTyped
<1>3. PICK w : w = [Free EXCEPT !.pc = "edit", !.content = c, !.accept = accept]
  OBVIOUS
<1>4. w \in WorkState /\ w.pc = "edit" /\ w.content = c
  BY <1>2, <1>3, FreeTyped DEF WorkState, Places
<1>5. Start(a, q, w)
  BY <1>1, <1>3
<1>6. QED
  BY <1>1, <1>2, <1>4, <1>5 DEF Fits

LEMMA BeginIssueFits ==
  ASSUME QuotesInv, NEW a \in Admins, NEW q \in Quotations,
         NEW accept \in BOOLEAN, BeginIssue(a, q, accept)
  PROVE  \E w \in WorkState : Start(a, q, w) /\ w.pc \notin {"free", "raising"} /\ Fits(q, w)
<1>1. /\ q \in Classic /\ Status(q) = "DRAFT"
      /\ Start(a, q, [Free EXCEPT !.pc = "issue", !.accept = accept])
  BY DEF BeginIssue
<1>2. PICK w : w = [Free EXCEPT !.pc = "issue", !.accept = accept]
  OBVIOUS
<1>3. w \in WorkState /\ w.pc = "issue"
  BY <1>2, FreeTyped DEF WorkState, Places
<1>4. Start(a, q, w)
  BY <1>1, <1>2
<1>5. QED
  BY <1>1, <1>3, <1>4 DEF Fits

LEMMA BeginRaiseFits ==
  ASSUME QuotesInv, NEW a \in Admins, NEW q \in Quotations, BeginRaise(a, q)
  PROVE  \E w \in WorkState : Start(a, q, w) /\ w.pc \notin {"free", "raising"} /\ Fits(q, w)
<1>1. /\ q \in Classic /\ Status(q) = "CONFIRMED" /\ raised[q] = None
      /\ Start(a, q, [Free EXCEPT !.pc = "raise"])
  BY DEF BeginRaise
<1>2. PICK w : w = [Free EXCEPT !.pc = "raise"]
  OBVIOUS
<1>3. w \in WorkState /\ w.pc = "raise"
  BY <1>2, FreeTyped DEF WorkState, Places
<1>4. Start(a, q, w)
  BY <1>1, <1>2
<1>5. QED
  BY <1>1, <1>3, <1>4 DEF Fits

LEMMA BeginStarts ==
  ASSUME QuotesInv, NEW a \in Admins, NEW q \in Quotations, Begin(a, q)
  PROVE  \E w \in WorkState : Start(a, q, w) /\ w.pc \notin {"free", "raising"} /\ Fits(q, w)
BY BeginCreateFits, BeginUpdateFits, BeginChargeFits, BeginConfirmFits, BeginEditFits,
   BeginIssueFits, BeginRaiseFits DEF Begin

(* A request that writes its row and ends. *)
LEMMA SaveKeeps ==
  ASSUME QuotesInv, NEW a \in Admins, ~WorkIs(a, "free"), NEW new \in Quotation,
         quote' = [quote EXCEPT ![Mine(a)] = new], Finish(a),
         UNCHANGED <<product, raised, screen>>,
         approved' \in [Quotations -> Bases \cup {None}],
         \A p \in Quotations : p # Mine(a) => approved'[p] = approved[p],
         Row(a) # None => new.stamp > Row(a).stamp,
         /\ new.basis.content = new.content /\ new.basis.charges = new.charges
         /\ new.charges # 0 => new.content.item # 0
         /\ Mine(a) \in Classic => new.charges = 0,
         approved'[Mine(a)] # None =>
           new.status \in {"CONFIRMED", "CANCELLED"} /\ new.basis = approved'[Mine(a)]
  PROVE  QuotesInv'
<1>1. PICK q : q = Mine(a)
  OBVIOUS
<1>2. q \in Quotations
  BY <1>1 DEF QuotesInv, Allowed
<1>3. /\ work' \in [Admins -> WorkState]
      /\ work'[a].pc = "free" /\ work'[a].quote = None
      /\ \A b \in Admins : b # a => work'[b] = work[b]
  BY Finished
<1>4. \A b \in Admins : Mine(b) = q => work'[b].pc = "free"
  BY <1>1, <1>3 DEF QuotesInv, Alone, WorkIs
<1>5. QED
  BY <1>1, <1>2, <1>3, <1>4, RowChanges DEF Row

LEMMA CreateKeeps ==
  ASSUME SettingsInv, QuotesInv, NEW a \in Admins, Create(a)
  PROVE  QuotesInv'
<1>1. WorkIs(a, "create") /\ ~WorkIs(a, "free") /\ QuoteTypes
  BY DEF Create, WorkIs, QuotesInv
<1>2. PICK c : c = work[a].content
  OBVIOUS
<1>3. Mine(a) \in Quotations /\ Status(Mine(a)) = "NONE" /\ c \in Forms
  BY <1>1, <1>2 DEF QuotesInv, Allowed, Fits, WorkIs
<1>4. Row(a) = None /\ approved[Mine(a)] = None
  BY <1>1, <1>3, StatusFacts DEF Row, QuotesInv, RowFits
<1>5. PICK b : b = Today(a, c, 0)
  OBVIOUS
<1>6. b \in Bases /\ b.content = c /\ b.charges = 0
  <2>1. 0 \in Charges
    BY LegacyAssumption DEF Charges
  <2>2. QED
    BY <2>1, <1>1, <1>3, <1>5, TodayTyped
<1>7. PICK new : new = NewRow(c, b)
  OBVIOUS
<1>8. /\ new \in Quotation
      /\ new.content = c /\ new.charges = 0 /\ new.basis = b
  BY <1>3, <1>6, <1>7, NewRowTyped
<1>9. /\ quote' = [quote EXCEPT ![Mine(a)] = new]
      /\ Finish(a)
      /\ UNCHANGED <<product, raised, screen, approved>>
  BY <1>2, <1>5, <1>7 DEF Create
<1>10. approved' \in [Quotations -> Bases \cup {None}]
  BY <1>1, <1>9 DEF QuoteTypes
<1>11. QED
  BY <1>1, <1>4, <1>6, <1>8, <1>9, <1>10, SaveKeeps

LEMMA RepriceKeeps ==
  ASSUME SettingsInv, QuotesInv, NEW a \in Admins, Reprice(a)
  PROVE  QuotesInv'
<1>1. WorkIs(a, "price") /\ ~WorkIs(a, "free") /\ QuoteTypes
  BY DEF Reprice, WorkIs, QuotesInv
<1>2. PICK c, n, q, r : c = work[a].content /\ n = work[a].charges /\ q = Mine(a) /\ r = Row(a)
  OBVIOUS
<1>3. /\ q \in Quotations /\ q \in Builder /\ Status(q) = "DRAFT" /\ c \in Forms
      /\ n # 0 => c.item # 0
  BY <1>1, <1>2 DEF QuotesInv, Allowed, Fits, WorkIs
<1>4. n \in Charges
  BY <1>1, <1>2 DEF QuoteTypes, WorkState
<1>5. r \in Quotation /\ approved[q] = None
  BY <1>1, <1>2, <1>3, StatusFacts DEF Row, QuotesInv, RowFits
<1>6. PICK b : b = Today(a, c, n)
  OBVIOUS
<1>7. b \in Bases /\ b.content = c /\ b.charges = n
  BY <1>1, <1>3, <1>4, <1>6, TodayTyped
<1>8. PICK m : m = [r EXCEPT !.content = c, !.charges = n, !.basis = b]
  OBVIOUS
<1>9. /\ m \in Quotation /\ m.stamp = r.stamp
      /\ m.content = c /\ m.charges = n /\ m.basis = b
  BY <1>3, <1>4, <1>5, <1>7, <1>8 DEF Quotation
<1>10. PICK new : new = [m EXCEPT !.stamp = @ + 1]
  OBVIOUS
<1>11. /\ new \in Quotation /\ new.stamp > r.stamp
       /\ new.content = c /\ new.charges = n /\ new.basis = b
  BY <1>9, <1>10, StampTyped
<1>12. /\ quote' = [quote EXCEPT ![Mine(a)] = new]
       /\ Finish(a)
       /\ UNCHANGED <<product, raised, screen, approved>>
  BY <1>2, <1>6, <1>8, <1>10 DEF Reprice, Save, Priced
<1>13. approved' \in [Quotations -> Bases \cup {None}]
  BY <1>1, <1>12 DEF QuoteTypes
<1>14. QED
  BY <1>1, <1>2, <1>3, <1>5, <1>7, <1>11, <1>12, <1>13, SaveKeeps DEF Classic

LEMMA ConfirmKeeps ==
  ASSUME SettingsInv, QuotesInv, NEW a \in Admins, Confirm(a)
  PROVE  QuotesInv'
<1>1. WorkIs(a, "confirm") /\ ~WorkIs(a, "free") /\ QuoteTypes
  BY DEF Confirm, WorkIs, QuotesInv
<1>2. PICK q, r, v : q = Mine(a) /\ r = Row(a) /\ v = Settings(a).values["wording"]
  OBVIOUS
<1>3. /\ q \in Quotations /\ q \in Builder /\ Status(q) = "DRAFT"
      /\ work[a].shown = quote[q].basis
  BY <1>1, <1>2 DEF QuotesInv, Allowed, Fits, WorkIs
<1>4. /\ r \in Quotation /\ r = quote[q]
      /\ r.basis.content = r.content /\ r.basis.charges = r.charges
      /\ r.charges # 0 => r.content.item # 0
  BY <1>1, <1>2, <1>3, StatusFacts DEF Row, QuotesInv, RowFits
<1>5. r.content \in Forms /\ r.charges \in Charges /\ r.basis \in Bases
  BY <1>4 DEF Quotation
<1>6. v \in Choices["wording"]
  <2>1. Settings(a) \in Shown
    BY <1>1, <1>5, TodayTyped
  <2>2. QED
    BY <2>1, <1>2 DEF Shown, Values, Fields
<1>7. PICK m : m = [r EXCEPT !.status = "CONFIRMED", !.validity = v]
  OBVIOUS
<1>8. /\ m \in Quotation /\ m.stamp = r.stamp /\ m.status = "CONFIRMED"
      /\ m.content = r.content /\ m.charges = r.charges /\ m.basis = r.basis
  BY <1>4, <1>6, <1>7 DEF Quotation
<1>9. PICK new : new = [m EXCEPT !.stamp = @ + 1]
  OBVIOUS
<1>10. /\ new \in Quotation /\ new.stamp > r.stamp /\ new.status = "CONFIRMED"
       /\ new.content = r.content /\ new.charges = r.charges /\ new.basis = r.basis
  BY <1>8, <1>9, StampTyped
<1>11. /\ quote' = [quote EXCEPT ![Mine(a)] = new]
       /\ Finish(a)
       /\ approved' = [approved EXCEPT ![q] = r.basis]
       /\ UNCHANGED <<product, raised, screen>>
  BY <1>2, <1>3, <1>4, <1>7, <1>9 DEF Confirm, Save
<1>12. /\ approved' \in [Quotations -> Bases \cup {None}]
       /\ approved'[q] = r.basis
       /\ \A p \in Quotations : p # q => approved'[p] = approved[p]
  BY <1>1, <1>3, <1>5, <1>11 DEF QuoteTypes
<1>13. QED
  BY <1>1, <1>2, <1>3, <1>4, <1>10, <1>11, <1>12, SaveKeeps DEF Classic

LEMMA EditKeeps ==
  ASSUME SettingsInv, QuotesInv, NEW a \in Admins, Edit(a)
  PROVE  QuotesInv'
<1>1. WorkIs(a, "edit") /\ ~WorkIs(a, "free") /\ QuoteTypes
  BY DEF Edit, WorkIs, QuotesInv
<1>2. PICK c, q, r, b : c = work[a].content /\ q = Mine(a) /\ r = Row(a) /\ b = Today(a, c, 0)
  OBVIOUS
<1>3. q \in Quotations /\ q \in Classic /\ Status(q) = "DRAFT" /\ c \in Forms
  BY <1>1, <1>2 DEF QuotesInv, Allowed, Fits, WorkIs
<1>4. r \in Quotation /\ approved[q] = None /\ r.charges = 0
  BY <1>1, <1>2, <1>3, StatusFacts DEF Row, QuotesInv, RowFits
<1>5. b \in Bases /\ b.content = c /\ b.charges = 0
  <2>1. 0 \in Charges
    BY LegacyAssumption DEF Charges
  <2>2. QED
    BY <2>1, <1>1, <1>2, <1>3, TodayTyped
<1>6. PICK m : m = [r EXCEPT !.content = c, !.basis = b]
  OBVIOUS
<1>7. /\ m \in Quotation /\ m.stamp = r.stamp
      /\ m.content = c /\ m.charges = r.charges /\ m.basis = b
  BY <1>3, <1>4, <1>5, <1>6 DEF Quotation
<1>8. PICK new : new = [m EXCEPT !.stamp = @ + 1]
  OBVIOUS
<1>9. /\ new \in Quotation /\ new.stamp > r.stamp
      /\ new.content = c /\ new.charges = 0 /\ new.basis = b
  BY <1>4, <1>7, <1>8, StampTyped
<1>10. /\ quote' = [quote EXCEPT ![Mine(a)] = new]
       /\ Finish(a)
       /\ UNCHANGED <<product, raised, screen, approved>>
  BY <1>2, <1>6, <1>8 DEF Edit, Save
<1>11. approved' \in [Quotations -> Bases \cup {None}]
  BY <1>1, <1>10 DEF QuoteTypes
<1>12. QED
  BY <1>1, <1>2, <1>4, <1>5, <1>9, <1>10, <1>11, SaveKeeps

LEMMA IssueKeeps ==
  ASSUME SettingsInv, QuotesInv, NEW a \in Admins, Issue(a)
  PROVE  QuotesInv'
<1>1. WorkIs(a, "issue") /\ ~WorkIs(a, "free") /\ QuoteTypes
  BY DEF Issue, WorkIs, QuotesInv
<1>2. PICK q, r, v : q = Mine(a) /\ r = Row(a) /\ v = Settings(a).values["wording"]
  OBVIOUS
<1>3. q \in Quotations /\ q \in Classic /\ Status(q) = "DRAFT"
  BY <1>1, <1>2 DEF QuotesInv, Allowed, Fits, WorkIs
<1>4. r \in Quotation /\ approved[q] = None /\ r.charges = 0
  BY <1>1, <1>2, <1>3, StatusFacts DEF Row, QuotesInv, RowFits
<1>5. PICK b : b = Today(a, r.content, 0)
  OBVIOUS
<1>6. b \in Bases /\ b.content = r.content /\ b.charges = 0 /\ v \in Choices["wording"]
  <2>1. 0 \in Charges /\ r.content \in Forms
    BY <1>4, LegacyAssumption DEF Charges, Quotation
  <2>2. Settings(a) \in Shown
    BY <2>1, <1>1, TodayTyped
  <2>3. QED
    BY <2>1, <2>2, <1>1, <1>2, <1>5, TodayTyped DEF Shown, Values, Fields
<1>7. PICK m : m = [r EXCEPT !.basis = b, !.status = "CONFIRMED", !.validity = v]
  OBVIOUS
<1>8. /\ m \in Quotation /\ m.stamp = r.stamp
      /\ m.content = r.content /\ m.charges = r.charges /\ m.basis = b
  BY <1>4, <1>6, <1>7 DEF Quotation
<1>9. PICK new : new = [m EXCEPT !.stamp = @ + 1]
  OBVIOUS
<1>10. /\ new \in Quotation /\ new.stamp > r.stamp
       /\ new.content = r.content /\ new.charges = 0 /\ new.basis = b
  BY <1>4, <1>8, <1>9, StampTyped
<1>11. /\ quote' = [quote EXCEPT ![Mine(a)] = new]
       /\ Finish(a)
       /\ UNCHANGED <<product, raised, screen, approved>>
  BY <1>2, <1>5, <1>7, <1>9 DEF Issue, Save
<1>12. approved' \in [Quotations -> Bases \cup {None}]
  BY <1>1, <1>11 DEF QuoteTypes
<1>13. QED
  BY <1>1, <1>2, <1>4, <1>6, <1>10, <1>11, <1>12, SaveKeeps

(* mark_paid and cancel, of a row that nobody has. *)
LEMMA MarkKeeps ==
  ASSUME QuotesInv, NEW q \in Quotations, MarkPaid(q) \/ Cancel(q)
  PROVE  QuotesInv'
<1>1. /\ QuoteTypes /\ Unlocked(q) /\ Status(q) \in {"DRAFT", "CONFIRMED"}
      /\ UNCHANGED <<product, raised, screen, work, approved>>
  BY DEF QuotesInv, MarkPaid, Cancel
<1>2. PICK r : r = quote[q]
  OBVIOUS
<1>3. /\ r \in Quotation /\ Status(q) = r.status
      /\ r.basis.content = r.content /\ r.basis.charges = r.charges
      /\ r.charges # 0 => r.content.item # 0
      /\ q \in Classic => r.charges = 0
      /\ approved[q] # None => r.status \in {"CONFIRMED", "CANCELLED"} /\ r.basis = approved[q]
  BY <1>1, <1>2, StatusFacts DEF QuotesInv, RowFits
<1>4. \E new \in Quotation :
        /\ quote' = [quote EXCEPT ![q] = new] /\ new.stamp > r.stamp
        /\ new.status \in {r.status, "CANCELLED"}
        /\ new.content = r.content /\ new.charges = r.charges /\ new.basis = r.basis
  <2>1. CASE MarkPaid(q)
    <3>1. PICK new : new = [r EXCEPT !.paid = TRUE, !.stamp = @ + 1]
      OBVIOUS
    <3>2. quote' = [quote EXCEPT ![q] = new]
      BY <2>1, <3>1, <1>1, <1>2, <1>3 DEF MarkPaid, QuoteTypes, Quotation
    <3>3. /\ new \in Quotation /\ new.stamp > r.stamp /\ new.status = r.status
          /\ new.content = r.content /\ new.charges = r.charges /\ new.basis = r.basis
      BY <3>1, <1>3, PaidTyped
    <3>4. QED
      BY <3>2, <3>3
  <2>2. CASE Cancel(q)
    <3>1. PICK new : new = [r EXCEPT !.status = "CANCELLED", !.stamp = @ + 1]
      OBVIOUS
    <3>2. quote' = [quote EXCEPT ![q] = new]
      BY <2>2, <3>1, <1>1, <1>2, <1>3 DEF Cancel, QuoteTypes, Quotation
    <3>3. /\ new \in Quotation /\ new.stamp > r.stamp /\ new.status = "CANCELLED"
          /\ new.content = r.content /\ new.charges = r.charges /\ new.basis = r.basis
      BY <3>1, <1>3, CancelledTyped
    <3>4. QED
      BY <3>2, <3>3
  <2>3. QED
    BY <2>1, <2>2
<1>5. PICK new \in Quotation :
        /\ quote' = [quote EXCEPT ![q] = new] /\ new.stamp > r.stamp
        /\ new.status \in {r.status, "CANCELLED"}
        /\ new.content = r.content /\ new.charges = r.charges /\ new.basis = r.basis
  BY <1>4
<1>6. /\ work' \in [Admins -> WorkState]
      /\ approved' \in [Quotations -> Bases \cup {None}]
      /\ \A b \in Admins : Mine(b) # q
  BY <1>1 DEF QuoteTypes, Unlocked
<1>7. QED
  BY <1>1, <1>2, <1>3, <1>5, <1>6, RowChanges

LEMMA LookKeeps ==
  ASSUME QuotesInv, NEW a \in Admins, NEW q \in Quotations, Look(a, q)
  PROVE  QuotesInv'
<1>1. QuoteTypes /\ quote[q] # None
  BY DEF QuotesInv, Look
<1>2. PICK v : v = [quote |-> q, row |-> quote[q]]
  OBVIOUS
<1>3. quote[q] \in Quotation /\ Status(q) # "NONE" /\ quote[q].stamp \in Nat
  BY <1>1, StatusFacts DEF Quotation
<1>4. v \in [quote : Quotations, row : Quotation] /\ v.quote = q /\ v.row = quote[q]
  BY <1>2, <1>3
<1>5. /\ screen' = [screen EXCEPT ![a] = v]
      /\ UNCHANGED <<quote, product, raised, work, approved>>
  BY <1>2 DEF Look
<1>6. /\ screen' \in [Admins -> [quote : Quotations, row : Quotation] \cup {None}]
      /\ screen'[a] = v /\ \A b \in Admins : b # a => screen'[b] = screen[b]
  BY <1>1, <1>4, <1>5 DEF QuoteTypes
<1>7. QuoteTypes'
  BY <1>1, <1>5, <1>6 DEF QuoteTypes
<1>8. \A p : Status(p)' = Status(p)
  BY <1>5 DEF Status
<1>9. Alone'
  BY <1>5 DEF QuotesInv, Alone, WorkIs, Mine
<1>10. ASSUME NEW b \in Admins PROVE Allowed(b)'
  BY <1>5, <1>8 DEF QuotesInv, Allowed, Fits, WorkIs, Mine
<1>11. ASSUME NEW b \in Admins PROVE ScreenFits(b)'
  <2>1. CASE b = a
    BY <2>1, <1>3, <1>4, <1>5, <1>6, <1>8 DEF ScreenFits
  <2>2. CASE b # a
    BY <2>2, <1>5, <1>6, <1>8 DEF QuotesInv, ScreenFits
  <2>3. QED
    BY <2>1, <2>2
<1>12. ASSUME NEW p \in Quotations PROVE RowFits(p)'
  BY <1>5, <1>8 DEF QuotesInv, RowFits
<1>13. QED
  BY <1>7, <1>9, <1>10, <1>11, <1>12 DEF QuotesInv

LEMMA LockProductKeeps ==
  ASSUME QuotesInv, NEW a \in Admins, LockProduct(a)
  PROVE  QuotesInv'
<1>1. QuoteTypes /\ WorkIs(a, "raise") /\ ProductFree /\ ~WorkIs(a, "free")
  BY DEF QuotesInv, LockProduct, WorkIs
<1>2. PICK v : v = [work[a] EXCEPT !.pc = "raising", !.old = product.price]
  OBVIOUS
<1>3. work[a] \in WorkState /\ product.price \in Price
  BY <1>1 DEF QuoteTypes, Product
<1>4. /\ v \in WorkState /\ v.pc = "raising" /\ v.old = product.price
      /\ v.quote = work[a].quote /\ v.seen = work[a].seen
  BY <1>2, <1>3 DEF WorkState, Places
<1>5. /\ work' = [work EXCEPT ![a] = v]
      /\ UNCHANGED <<quote, product, raised, screen, approved>>
  BY <1>1, <1>2 DEF LockProduct, QuoteTypes
<1>6. /\ work' \in [Admins -> WorkState] /\ work'[a] = v
      /\ \A b \in Admins : b # a => work'[b] = work[b]
  BY <1>1, <1>4, <1>5 DEF QuoteTypes
<1>7. QuoteTypes'
  BY <1>1, <1>5, <1>6 DEF QuoteTypes
<1>8. \A p : Status(p)' = Status(p)
  BY <1>5 DEF Status
<1>9. Alone'
  <2>1. \A b \in Admins : Mine(b)' = Mine(b) /\ WorkIs(b, "free")' = WorkIs(b, "free")
    BY <1>1, <1>4, <1>6 DEF Mine, WorkIs
  <2>2. \A b \in Admins : b # a => ~WorkIs(b, "raising")'
    BY <1>1, <1>6 DEF WorkIs, ProductFree
  <2>3. QED
    BY <2>1, <2>2 DEF QuotesInv, Alone
<1>10. ASSUME NEW b \in Admins PROVE Allowed(b)'
  <2>1. CASE b = a
    <3>1. /\ Mine(a) \in Quotations
          /\ work[a].seen \in (IF Mine(a) \in Builder THEN Shown ELSE Product)
          /\ Mine(a) \in Classic /\ Status(Mine(a)) = "CONFIRMED" /\ raised[Mine(a)] = None
      BY <1>1 DEF QuotesInv, Allowed, Fits, WorkIs
    <3>2. Mine(a)' = Mine(a) /\ work'[a].seen = work[a].seen /\ work'[a].pc = "raising"
          /\ work'[a].old = product'.price
      BY <1>4, <1>5, <1>6 DEF Mine
    <3>3. Fits(Mine(a), work[a])'
      BY <3>1, <3>2, <1>5, <1>8 DEF Fits
    <3>4. QED
      BY <2>1, <3>1, <3>2, <3>3 DEF Allowed, WorkIs
  <2>2. CASE b # a
    <3>1. Allowed(b) /\ work'[b] = work[b]
      BY <2>2, <1>6 DEF QuotesInv
    <3>2. Fits(Mine(b), work[b]) => Fits(Mine(b), work[b])'
      BY <3>1, <1>5, <1>8 DEF Fits, Mine
    <3>3. QED
      BY <3>1, <3>2 DEF Allowed, WorkIs, Mine
  <2>3. QED
    BY <2>1, <2>2
<1>11. ASSUME NEW b \in Admins PROVE ScreenFits(b)'
  BY <1>5, <1>8 DEF QuotesInv, ScreenFits
<1>12. ASSUME NEW p \in Quotations PROVE RowFits(p)'
  BY <1>5, <1>8 DEF QuotesInv, RowFits
<1>13. QED
  BY <1>7, <1>9, <1>10, <1>11, <1>12 DEF QuotesInv

(* The product at a price: of its type, and as the price says. *)
LEMMA RepricedTyped ==
  ASSUME product \in Product, NEW p \in Price
  PROVE  Repriced(p) \in Product /\ Repriced(p).price = p
<1>1. product.stamp \in Nat /\ product.stamp + 1 \in Nat
  BY DEF Product
<1>2. PICK n : n = product.stamp + 1
  OBVIOUS
<1>3. [price |-> p, stamp |-> n] \in Product
  BY <1>1, <1>2 DEF Product
<1>4. QED
  BY <1>2, <1>3 DEF Repriced

(* What a raise does: to the product, to its own record, and to no other's. *)
LEMMA RaiseFacts ==
  ASSUME QuotesInv, NEW a \in Admins, RaisePrice(a)
  PROVE  /\ ~WorkIs(a, "free") /\ Mine(a) \in Quotations
         /\ product' \in Product /\ product'.price = UnitPrice(quote[Mine(a)].basis)
         /\ Status(Mine(a)) = "CONFIRMED" /\ raised[Mine(a)] = None
         /\ raised' \in [Quotations -> [old : Price, new : Price] \cup {None}]
         /\ raised'[Mine(a)] = [old |-> product.price, new |-> product'.price]
         /\ \A p \in Quotations : p # Mine(a) => raised'[p] = raised[p]
         /\ Finish(a) /\ UNCHANGED <<quote, screen, approved>>
<1>1. QuoteTypes /\ WorkIs(a, "raising") /\ ~WorkIs(a, "free")
  BY DEF QuotesInv, RaisePrice, WorkIs
<1>2. /\ Mine(a) \in Quotations /\ Status(Mine(a)) = "CONFIRMED" /\ raised[Mine(a)] = None
      /\ work[a].old = product.price
  BY <1>1 DEF QuotesInv, Allowed, Fits, WorkIs
<1>3. PICK u : u = UnitPrice(quote[Mine(a)].basis)
  OBVIOUS
<1>4. u \in Price
  <2>1. quote[Mine(a)].basis \in Bases
    BY <1>1, <1>2, StatusFacts DEF Quotation
  <2>2. QED
    BY <2>1, <1>3, UnitPriceTyped
<1>5. /\ product' = Repriced(u) /\ Finish(a)
      /\ UNCHANGED <<quote, screen, approved>>
  BY <1>3 DEF RaisePrice, Row
<1>6. product \in Product /\ product.price \in Price
  BY <1>1 DEF QuoteTypes, Product
<1>7. product' \in Product /\ product'.price = u
  BY <1>4, <1>5, <1>6, RepricedTyped
<1>8. PICK v : v = [old |-> product.price, new |-> product'.price]
  OBVIOUS
<1>9. v \in [old : Price, new : Price]
  BY <1>4, <1>6, <1>7, <1>8
<1>10. raised' = [raised EXCEPT ![Mine(a)] = v]
  BY <1>2, <1>8 DEF RaisePrice
<1>11. /\ raised' \in [Quotations -> [old : Price, new : Price] \cup {None}]
       /\ raised'[Mine(a)] = v
       /\ \A p \in Quotations : p # Mine(a) => raised'[p] = raised[p]
  BY <1>1, <1>2, <1>9, <1>10 DEF QuoteTypes
<1>12. QED
  BY <1>1, <1>2, <1>3, <1>5, <1>7, <1>8, <1>11

LEMMA RaisePriceKeeps ==
  ASSUME QuotesInv, NEW a \in Admins, RaisePrice(a)
  PROVE  QuotesInv'
<1>1. QuoteTypes /\ WorkIs(a, "raising")
  BY DEF QuotesInv, RaisePrice
<1>2. /\ ~WorkIs(a, "free") /\ Mine(a) \in Quotations /\ product' \in Product
      /\ raised' \in [Quotations -> [old : Price, new : Price] \cup {None}]
      /\ \A p \in Quotations : p # Mine(a) => raised'[p] = raised[p]
      /\ Finish(a) /\ UNCHANGED <<quote, screen, approved>>
  BY RaiseFacts
<1>3. /\ work' \in [Admins -> WorkState]
      /\ work'[a].pc = "free" /\ work'[a].quote = None
      /\ \A b \in Admins : b # a => work'[b] = work[b]
  BY <1>2, Finished
<1>4. QuoteTypes'
  BY <1>1, <1>2, <1>3 DEF QuoteTypes
<1>5. /\ Alone'
      /\ \A b \in Admins :
           \/ WorkIs(b, "free")' /\ Mine(b)' = None
           \/ work'[b] = work[b] /\ Mine(b)' = Mine(b) /\ ~WorkIs(b, "free")
  BY <1>3, WorkEnds
<1>6. \A p : Status(p)' = Status(p)
  BY <1>2 DEF Status
<1>7. ASSUME NEW b \in Admins PROVE Allowed(b)'
  <2>1. CASE WorkIs(b, "free")' /\ Mine(b)' = None
    BY <2>1 DEF Allowed
  <2>2. CASE b # a /\ work'[b] = work[b] /\ Mine(b)' = Mine(b) /\ ~WorkIs(b, "free")
    <3>1. /\ Mine(b) \in Quotations
          /\ work[b].seen \in (IF Mine(b) \in Builder THEN Shown ELSE Product)
          /\ Fits(Mine(b), work[b])
      BY <2>2 DEF QuotesInv, Allowed
    <3>2. Mine(b) # Mine(a) /\ work[b].pc # "raising"
      BY <2>2, <1>1, <1>2 DEF QuotesInv, Alone, WorkIs
    <3>3. raised'[Mine(b)] = raised[Mine(b)]
      BY <3>1, <3>2, <1>2
    <3>4. Fits(Mine(b), work[b])'
      BY <3>1, <3>2, <3>3, <2>2, <1>2, <1>6 DEF Fits
    <3>5. QED
      BY <3>1, <3>4, <2>2 DEF Allowed, WorkIs
  <2>3. b = a => WorkIs(b, "free")' /\ Mine(b)' = None
    BY <1>3 DEF WorkIs, Mine
  <2>4. QED
    BY <1>5, <2>1, <2>2, <2>3
<1>8. ASSUME NEW b \in Admins PROVE ScreenFits(b)'
  BY <1>2, <1>6 DEF QuotesInv, ScreenFits
<1>9. ASSUME NEW p \in Quotations PROVE RowFits(p)'
  BY <1>2, <1>6 DEF QuotesInv, RowFits
<1>10. QED
  BY <1>4, <1>5, <1>7, <1>8, <1>9 DEF QuotesInv

LEMMA AbortKeeps ==
  ASSUME QuotesInv, NEW a \in Admins, Abort(a)
  PROVE  QuotesInv'
<1>1. QuoteTypes /\ Finish(a) /\ UNCHANGED <<quote, product, raised, screen, approved>>
  BY DEF QuotesInv, Abort
<1>2. /\ work' \in [Admins -> WorkState]
      /\ work'[a].pc = "free" /\ work'[a].quote = None
      /\ \A b \in Admins : b # a => work'[b] = work[b]
  BY <1>1, Finished
<1>3. QuoteTypes'
  BY <1>1, <1>2 DEF QuoteTypes
<1>4. /\ Alone'
      /\ \A b \in Admins :
           \/ WorkIs(b, "free")' /\ Mine(b)' = None
           \/ work'[b] = work[b] /\ Mine(b)' = Mine(b) /\ ~WorkIs(b, "free")
  BY <1>2, WorkEnds
<1>5. \A p : Status(p)' = Status(p)
  BY <1>1 DEF Status
<1>6. ASSUME NEW b \in Admins PROVE Allowed(b)'
  <2>1. CASE WorkIs(b, "free")' /\ Mine(b)' = None
    BY <2>1 DEF Allowed
  <2>2. CASE work'[b] = work[b] /\ Mine(b)' = Mine(b) /\ ~WorkIs(b, "free")
    <3>1. Allowed(b)
      BY DEF QuotesInv
    <3>2. Fits(Mine(b), work[b]) => Fits(Mine(b), work[b])'
      BY <2>2, <1>1, <1>5 DEF Fits
    <3>3. QED
      BY <3>1, <3>2, <2>2 DEF Allowed, WorkIs
  <2>3. QED
    BY <1>4, <2>1, <2>2
<1>7. ASSUME NEW b \in Admins PROVE ScreenFits(b)'
  BY <1>1, <1>5 DEF QuotesInv, ScreenFits
<1>8. ASSUME NEW p \in Quotations PROVE RowFits(p)'
  BY <1>1, <1>5 DEF QuotesInv, RowFits
<1>9. QED
  BY <1>3, <1>4, <1>6, <1>7, <1>8 DEF QuotesInv

LEMMA EditProductKeeps ==
  ASSUME QuotesInv, EditProduct
  PROVE  QuotesInv'
<1>1. QuoteTypes /\ ProductFree /\ UNCHANGED <<quote, raised, screen, work, approved>>
  BY DEF QuotesInv, EditProduct
<1>2. PICK price \in {product.price, Typed(1)} :
        product' = [price |-> price, stamp |-> product.stamp + 1]
  BY DEF EditProduct
<1>3. product' \in Product
  <2>1. PICK n : n = product.stamp + 1
    OBVIOUS
  <2>2. n \in Nat /\ price \in Price
    BY <2>1, <1>1, <1>2 DEF QuoteTypes, Product, Typed, Price
  <2>3. QED
    BY <2>1, <2>2, <1>2 DEF Product
<1>4. QuoteTypes'
  BY <1>1, <1>3 DEF QuoteTypes
<1>5. \A p : Status(p)' = Status(p)
  BY <1>1 DEF Status
<1>6. Alone'
  BY <1>1 DEF QuotesInv, Alone, WorkIs, Mine
<1>7. ASSUME NEW b \in Admins PROVE Allowed(b)'
  <2>1. Allowed(b) /\ work[b].pc # "raising"
    BY <1>1 DEF QuotesInv, ProductFree, WorkIs
  <2>2. Fits(Mine(b), work[b]) => Fits(Mine(b), work[b])'
    BY <2>1, <1>1, <1>5 DEF Fits, Mine
  <2>3. QED
    BY <2>1, <2>2, <1>1 DEF Allowed, WorkIs, Mine
<1>8. ASSUME NEW b \in Admins PROVE ScreenFits(b)'
  BY <1>1, <1>5 DEF QuotesInv, ScreenFits
<1>9. ASSUME NEW p \in Quotations PROVE RowFits(p)'
  BY <1>1, <1>5 DEF QuotesInv, RowFits
<1>10. QED
  BY <1>4, <1>6, <1>7, <1>8, <1>9 DEF QuotesInv

LEMMA QuotesStay ==
  ASSUME QuotesInv, UNCHANGED quotes
  PROVE  QuotesInv'
<1>1. UNCHANGED <<quote, product, raised, screen, work, approved>>
  BY DEF quotes
<1>2. QuoteTypes'
  BY <1>1 DEF QuotesInv, QuoteTypes
<1>3. \A p : Status(p)' = Status(p)
  BY <1>1 DEF Status
<1>4. Alone'
  BY <1>1 DEF QuotesInv, Alone, WorkIs, Mine
<1>5. ASSUME NEW b \in Admins PROVE Allowed(b)'
  BY <1>1, <1>3 DEF QuotesInv, Allowed, Fits, WorkIs, Mine
<1>6. ASSUME NEW b \in Admins PROVE ScreenFits(b)'
  BY <1>1, <1>3 DEF QuotesInv, ScreenFits
<1>7. ASSUME NEW p \in Quotations PROVE RowFits(p)'
  BY <1>1, <1>3 DEF QuotesInv, RowFits
<1>8. QED
  BY <1>2, <1>4, <1>5, <1>6, <1>7 DEF QuotesInv

-----------------------------------------------------------------------------
LEMMA InitIInv == Init => IInv
<1> SUFFICES ASSUME Init PROVE IInv
  OBVIOUS
<1>1. FirstRow \in Shown /\ FirstRow.version = 1
  BY SettingsAssumption DEF FirstRow, Shown, Values, Fields
<1>2. SettingsTypes
  <2>1. left \in Budgets /\ Budgets \subseteq [settings : Nat, uses : Nat]
    BY SettingsAssumption DEF Init, SettingsInit
  <2>2. job \in [Admins -> JobState]
    BY IdleTyped DEF Init, SettingsInit
  <2>3. row \in [Rows -> Shown]
    BY <1>1 DEF Init, SettingsInit
  <2>4. QED
    BY <2>1, <2>2, <2>3 DEF Init, SettingsInit, SettingsTypes, Paths
<1>3. SettingsInv
  <2>1. /\ \A a \in Admins : job[a].pc = "idle" /\ \A s \in Rows : form[a][s] = None
        /\ \A s \in Rows : row[s] = FirstRow /\ past[s] = {FirstRow}
        /\ files = 1 /\ logo = 1 /\ bucket = {1}
    BY IdleFields DEF Init, SettingsInit
  <2>2. Numbered
    BY <2>1 DEF Numbered
  <2>3. \A a \in Admins : JobFits(a) /\ Uploaded(a) /\ Dropped(a)
    BY <2>1 DEF JobFits, Uploaded, Dropped, Waiting, JobIs
  <2>4. \A s \in Rows : Remembered(s)
    BY <2>1 DEF Remembered
  <2>5. QED
    BY <1>2, <2>2, <2>3, <2>4 DEF SettingsInv
<1>4. product \in Product
  BY DEF Init, Product, Typed, Price
<1>5. ASSUME NEW q \in Quotations
      PROVE  \/ quote[q] = None
             \/ /\ quote[q] \in Quotation
                /\ quote[q].basis.content = quote[q].content
                /\ quote[q].basis.charges = quote[q].charges
                /\ quote[q].charges = 0
  <2>1. PICK o \in Openings : quote = [p \in Quotations |->
          IF o[p] = None THEN None ELSE NewRow(o[p], Basis(o[p], 0, FirstRow, product))]
    BY DEF Init
  <2>2. CASE o[q] = None
    BY <2>1, <2>2
  <2>3. CASE o[q] # None
    <3>1. PICK c : c = o[q]
      OBVIOUS
    <3>2. c \in Forms
      BY <2>3, <3>1, LegacyAssumption, FormsTyped
    <3>3. PICK b : b = Basis(c, 0, FirstRow, product)
      OBVIOUS
    <3>4. b \in Bases /\ b.content = c /\ b.charges = 0
      <4>1. 0 \in Charges
        BY LegacyAssumption DEF Charges
      <4>2. QED
        BY <4>1, <1>1, <1>4, <3>2, <3>3, BasisTyped
    <3>5. quote[q] = NewRow(c, b)
      BY <2>1, <2>3, <3>1, <3>3
    <3>6. QED
      BY <3>2, <3>4, <3>5, NewRowTyped
  <2>4. QED
    BY <2>2, <2>3
<1>6. /\ raised = [q \in Quotations |-> None] /\ screen = [a \in Admins |-> None]
      /\ work = [a \in Admins |-> Free] /\ approved = [q \in Quotations |-> None]
      /\ \E f : quote = [q \in Quotations |-> f[q]]
  <2>1. \E o \in Openings : quote = [q \in Quotations |->
          IF o[q] = None THEN None ELSE NewRow(o[q], Basis(o[q], 0, FirstRow, product))]
    BY DEF Init
  <2>2. \E f : quote = [q \in Quotations |-> f[q]]
    BY <2>1
  <2>3. QED
    BY <2>2 DEF Init
<1>7. QuoteTypes
  BY <1>4, <1>5, <1>6, FreeTyped DEF QuoteTypes
<1>8. \A a \in Admins : work[a].pc = "free" /\ work[a].quote = None /\ screen[a] = None
  BY <1>6, FreeTyped
<1>9. Alone /\ \A a \in Admins : Allowed(a) /\ ScreenFits(a)
  BY <1>8 DEF Alone, Allowed, ScreenFits, WorkIs, Mine
<1>10. ASSUME NEW q \in Quotations PROVE RowFits(q)
  BY <1>5, <1>6, <1>7, StatusFacts DEF RowFits
<1>11. QED
  BY <1>3, <1>7, <1>9, <1>10 DEF IInv, QuotesInv

(* Each step is one about the settings, or about the quotations.            *)
LEMMA NextKeeps == IInv /\ [Next]_vars => IInv'
<1> SUFFICES ASSUME IInv, [Next]_vars PROVE IInv'
  OBVIOUS
<1>1. SettingsInv /\ QuotesInv
  BY DEF IInv
<1>2. ASSUME NEW a \in Admins, SettingsStep(a), UNCHANGED quotes PROVE IInv'
  BY <1>1, <1>2, SettingsStepKeeps, QuotesStay DEF IInv
<1>3. ASSUME UNCHANGED settings, left' = left \/ Count("uses"), QuotesInv' PROVE IInv'
  BY <1>1, <1>3, SettingsStay DEF IInv
<1>4. ASSUME NEW a \in Admins, NEW q \in Quotations, Look(a, q) \/ Begin(a, q) PROVE IInv'
  <2>1. CASE Look(a, q)
    BY <1>1, <1>3, <2>1, LookKeeps DEF Look
  <2>2. CASE Begin(a, q)
    <3>1. PICK w \in WorkState : Start(a, q, w) /\ w.pc \notin {"free", "raising"} /\ Fits(q, w)
      BY <1>1, <2>2, BeginStarts
    <3>2. UNCHANGED settings /\ Count("uses")
      BY <3>1 DEF Start
    <3>3. QuotesInv'
      BY <1>1, <3>1, StartKeeps
    <3>4. QED
      BY <1>3, <3>2, <3>3
  <2>3. QED
    BY <1>4, <2>1, <2>2
<1>5. ASSUME NEW a \in Admins, End(a) PROVE IInv'
  <2>1. QuotesInv'
    BY <1>1, <1>5, CreateKeeps, RepriceKeeps, ConfirmKeeps, EditKeeps, IssueKeeps,
       LockProductKeeps, RaisePriceKeeps, AbortKeeps DEF End
  <2>2. UNCHANGED settings /\ left' = left
    BY <1>5 DEF End, Create, Reprice, Confirm, Edit, Issue, LockProduct, RaisePrice, Abort
  <2>3. QED
    BY <1>3, <2>1, <2>2
<1>6. ASSUME NEW q \in Quotations, MarkPaid(q) \/ Cancel(q) PROVE IInv'
  <2>1. QuotesInv'
    BY <1>1, <1>6, MarkKeeps
  <2>2. UNCHANGED settings /\ Count("uses")
    BY <1>6 DEF MarkPaid, Cancel
  <2>3. QED
    BY <1>3, <2>1, <2>2
<1>7. ASSUME EditProduct PROVE IInv'
  <2>1. QuotesInv'
    BY <1>1, <1>7, EditProductKeeps
  <2>2. UNCHANGED settings /\ Count("uses")
    BY <1>7 DEF EditProduct
  <2>3. QED
    BY <1>3, <2>1, <2>2
<1>8. ASSUME UNCHANGED vars PROVE IInv'
  <2>1. UNCHANGED settings /\ UNCHANGED quotes /\ left' = left
    BY <1>8 DEF vars
  <2>2. QED
    BY <1>1, <1>3, <2>1, QuotesStay
<1>9. QED
  BY <1>2, <1>4, <1>5, <1>6, <1>7, <1>8 DEF Next

LEMMA Invariance == Spec => []IInv
BY InitIInv, NextKeeps, PTL DEF Spec

-----------------------------------------------------------------------------
(* In every reachable state the path of the logo names a file that exists,  *)
(* for any number of administrators, in whatever order they upload, delete, *)
(* commit and die between the row and the bucket.                           *)
THEOREM SettingsAreKept == Spec => []SettingsKept
<1>1. IInv => SettingsKept
  <2> SUFFICES ASSUME IInv PROVE SettingsKept
    OBVIOUS
  <2>1. SettingsTypes /\ Numbered
    BY DEF IInv, SettingsInv
  <2>2. \A a \in Admins : job[a].pc \in {"idle", "save", "logo", "drop"}
    BY <2>1 DEF SettingsTypes, JobState
  <2>3. SettingsTypeOK
    BY <2>1, <2>2 DEF SettingsTypes, SettingsTypeOK
  <2>4. QED
    BY <2>1, <2>3 DEF SettingsKept, LogoExists, Numbered
<1>2. QED
  BY <1>1, Invariance, PTL

(* A save replaces what its form never showed only if the row was committed *)
(* again between its read and its commit, or if two contents have the       *)
(* version of its form, for any number of administrators: _check_version    *)
(* stops every other stale form.                                            *)
THEOREM VersionsProtect == Spec => VersionProtects
<1>1. ASSUME IInv, [Next]_vars, NEW a \in Admins, NEW s \in Rows, Overwrites(a, s)
      PROVE  row[s] # job[a].seen \/ Twin(s, form[a][s].version)
  <2>1. SettingsInv /\ JobIs(a, "save") /\ job[a].row = s /\ JobFits(a) /\ Remembered(s)
    BY <1>1 DEF IInv, SettingsInv, Overwrites
  <2>2. form[a][s] \in past[s] /\ row[s] \in past[s] /\ form[a][s].version = job[a].seen.version
    BY <2>1 DEF JobFits, Remembered
  <2>3. form[a][s] # row[s]
    BY <1>1 DEF Overwrites
  <2>4. QED
    BY <2>2, <2>3 DEF Twin
<1>2. IInv /\ [Next]_vars =>
        [\A a \in Admins, s \in Rows :
           Overwrites(a, s) => row[s] # job[a].seen \/ Twin(s, form[a][s].version)]_settings
  BY <1>1
<1>3. QED
  BY <1>2, Invariance, PTL DEF Spec, VersionProtects

(* In every reachable state each quotation has the amounts of its own form  *)
(* and charges, and the ones of the builder that were confirmed those of    *)
(* the screen they were confirmed from.                                     *)
THEOREM OffersAddUp == Spec => []OfferAddsUp
<1>1. IInv => OfferAddsUp
  <2> SUFFICES ASSUME IInv PROVE OfferAddsUp
    OBVIOUS
  <2>1. SettingsTypes /\ QuoteTypes /\ \A q \in Quotations : RowFits(q)
    BY DEF IInv, SettingsInv, QuotesInv
  <2>2. SettingsTypeOK
    <3>1. \A a \in Admins : job[a].pc \in {"idle", "save", "logo", "drop"}
      BY <2>1 DEF SettingsTypes, JobState
    <3>2. QED
      BY <2>1, <3>1 DEF SettingsTypes, SettingsTypeOK
  <2>3. TypeOK
    <3>1. product.stamp \in Nat /\ \A a \in Admins : work[a].quote \in Quotations \cup {None}
      BY <2>1 DEF QuoteTypes, Product, WorkState
    <3>2. \A a \in Admins : screen[a] = None \/ screen[a].row \in Quotation
      BY <2>1 DEF QuoteTypes
    <3>3. QED
      BY <2>1, <2>2, <3>1, <3>2 DEF QuoteTypes, TypeOK
  <2>4. PricedWhole
    BY <2>1, StatusFacts DEF RowFits, PricedWhole
  <2>5. IssuedAsSeen
    BY <2>1 DEF RowFits, IssuedAsSeen
  <2>6. QED
    BY <2>3, <2>4, <2>5 DEF OfferAddsUp
<1>2. QED
  BY <1>1, Invariance, PTL

-----------------------------------------------------------------------------
(* What a step may do to a row that is no draft. *)
Final(q) ==
  Status(q) \in {"CONFIRMED", "CANCELLED"} =>
    LET r == quote[q] IN
    /\ Status(q)' \in {r.status, "CANCELLED"}
    /\ quote'[q].paid \in {r.paid, TRUE}
    /\ quote'[q] = [r EXCEPT !.status = Status(q)', !.paid = quote'[q].paid,
                             !.stamp = quote'[q].stamp]

LEMMA SameIsFinal ==
  ASSUME QuoteTypes, NEW q \in Quotations, quote'[q] = quote[q]
  PROVE  Final(q)
<1> SUFFICES ASSUME Status(q) \in {"CONFIRMED", "CANCELLED"} PROVE Final(q)
  BY DEF Final
<1>1. quote[q] \in Quotation /\ Status(q) = quote[q].status
  BY StatusFacts
<1>2. Status(q)' = quote[q].status
  BY <1>1 DEF Status
<1>3. QED
  BY <1>1, <1>2 DEF Final, Quotation

(* The requests that hold a row and write it do so to a draft, or make one. *)
LEMMA DraftsAreWritten ==
  ASSUME QuotesInv, NEW a \in Admins, NEW q \in Quotations,
         Create(a) \/ Reprice(a) \/ Confirm(a) \/ Edit(a) \/ Issue(a)
  PROVE  Final(q)
<1>1. QuoteTypes /\ Mine(a) \in Quotations /\ Status(Mine(a)) \in {"NONE", "DRAFT"}
  BY DEF QuotesInv, Allowed, Fits, WorkIs, Create, Reprice, Confirm, Edit, Issue
<1>2. \E new : quote' = [quote EXCEPT ![Mine(a)] = new]
  BY DEF Create, Reprice, Confirm, Edit, Issue, Save
<1>3. CASE q = Mine(a)
  BY <1>1, <1>3 DEF Final
<1>4. CASE q # Mine(a)
  <2>1. quote'[q] = quote[q]
    BY <1>1, <1>2, <1>4 DEF QuoteTypes
  <2>2. QED
    BY <1>1, <2>1, SameIsFinal
<1>5. QED
  BY <1>3, <1>4

LEMMA MarksAreFinal ==
  ASSUME QuoteTypes, NEW p \in Quotations, NEW q \in Quotations, MarkPaid(p) \/ Cancel(p)
  PROVE  Final(q)
<1>1. PICK r : r = quote[p]
  OBVIOUS
<1>2. r \in Quotation /\ Status(p) = r.status /\ Status(p) \in {"DRAFT", "CONFIRMED"}
  BY <1>1, StatusFacts DEF MarkPaid, Cancel
<1>3. CASE q # p
  <2>1. quote'[q] = quote[q]
    BY <1>3 DEF MarkPaid, Cancel, QuoteTypes
  <2>2. QED
    BY <2>1, SameIsFinal
<1>4. CASE q = p /\ MarkPaid(p)
  <2>1. PICK n : n = [r EXCEPT !.paid = TRUE, !.stamp = @ + 1]
    OBVIOUS
  <2>2. n \in Quotation /\ n.status = r.status /\ n.paid = TRUE
    BY <1>2, <2>1, PaidTyped
  <2>7. n.stamp \in Nat
    BY <2>2 DEF Quotation
  <2>3. quote'[q] = n
    BY <1>1, <1>2, <1>4, <2>1 DEF MarkPaid, QuoteTypes, Quotation
  <2>4. Status(q)' = r.status
    BY <2>2, <2>3, RowAssumption DEF Status
  <2>5. n = [r EXCEPT !.status = r.status, !.paid = n.paid, !.stamp = n.stamp]
    BY <1>2, <2>1, <2>2, <2>7 DEF Quotation
  <2>6. QED
    BY <1>1, <1>4, <2>2, <2>7, <2>3, <2>4, <2>5 DEF Final
<1>5. CASE q = p /\ Cancel(p)
  <2>1. PICK n : n = [r EXCEPT !.status = "CANCELLED", !.stamp = @ + 1]
    OBVIOUS
  <2>2. n \in Quotation /\ n.status = "CANCELLED" /\ n.paid = r.paid
    BY <1>2, <2>1, CancelledTyped
  <2>7. n.stamp \in Nat
    BY <2>2 DEF Quotation
  <2>3. quote'[q] = n
    BY <1>1, <1>2, <1>5, <2>1 DEF Cancel, QuoteTypes, Quotation
  <2>4. Status(q)' = "CANCELLED"
    BY <2>2, <2>3, RowAssumption DEF Status
  <2>5. n = [r EXCEPT !.status = "CANCELLED", !.paid = n.paid, !.stamp = n.stamp]
    BY <1>2, <2>1, <2>2, <2>7 DEF Quotation
  <2>6. QED
    BY <1>1, <1>5, <2>2, <2>7, <2>3, <2>4, <2>5 DEF Final
<1>6. QED
  BY <1>3, <1>4, <1>5

(* Every step leaves the rows that are no drafts as they are, but for one   *)
(* cancellation and one payment of each.                                    *)
THEOREM OffersAreFinal == Spec => OfferIsFinal
<1>1. IInv /\ [Next]_vars => [\A q \in Quotations : Final(q)]_vars
  <2> SUFFICES ASSUME IInv, Next, NEW q \in Quotations PROVE Final(q)
    OBVIOUS
  <2>1. QuotesInv /\ QuoteTypes
    BY DEF IInv, QuotesInv
  <2>2. ASSUME quote' = quote PROVE Final(q)
    BY <2>1, <2>2, SameIsFinal
  <2>3. ASSUME NEW a \in Admins, UNCHANGED quotes PROVE Final(q)
    BY <2>2, <2>3 DEF quotes
  <2>4. ASSUME NEW a \in Admins, NEW p \in Quotations, Look(a, p) \/ Begin(a, p) PROVE Final(q)
    <3>1. CASE Look(a, p)
      BY <2>2, <3>1 DEF Look
    <3>2. CASE Begin(a, p)
      <4>1. PICK w \in WorkState : Start(a, p, w)
        BY <2>1, <3>2, BeginStarts
      <4>2. QED
        BY <2>2, <4>1 DEF Start
    <3>3. QED
      BY <2>4, <3>1, <3>2
  <2>5. ASSUME NEW a \in Admins, End(a) PROVE Final(q)
    <3>1. CASE Create(a) \/ Reprice(a) \/ Confirm(a) \/ Edit(a) \/ Issue(a)
      BY <2>1, <3>1, DraftsAreWritten
    <3>2. CASE LockProduct(a) \/ RaisePrice(a) \/ Abort(a)
      BY <2>2, <3>2 DEF LockProduct, RaisePrice, Abort
    <3>3. QED
      BY <2>5, <3>1, <3>2 DEF End
  <2>6. ASSUME NEW p \in Quotations, MarkPaid(p) \/ Cancel(p) PROVE Final(q)
    BY <2>1, <2>6, MarksAreFinal
  <2>7. ASSUME EditProduct PROVE Final(q)
    BY <2>2, <2>7 DEF EditProduct
  <2>8. QED
    BY <2>3, <2>4, <2>5, <2>6, <2>7 DEF Next
<1>2. QED
  BY <1>1, Invariance, PTL DEF Spec, OfferIsFinal, Final

(* What a step that records a raise does. *)
Trail(q) ==
  raised'[q] # raised[q] =>
    /\ raised[q] = None /\ Status(q) = "CONFIRMED"
    /\ raised'[q] = [old |-> product.price, new |-> product'.price]
    /\ product'.price = UnitPrice(quote[q].basis)

(* Each raise is the one of its offer, from the price the product had to    *)
(* the price of the offer, which stands, in one step with the product.      *)
THEOREM RaisesLeaveTrail == Spec => PriceTrail
<1>1. IInv /\ [Next]_vars => [\A q \in Quotations : Trail(q)]_vars
  <2> SUFFICES ASSUME IInv, Next, NEW q \in Quotations PROVE Trail(q)
    OBVIOUS
  <2>1. QuotesInv
    BY DEF IInv
  <2>2. ASSUME raised' = raised PROVE Trail(q)
    BY <2>2 DEF Trail
  <2>3. ASSUME NEW a \in Admins, UNCHANGED quotes PROVE Trail(q)
    BY <2>2, <2>3 DEF quotes
  <2>4. ASSUME NEW a \in Admins, NEW p \in Quotations, Look(a, p) \/ Begin(a, p) PROVE Trail(q)
    <3>1. CASE Look(a, p)
      BY <2>2, <3>1 DEF Look
    <3>2. CASE Begin(a, p)
      <4>1. PICK w \in WorkState : Start(a, p, w)
        BY <2>1, <3>2, BeginStarts
      <4>2. QED
        BY <2>2, <4>1 DEF Start
    <3>3. QED
      BY <2>4, <3>1, <3>2
  <2>5. ASSUME NEW a \in Admins, End(a) PROVE Trail(q)
    <3>1. CASE RaisePrice(a)
      BY <2>1, <3>1, RaiseFacts DEF Trail
    <3>2. CASE ~RaisePrice(a)
      BY <2>2, <2>5, <3>2 DEF End, Create, Reprice, Confirm, Edit, Issue, LockProduct, Abort
    <3>3. QED
      BY <3>1, <3>2
  <2>6. ASSUME NEW p \in Quotations, MarkPaid(p) \/ Cancel(p) PROVE Trail(q)
    BY <2>2, <2>6 DEF MarkPaid, Cancel
  <2>7. ASSUME EditProduct PROVE Trail(q)
    BY <2>2, <2>7 DEF EditProduct
  <2>8. QED
    BY <2>3, <2>4, <2>5, <2>6, <2>7 DEF Next
<1>2. QED
  BY <1>1, Invariance, PTL DEF Spec, PriceTrail, Trail

=============================================================================
