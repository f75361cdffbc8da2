----------------------- MODULE DocumentSequences_proofs -----------------------
(***************************************************************************)
(* Proofs about DocumentSequences, for any number of requests,             *)
(* administrators and imports, any reset policies in use and any calendar. *)
(*                                                                         *)
(* The argument: what the UPDATE of a request or of an import computed     *)
(* stays right until its commit, because nobody else writes the row while  *)
(* it has the lock (Current, Moving).  What is taken of a period, by the   *)
(* register or by a jump, is 1..n, and 1..value of it in the period of the *)
(* row (Filled, Counted): a commit adds the number after value, an import  *)
(* all those up to its own.  Where no import jumped, the register has      *)
(* nothing beyond value (Ahead): a period begins again at 1 only if UNIQUE *)
(* lets 1 through, that is, if it is empty.                                *)
(***************************************************************************)
EXTENDS DocumentSequences, FiniteSetTheorems, TLAPS

(* The numbers that a set of register rows gives to a period. *)
NumbersIn(S, p) == {i.number : i \in {j \in S : j.period = p}}

(* What a register S and jumps J take of a period. *)
TakenIn(S, J, p) == NumbersIn(S, p) \cup NumbersIn(J, p)

(* What a request computed under the row lock still fits the row. *)
Current ==
  \A r \in Requests : req[r].pc = "updated" =>
    /\ rowLock = r
    /\ req[r].number = NextValue(seq, req[r].period)
    /\ req[r].text.shows.unit = seq.pattern

(* An import that moved the row still has its lock, and the row is still    *)
(* behind the number of its file.                                           *)
Moving ==
  \A i \in Imports : imp[i].pc = "moved" => rowLock = i /\ seq.value < imp[i].number

Filled == \A p \in PeriodKey : \E n \in Nat : Taken(p) = 1..n

Counted == 1..seq.value \subseteq Taken(seq.period)

Ahead == Jumped(seq.period) = {} => Numbers(seq.period) \subseteq 1..seq.value

(* What the register, the jumps and the counter say of each other. *)
Register == Filled /\ Counted /\ Ahead /\ NoSharedNumber

IInv == TypeOK /\ Current /\ Moving /\ Register

-----------------------------------------------------------------------------
(* The key of a period, as used for rows and for what a text shows. *)
LEMMA PeriodKeyType ==
  ASSUME NEW policy \in ResetPolicy, NEW d \in 0..MaxDay
  PROVE  PeriodKeyFor(policy, d) \in PeriodKey /\ PeriodKeyFor(policy, d).unit = policy
<1>1. YearDays \in Nat \ {0} /\ MonthDays \in Nat \ {0} /\ d \in Nat
  BY SequencesAssumption
<1>2. d \div YearDays \in Nat /\ d \div MonthDays \in Nat
  BY <1>1
<1> QED  BY <1>1, <1>2 DEF PeriodKeyFor, PeriodKey

(* The next number of a row is a positive natural number. *)
LEMMA NextValueType ==
  ASSUME NEW row \in Row, NEW period \in PeriodKey
  PROVE  NextValue(row, period) \in Nat \ {0}
BY DEF Row, NextValue

(* The fields of a row. *)
LEMMA RowType ==
  ASSUME NEW row \in Row
  PROVE  /\ row.value \in Nat /\ row.version \in Nat
         /\ row.period \in PeriodKey
         /\ row.policy \in ResetPolicy /\ row.pattern \in ResetPolicy
         /\ row.active \in BOOLEAN
BY DEF Row

(* The fields of a request. *)
LEMMA RequestType ==
  ASSUME TypeOK, NEW r \in Requests
  PROVE  /\ req[r].today \in 0..MaxDay
         /\ req[r].period \in PeriodKey
         /\ req[r].number \in Nat
         /\ req[r].text \in Text
         /\ IssueOf(r) \in Issue
         /\ r # None
BY SequencesAssumption DEF TypeOK, IssueOf, Issue, Request

(* The row that a configuration leaves has the type of a row, and the       *)
(* counter and the period that it had.                                      *)
LEMMA ConfiguredKeeps ==
  ASSUME TypeOK, NEW seen \in Row, NEW policy \in Units, NEW pattern \in Units,
         NEW active \in BOOLEAN
  PROVE  /\ Configured(seen, policy, pattern, active) \in Row
         /\ Configured(seen, policy, pattern, active).value = seq.value
         /\ Configured(seen, policy, pattern, active).period = seq.period
<1>1. policy \in ResetPolicy /\ pattern \in ResetPolicy
  BY SequencesAssumption
<1>2. seq \in Row /\ seen.version \in Nat
  BY RowType DEF TypeOK
<1> DEFINE p == IF policy # seen.policy THEN policy ELSE seq.policy
           f == IF pattern # seen.pattern THEN pattern ELSE seq.pattern
           a == IF active # seen.active THEN active ELSE seq.active
<1>3. p \in ResetPolicy /\ f \in ResetPolicy /\ a \in BOOLEAN
  BY <1>1, <1>2, RowType
<1>4. \/ Configured(seen, policy, pattern, active) = seq
      \/ Configured(seen, policy, pattern, active) =
           [seq EXCEPT !.policy = p, !.pattern = f, !.active = a, !.version = seen.version + 1]
  BY DEF Configured
<1> HIDE DEF p, f, a
<1>5. seen.version + 1 \in Nat
  BY <1>2
<1> DEFINE edited == [seq EXCEPT !.policy = p, !.pattern = f, !.active = a,
                                 !.version = seen.version + 1]
<1>6. edited \in Row /\ edited.value = seq.value /\ edited.period = seq.period
  BY <1>2, <1>3, <1>5 DEF Row
<1>7. Configured(seen, policy, pattern, active) \in {seq, edited}
  BY <1>4
<1> HIDE DEF edited
<1> QED  BY <1>2, <1>6, <1>7

-----------------------------------------------------------------------------
(* IInv holds initially. *)
LEMMA InitIInv == Init => IInv
<1> SUFFICES ASSUME Init PROVE IInv
  OBVIOUS
<1> USE DEF Init
<1>1. 0 \in 0..MaxDay /\ FirstPolicy \in ResetPolicy
  BY SequencesAssumption
<1>2. /\ PeriodKeyFor("NEVER", 0) \in PeriodKey
      /\ PeriodKeyFor(FirstPolicy, 0) \in PeriodKey
  BY <1>1, PeriodKeyType DEF ResetPolicy
<1>3. FirstRow \in Row
  BY <1>1, <1>2 DEF FirstRow, Row
<1>4. /\ NewRequest.pc = "idle" /\ NewRequest.today \in 0..MaxDay
      /\ NewRequest \in Request
  BY <1>1, <1>2 DEF NewRequest, FirstRow, ReqPc, Render, Request, Text
<1>5. TypeOK
  BY <1>1, <1>3, <1>4 DEF TypeOK
<1>6. Current /\ Moving
  BY <1>4 DEF Current, Moving
<1>7. \A p : Numbers(p) = {} /\ Jumped(p) = {} /\ Taken(p) = 1..0
  BY DEF Numbers, Jumped, Taken
<1>8. Filled /\ Counted /\ Ahead
  BY <1>7 DEF Filled, Counted, Ahead, FirstRow
<1> QED  BY <1>5, <1>6, <1>8 DEF IInv, Register, NoSharedNumber

-----------------------------------------------------------------------------
(* A step that leaves the register, the jumps, the counter and its period   *)
(* alone keeps what is said of them.                                        *)
LEMMA RegisterKeeps ==
  ASSUME Register, issues' = issues, jumped' = jumped /\ cast' = cast,
         seq'.value = seq.value, seq'.period = seq.period
  PROVE  Register'
BY DEF Register, Filled, Counted, Ahead, NoSharedNumber, Numbers, Jumped, Taken

(* A step of a request that goes to a place other than "updated", while the *)
(* row stays as it is and nobody else loses the row lock, keeps Current and *)
(* Moving.                                                                  *)
LEMMA CurrentKeeps ==
  ASSUME TypeOK, Current, Moving, NEW r \in Requests, seq' = seq, imp' = imp,
         \A s \in Requests \ {r} : req'[s] = req[s],
         req'[r].pc # "updated",
         rowLock' = rowLock \/ rowLock' = Unlocked(r)
  PROVE  Current' /\ Moving'
BY SequencesAssumption DEF Current, Moving, Unlocked, NextValue

(* TakeDate, ReadRow and a roll back change the request only. *)
LEMMA LookStep ==
  ASSUME IInv, NEW r \in Requests, TakeDate(r) \/ ReadRow(r) \/ RollBackIssue(r)
  PROVE  IInv'
<1> USE DEF IInv
<1>1. req[r].today \in 0..MaxDay /\ day \in 0..MaxDay /\ seq \in Row
  BY RequestType DEF TypeOK
<1>2. PeriodKeyFor(seq.policy, req[r].today) \in PeriodKey
  BY <1>1, PeriodKeyType, RowType
<1>3. /\ seq' = seq /\ issues' = issues /\ day' = day /\ cfg' = cfg
      /\ imp' = imp /\ jumped' = jumped /\ cast' = cast
      /\ rowLock' = rowLock \/ rowLock' = Unlocked(r)
  BY DEF TakeDate, ReadRow, RollBackIssue
<1>4. TypeOK'
  <2>1. rowLock' \in Requests \cup Admins \cup Imports \cup {None}
    BY <1>3 DEF TypeOK, Unlocked
  <2>2. req' \in [Requests -> Request]
    BY <1>1, <1>2 DEF TypeOK, Request, ReqPc, TakeDate, ReadRow, RollBackIssue
  <2> QED  BY <1>3, <2>1, <2>2 DEF TypeOK
<1>5. /\ \A s \in Requests \ {r} : req'[s] = req[s]
      /\ req'[r].pc # "updated"
  BY DEF TypeOK, Request, TakeDate, ReadRow, RollBackIssue
<1>6. Current' /\ Moving'
  BY <1>3, <1>5, CurrentKeeps
<1> QED  BY <1>3, <1>4, <1>6, RegisterKeeps

(* The UPDATE takes the row lock and computes from the row as it is. *)
LEMMA UpdateStep ==
  ASSUME IInv, NEW r \in Requests, UpdateRow(r)
  PROVE  IInv'
<1> USE DEF IInv
<1> DEFINE n == NextValue(seq, req[r].period)
           text == Render(seq.pattern, n, req[r].today)
<1>1. /\ seq \in Row /\ n \in Nat
      /\ text \in Text
      /\ text.shows.unit = seq.pattern
  <2>1. seq \in Row /\ req[r].period \in PeriodKey /\ req[r].today \in 0..MaxDay
    BY RequestType DEF TypeOK
  <2>2. n \in Nat
    BY <2>1, NextValueType
  <2>3. /\ PeriodKeyFor(seq.pattern, req[r].today) \in PeriodKey
        /\ PeriodKeyFor(seq.pattern, req[r].today).unit = seq.pattern
    BY <2>1, RowType, PeriodKeyType
  <2> QED  BY <2>1, <2>2, <2>3 DEF Render, Text
<1>2. /\ rowLock = None /\ rowLock' = r
      /\ req' = [req EXCEPT ![r].pc = "updated", ![r].number = n, ![r].text = text]
      /\ day' = day /\ seq' = seq /\ issues' = issues /\ cfg' = cfg
      /\ imp' = imp /\ jumped' = jumped /\ cast' = cast
  BY DEF UpdateRow, LockFree
<1> HIDE DEF text
<1>3. TypeOK'
  <2> HIDE DEF n
  <2>1. [req[r] EXCEPT !.pc = "updated", !.number = n, !.text = text] \in Request
    BY <1>1 DEF TypeOK, Request, ReqPc
  <2>2. req' = [req EXCEPT ![r] = [req[r] EXCEPT !.pc = "updated", !.number = n, !.text = text]]
    BY <1>2 DEF TypeOK
  <2>3. req' \in [Requests -> Request]
    BY <2>1, <2>2 DEF TypeOK
  <2> QED  BY <1>2, <2>3 DEF TypeOK
<1>4. \A s \in Requests : req[s].pc # "updated"
  BY <1>2, RequestType DEF Current
<1>8. Moving'
  BY <1>2, SequencesAssumption DEF Moving
<1>5. /\ \A s \in Requests \ {r} : req'[s] = req[s]
      /\ req'[r].number = n /\ req'[r].period = req[r].period /\ req'[r].text = text
  BY <1>2 DEF TypeOK
<1>6. Current'
  <2> SUFFICES ASSUME NEW s \in Requests, req'[s].pc = "updated"
               PROVE  /\ rowLock' = s
                      /\ req'[s].number = NextValue(seq', req'[s].period)
                      /\ req'[s].text.shows.unit = seq'.pattern
    BY DEF Current
  <2>1. s = r
    BY <1>4, <1>5
  <2> HIDE DEF n
  <2>2. NextValue(seq', req'[r].period) = n
    BY <1>2, <1>5 DEF n
  <2> QED  BY <1>1, <1>2, <1>5, <2>1, <2>2
<1> QED  BY <1>2, <1>3, <1>6, <1>8, RegisterKeeps


(* The commit of a number that UNIQUE lets through: its period has it and   *)
(* all those before it, still without a hole, and the other periods stay.   *)
LEMMA NumbersGrow ==
  ASSUME IInv, NEW r \in Requests, req[r].pc = "updated", ~Clashes(IssueOf(r)),
         issues' = issues \cup {IssueOf(r)}, jumped' = jumped /\ cast' = cast
  PROVE  /\ Filled'
         /\ 1..req[r].number \subseteq TakenIn(issues', jumped', req[r].period)
         /\ Jumped(req[r].period) = {} =>
              NumbersIn(issues', req[r].period) \subseteq 1..req[r].number
<1> USE DEF IInv, Register
<1> DEFINE P == req[r].period
           v == req[r].number
<1>1. P \in PeriodKey /\ v = NextValue(seq, P) /\ seq \in Row /\ seq.value \in Nat
  BY RequestType, RowType DEF Current, TypeOK
<1>2. v \in Nat \ {0} /\ v \notin NumbersIn(issues, P)
  BY <1>1, NextValueType DEF Clashes, IssueOf, NumbersIn
<1>3. NumbersIn(issues', P) = NumbersIn(issues, P) \cup {v}
  BY DEF NumbersIn, IssueOf
<1>4. \A p : p # P => NumbersIn(issues', p) = NumbersIn(issues, p)
  BY DEF NumbersIn, IssueOf
<1>5. /\ \A p : Taken(p) = NumbersIn(issues, p) \cup NumbersIn(jumped, p)
      /\ \A p : TakenIn(issues', jumped', p) = NumbersIn(issues', p) \cup NumbersIn(jumped, p)
  BY DEF Taken, Numbers, Jumped, NumbersIn, TakenIn
<1>6. PICK n \in Nat : Taken(P) = 1..n
  BY <1>1 DEF Filled
<1>7. v - 1 <= n /\ 1..(v - 1) \subseteq Taken(P)
  <2>1. CASE P = seq.period
    <3>1. v - 1 = seq.value /\ 1..seq.value \subseteq 1..n
      BY <1>1, <1>6, <2>1 DEF NextValue, Counted
    <3>2. seq.value <= n
      BY <3>1, <1>1
    <3> QED  BY <3>1, <3>2, <1>6
  <2>2. CASE P # seq.period
    <3>1. v = 1
      BY <1>1, <2>2 DEF NextValue
    <3> QED  BY <3>1
  <2> QED  BY <2>1, <2>2
<1>8. Jumped(P) = {} => NumbersIn(issues, P) \subseteq 1..(v - 1)
  <2> SUFFICES ASSUME Jumped(P) = {} PROVE NumbersIn(issues, P) \subseteq 1..(v - 1)
    OBVIOUS
  <2>1. CASE P = seq.period
    BY <1>1, <2>1 DEF Ahead, NextValue, Numbers, NumbersIn
  <2>2. CASE P # seq.period
    <3>1. v = 1
      BY <1>1, <2>2 DEF NextValue
    <3>2. NumbersIn(issues, P) = 1..n
      BY <1>5, <1>6 DEF Jumped, NumbersIn
    <3>3. n = 0
      BY <1>2, <3>1, <3>2
    <3> QED  BY <3>1, <3>2, <3>3
  <2> QED  BY <2>1, <2>2
<1> HIDE DEF P, v
<1>9. TakenIn(issues', jumped', P) = 1..n \cup {v}
  BY <1>3, <1>5, <1>6
<1>10. Filled'
  <2> SUFFICES ASSUME NEW p \in PeriodKey PROVE \E k \in Nat : TakenIn(issues', jumped', p) = 1..k
    BY DEF Filled, Taken, TakenIn, Numbers, Jumped, NumbersIn
  <2>1. CASE p # P
    BY <1>4, <1>5, <2>1 DEF Filled
  <2>2. CASE p = P /\ v <= n
    <3>1. 1..n \cup {v} = 1..n
      BY <1>2, <2>2
    <3> QED  BY <1>9, <2>2, <3>1
  <2>3. CASE p = P /\ ~(v <= n)
    <3>1. n = v - 1
      BY <1>2, <1>7, <2>3
    <3>2. 1..n \cup {v} = 1..v
      BY <1>2, <3>1
    <3> QED  BY <1>2, <1>9, <2>3, <3>2
  <2> QED  BY <2>1, <2>2, <2>3
<1>11. 1..v = 1..(v - 1) \cup {v}
  BY <1>2
<1>12. 1..v \subseteq TakenIn(issues', jumped', P)
  BY <1>6, <1>7, <1>9, <1>11
<1>13. Jumped(P) = {} => NumbersIn(issues', P) \subseteq 1..v
  BY <1>3, <1>8, <1>11
<1> QED  BY <1>10, <1>12, <1>13 DEF P, v

(* The commit: the register and the row move together, or the request dies  *)
(* of a UNIQUE constraint and both stay.                                    *)
LEMMA CommitStep ==
  ASSUME IInv, NEW r \in Requests, CommitIssue(r)
  PROVE  IInv'
<1> USE DEF IInv
<1>1. /\ req[r].pc = "updated" /\ rowLock = r /\ rowLock' = None
      /\ day' = day /\ cfg' = cfg /\ imp' = imp /\ jumped' = jumped /\ cast' = cast
  BY DEF CommitIssue, Current, Unlocked
<1>2. PICK pc \in {"done", "duplicate"} : req' = [req EXCEPT ![r].pc = pc]
  BY DEF CommitIssue
<1>3. /\ \A s \in Requests \ {r} : req'[s] = req[s] /\ req[s].pc # "updated"
      /\ req'[r].pc # "updated"
  BY <1>1, <1>2 DEF TypeOK, Current, Request
<1>4. req' \in [Requests -> Request]
  BY <1>2 DEF TypeOK, Request, ReqPc
<1>5. Current' /\ Moving'
  BY <1>1, <1>3, SequencesAssumption DEF Current, Moving
<1>6. CASE Clashes(IssueOf(r))
  <2>1. seq' = seq /\ issues' = issues
    BY <1>6 DEF CommitIssue
  <2>2. TypeOK'
    BY <1>1, <1>4, <2>1 DEF TypeOK
  <2> QED  BY <1>1, <1>5, <2>1, <2>2, RegisterKeeps
<1>7. CASE ~Clashes(IssueOf(r))
  <2> DEFINE P == req[r].period
             v == req[r].number
  <2>1. /\ issues' = issues \cup {IssueOf(r)}
        /\ seq' = [seq EXCEPT !.value = v, !.period = P]
        /\ seq \in Row /\ P \in PeriodKey /\ v \in Nat /\ IssueOf(r) \in Issue
    BY <1>7, RequestType DEF CommitIssue, TypeOK
  <2>2. /\ Filled' /\ 1..v \subseteq TakenIn(issues', jumped', P)
        /\ Jumped(P) = {} => NumbersIn(issues', P) \subseteq 1..v
    BY <1>1, <1>7, <2>1, NumbersGrow
  <2> HIDE DEF P, v
  <2>3. seq' \in Row /\ seq'.period = P /\ seq'.value = v
    BY <2>1 DEF Row
  <2>4. TypeOK'
    BY <1>1, <1>4, <2>1, <2>3 DEF TypeOK
  <2>5. Counted' /\ Ahead'
    BY <1>1, <2>2, <2>3 DEF Counted, Ahead, Taken, TakenIn, Numbers, Jumped, NumbersIn
  <2>6. NoSharedNumber'
    BY <1>7, <2>1 DEF NoSharedNumber, Clashes, Register
  <2> QED  BY <1>5, <2>2, <2>4, <2>5, <2>6 DEF Register
<1> QED  BY <1>6, <1>7

-----------------------------------------------------------------------------
(* An import that takes the row lock, or lets it go, leaves the row alone. *)
LEMMA MoveStep ==
  ASSUME IInv, NEW i \in Imports,
         RollBackImport(i) \/ \E n \in Imported : Synchronize(i, n)
  PROVE  IInv'
<1> USE DEF IInv
<1>1. /\ day' = day /\ seq' = seq /\ issues' = issues /\ req' = req /\ cfg' = cfg
      /\ jumped' = jumped /\ cast' = cast
      /\ i # None /\ i \notin Requests /\ Imported \subseteq Nat
  BY SequencesAssumption DEF RollBackImport, Synchronize
<1>2. TypeOK'
  BY <1>1 DEF TypeOK, RollBackImport, Synchronize, Unlocked
<1>3. CASE RollBackImport(i)
  <2>1. rowLock = i /\ rowLock' = None /\ imp' = [imp EXCEPT ![i].pc = "lost"]
    BY <1>3 DEF RollBackImport, Moving, Unlocked
  <2>2. Current' /\ Moving'
    BY <1>1, <2>1 DEF Current, Moving, TypeOK
  <2> QED  BY <1>1, <1>2, <2>2, RegisterKeeps
<1>4. CASE \E n \in Imported : Synchronize(i, n)
  <2>1. PICK n \in Imported : Synchronize(i, n)
    BY <1>4
  <2>2. CASE Behind(n)
    <3>1. /\ rowLock = None /\ rowLock' = i /\ seq.value < n
          /\ imp' = [imp EXCEPT ![i] = [pc |-> "moved", number |-> n]]
      BY <2>1, <2>2 DEF Synchronize, LockFree, Behind
    <3>2. Current' /\ Moving'
      BY <1>1, <3>1, SequencesAssumption DEF Current, Moving, TypeOK
    <3> QED  BY <1>1, <1>2, <3>2, RegisterKeeps
  <2>3. CASE ~Behind(n)
    <3>1. rowLock' = rowLock /\ imp' = [imp EXCEPT ![i].pc = "done"]
      BY <2>1, <2>3 DEF Synchronize
    <3>2. Current' /\ Moving'
      BY <1>1, <3>1 DEF Current, Moving, TypeOK, NextValue
    <3> QED  BY <1>1, <1>2, <3>2, RegisterKeeps
  <2> QED  BY <2>2, <2>3
<1> QED  BY <1>3, <1>4

(* The commit of an import: the counter moves to the number of its file,    *)
(* and everything up to there is taken.                                     *)
LEMMA ImportCommitStep ==
  ASSUME IInv, NEW i \in Imports, CommitImport(i)
  PROVE  IInv'
<1> USE DEF IInv, Register
<1> DEFINE P == seq.period
           m == imp[i].number
           gap == [period : {P}, number : seq.value + 1 .. m]
<1>1. /\ rowLock = i /\ rowLock' = None /\ seq.value < m
      /\ imp' = [imp EXCEPT ![i].pc = "done"]
      /\ seq' = [seq EXCEPT !.value = m]
      /\ jumped' = jumped \cup gap /\ cast' = cast
      /\ day' = day /\ issues' = issues /\ req' = req /\ cfg' = cfg
  BY DEF CommitImport, Moving, Unlocked
<1>2. seq \in Row /\ m \in Nat /\ P \in PeriodKey /\ seq.value \in Nat
  BY RowType DEF TypeOK
<1>3. seq' \in Row /\ seq'.value = m /\ seq'.period = P
  BY <1>1, <1>2 DEF Row
<1>4. gap \subseteq Jump
  BY <1>2 DEF Jump
<1>5. TypeOK'
  BY <1>1, <1>3, <1>4 DEF TypeOK
<1>6. Current' /\ Moving'
  BY <1>1, SequencesAssumption DEF Current, Moving, TypeOK
<1>7. NumbersIn(gap, P) = seq.value + 1 .. m /\ \A p : p # P => NumbersIn(gap, p) = {}
  <2>1. NumbersIn(gap, P) \subseteq seq.value + 1 .. m
    BY DEF NumbersIn
  <2>2. \A k \in seq.value + 1 .. m : [period |-> P, number |-> k] \in gap
    OBVIOUS
  <2>3. seq.value + 1 .. m \subseteq NumbersIn(gap, P)
    <3> SUFFICES ASSUME NEW k \in seq.value + 1 .. m PROVE k \in NumbersIn(gap, P)
      OBVIOUS
    <3> DEFINE j == [period |-> P, number |-> k]
    <3>1. j \in gap /\ j.period = P /\ j.number = k
      BY <2>2
    <3> HIDE DEF gap, j
    <3> QED  BY <3>1 DEF NumbersIn
  <2>4. \A p : p # P => NumbersIn(gap, p) = {}
    BY DEF NumbersIn
  <2> QED  BY <2>1, <2>3, <2>4
<1> HIDE DEF P, m, gap
<1>8. \A p : NumbersIn(jumped', p) = NumbersIn(jumped, p) \cup NumbersIn(gap, p)
  BY <1>1 DEF NumbersIn
<1>9. /\ \A p : Taken(p) = NumbersIn(issues, p) \cup NumbersIn(jumped, p)
      /\ \A p : TakenIn(issues', jumped', p) = Taken(p) \cup NumbersIn(gap, p)
  BY <1>1, <1>8 DEF Taken, Numbers, Jumped, NumbersIn, TakenIn
<1>10. 1..seq.value \subseteq Taken(P)
  BY DEF Counted, P
<1>11. Filled'
  <2> SUFFICES ASSUME NEW p \in PeriodKey PROVE \E k \in Nat : TakenIn(issues', jumped', p) = 1..k
    BY DEF Filled, Taken, TakenIn, Numbers, Jumped, NumbersIn
  <2>1. PICK n \in Nat : Taken(p) = 1..n
    BY DEF Filled
  <2>2. CASE p # P
    BY <1>7, <1>9, <2>1, <2>2
  <2>3. CASE p = P
    <3>1. 1..seq.value \subseteq 1..n
      BY <1>10, <2>1, <2>3
    <3>2. seq.value <= n
      BY <1>2, <3>1
    <3>3. CASE m <= n
      <4>1. 1..n \cup (seq.value + 1 .. m) = 1..n
        BY <1>2, <3>3
      <4> QED  BY <1>7, <1>9, <2>1, <2>3, <4>1
    <3>4. CASE ~(m <= n)
      <4>1. 1..n \cup (seq.value + 1 .. m) = 1..m
        BY <1>2, <3>2, <3>4
      <4> QED  BY <1>2, <1>7, <1>9, <2>1, <2>3, <4>1
    <3> QED  BY <3>3, <3>4
  <2> QED  BY <2>2, <2>3
<1>12. Counted'
  <2>1. 1..m \subseteq 1..seq.value \cup (seq.value + 1 .. m)
    BY <1>2
  <2>2. 1..m \subseteq TakenIn(issues', jumped', P)
    BY <1>7, <1>9, <1>10, <2>1
  <2> QED  BY <1>3, <2>2 DEF Counted, Taken, TakenIn, Numbers, Jumped, NumbersIn
<1>13. Ahead'
  <2>1. m \in NumbersIn(gap, P)
    BY <1>1, <1>2, <1>7
  <2>2. NumbersIn(jumped', P) # {}
    BY <1>8, <2>1
  <2> QED  BY <1>3, <2>2 DEF Ahead, Jumped, NumbersIn
<1>14. NoSharedNumber'
  BY <1>1 DEF NoSharedNumber
<1> QED  BY <1>5, <1>6, <1>11, <1>12, <1>13, <1>14

(* The administrators write the row only while nobody has its lock. *)
LEMMA ConfigStepKeeps ==
  ASSUME IInv, NEW a \in Admins, ConfigStep(a) \/ RollBackConfig(a)
  PROVE  IInv'
<1> USE DEF IInv
<1>1. cfg[a].seen \in Row /\ seq \in Row
  BY DEF TypeOK
<1>2. CASE ReadConfig(a)
  <2>1. /\ seq' = seq /\ issues' = issues /\ rowLock' = rowLock /\ req' = req /\ day' = day
        /\ imp' = imp /\ jumped' = jumped /\ cast' = cast
    BY <1>2 DEF ReadConfig
  <2>2. cfg' \in [Admins -> [pc : {"idle", "read", "done", "lost"}, seen : Row]]
    BY <1>1, <1>2 DEF ReadConfig, TypeOK
  <2>3. TypeOK' /\ Current' /\ Moving'
    BY <2>1, <2>2 DEF TypeOK, Current, Moving, NextValue
  <2> QED  BY <2>1, <2>3, RegisterKeeps
<1>3. ASSUME NEW policy \in Units, NEW pattern \in Units, NEW active \in BOOLEAN,
             WriteConfig(a, policy, pattern, active)
      PROVE  IInv'
  <2>1. /\ seq' = Configured(cfg[a].seen, policy, pattern, active)
        /\ issues' = issues /\ rowLock' = rowLock /\ req' = req /\ day' = day
        /\ imp' = imp /\ jumped' = jumped /\ cast' = cast
        /\ rowLock = None
    BY <1>3 DEF WriteConfig, LockFree
  <2>2. seq' \in Row /\ seq'.value = seq.value /\ seq'.period = seq.period
    BY <1>1, <2>1, ConfiguredKeeps
  <2>3. cfg' \in [Admins -> [pc : {"idle", "read", "done", "lost"}, seen : Row]]
    BY <1>3 DEF WriteConfig, TypeOK
  <2>4. TypeOK'
    BY <2>1, <2>2, <2>3 DEF TypeOK
  <2>5. Current' /\ Moving'
    BY <2>1, RequestType, SequencesAssumption DEF Current, Moving
  <2> QED  BY <2>1, <2>2, <2>4, <2>5, RegisterKeeps
<1>4. CASE RollBackConfig(a)
  <2>1. /\ seq' = seq /\ issues' = issues /\ rowLock' = rowLock /\ req' = req /\ day' = day
        /\ imp' = imp /\ jumped' = jumped /\ cast' = cast
    BY <1>4 DEF RollBackConfig
  <2>2. cfg' \in [Admins -> [pc : {"idle", "read", "done", "lost"}, seen : Row]]
    BY <1>4 DEF RollBackConfig, TypeOK
  <2>3. TypeOK' /\ Current' /\ Moving'
    BY <2>1, <2>2 DEF TypeOK, Current, Moving, NextValue
  <2> QED  BY <2>1, <2>3, RegisterKeeps
<1> QED  BY <1>2, <1>3, <1>4 DEF ConfigStep

(* The clock, and a step that changes nothing. *)
LEMMA QuietStep ==
  ASSUME IInv, Tick \/ UNCHANGED vars
  PROVE  IInv'
<1> USE DEF IInv
<1>1. /\ seq' = seq /\ issues' = issues /\ rowLock' = rowLock /\ req' = req /\ cfg' = cfg
      /\ imp' = imp /\ jumped' = jumped /\ cast' = cast /\ day' \in 0..MaxDay
  BY SequencesAssumption DEF Tick, vars, TypeOK
<1>2. TypeOK' /\ Current' /\ Moving'
  BY <1>1 DEF TypeOK, Current, Moving, NextValue
<1> QED  BY <1>1, <1>2, RegisterKeeps

(* Every step keeps IInv. *)
THEOREM SequenceStep == IInv /\ [Next]_vars => IInv'
<1> SUFFICES ASSUME IInv, [Next]_vars PROVE IInv'
  OBVIOUS
<1>1. ASSUME NEW r \in Requests, RequestStep(r) \/ RollBackIssue(r) PROVE IInv'
  BY <1>1, LookStep, UpdateStep, CommitStep DEF RequestStep
<1>2. ASSUME NEW a \in Admins, ConfigStep(a) \/ RollBackConfig(a) PROVE IInv'
  BY <1>2, ConfigStepKeeps
<1>3. ASSUME NEW i \in Imports, ImportStep(i) \/ RollBackImport(i) PROVE IInv'
  BY <1>3, MoveStep, ImportCommitStep DEF ImportStep
<1> QED  BY <1>1, <1>2, <1>3, QuietStep DEF Next

(* The inductive invariant holds in every reachable state. *)
THEOREM SequenceConsistent == Spec => []IInv
BY InitIInv, SequenceStep, PTL DEF Spec

-----------------------------------------------------------------------------
(* Every variable keeps its type. *)
THEOREM SequenceTypes == Spec => []TypeOK
BY SequenceConsistent, PTL DEF IInv

(* No two rows of the register share a number of a period, or a text, for   *)
(* any number of requests, policies and days.                               *)
THEOREM NumbersNeverShared == Spec => []NoSharedNumber
<1>1. IInv => NoSharedNumber
  BY DEF IInv, Register
<1> QED  BY <1>1, SequenceConsistent, PTL

(* What is taken of every period, handed out or moved over by an import, is *)
(* 1..k, and the row counts into it, whatever rolled back or was            *)
(* reconfigured in between.                                                 *)
THEOREM NumbersContiguous == Spec => []Contiguous
<1>1. IInv => Contiguous
  <2> SUFFICES ASSUME IInv PROVE Contiguous
    OBVIOUS
  <2> USE DEF IInv, Register
  <2>1. ASSUME NEW p \in {j.period : j \in issues \cup jumped}
        PROVE  Taken(p) = 1..Cardinality(Taken(p))
    <3>1. p \in PeriodKey
      BY DEF TypeOK, Issue, Jump
    <3>2. PICK n \in Nat : Taken(p) = 1..n
      BY <3>1 DEF Filled
    <3>3. Cardinality(1..n) = n
      BY FS_Interval
    <3> QED  BY <3>2, <3>3
  <2>2. seq.value \in Nat
    BY RowType DEF TypeOK
  <2>3. seq.value > 0 => seq.value \in Taken(seq.period)
    BY <2>2 DEF Counted
  <2>4. Jumped(seq.period) = {} =>
          \A i \in issues : i.period = seq.period => i.number <= seq.value
    BY <2>2 DEF Ahead, Numbers
  <2> QED  BY <2>1, <2>3, <2>4 DEF Contiguous
<1> QED  BY <1>1, SequenceConsistent, PTL

(* A step that moves the row moves its counter forward, unless it starts    *)
(* another period; a change of format leaves it where it is.                *)
THEOREM CounterForward == Spec => CounterNeverRewinds
<1>1. IInv /\ [Next]_vars => [seq'.period = seq.period => seq'.value >= seq.value]_vars
  <2> SUFFICES ASSUME IInv, Next, seq'.period = seq.period PROVE seq'.value >= seq.value
    OBVIOUS
  <2> USE DEF IInv
  <2>1. seq \in Row /\ seq.value \in Nat
    BY RowType DEF TypeOK
  <2>2. ASSUME NEW r \in Requests, CommitIssue(r) PROVE seq'.value >= seq.value
    <3>1. CASE seq' = seq
      BY <2>1, <3>1
    <3>2. CASE seq' = [seq EXCEPT !.value = req[r].number, !.period = req[r].period]
      <4>1. seq'.value = req[r].number /\ seq'.period = req[r].period
        BY <2>1, <3>2 DEF Row
      <4>2. req[r].number = seq.value + 1
        BY <2>2, <4>1 DEF CommitIssue, Current, NextValue
      <4> QED  BY <2>1, <4>1, <4>2
    <3> QED  BY <2>2, <3>1, <3>2 DEF CommitIssue
  <2>3. ASSUME NEW a \in Admins, NEW policy \in Units, NEW pattern \in Units,
               NEW active \in BOOLEAN, WriteConfig(a, policy, pattern, active)
        PROVE  seq'.value >= seq.value
    <3>1. cfg[a].seen \in Row
      BY DEF TypeOK
    <3> QED  BY <2>1, <2>3, <3>1, ConfiguredKeeps DEF WriteConfig
  <2>4. ASSUME NEW i \in Imports, CommitImport(i) PROVE seq'.value >= seq.value
    <3>1. imp[i].number \in Nat /\ seq.value < imp[i].number
      BY <2>4 DEF CommitImport, Moving, TypeOK
    <3>2. seq'.value = imp[i].number
      BY <2>1, <2>4 DEF CommitImport, Row
    <3> QED  BY <2>1, <3>1, <3>2
  <2>5. seq' = seq => seq'.value >= seq.value
    BY <2>1
  <2> QED  BY <2>2, <2>3, <2>4, <2>5
           DEF Next, ImportStep, Synchronize, RollBackImport, Tick, RequestStep, ConfigStep, TakeDate, ReadRow, UpdateRow,
               RollBackIssue, ReadConfig, RollBackConfig
<1> QED  BY <1>1, SequenceConsistent, PTL DEF Spec, CounterNeverRewinds

(* The text of a document is in the format in force when its number is      *)
(* registered.                                                              *)
THEOREM TextsFollowFormat == Spec => TextUsesCurrentFormat
<1>1. IInv /\ [Next]_vars =>
        [\A i \in issues' \ issues : i.text.shows.unit = seq.pattern]_vars
  <2> SUFFICES ASSUME IInv, Next, NEW i \in issues' \ issues
               PROVE  i.text.shows.unit = seq.pattern
    OBVIOUS
  <2>1. ASSUME NEW r \in Requests, CommitIssue(r) PROVE i.text.shows.unit = seq.pattern
    <3>1. i = IssueOf(r) /\ req[r].pc = "updated"
      BY <2>1 DEF CommitIssue
    <3> QED  BY <3>1 DEF IInv, Current, IssueOf
  <2>2. issues' = issues => i.text.shows.unit = seq.pattern
    OBVIOUS
  <2> QED  BY <2>1, <2>2
           DEF Next, ImportStep, Synchronize, CommitImport, RollBackImport, Tick, RequestStep, ConfigStep, TakeDate, ReadRow, UpdateRow,
               RollBackIssue, ReadConfig, WriteConfig, RollBackConfig
<1> QED  BY <1>1, SequenceConsistent, PTL DEF Spec, TextUsesCurrentFormat

(* The register is sound, around midnight and imports too, for any number   *)
(* of requests: CommitIssue adds a number only where both UNIQUE            *)
(* constraints let it in, and a jump leaves no hole that it does not own.   *)
THEOREM RegisterIsSound == Spec => []RegisterSound
BY NumbersNeverShared, NumbersContiguous, PTL DEF RegisterSound

(* An edit of the format neither rewinds the counter nor prints the old     *)
(* format on a number registered after it.                                  *)
THEOREM EditsAreSafe == Spec => EditsOverlapSafely
BY CounterForward, TextsFollowFormat DEF EditsOverlapSafely

=============================================================================
